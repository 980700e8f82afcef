----------------------------- MODULE Publishing -----------------------------
(***************************************************************************)
(* EPT between its callers and the EDITO publishing service                *)
(* (ept/features/{publish_stac,remove_stac,get_publish_job},               *)
(* ept/api/{dependencies,errors}.py, ept/infrastructure/services).         *)
(*                                                                         *)
(* A request is admitted when Keycloak's keys, cached between requests,    *)
(* verify its bearer token, the token is the owner's, and its inputs are   *)
(* valid.  EPT then makes one call to the publishing service, never twice  *)
(* since a submission is not idempotent, and turns what it gets, or does   *)
(* not get, into an answer.  The publishing service works on its jobs      *)
(* meanwhile and writes events, which are read in pages: each answer has   *)
(* EPT's own link to the next page, which the caller follows as it is.     *)
(***************************************************************************)
EXTENDS Integers, Sequences, FiniteSets

CONSTANTS
  None,
  Callers,     \* clients that each wait for their answer
  Users, Owner,  \* the instance is bound to its owner
  Keys,        \* of the realm's certificates; the token of a request names its key
  Tokens,      \* [user, key, claims (current, and of EPT's client), named]
  Requests,    \* what is asked: [op, body, token, refresh, catalog, job, limit, cursor]
  Catalogs,
  MaxLimit,    \* le=1000
  ServiceLimit,\* the most that the publishing service puts on a page
  Statuses,    \* what it refuses with
  MaxAsked,    \* bound: requests that are not the following of a link
  MaxEvents,   \* bound: events of all jobs
  MaxFaults    \* bound: lost calls, refusals and odd responses, and failures of Keycloak

Submissions == {"publish", "remove"}
Views == {"detail", "raw"}
Operations == Submissions \cup Views \cup {"summary", "list"}

\* A request, and what the publishing service can answer.
Queries ==
  [op : Operations, body : {"malformed", "invalid", "valid"}, token : Tokens \cup {None}, refresh : BOOLEAN,
   catalog : Catalogs \cup {None}, job : Nat \cup {None}, limit : Int \cup {None}, cursor : Int \cup {None}]
Responses ==
  [status : {0} \cup (200..599), body : Operations \cup {"none", "odd", "queued"}, job : Nat \cup {None},
   items : Seq(Nat), limit : Int, next : Int \cup {None}]
Sendings == [asked : Queries, id : Nat, followed : BOOLEAN]

\* Why a request fails.
Reasons == {"invalid_json", "missing_bearer_token", "auth_unavailable", "invalid_bearer_token", "internal_error",
            "instance_bound", "missing_refresh_token", "invalid_request", "publication_backend_unavailable",
            "publication_request_rejected"}

\* A limit that is not given has a default.
ASSUME ConstantsAssumption ==
  /\ Owner \in Users /\ Keys # {}
  /\ Tokens \subseteq [user : Users, key : Keys, claims : BOOLEAN, named : BOOLEAN]
  /\ Requests \subseteq Queries
  /\ \A r \in Requests : /\ r.op \in Submissions => r.catalog \in Catalogs
                         /\ r.op \in Views => r.limit # None
  /\ MaxLimit \in Nat \ {0} /\ ServiceLimit \in Nat \ {0}
  /\ Statuses \subseteq (300..599) \ {304}
  /\ MaxAsked \in Nat /\ MaxEvents \in Nat /\ MaxFaults \in Nat
  /\ None # {} /\ None \notin Int \cup Reasons \cup Tokens \cup Catalogs \cup Queries \cup Responses \cup Sendings

VARIABLES
  published, \* the keys Keycloak publishes
  cached,    \* what EPT has fetched of them, or None; {} is an answer that is no key set
  keyless,   \* history: the last answer of the certs endpoint was no key set
  jobs,      \* of the publishing service; the index is the id
  events,    \* the number of events it has written; they are numbered in that order
  request,   \* what each caller has asked, until it is answered
  stage,     \* arrived, sent to the publishing service, or answered by it
  response,  \* what the publishing service answered
  answer,    \* EPT's last answer to each caller
  reading,   \* the log each caller reads, page after page
  asked, faults  \* bounds

upstream == <<jobs, events>>
realm    == <<published, cached, keyless>>
vars     == <<realm, upstream, request, stage, response, answer, reading, asked, faults>>

NoAnswer  == [id |-> 0, status |-> 0, reason |-> None, job |-> None, good |-> FALSE, keyless |-> FALSE, followed |-> FALSE]
NoReading == [job |-> None, from |-> None, got |-> <<>>, next |-> None, since |-> 0, done |-> FALSE]

Job(id, op, user, catalog, log) == [asked |-> id, op |-> op, user |-> user, catalog |-> catalog, log |-> log]

\* Some jobs there are already, of the owner and of another user.
Init ==
  /\ published = {CHOOSE k \in Keys : TRUE} /\ cached = None /\ keyless = FALSE
  /\ \E c \in Catalogs, u \in Users \ {Owner} :
       jobs = <<Job(0, "publish", Owner, c, <<1, 3>>), Job(0, "publish", u, c, <<2>>)>>
  /\ events = 3
  /\ request = [c \in Callers |-> None] /\ stage = [c \in Callers |-> "idle"]
  /\ response = [c \in Callers |-> None]
  /\ answer = [c \in Callers |-> NoAnswer] /\ reading = [c \in Callers |-> NoReading]
  /\ asked = 0 /\ faults = 0

-----------------------------------------------------------------------------
(* The logs of the publishing service                                      *)

\* How many events of a log, which are in their order, are not after `after`.
Passed(log, after) ==
  IF after = None THEN 0 ELSE Cardinality({i \in DOMAIN log : log[i] <= after})

\* What comes after the event `after` in a log.
After(log, after) == SubSeq(log, Passed(log, after) + 1, Len(log))

-----------------------------------------------------------------------------
(* Requests                                                                *)

\* A request as it comes: the values that its operation does not have are None.
Arrive(c, r, id, followed) ==
  /\ stage[c] = "idle"
  /\ request' = [request EXCEPT ![c] = [asked |-> r, id |-> id, followed |-> followed]]
  /\ stage' = [stage EXCEPT ![c] = "arrived"]
  /\ answer' = [answer EXCEPT ![c] = NoAnswer]
  /\ UNCHANGED <<realm, upstream, response, faults>>

Ask(c) ==
  /\ asked < MaxAsked /\ asked' = asked + 1
  /\ \E r \in Requests :
       /\ Arrive(c, r, asked + 1, FALSE)
       /\ reading' = [reading EXCEPT ![c] =
            [job |-> None, from |-> r.cursor, got |-> <<>>, next |-> None, done |-> FALSE,
             since |-> IF r.job \in DOMAIN jobs THEN Len(After(jobs[r.job].log, r.cursor)) ELSE 0]]

\* The link of the last page is followed as it is; MaxEvents bounds what is read.
Follow(c) ==
  /\ reading[c].next # None /\ Len(reading[c].got) <= MaxEvents
  /\ Arrive(c, reading[c].next, 0, TRUE)
  /\ UNCHANGED <<reading, asked>>

\* GetPublishJobQuery, ListPublishJobsQuery and the bodies.
Valid(r) ==
  /\ r.body = "valid"
  /\ r.limit # None => r.limit \in 1..MaxLimit
  /\ r.cursor # None => r.op \in Views /\ r.cursor >= 0

\* Mutant: a failure to fetch the keys counts as a bad token.
BadToken(key, claims) == IF key # "known" \/ ~claims THEN "invalid_bearer_token" ELSE None

\* validate_bearer_token: Keycloak that cannot be reached is not the caller's fault; a
\* key set without keys is, as any other error of the library; and an answer that is no
\* JSON is an error that is not expected.
TokenProblem(key, claims) ==
  IF key = "unreachable" THEN "auth_unavailable"
  ELSE IF key = "garbled" THEN "internal_error"
  ELSE IF key \in {"unknown", "odd"} \/ ~claims THEN "invalid_bearer_token"
  ELSE None

\* Why a request is refused, in the order in which its dependencies are solved:
\* require_edito_bearer_auth, require_publishing_job_auth, the inputs, the route.
Refusal(r, key) ==
  IF r.body = "malformed" THEN "invalid_json"
  ELSE IF r.token = None THEN "missing_bearer_token"
  ELSE IF TokenProblem(key, r.token.claims) # None THEN TokenProblem(key, r.token.claims)
  ELSE IF r.token.user # Owner THEN "instance_bound"
  ELSE IF r.op \in Submissions /\ ~r.refresh THEN "missing_refresh_token"
  ELSE IF ~Valid(r) THEN "invalid_request"
  ELSE IF r.op = "list" /\ ~r.token.named THEN "invalid_bearer_token"
  ELSE None

StatusOf(reason) ==
  CASE reason \in {"invalid_json", "invalid_request"} -> 422
    [] reason = "auth_unavailable" -> 503
    [] reason = "internal_error" -> 500
    [] reason = "instance_bound" -> 403
    [] OTHER -> 401

Answer(c, status, reason, job) ==
  /\ request' = [request EXCEPT ![c] = None]
  /\ stage' = [stage EXCEPT ![c] = "idle"]
  /\ answer' = [answer EXCEPT ![c] =
       [id |-> request[c].id, status |-> status, reason |-> reason, job |-> job, followed |-> request[c].followed,
        keyless |-> keyless',
        good |-> LET r == request[c].asked
                 IN /\ r.token # None /\ r.token.claims /\ r.token.key \in published
                    /\ r.op = "list" => r.token.named]]

KeyStates == {"known", "unknown", "unreachable", "odd", "garbled"}

Fetched(key, set) == cached' = set /\ keyless' = (key = "odd")

\* The keys are fetched only when the cached ones do not hold the one the token names.
\* A fetch that fails, or is answered with no JSON, empties the cache.  A JSON that is no
\* key set fails each request for as long as it is in the cache, if it is kept at all.
LookUp(token, key) ==
  IF cached # None /\ (token.key \in cached \/ cached = {})
  THEN key = (IF cached = {} THEN "odd" ELSE "known") /\ UNCHANGED <<cached, keyless, faults>>
  ELSE \/ /\ key = IF token.key \in published THEN "known" ELSE "unknown"
          /\ Fetched(key, published)
          /\ UNCHANGED faults
       \/ /\ key \in {"unreachable", "odd", "garbled"} /\ faults < MaxFaults
          /\ \/ Fetched(key, None)
             \/ key = "odd" /\ Fetched(key, {})
          /\ faults' = faults + 1

\* Everything up to the call of the publishing service.
Admit(c) ==
  /\ stage[c] = "arrived"
  /\ \E key \in KeyStates :
       /\ IF request[c].asked.body = "malformed" \/ request[c].asked.token = None
          THEN key = "unknown" /\ UNCHANGED <<cached, keyless, faults>>
          ELSE LookUp(request[c].asked.token, key)
       /\ LET refusal == Refusal(request[c].asked, key)
          IN IF refusal = None
             THEN stage' = [stage EXCEPT ![c] = "sent"] /\ UNCHANGED <<request, answer>>
             ELSE Answer(c, StatusOf(refusal), refusal, None)
  /\ UNCHANGED <<published, upstream, response, reading, asked>>

-----------------------------------------------------------------------------
(* The publishing service                                                  *)

Plain(status, body, job) ==
  [status |-> status, body |-> body, job |-> job, items |-> <<>>, limit |-> 0, next |-> None]
Lost == Plain(0, "none", None)
Odd == Plain(200, "odd", None)

Respond(c, r) ==
  /\ response' = [response EXCEPT ![c] = r]
  /\ stage' = [stage EXCEPT ![c] = "answered"]

Fault == faults < MaxFaults /\ faults' = faults + 1

\* The call does not get through, or is refused.
Refuse(c) ==
  /\ stage[c] = "sent" /\ Fault
  /\ \E status \in Statuses \cup {0} : Respond(c, Plain(status, "none", None))
  /\ UNCHANGED <<realm, upstream, request, answer, reading, asked>>

\* POST /stac/publish and /stac/delete make a job, whether or not the response arrives.
MakeJob(c) ==
  LET r == request[c].asked
  IN /\ stage[c] = "sent" /\ r.op \in Submissions
     /\ jobs' = Append(jobs, Job(request[c].id, r.op, r.token.user, r.catalog, <<>>))
     /\ \/ /\ Respond(c, Plain(200, "queued", Len(jobs) + 1))
           /\ UNCHANGED faults
        \/ Fault /\ (Respond(c, Lost) \/ Respond(c, Odd))
     /\ UNCHANGED <<realm, events, request, answer, reading, asked>>

Smaller(m, n) == IF m < n THEN m ELSE n

\* Mutant: the cursor is not passed on.
CallFirst(r) == [view |-> r.op, limit |-> r.limit, after_id |-> None]

\* get_job: the query of the call.
Call(r) == [view |-> r.op, limit |-> r.limit, after_id |-> r.cursor]

\* GET /jobs/{id}: the link to the next page names the last event of this one.
Page(log, call) ==
  LET rest  == After(log, call.after_id)
      limit == Smaller(call.limit, ServiceLimit)
      n     == Smaller(limit, Len(rest))
  IN [status |-> 200, body |-> call.view, job |-> None, items |-> SubSeq(rest, 1, n), limit |-> limit,
      next |-> IF n < Len(rest) THEN rest[n] ELSE None]
BadPage(view) == [status |-> 200, body |-> view, job |-> None, items |-> <<>>, limit |-> 0, next |-> -1]

\* A caller's own jobs; any others are not found.
ServeRead(c) ==
  LET r   == request[c].asked
      own == r.job \in DOMAIN jobs /\ jobs[r.job].user = r.token.user
  IN /\ stage[c] = "sent" /\ r.op \notin Submissions
     /\ \/ /\ \/ r.op = "list" /\ Respond(c, Plain(200, "list", None))
              \/ r.op # "list" /\ ~own /\ Respond(c, Plain(404, "none", None))
              \/ r.op = "summary" /\ own /\ Respond(c, Plain(200, "summary", None))
              \/ r.op \in Views /\ own /\ Respond(c, Page(jobs[r.job].log, Call(r)))
           /\ UNCHANGED faults
        \/ /\ Fault
           /\ \/ Respond(c, Odd)
              \/ r.op \in Views /\ Respond(c, BadPage(r.op))
     /\ UNCHANGED <<realm, upstream, request, answer, reading, asked>>

Work ==
  /\ events < MaxEvents /\ events' = events + 1
  /\ \E j \in DOMAIN jobs :
       jobs' = [jobs EXCEPT ![j] = Job(@.asked, @.op, @.user, @.catalog, Append(@.log, events + 1))]
  /\ UNCHANGED <<realm, request, stage, response, answer, reading, asked, faults>>

-----------------------------------------------------------------------------
(* Answers                                                                 *)

\* The models of the responses.
Documented(r, body) == body = IF r.op \in Submissions THEN "queued" ELSE r.op

\* Mutant: any number will do.
NeverBad(res) == FALSE

\* parse_publishing_next_cursor
BadCursor(res) == res.next # None /\ res.next < 0

\* Mutant: the link has no view, which is then the summary.
LinkWithoutView(r, res) ==
  IF res.next = None THEN None ELSE [r EXCEPT !.op = "summary", !.limit = res.limit, !.cursor = res.next]

\* _next_page_link: the same job and view, from the cursor of the page on.
Link(r, res) ==
  IF res.next = None THEN None ELSE [r EXCEPT !.limit = res.limit, !.cursor = res.next]

\* get_publish_job: a page, and what its reader does with it.
Shown(c, res) ==
  LET r == request[c].asked
  IN reading' = [reading EXCEPT ![c] =
       [job |-> r.job, from |-> @.from, got |-> @.got \o res.items, next |-> Link(r, res),
        since |-> @.since, done |-> Link(r, res) = None]]

Failed(c, status, reason) ==
  /\ UNCHANGED <<realm, upstream, reading, asked, faults>>
  /\ stage[c] = "answered" /\ Answer(c, status, reason, None)
  /\ response' = [response EXCEPT ![c] = None]

\* Mutant: a call without a response is made again.
CallAgain(c) ==
  /\ response[c] # None /\ response[c].status = 0
  /\ stage' = [stage EXCEPT ![c] = "sent"] /\ response' = [response EXCEPT ![c] = None]
  /\ UNCHANGED <<realm, upstream, request, answer, reading, asked, faults>>

\* No response: no retry.
Unavailable(c) ==
  /\ response[c] # None /\ response[c].status = 0
  /\ Failed(c, 502, "publication_backend_unavailable")

\* A refusal keeps its status; a response that is not the documented one becomes a 502.
Rejected(c) ==
  LET res == response[c]
  IN /\ res # None /\ res.status # 0
     /\ \/ res.status \notin 200..299 /\ Failed(c, res.status, "publication_request_rejected")
        \/ /\ res.status \in 200..299 /\ (Documented(request[c].asked, res.body) => BadCursor(res))
           /\ Failed(c, 502, "publication_request_rejected")

Succeed(c) ==
  LET res == response[c]
  IN /\ stage[c] = "answered" /\ res.status \in 200..299
     /\ Documented(request[c].asked, res.body) /\ ~BadCursor(res)
     /\ UNCHANGED <<realm, upstream, asked, faults>>
     /\ Answer(c, IF request[c].asked.op \in Submissions THEN 202 ELSE 200, None, res.job)
     /\ response' = [response EXCEPT ![c] = None]
     /\ IF res.body \in Views THEN Shown(c, res) ELSE UNCHANGED reading

-----------------------------------------------------------------------------

\* Keycloak replaces its key; EPT's cache gets old.
Rotate ==
  /\ Fault
  /\ \E k \in Keys \ published : published' = {k}
  /\ UNCHANGED <<cached, keyless, upstream, request, stage, response, answer, reading, asked>>

\* What is cached is kept for a limited time.
Forget ==
  /\ cached # None /\ cached' = None
  /\ UNCHANGED <<published, keyless, upstream, request, stage, response, answer, reading, asked, faults>>

\* What is done for a request, which no one but its caller waits for.
Proceed(c) == Admit(c) \/ MakeJob(c) \/ ServeRead(c) \/ Unavailable(c) \/ Rejected(c) \/ Succeed(c)

Next ==
  \/ \E c \in Callers : Ask(c) \/ Follow(c) \/ Proceed(c) \/ Refuse(c)
  \/ Work \/ Rotate \/ Forget

\* A call ends, by its timeout at the latest; the one who reads a log follows its links;
\* and the cache gets old.
Fairness ==
  /\ \A c \in Callers : WF_vars(Proceed(c)) /\ WF_vars(Follow(c))
  /\ WF_vars(Forget)

Spec == Init /\ [][Next]_vars /\ Fairness

-----------------------------------------------------------------------------
(* Properties                                                              *)

\* The kinds of things.
TypeOK ==
  /\ published \subseteq Keys /\ (cached = None \/ cached \subseteq Keys) /\ keyless \in BOOLEAN
  /\ jobs \in Seq([asked : Nat, op : Submissions, user : Users, catalog : Catalogs, log : Seq(Nat)])
  /\ events \in Nat
  /\ stage \in [Callers -> {"idle", "arrived", "sent", "answered"}]
  /\ \A c \in Callers : request[c] = None <=> stage[c] = "idle"
  /\ \A c \in Callers : response[c] # None <=> stage[c] = "answered"
  /\ \A c \in Callers : reading[c].next # None => reading[c].next.cursor \in Nat /\ reading[c].got \in Seq(Nat)
  /\ \A c \in Callers : answer[c].status \in {0} \cup (200..599)

\* publish_stac_job, remove_stac_job: a request makes one job at most, for the owner and
\* nobody else; it makes none when EPT has refused it; and an acknowledged one is there
\* under the id the caller was given.
JobsAreAskedFor ==
  /\ \A i, j \in DOMAIN jobs : jobs[i].asked = jobs[j].asked /\ jobs[i].asked # 0 => i = j
  /\ \A j \in DOMAIN jobs : jobs[j].asked # 0 => jobs[j].user = Owner
  /\ \A c \in Callers :
       /\ answer[c].status = 202 => /\ answer[c].job \in DOMAIN jobs
                                    /\ jobs[answer[c].job].asked = answer[c].id
       /\ answer[c].status \in {401, 403, 422, 500, 503} /\ answer[c].reason # "publication_request_rejected" =>
            \A j \in DOMAIN jobs : jobs[j].asked = answer[c].id => answer[c].id = 0

\* get_publish_job: a caller who follows the links reads a log from where it asked to
\* begin, in order and without a gap, whatever is written meanwhile; at the last page it
\* has all there was when it began; and no link EPT gave is refused as an invalid request.
LinksLeadOn ==
  \A c \in Callers :
    /\ LET r == reading[c] IN r.job # None =>
         /\ r.job \in DOMAIN jobs
         /\ LET log == After(jobs[r.job].log, r.from)
            IN Len(r.got) <= Len(log) /\ r.got = SubSeq(log, 1, Len(r.got))
         /\ r.done => Len(r.got) >= r.since
    /\ answer[c].followed => answer[c].reason \notin {"invalid_json", "invalid_request"}

\* validate_bearer_token: a token that Keycloak would accept is called invalid, on which
\* callers drop their session, only if what the certs endpoint answered last was no key
\* set: not when Keycloak cannot be reached or answers no JSON, nor after it has replaced
\* its keys, whatever is cached.
GoodTokensAreNotBlamed ==
  \A c \in Callers : answer[c].reason = "invalid_bearer_token" => ~answer[c].good \/ answer[c].keyless

\* Every request is answered; and a log that is read page by page comes to its end, as
\* long as the caller's token is good.
EveryReadEnds ==
  \A c \in Callers :
    /\ (stage[c] # "idle") ~> (stage[c] = "idle")
    /\ (reading[c].next # None) ~> (reading[c].next = None \/ reading[c].next.token.key \notin published)

=============================================================================
