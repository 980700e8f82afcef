-------------------------- MODULE PublishingProofs --------------------------
(***************************************************************************)
(* Theorems about Publishing: what is made for a request, what is read     *)
(* over EPT's links, and which tokens are called invalid, for every number *)
(* of callers, requests, jobs and events.                                  *)
(***************************************************************************)
EXTENDS Publishing, FiniteSetTheorems, TLAPS

-----------------------------------------------------------------------------
(* The inductive invariant                                                 *)

Jobs == [asked : Nat, op : Submissions, user : Users, catalog : Catalogs, log : Seq(Nat)]
Codes == 200..599
Whys == Reasons \cup {None}
Ids == Nat \cup {None}
Answers == [id : Nat, status : {0} \cup (200..599), reason : Reasons \cup {None}, job : Nat \cup {None},
            good : BOOLEAN, keyless : BOOLEAN, followed : BOOLEAN]
Readings == [job : Nat \cup {None}, from : Int \cup {None}, got : Seq(Nat), next : Queries \cup {None},
             since : Nat, done : BOOLEAN]

\* The kinds of things, in full.  Only an answer that was no key set leaves an empty cache.
Types ==
  /\ published \subseteq Keys /\ published # {} /\ (cached = None \/ cached \subseteq Keys)
  /\ keyless \in BOOLEAN /\ (cached = {} => keyless)
  /\ jobs \in Seq(Jobs) /\ events \in Nat /\ asked \in Nat /\ faults \in Nat
  /\ request \in [Callers -> Sendings \cup {None}]
  /\ stage \in [Callers -> {"idle", "arrived", "sent", "answered"}]
  /\ response \in [Callers -> Responses \cup {None}]
  /\ answer \in [Callers -> Answers]
  /\ reading \in [Callers -> Readings]

\* A caller waits while it has asked and has no answer.
Stages(c) ==
  /\ request[c] = None <=> stage[c] = "idle"
  /\ response[c] # None <=> stage[c] = "answered"
  /\ request[c] # None => answer[c] = NoAnswer

\* What every request has that was accepted, or that EPT itself linked to.
Shaped(r) ==
  /\ r.op \in Submissions => r.catalog \in Catalogs
  /\ r.op \in Views => r.limit # None

Linked(r) == Valid(r) /\ r.op \in Views /\ r.limit # None /\ r.cursor # None

Asking(c) ==
  LET s == request[c]
  IN s # None =>
       /\ s.id \in 0..asked /\ Shaped(s.asked)
       /\ s.followed => s.id = 0 /\ s.asked = reading[c].next /\ Linked(s.asked)
       /\ ~s.followed => s.id # 0
       /\ stage[c] # "arrived" => /\ s.asked.token \in Tokens /\ s.asked.token.user = Owner
                                  /\ Valid(s.asked)

\* The number of the request that a caller waits for, or was answered last.
Id(c) == IF request[c] = None THEN answer[c].id ELSE request[c].id
IdsApart ==
  /\ \A c \in Callers : Id(c) \in 0..asked
  /\ \A c, d \in Callers : Id(c) = Id(d) /\ Id(c) # 0 => c = d

\* A job is made for a request that has been sent, once.
JobsInv ==
  /\ \A j \in DOMAIN jobs : jobs[j].asked \in 0..asked /\ (jobs[j].asked # 0 => jobs[j].user = Owner)
  /\ \A i, j \in DOMAIN jobs : jobs[i].asked = jobs[j].asked /\ jobs[i].asked # 0 => i = j
Unmade(id) == \A j \in DOMAIN jobs : jobs[j].asked = id => id = 0
Acknowledged(job, id) == job \in DOMAIN jobs /\ jobs[job].asked = id

MadeFor(c) ==
  /\ stage[c] \in {"arrived", "sent"} => Unmade(request[c].id)
  /\ response[c] # None /\ response[c].body = "queued" => Acknowledged(response[c].job, request[c].id)
  /\ answer[c].status = 202 => Acknowledged(answer[c].job, answer[c].id)
  /\ answer[c].status \in {401, 403, 422, 500, 503} /\ answer[c].reason # "publication_request_rejected" =>
       Unmade(answer[c].id)

\* The events of a log are in their order.
Increasing(log) == \A i, j \in DOMAIN log : i < j => log[i] < log[j]
LogsInv ==
  \A j \in DOMAIN jobs : /\ Increasing(jobs[j].log)
                         /\ \A i \in DOMAIN jobs[j].log : jobs[j].log[i] <= events

\* These events follow one another in the log, from the event `from` on.
Continues(log, from, es) ==
  /\ Passed(log, from) + Len(es) <= Len(log)
  /\ \A i \in 1..Len(es) : es[i] = log[Passed(log, from) + i]

\* What has been read, and where it goes on.
Reads(c) ==
  LET r == reading[c]
  IN IF r.job = None THEN r.got = <<>> /\ r.next = None /\ ~r.done
     ELSE /\ r.job \in DOMAIN jobs
          /\ Continues(jobs[r.job].log, r.from, r.got)
          /\ Passed(jobs[r.job].log, r.from) + r.since <= Len(jobs[r.job].log)
          /\ r.next # None => /\ Linked(r.next) /\ Shaped(r.next) /\ r.next.job = r.job
                              /\ r.got # <<>> /\ r.next.cursor = r.got[Len(r.got)]
          /\ r.done => Len(r.got) >= r.since

\* A reading that is about to begin.
Begins(c) ==
  request[c] # None /\ ~request[c].followed =>
    LET r == request[c].asked
    IN /\ reading[c].job = None /\ reading[c].from = r.cursor
       /\ IF r.job \in DOMAIN jobs
          THEN Passed(jobs[r.job].log, r.cursor) + reading[c].since <= Len(jobs[r.job].log)
          ELSE reading[c].since = 0

\* A page goes on where the reading is, and its link leads on behind it.
GoesOn(page, log, from, got, since) ==
  LET all == got \o page.items
  IN /\ Continues(log, from, all)
     /\ page.next = None => Len(all) >= since
     /\ page.next # None => /\ page.items # <<>> /\ page.next = page.items[Len(page.items)]
                            /\ page.limit \in 1..MaxLimit

IsPage(res) == res # None /\ res.status \in 200..299 /\ res.body \in Views /\ ~BadCursor(res)
PageLeadsOn(c) ==
  IsPage(response[c]) =>
    LET r   == request[c].asked
        log == jobs[r.job].log
    IN /\ r.op \in Views /\ r.job \in DOMAIN jobs
       /\ GoesOn(response[c], log, reading[c].from, reading[c].got, reading[c].since)
       /\ Passed(log, reading[c].from) + reading[c].since <= Len(log)

Answered(c) ==
  /\ answer[c].followed => answer[c].reason \notin {"invalid_json", "invalid_request"}
  /\ answer[c].reason = "invalid_bearer_token" => ~answer[c].good \/ answer[c].keyless

Sound(c) ==
  /\ Stages(c) /\ Asking(c) /\ MadeFor(c) /\ Reads(c) /\ Begins(c) /\ PageLeadsOn(c) /\ Answered(c)

Inv == Types /\ IdsApart /\ JobsInv /\ LogsInv /\ \A c \in Callers : Sound(c)

-----------------------------------------------------------------------------
(* How far a log has passed an event                                       *)

LEMMA Interval ==
  ASSUME NEW m \in Nat
  PROVE  IsFiniteSet(1..m) /\ Cardinality(1..m) = m
BY FS_Interval

LEMMA PassedType ==
  ASSUME NEW log \in Seq(Nat), NEW after \in Int \cup {None}
  PROVE  Passed(log, after) \in 0..Len(log)
<1>1. CASE after = None
  BY <1>1 DEF Passed
<1>2. CASE after # None
  <2> DEFINE S == {i \in DOMAIN log : log[i] <= after}
  <2>1. IsFiniteSet(1..Len(log)) /\ Cardinality(1..Len(log)) = Len(log)
    <3>1. Len(log) \in Nat
      OBVIOUS
    <3> QED  BY <3>1, Interval
  <2>2. S \subseteq 1..Len(log)
    OBVIOUS
  <2>3. Passed(log, after) = Cardinality(S)
    BY <1>2 DEF Passed
  <2> HIDE DEF S
  <2>4. IsFiniteSet(S) /\ Cardinality(S) <= Len(log)
    BY <2>1, <2>2, FS_Subset
  <2>5. Cardinality(S) \in Nat
    BY <2>4, FS_CardinalityType
  <2> QED  BY <2>3, <2>4, <2>5
<1> QED  BY <1>1, <1>2

\* Those that are not after it come first.
LEMMA PassedSplits ==
  ASSUME NEW log \in Seq(Nat), Increasing(log), NEW after \in Int, NEW k \in DOMAIN log
  PROVE  log[k] <= after <=> k <= Passed(log, after)
<1> DEFINE S == {i \in DOMAIN log : log[i] <= after}
<1>1. Passed(log, after) = Cardinality(S)
  BY ConstantsAssumption DEF Passed
<1>2. IsFiniteSet(1..Len(log))
  <2>1. Len(log) \in Nat
    OBVIOUS
  <2> QED  BY <2>1, Interval
<1>3. IsFiniteSet(S)
  <2>1. S \subseteq 1..Len(log)
    OBVIOUS
  <2> HIDE DEF S
  <2> QED  BY <1>2, <2>1, FS_Subset
<1>4. ASSUME log[k] <= after PROVE k <= Cardinality(S)
  <2>1. 1..k \subseteq S
    <3>1. ASSUME NEW i \in 1..k PROVE i \in DOMAIN log /\ log[i] <= log[k] /\ log[i] \in Nat /\ log[k] \in Nat
      BY DEF Increasing
    <3> QED  BY <1>4, <3>1
  <2>2. Cardinality(1..k) = k
    BY FS_Interval
  <2> HIDE DEF S
  <2> QED  BY <1>3, <2>1, <2>2, FS_Subset
<1>5. ASSUME ~(log[k] <= after) PROVE Cardinality(S) < k
  <2>1. S \subseteq 1..(k - 1)
    <3>1. ASSUME NEW i \in S, i >= k PROVE FALSE
      <4>1. i \in DOMAIN log /\ log[i] <= after /\ log[k] <= log[i] /\ log[i] \in Nat /\ log[k] \in Nat
        BY <3>1 DEF Increasing
      <4> QED  BY <1>5, <4>1
    <3> QED  BY <3>1
  <2>2. IsFiniteSet(1..(k - 1)) /\ Cardinality(1..(k - 1)) = k - 1
    <3> DEFINE m == k - 1
    <3>1. m \in Nat
      OBVIOUS
    <3> HIDE DEF m
    <3>2. IsFiniteSet(1..m) /\ Cardinality(1..m) = m
      BY <3>1, Interval
    <3> QED  BY <3>2 DEF m
  <2> HIDE DEF S
  <2>3. Cardinality(S) <= k - 1
    <3> DEFINE T == 1..(k - 1)
    <3> HIDE DEF T
    <3>1. Cardinality(S) <= Cardinality(T)
      BY <2>1, <2>2, FS_Subset DEF T
    <3> QED  BY <2>2, <3>1 DEF T
  <2>4. Cardinality(S) \in Nat /\ k \in Nat
    BY <1>3, FS_CardinalityType
  <2> QED  BY <2>3, <2>4
<1> HIDE DEF S
<1>6. Cardinality(S) \in Nat
  BY <1>3, FS_CardinalityType
<1> QED  BY <1>1, <1>4, <1>5, <1>6

\* An event of the log is passed when it is the last one passed.
LEMMA PassedItself ==
  ASSUME NEW log \in Seq(Nat), Increasing(log), NEW k \in DOMAIN log
  PROVE  Passed(log, log[k]) = k
<1>1. log[k] \in Int /\ log[k] <= log[k] /\ k \in Nat
  OBVIOUS
<1> DEFINE p == Passed(log, log[k])
<1>2. p \in 0..Len(log)
  BY <1>1, PassedType
<1>3. k <= p
  BY <1>1, PassedSplits
<1>4. k + 1 \in DOMAIN log => ~(k + 1 <= p)
  <2> SUFFICES ASSUME k + 1 \in DOMAIN log PROVE ~(k + 1 <= p)
    OBVIOUS
  <2>1. ~(log[k + 1] <= log[k])
    BY <1>1 DEF Increasing
  <2> QED  BY <1>1, <2>1, PassedSplits
<1> HIDE DEF p
<1>5. p = k
  BY <1>1, <1>2, <1>3, <1>4
<1> QED  BY <1>5 DEF p

\* An event that is written later is passed only if all the log was.
LEMMA PassedGrows ==
  ASSUME NEW log \in Seq(Nat), NEW e \in Nat, Increasing(Append(log, e)), NEW after \in Int \cup {None}
  PROVE  \/ Passed(Append(log, e), after) = Passed(log, after)
         \/ Passed(log, after) = Len(log) /\ Passed(Append(log, e), after) = Len(log) + 1
<1> DEFINE longer == Append(log, e)
<1>0. /\ longer \in Seq(Nat) /\ Len(longer) = Len(log) + 1 /\ Len(log) \in Nat
      /\ longer[Len(log) + 1] = e /\ \A i \in 1..Len(log) : longer[i] = log[i]
  OBVIOUS
<1>1. CASE after = None
  BY <1>1 DEF Passed
<1>2. CASE after # None /\ e <= after
  <2>1. Len(log) + 1 <= Passed(longer, after)
    <3>1. Len(log) + 1 \in DOMAIN longer /\ longer[Len(log) + 1] <= after /\ after \in Int
      BY <1>0, <1>2
    <3>2. Increasing(longer)
      OBVIOUS
    <3> HIDE DEF longer
    <3> QED  BY <1>0, <3>1, <3>2, PassedSplits
  <2>2. Passed(longer, after) \in 0..(Len(log) + 1)
    BY <1>0, PassedType
  <2>3. Len(log) <= Passed(log, after)
    <3>1. CASE Len(log) = 0
      <4>1. Passed(log, after) \in 0..Len(log)
        BY PassedType
      <4> QED  BY <3>1, <4>1
    <3>2. CASE Len(log) # 0
      <4>1. Len(log) \in DOMAIN log /\ log[Len(log)] \in Nat
        BY <1>0, <3>2
      <4>2. log[Len(log)] <= after
        <5>1. longer[Len(log)] < longer[Len(log) + 1]
          BY <1>0, <3>2 DEF Increasing
        <5> QED  BY <1>0, <1>2, <4>1, <5>1
      <4>3. Increasing(log)
        BY <1>0 DEF Increasing
      <4> QED  BY <1>2, <4>1, <4>2, <4>3, PassedSplits
    <3> QED  BY <3>1, <3>2
  <2>4. Passed(log, after) \in 0..Len(log)
    BY PassedType
  <2> HIDE DEF longer
  <2>5. Passed(log, after) = Len(log) /\ Passed(longer, after) = Len(log) + 1
    BY <1>0, <2>1, <2>2, <2>3, <2>4
  <2> QED  BY <2>5 DEF longer
<1>3. CASE after # None /\ ~(e <= after)
  <2>1. {i \in DOMAIN longer : longer[i] <= after} = {i \in DOMAIN log : log[i] <= after}
    <3>1. DOMAIN longer = 1..(Len(log) + 1) /\ DOMAIN log = 1..Len(log)
      BY <1>0
    <3>2. ASSUME NEW i \in 1..(Len(log) + 1)
          PROVE  longer[i] <= after <=> i \in 1..Len(log) /\ log[i] <= after
      <4>1. CASE i = Len(log) + 1
        BY <1>0, <1>3, <4>1
      <4>2. CASE i # Len(log) + 1
        BY <1>0, <4>2
      <4> QED  BY <4>1, <4>2
    <3> HIDE DEF longer
    <3> QED  BY <1>0, <3>1, <3>2
  <2> QED  BY <1>3, <2>1 DEF Passed
<1> QED  BY <1>1, <1>2, <1>3

\* What continues a log continues it when it has grown.
LEMMA ContinuesGrows ==
  ASSUME NEW log \in Seq(Nat), NEW e \in Nat, Increasing(Append(log, e)), NEW from \in Int \cup {None},
         NEW es \in Seq(Nat), Continues(log, from, es)
  PROVE  Continues(Append(log, e), from, es)
<1> DEFINE longer == Append(log, e)
           p == Passed(log, from)
           q == Passed(longer, from)
<1>1. /\ Len(longer) = Len(log) + 1 /\ Len(log) \in Nat /\ Len(es) \in Nat
      /\ \A i \in 1..Len(log) : longer[i] = log[i]
  OBVIOUS
<1>2. q = p \/ (p = Len(log) /\ q = Len(log) + 1)
  BY PassedGrows
<1>3. p \in Nat /\ p + Len(es) <= Len(log) /\ \A i \in 1..Len(es) : es[i] = log[p + i]
  BY PassedType DEF Continues
<1> HIDE DEF longer, p, q
<1>4. q + Len(es) <= Len(longer) /\ \A i \in 1..Len(es) : es[i] = longer[q + i]
  <2>1. CASE q = p
    <3>1. \A i \in 1..Len(es) : p + i \in 1..Len(log)
      BY <1>1, <1>3
    <3> QED  BY <1>1, <1>3, <2>1, <3>1
  <2>2. CASE p = Len(log) /\ q = Len(log) + 1
    <3>1. Len(es) = 0
      BY <1>1, <1>3, <2>2
    <3> QED  BY <1>1, <2>2, <3>1
  <2> QED  BY <1>2, <2>1, <2>2
<1> QED  BY <1>4 DEF Continues, longer, q

LEMMA RoomGrows ==
  ASSUME NEW log \in Seq(Nat), NEW e \in Nat, Increasing(Append(log, e)), NEW from \in Int \cup {None},
         NEW n \in Nat, Passed(log, from) + n <= Len(log)
  PROVE  Passed(Append(log, e), from) + n <= Len(Append(log, e))
<1>1. Len(Append(log, e)) = Len(log) + 1 /\ Len(log) \in Nat
  OBVIOUS
<1>2. Passed(log, from) \in 0..Len(log)
  BY PassedType
<1> QED  BY <1>1, <1>2, PassedGrows

-----------------------------------------------------------------------------
(* The steps of one caller                                                 *)

\* Nothing changes for the others.
OnlyFor(c) ==
  \A d \in Callers \ {c} : /\ request'[d] = request[d] /\ stage'[d] = stage[d]
                           /\ response'[d] = response[d] /\ answer'[d] = answer[d]
                           /\ reading'[d] = reading[d]

\* With no new job or event, a step keeps the invariant for all but its caller.
LEMMA Frame ==
  ASSUME Inv, NEW c \in Callers, OnlyFor(c), UNCHANGED upstream, Types', Sound(c)',
         \/ asked' = asked /\ Id(c)' \in {Id(c), 0}
         \/ asked' = asked + 1 /\ Id(c)' = asked + 1
  PROVE  Inv'
<1>1. /\ jobs' = jobs /\ events' = events /\ asked \in Nat /\ asked' \in Nat /\ asked <= asked'
      /\ \A d \in Callers : Id(d) \in 0..asked
  BY DEF upstream, Inv, Types, IdsApart
<1>2. ASSUME NEW d \in Callers \ {c}
      PROVE  /\ request'[d] = request[d] /\ stage'[d] = stage[d] /\ response'[d] = response[d]
             /\ answer'[d] = answer[d] /\ reading'[d] = reading[d]
  BY DEF OnlyFor
<1>3. \A d \in Callers \ {c} : Id(d)' = Id(d)
  BY <1>2 DEF Id
<1>4. IdsApart'
  <2>1. \A d, e \in Callers : Id(d) = Id(e) /\ Id(d) # 0 => d = e
    BY DEF Inv, IdsApart
  <2>2. CASE asked' = asked /\ Id(c)' \in {Id(c), 0}
    BY <1>1, <1>3, <2>1, <2>2 DEF IdsApart
  <2>3. CASE asked' = asked + 1 /\ Id(c)' = asked + 1
    BY <1>1, <1>3, <2>1, <2>3 DEF IdsApart
  <2> QED  BY <2>2, <2>3
<1>5. JobsInv' /\ LogsInv'
  <2>1. \A j \in DOMAIN jobs : jobs[j].asked \in 0..asked => jobs[j].asked \in 0..asked'
    BY <1>1
  <2> QED  BY <1>1, <2>1 DEF Inv, JobsInv, LogsInv
<1>6. ASSUME NEW d \in Callers \ {c} PROVE Sound(d)'
  <2>1. Sound(d)
    BY DEF Inv
  <2>2. Stages(d)' /\ Answered(d)'
    BY <1>2, <2>1 DEF Sound, Stages, Answered
  <2>3. Asking(d)'
    <3>1. \A i \in 0..asked : i \in 0..asked'
      BY <1>1
    <3> QED  BY <1>2, <2>1, <3>1 DEF Sound, Asking
  <2>4. MadeFor(d)'
    BY <1>1, <1>2, <2>1 DEF Sound, MadeFor, Unmade, Acknowledged
  <2>5. Reads(d)' /\ Begins(d)'
    BY <1>1, <1>2, <2>1 DEF Sound, Reads, Begins
  <2>6. PageLeadsOn(d)'
    BY <1>1, <1>2, <2>1 DEF Sound, PageLeadsOn
  <2> QED  BY <2>2, <2>3, <2>4, <2>5, <2>6 DEF Sound
<1> QED  BY <1>4, <1>5, <1>6 DEF Inv

LEMMA LogType ==
  ASSUME Types, NEW j \in DOMAIN jobs
  PROVE  jobs[j] \in Jobs /\ jobs[j].log \in Seq(Nat) /\ Len(jobs[j].log) \in Nat /\ j \in Nat
<1>1. jobs[j] \in Jobs /\ j \in Nat
  BY DEF Types
<1>2. jobs[j].log \in Seq(Nat)
  BY <1>1 DEF Jobs
<1> QED  BY <1>1, <1>2

\* How a request comes.
LEMMA Arrives ==
  ASSUME Inv, NEW c \in Callers, NEW r \in Queries, NEW id \in Nat, NEW followed \in BOOLEAN,
         Arrive(c, r, id, followed)
  PROVE  /\ request[c] = None /\ response[c] = None
         /\ request' \in [Callers -> Sendings \cup {None}]
         /\ stage' \in [Callers -> {"idle", "arrived", "sent", "answered"}]
         /\ answer' \in [Callers -> Answers]
         /\ request'[c] = [asked |-> r, id |-> id, followed |-> followed] /\ request'[c] # None
         /\ stage'[c] = "arrived" /\ answer'[c] = NoAnswer /\ response'[c] = None
         /\ \A d \in Callers \ {c} : /\ request'[d] = request[d] /\ stage'[d] = stage[d]
                                     /\ answer'[d] = answer[d]
         /\ UNCHANGED <<published, cached, keyless, jobs, events, response, faults>>
<1>1. Types /\ Sound(c)
  BY DEF Inv
<1>2. [asked |-> r, id |-> id, followed |-> followed] \in Sendings
  BY DEF Sendings
<1>3. None \notin Sendings /\ NoAnswer \in Answers
  BY ConstantsAssumption DEF NoAnswer, Answers
<1>4. stage[c] = "idle" /\ request[c] = None /\ response[c] = None
  BY <1>1 DEF Arrive, Sound, Stages
<1>5. UNCHANGED <<published, cached, keyless, jobs, events, response, faults>>
  BY DEF Arrive, realm, upstream
<1>6. /\ request' = [request EXCEPT ![c] = [asked |-> r, id |-> id, followed |-> followed]]
      /\ stage' = [stage EXCEPT ![c] = "arrived"] /\ answer' = [answer EXCEPT ![c] = NoAnswer]
  BY DEF Arrive
<1>7. /\ request \in [Callers -> Sendings \cup {None}]
      /\ stage \in [Callers -> {"idle", "arrived", "sent", "answered"}]
      /\ answer \in [Callers -> Answers]
  BY <1>1 DEF Types
<1> DEFINE s == [asked |-> r, id |-> id, followed |-> followed]
<1>8. s \in Sendings /\ request' = [request EXCEPT ![c] = s]
  BY <1>2, <1>6
<1> HIDE DEF s
<1>9. request' \in [Callers -> Sendings \cup {None}] /\ request'[c] = s /\ request'[c] # None
  BY <1>3, <1>7, <1>8
<1> QED  BY <1>3, <1>4, <1>5, <1>6, <1>7, <1>8, <1>9 DEF s

\* Where it asks to begin, there is so much to read.
LEMMA AskKeeps ==
  ASSUME Inv, NEW c \in Callers, Ask(c)
  PROVE  Inv'
<1>1. PICK r \in Requests :
        /\ Arrive(c, r, asked + 1, FALSE)
        /\ reading' = [reading EXCEPT ![c] =
            [job |-> None, from |-> r.cursor, got |-> <<>>, next |-> None, done |-> FALSE,
             since |-> IF r.job \in DOMAIN jobs THEN Len(After(jobs[r.job].log, r.cursor)) ELSE 0]]
  BY DEF Ask
<1>2. Types /\ Sound(c) /\ JobsInv /\ asked' = asked + 1 /\ asked \in Nat
  BY DEF Inv, Ask, Types
<1>3. r \in Queries /\ Shaped(r) /\ r.cursor \in Int \cup {None} /\ r.job \in Nat \cup {None}
  BY ConstantsAssumption DEF Shaped, Queries
<1> DEFINE since == IF r.job \in DOMAIN jobs THEN Len(After(jobs[r.job].log, r.cursor)) ELSE 0
           begun == [job |-> None, from |-> r.cursor, got |-> <<>>, next |-> None, done |-> FALSE,
                     since |-> since]
<1>4. /\ since \in Nat
      /\ IF r.job \in DOMAIN jobs
         THEN Passed(jobs[r.job].log, r.cursor) + since <= Len(jobs[r.job].log)
         ELSE since = 0
  <2>1. CASE r.job \in DOMAIN jobs
    <3> DEFINE log == jobs[r.job].log
               p == Passed(log, r.cursor)
    <3>1. log \in Seq(Nat) /\ Len(log) \in Nat
      BY <1>2, <2>1, LogType
    <3>2. p \in 0..Len(log)
      <4> HIDE DEF log
      <4> QED  BY <1>3, <3>1, PassedType
    <3>3. since = Len(SubSeq(log, p + 1, Len(log)))
      BY <2>1 DEF After
    <3> HIDE DEF log, p
    <3>4. Len(SubSeq(log, p + 1, Len(log))) = Len(log) - p
      BY <3>1, <3>2
    <3>5. since \in Nat /\ p + since <= Len(log)
      <4> HIDE DEF since
      <4> QED  BY <3>2, <3>3, <3>4
    <3> QED  BY <2>1, <3>5 DEF log, p
  <2>2. CASE r.job \notin DOMAIN jobs
    BY <2>2
  <2> QED  BY <2>1, <2>2
<1>5. reading' = [reading EXCEPT ![c] = begun]
  BY <1>1
<1> HIDE DEF since
<1>6. begun \in Readings
  BY <1>3, <1>4 DEF Readings
<1>7. /\ reading' \in [Callers -> Readings] /\ reading'[c] = begun
      /\ \A d \in Callers \ {c} : reading'[d] = reading[d]
  <2> HIDE DEF begun
  <2> QED  BY <1>2, <1>5, <1>6 DEF Types
<1>8. /\ request[c] = None /\ response[c] = None
      /\ request' \in [Callers -> Sendings \cup {None}]
      /\ stage' \in [Callers -> {"idle", "arrived", "sent", "answered"}]
      /\ answer' \in [Callers -> Answers]
      /\ request'[c] = [asked |-> r, id |-> asked + 1, followed |-> FALSE] /\ request'[c] # None
      /\ stage'[c] = "arrived" /\ answer'[c] = NoAnswer /\ response'[c] = None
      /\ \A d \in Callers \ {c} : /\ request'[d] = request[d] /\ stage'[d] = stage[d]
                                  /\ answer'[d] = answer[d]
      /\ UNCHANGED <<published, cached, keyless, jobs, events, response, faults>>
  <2>1. asked + 1 \in Nat /\ FALSE \in BOOLEAN
    BY <1>2
  <2> QED  BY <1>1, <1>3, <2>1, Arrives
<1>9. Types' /\ OnlyFor(c)
  BY <1>2, <1>7, <1>8 DEF Types, OnlyFor
<1>10. Stages(c)' /\ Answered(c)' /\ PageLeadsOn(c)'
  BY <1>8, ConstantsAssumption DEF Stages, Answered, PageLeadsOn, IsPage, NoAnswer
<1>11. Asking(c)'
  BY <1>2, <1>3, <1>8 DEF Asking
<1>12. MadeFor(c)'
  <2>1. \A j \in DOMAIN jobs : jobs[j].asked \in 0..asked
    BY <1>2 DEF JobsInv
  <2>2. \A j \in DOMAIN jobs : jobs[j].asked # asked + 1
    BY <1>2, <2>1
  <2> QED  BY <1>8, <2>2 DEF MadeFor, NoAnswer, Unmade
<1>13. Reads(c)' /\ Begins(c)'
  BY <1>4, <1>7, <1>8 DEF Reads, Begins
<1>14. Id(c)' = asked + 1
  BY <1>8 DEF Id
<1> QED  BY <1>2, <1>8, <1>9, <1>10, <1>11, <1>12, <1>13, <1>14, Frame DEF Sound, upstream

\* The link that is followed is one EPT gave.
LEMMA FollowKeeps ==
  ASSUME Inv, NEW c \in Callers, Follow(c)
  PROVE  Inv'
<1> DEFINE r == reading[c].next
<1>1. Types /\ Sound(c) /\ UNCHANGED <<reading, asked>> /\ asked \in Nat
  BY DEF Inv, Follow, Types
<1>2. r # None /\ Arrive(c, r, 0, TRUE)
  BY DEF Follow
<1>3. r \in Queries
  BY <1>1, <1>2 DEF Types, Readings
<1>4. Linked(r) /\ Shaped(r) /\ Reads(c)
  BY <1>1, <1>2 DEF Sound, Reads
<1> HIDE DEF r
<1>5. /\ request[c] = None /\ response[c] = None
      /\ request' \in [Callers -> Sendings \cup {None}]
      /\ stage' \in [Callers -> {"idle", "arrived", "sent", "answered"}]
      /\ answer' \in [Callers -> Answers]
      /\ request'[c] = [asked |-> r, id |-> 0, followed |-> TRUE] /\ request'[c] # None
      /\ stage'[c] = "arrived" /\ answer'[c] = NoAnswer /\ response'[c] = None
      /\ \A d \in Callers \ {c} : /\ request'[d] = request[d] /\ stage'[d] = stage[d]
                                  /\ answer'[d] = answer[d]
      /\ UNCHANGED <<published, cached, keyless, jobs, events, response, faults>>
  <2>1. 0 \in Nat /\ TRUE \in BOOLEAN
    OBVIOUS
  <2> QED  BY <1>2, <1>3, <2>1, Arrives
<1>6. Types' /\ OnlyFor(c)
  BY <1>1, <1>5 DEF Types, OnlyFor
<1>7. Stages(c)' /\ Answered(c)' /\ PageLeadsOn(c)'
  BY <1>5, ConstantsAssumption DEF Stages, Answered, PageLeadsOn, IsPage, NoAnswer
<1>8. Asking(c)'
  BY <1>1, <1>4, <1>5 DEF Asking, r
<1>9. MadeFor(c)'
  BY <1>5 DEF MadeFor, NoAnswer, Unmade
<1>10. Reads(c)' /\ Begins(c)'
  BY <1>1, <1>4, <1>5 DEF Reads, Begins
<1>11. Id(c)' = 0
  BY <1>5 DEF Id
<1> QED  BY <1>1, <1>5, <1>6, <1>7, <1>8, <1>9, <1>10, <1>11, Frame DEF Sound, upstream

-----------------------------------------------------------------------------
(* Admission                                                               *)

\* Why a request is refused.
LEMMA Refusals ==
  ASSUME NEW r \in Queries, NEW key \in KeyStates
  PROVE  /\ Refusal(r, key) \in Reasons \cup {None}
         /\ Refusal(r, key) = None => r.token \in Tokens /\ r.token.user = Owner /\ Valid(r)
         /\ Refusal(r, key) = "invalid_json" => r.body = "malformed"
         /\ Refusal(r, key) = "invalid_request" => ~Valid(r)
         /\ Refusal(r, key) = "invalid_bearer_token" =>
              /\ r.body # "malformed" /\ r.token # None
              /\ key \in {"unknown", "odd"} \/ ~r.token.claims \/ (r.op = "list" /\ ~r.token.named)
<1>1. None \notin Reasons /\ r.token \in Tokens \cup {None}
  BY ConstantsAssumption DEF Queries
<1>2. CASE r.body = "malformed"
  <2>1. Refusal(r, key) = "invalid_json"
    BY <1>2 DEF Refusal
  <2> QED  BY <1>1, <1>2, <2>1 DEF Reasons
<1>3. CASE r.body # "malformed" /\ r.token = None
  <2>1. Refusal(r, key) = "missing_bearer_token"
    BY <1>3 DEF Refusal
  <2> QED  BY <1>1, <2>1 DEF Reasons
<1>4. CASE r.body # "malformed" /\ r.token # None /\ TokenProblem(key, r.token.claims) # None
  <2>1. Refusal(r, key) = TokenProblem(key, r.token.claims)
    BY <1>4 DEF Refusal
  <2>2. \/ key = "unreachable" /\ TokenProblem(key, r.token.claims) = "auth_unavailable"
        \/ key = "garbled" /\ TokenProblem(key, r.token.claims) = "internal_error"
        \/ /\ key \in {"unknown", "odd"} \/ ~r.token.claims
           /\ TokenProblem(key, r.token.claims) = "invalid_bearer_token"
    BY <1>4 DEF TokenProblem
  <2> QED  BY <1>1, <1>4, <2>1, <2>2 DEF Reasons
<1>5. CASE r.body # "malformed" /\ r.token # None /\ TokenProblem(key, r.token.claims) = None
  <2>1. \/ Refusal(r, key) = "instance_bound"
        \/ Refusal(r, key) = "missing_refresh_token"
        \/ Refusal(r, key) = "invalid_request" /\ ~Valid(r)
        \/ Refusal(r, key) = "invalid_bearer_token" /\ r.op = "list" /\ ~r.token.named
        \/ Refusal(r, key) = None /\ r.token.user = Owner /\ Valid(r)
    BY <1>5 DEF Refusal
  <2> QED  BY <1>1, <1>5, <2>1 DEF Reasons
<1> QED  BY <1>2, <1>3, <1>4, <1>5

\* A key that Keycloak publishes is never unknown, as long as it answers with its keys.
LEMMA LookUps ==
  ASSUME Types, NEW token \in Tokens, NEW key, LookUp(token, key)
  PROVE  /\ cached' = None \/ cached' \subseteq Keys
         /\ faults' \in Nat /\ keyless' \in BOOLEAN /\ (cached' = {} => keyless')
         /\ key = "unknown" => token.key \notin published
         /\ key = "odd" => keyless'
<1>1. CASE cached # None /\ (token.key \in cached \/ cached = {})
  BY <1>1 DEF LookUp, Types
<1>2. CASE ~(cached # None /\ (token.key \in cached \/ cached = {}))
  <2>1. CASE UNCHANGED faults /\ Fetched(key, published) /\ key = IF token.key \in published THEN "known" ELSE "unknown"
    BY <2>1 DEF Types, Fetched
  <2>2. CASE /\ faults' = faults + 1 /\ key \in {"unreachable", "odd", "garbled"}
             /\ Fetched(key, None) \/ (key = "odd" /\ Fetched(key, {}))
    <3>1. None # {}
      BY ConstantsAssumption
    <3>2. cached' = None \/ (cached' = {} /\ key = "odd")
      BY <2>2 DEF Fetched
    <3>3. keyless' = (key = "odd")
      BY <2>2, Zenon DEF Fetched
    <3>4. keyless' \in BOOLEAN /\ (key = "odd" => keyless')
      BY <3>3, Zenon
    <3>5. cached' = {} => keyless'
      BY <3>1, <3>2, <3>4
    <3>6. faults' \in Nat /\ key # "unknown"
      BY <2>2 DEF Types
    <3>7. cached' \subseteq Keys \/ cached' = None
      BY <3>2
    <3> QED  BY <3>4, <3>5, <3>6, <3>7
  <2> QED  BY <1>2, <2>1, <2>2 DEF LookUp
<1> QED  BY <1>1, <1>2

\* What an answer leaves of a request.
Ends(c, status, reason, job) ==
  /\ request' \in [Callers -> Sendings \cup {None}]
  /\ stage' \in [Callers -> {"idle", "arrived", "sent", "answered"}]
  /\ answer' \in [Callers -> Answers]
  /\ request'[c] = None /\ stage'[c] = "idle"
  /\ answer'[c].id = request[c].id /\ answer'[c].status = status
  /\ answer'[c].reason = reason /\ answer'[c].job = job
  /\ answer'[c].followed = request[c].followed
  /\ \A d \in Callers \ {c} : /\ request'[d] = request[d] /\ stage'[d] = stage[d]
                              /\ answer'[d] = answer[d]
  /\ Id(c)' = Id(c)

IsGood(r) == /\ r.token # None /\ r.token.claims /\ r.token.key \in published
             /\ r.op = "list" => r.token.named

LEMMA AnswerIs ==
  ASSUME Inv, NEW c \in Callers, request[c] # None, NEW status \in Codes,
         NEW reason \in Whys, NEW job \in Ids, Answer(c, status, reason, job), keyless' \in BOOLEAN
  PROVE  /\ Ends(c, status, reason, job)
         /\ answer'[c].good => IsGood(request[c].asked)
         /\ answer'[c].keyless = keyless'
<1> DEFINE r == request[c].asked
           good == /\ r.token # None /\ r.token.claims /\ r.token.key \in published
                   /\ r.op = "list" => r.token.named
           a == [id |-> request[c].id, status |-> status, reason |-> reason, job |-> job,
                 followed |-> request[c].followed, keyless |-> keyless', good |-> good]
<1>1. Types
  BY DEF Inv
<1>2. request[c].id \in Nat /\ request[c].followed \in BOOLEAN
  BY <1>1 DEF Types, Sendings
<1>3. good \in BOOLEAN
  OBVIOUS
<1>4. answer' = [answer EXCEPT ![c] = a]
  BY Zenon DEF Answer
<1>5. a \in Answers
  <2> HIDE DEF good
  <2> QED  BY <1>2, <1>3 DEF Answers, Codes, Whys, Ids
<1>6. /\ a.id = request[c].id /\ a.status = status /\ a.reason = reason /\ a.job = job
      /\ a.followed = request[c].followed /\ a.good = good /\ a.keyless = keyless'
  <2> HIDE DEF good
  <2> QED  OBVIOUS
<1>7. /\ answer' \in [Callers -> Answers] /\ answer'[c] = a
      /\ \A d \in Callers \ {c} : answer'[d] = answer[d]
  <2> HIDE DEF a
  <2> QED  BY <1>1, <1>4, <1>5 DEF Types
<1>8. /\ request' \in [Callers -> Sendings \cup {None}] /\ request'[c] = None
      /\ stage' \in [Callers -> {"idle", "arrived", "sent", "answered"}] /\ stage'[c] = "idle"
      /\ \A d \in Callers \ {c} : request'[d] = request[d] /\ stage'[d] = stage[d]
  BY <1>1 DEF Answer, Types
<1>9. Id(c)' = Id(c)
  <2> HIDE DEF a
  <2> QED  BY <1>6, <1>7, <1>8 DEF Id
<1>10. answer'[c].good => good
  <2> HIDE DEF good
  <2> QED  BY <1>6, <1>7
<1>11. answer'[c].keyless = keyless'
  <2> HIDE DEF a
  <2> QED  BY <1>6, <1>7
<1> HIDE DEF a
<1> QED  BY <1>6, <1>7, <1>8, <1>9, <1>10, <1>11 DEF Ends, IsGood

\* Nothing is made for a refused request, and a good token is not the reason.
LEMMA AdmitKeeps ==
  ASSUME Inv, NEW c \in Callers, Admit(c)
  PROVE  Inv'
<1> DEFINE r == request[c].asked
<1>1. /\ Types /\ Sound(c) /\ stage[c] = "arrived"
      /\ UNCHANGED <<published, jobs, events, response, reading, asked>>
  BY DEF Inv, Admit, upstream
<1>2. request[c] # None /\ response[c] = None
  BY <1>1 DEF Sound, Stages
<1>3. request[c] \in Sendings /\ r \in Queries /\ request[c].id \in Nat /\ None \notin Reasons
  BY <1>1, <1>2, ConstantsAssumption DEF Types, Sendings
<1>4. PICK key \in KeyStates :
        /\ IF r.body = "malformed" \/ r.token = None
           THEN key = "unknown" /\ UNCHANGED <<cached, keyless, faults>>
           ELSE LookUp(r.token, key)
        /\ LET refusal == Refusal(r, key)
           IN IF refusal = None
              THEN stage' = [stage EXCEPT ![c] = "sent"] /\ UNCHANGED <<request, answer>>
              ELSE Answer(c, StatusOf(refusal), refusal, None)
  BY DEF Admit
<1> HIDE DEF r
<1>5. /\ cached' = None \/ cached' \subseteq Keys
      /\ faults' \in Nat /\ keyless' \in BOOLEAN /\ (cached' = {} => keyless')
      /\ r.body # "malformed" /\ r.token # None /\ key = "unknown" => r.token.key \notin published
      /\ r.body # "malformed" /\ r.token # None /\ key = "odd" => keyless'
  <2>1. CASE r.body = "malformed" \/ r.token = None
    BY <1>1, <1>4, <2>1 DEF Types
  <2>2. CASE ~(r.body = "malformed" \/ r.token = None)
    <3>1. r.token \in Tokens /\ LookUp(r.token, key)
      BY <1>3, <1>4, <2>2 DEF Queries
    <3> QED  BY <1>1, <3>1, LookUps
  <2> QED  BY <2>1, <2>2
<1>6. CASE Refusal(r, key) = None
  <2>1. stage' = [stage EXCEPT ![c] = "sent"] /\ UNCHANGED <<request, answer>>
    BY <1>4, <1>6
  <2>2. /\ stage' \in [Callers -> {"idle", "arrived", "sent", "answered"}] /\ stage'[c] = "sent"
        /\ \A d \in Callers \ {c} : stage'[d] = stage[d]
    BY <1>1, <2>1 DEF Types
  <2>3. Types' /\ OnlyFor(c)
    BY <1>1, <1>5, <2>1, <2>2 DEF Types, OnlyFor
  <2>4. Stages(c)' /\ Answered(c)' /\ Reads(c)' /\ Begins(c)'
    BY <1>1, <1>2, <2>1, <2>2 DEF Sound, Stages, Answered, Reads, Begins
  <2>5. Asking(c)'
    <3>1. r.token \in Tokens /\ r.token.user = Owner /\ Valid(r)
      BY <1>3, <1>6, Refusals
    <3> QED  BY <1>1, <2>1, <3>1 DEF Sound, Asking, r
  <2>6. MadeFor(c)' /\ PageLeadsOn(c)'
    BY <1>1, <1>2, <2>1, <2>2 DEF Sound, MadeFor, Unmade, Acknowledged, PageLeadsOn, IsPage
  <2>7. Id(c)' = Id(c)
    BY <2>1 DEF Id
  <2> QED  BY <1>1, <2>3, <2>4, <2>5, <2>6, <2>7, Frame DEF Sound, upstream
<1>7. CASE Refusal(r, key) # None
  <2> DEFINE refusal == Refusal(r, key)
  <2>1. /\ refusal \in Reasons /\ refusal # None
        /\ refusal = "invalid_json" => r.body = "malformed"
        /\ refusal = "invalid_request" => ~Valid(r)
        /\ refusal = "invalid_bearer_token" =>
              /\ r.body # "malformed" /\ r.token # None
              /\ key \in {"unknown", "odd"} \/ ~r.token.claims \/ (r.op = "list" /\ ~r.token.named)
    BY <1>3, <1>7, Refusals
  <2>2. Answer(c, StatusOf(refusal), refusal, None)
    BY <1>4, <1>7
  <2> HIDE DEF refusal
  <2>3. StatusOf(refusal) \in {401, 403, 422, 500, 503}
    BY DEF StatusOf
  <2> DEFINE status == StatusOf(refusal)
  <2>4. status \in {401, 403, 422, 500, 503} /\ status \in 200..599 /\ Answer(c, status, refusal, None)
    BY <2>2, <2>3
  <2> HIDE DEF status
  <2>5. Ends(c, status, refusal, None) /\ (answer'[c].good => IsGood(r)) /\ answer'[c].keyless = keyless'
    <3>1. refusal \in Whys /\ None \in Ids /\ status \in Codes
      BY <2>1, <2>4 DEF Whys, Ids, Codes
    <3> QED  BY <1>2, <1>5, <2>4, <3>1, AnswerIs DEF r
  <2>6. Types' /\ OnlyFor(c)
    BY <1>1, <1>5, <2>5 DEF Types, OnlyFor, Ends
  <2>7. Stages(c)' /\ Asking(c)' /\ Begins(c)'
    BY <1>1, <1>2, <2>5 DEF Sound, Stages, Asking, Begins, Ends
  <2>8. Reads(c)' /\ PageLeadsOn(c)'
    BY <1>1, <1>2 DEF Sound, Reads, PageLeadsOn, IsPage
  <2>9. MadeFor(c)'
    <3>1. Unmade(request[c].id)
      BY <1>1 DEF Sound, MadeFor
    <3> QED  BY <1>1, <1>2, <2>4, <2>5, <3>1 DEF MadeFor, Unmade, Ends
  <2>10. Answered(c)'
    <3>1. request[c].followed => Linked(r)
      BY <1>1, <1>2 DEF Sound, Asking, r
    <3>2. answer'[c].followed => refusal \notin {"invalid_json", "invalid_request"}
      BY <2>1, <2>5, <3>1 DEF Linked, Valid, Ends
    <3>3. refusal = "invalid_bearer_token" => ~answer'[c].good \/ answer'[c].keyless
      <4>1. SUFFICES ASSUME refusal = "invalid_bearer_token", answer'[c].good PROVE answer'[c].keyless
        BY Zenon
      <4>2. IsGood(r)
        BY <2>5, <4>1, Zenon
      <4>3. r.body # "malformed" /\ r.token # None /\ key \in {"unknown", "odd"}
        BY <2>1, <4>1, <4>2 DEF IsGood
      <4>4. key = "odd"
        BY <1>5, <4>2, <4>3 DEF IsGood
      <4>5. keyless'
        BY <1>5, <4>3, <4>4, Zenon
      <4>6. answer'[c].keyless = keyless'
        BY <2>5, Zenon
      <4> QED  BY <4>5, <4>6, Zenon
    <3>4. answer'[c].reason = refusal
      BY <2>5 DEF Ends
    <3> QED  BY <3>2, <3>3, <3>4 DEF Answered
  <2> QED  BY <1>1, <2>5, <2>6, <2>7, <2>8, <2>9, <2>10, Frame DEF Sound, upstream, Ends
<1> QED  BY <1>6, <1>7

-----------------------------------------------------------------------------
(* The publishing service                                                  *)

LEMMA RespondType ==
  ASSUME Types, NEW c \in Callers, NEW res \in Responses, Respond(c, res)
  PROVE  /\ response' \in [Callers -> Responses \cup {None}] /\ response'[c] = res /\ res # None
         /\ stage' \in [Callers -> {"idle", "arrived", "sent", "answered"}] /\ stage'[c] = "answered"
         /\ \A d \in Callers \ {c} : response'[d] = response[d] /\ stage'[d] = stage[d]
<1>1. res # None
  BY ConstantsAssumption
<1>2. response' = [response EXCEPT ![c] = res] /\ stage' = [stage EXCEPT ![c] = "answered"]
  BY DEF Respond
<1> QED  BY <1>1, <1>2 DEF Types

\* An answer of the publishing service to which no job belongs.
LEMMA RespondKeeps ==
  ASSUME Inv, NEW c \in Callers, stage[c] = "sent", NEW res \in Responses, Respond(c, res),
         UNCHANGED <<realm, upstream, request, answer, reading, asked>>, faults' \in Nat,
         res.body # "queued", PageLeadsOn(c)'
  PROVE  Inv'
<1>1. Types /\ Sound(c) /\ UNCHANGED <<published, cached, keyless, jobs, events, request, answer, reading, asked>>
  BY DEF Inv, realm, upstream
<1>2. request[c] # None /\ response[c] = None
  BY <1>1 DEF Sound, Stages
<1>3. /\ response' \in [Callers -> Responses \cup {None}] /\ response'[c] = res /\ res # None
      /\ stage' \in [Callers -> {"idle", "arrived", "sent", "answered"}] /\ stage'[c] = "answered"
      /\ \A d \in Callers \ {c} : response'[d] = response[d] /\ stage'[d] = stage[d]
  BY <1>1, RespondType
<1>4. Types' /\ OnlyFor(c)
  BY <1>1, <1>3 DEF Types, OnlyFor
<1>5. Stages(c)' /\ Answered(c)' /\ Reads(c)' /\ Begins(c)'
  BY <1>1, <1>2, <1>3 DEF Sound, Stages, Answered, Reads, Begins
<1>6. Asking(c)'
  BY <1>1, <1>3 DEF Sound, Asking
<1>7. MadeFor(c)'
  BY <1>1, <1>2, <1>3 DEF Sound, MadeFor, Unmade, Acknowledged
<1>8. Id(c)' = Id(c)
  BY <1>1 DEF Id
<1> QED  BY <1>1, <1>4, <1>5, <1>6, <1>7, <1>8, Frame DEF Sound, upstream

LEMMA RefuseKeeps ==
  ASSUME Inv, NEW c \in Callers, Refuse(c)
  PROVE  Inv'
<1>1. PICK status \in Statuses \cup {0} : Respond(c, Plain(status, "none", None))
  BY DEF Refuse
<1>2. /\ status \in {0} \cup (200..599) /\ status \notin 200..299
      /\ "none" \in {"none", "odd", "queued", "list", "summary"} /\ None \in Nat \cup {None}
  <2>1. status = 0 \/ status \in 300..599
    BY ConstantsAssumption
  <2>2. CASE status = 0
    BY <2>2
  <2>3. CASE status \in 300..599
    BY <2>3
  <2> QED  BY <2>1, <2>2, <2>3
<1> DEFINE res == Plain(status, "none", None)
<1>3. res \in Responses /\ res.status = status /\ res.body = "none" /\ Respond(c, res)
  <2>1. res \in Responses /\ res.status = status /\ res.body = "none"
    BY <1>2 DEF Plain, Responses
  <2> QED  BY <1>1, <2>1
<1>4. stage[c] = "sent" /\ faults' \in Nat /\ UNCHANGED <<realm, upstream, request, answer, reading, asked>>
  BY DEF Refuse, Fault, Inv, Types
<1> HIDE DEF res
<1>5. PageLeadsOn(c)'
  <2>1. response'[c] = res
    BY <1>3, RespondType DEF Inv
  <2> QED  BY <1>2, <1>3, <2>1 DEF PageLeadsOn, IsPage
<1> QED  BY <1>3, <1>4, <1>5, RespondKeeps

LEMMA Concatenation ==
  ASSUME NEW s \in Seq(Nat), NEW t \in Seq(Nat)
  PROVE  /\ s \o t \in Seq(Nat) /\ Len(s \o t) = Len(s) + Len(t)
         /\ \A i \in 1..Len(s \o t) : (s \o t)[i] = IF i <= Len(s) THEN s[i] ELSE t[i - Len(s)]
<1>1. Len(s \o t) = Len(s) + Len(t) /\ Len(s) \in Nat /\ Len(t) \in Nat
  OBVIOUS
<1>2. ASSUME NEW i \in 1..(Len(s) + Len(t))
      PROVE  (s \o t)[i] = IF i <= Len(s) THEN s[i] ELSE t[i - Len(s)]
  BY <1>1
<1> QED  BY <1>1, <1>2

\* A page of the log, from where the reading is.
LEMMA PageGoesOn ==
  ASSUME NEW log \in Seq(Nat), Increasing(log), NEW call, call.after_id \in Int \cup {None},
         call.limit \in 1..MaxLimit, call.view \in Views,
         NEW from \in Int \cup {None}, NEW got \in Seq(Nat), Continues(log, from, got), NEW since \in Nat,
         Passed(log, from) + since <= Len(log),
         Passed(log, call.after_id) = Passed(log, from) + Len(got)
  PROVE  /\ Page(log, call) \in Responses /\ Page(log, call).body = call.view
         /\ GoesOn(Page(log, call), log, from, got, since)
<1> DEFINE p == Passed(log, from)
           q == Passed(log, call.after_id)
           rest == After(log, call.after_id)
           limit == Smaller(call.limit, ServiceLimit)
           n == Smaller(limit, Len(rest))
           items == SubSeq(rest, 1, n)
           next == IF n < Len(rest) THEN rest[n] ELSE None
           res == Page(log, call)
<1> HIDE DEF p, q, rest, limit, n, items, next, res
<1>1. p \in 0..Len(log) /\ q \in 0..Len(log) /\ Len(log) \in Nat /\ Len(got) \in Nat
  <2>1. Len(log) \in Nat /\ Len(got) \in Nat
    OBVIOUS
  <2>2. p \in 0..Len(log)
    BY PassedType DEF p
  <2>3. q \in 0..Len(log)
    BY PassedType DEF q
  <2> QED  BY <2>1, <2>2, <2>3
<1>2. limit \in 1..MaxLimit
  BY ConstantsAssumption DEF Smaller, limit
<1>3. /\ rest \in Seq(Nat) /\ Len(rest) = Len(log) - q
      /\ \A i \in 1..Len(rest) : rest[i] = log[q + i]
  <2>1. rest = SubSeq(log, q + 1, Len(log))
    BY DEF After, rest, q
  <2>2. Len(SubSeq(log, q + 1, Len(log))) = Len(log) - q
    BY <1>1
  <2>3. \A i \in 1..(Len(log) - q) : SubSeq(log, q + 1, Len(log))[i] = log[q + i]
    BY <1>1
  <2>4. SubSeq(log, q + 1, Len(log)) \in Seq(Nat)
    BY <1>1
  <2> QED  BY <2>1, <2>2, <2>3, <2>4
<1>4. res = [status |-> 200, body |-> call.view, job |-> None, items |-> items, limit |-> limit, next |-> next]
  BY DEF Page, rest, limit, n, items, next, res
<1>5. n \in 0..Len(rest) /\ (n < Len(rest) => n = limit)
  BY <1>2, <1>3 DEF Smaller, n
<1>6. items \in Seq(Nat) /\ Len(items) = n /\ \A i \in 1..n : items[i] = rest[i]
  BY <1>3, <1>5 DEF items
<1>7. next \in Int \cup {None} /\ (next = None => n = Len(rest)) /\ (next # None => n < Len(rest) /\ next = rest[n])
  <2>1. CASE n < Len(rest)
    <3>1. rest[n] \in Nat /\ None \notin Int
      BY <1>2, <1>3, <1>5, <2>1, ConstantsAssumption
    <3> QED  BY <2>1, <3>1 DEF next
  <2>2. CASE ~(n < Len(rest))
    BY <1>3, <1>5, <2>2 DEF next
  <2> QED  BY <2>1, <2>2
<1>8. /\ res \in Responses /\ res.status = 200 /\ res.body = call.view /\ res.items = items
      /\ res.limit = limit /\ res.next = next
  <2>1. limit \in Int /\ call.view \in Operations
    BY <1>2 DEF Operations
  <2> QED  BY <1>4, <1>6, <1>7, <2>1 DEF Responses
<1> DEFINE all == got \o items
<1>9. /\ all \in Seq(Nat) /\ Len(all) = Len(got) + n
      /\ \A i \in 1..Len(all) : all[i] = IF i <= Len(got) THEN got[i] ELSE items[i - Len(got)]
  BY <1>6, Concatenation
<1> HIDE DEF all
<1>10. Continues(log, from, all)
  <2>1. p + Len(all) <= Len(log)
    BY <1>1, <1>3, <1>5, <1>9 DEF p, q
  <2>2. ASSUME NEW i \in 1..Len(all) PROVE all[i] = log[p + i]
    <3>1. CASE i <= Len(got)
      <4>1. i \in 1..Len(got)
        BY <1>1, <3>1
      <4>2. all[i] = got[i]
        <5> QED  BY <1>9, <2>2, <3>1
      <4> QED  BY <4>1, <4>2 DEF Continues, p
    <3>2. CASE i > Len(got)
      <4>1. i - Len(got) \in 1..n /\ q + (i - Len(got)) = p + i
        <5> DEFINE g == Len(got)
                   l == Len(all)
        <5>1. p \in Int /\ g \in Nat /\ n \in Nat /\ q = p + g /\ l = g + n /\ i \in 1..l /\ i > g
          BY <1>1, <1>5, <1>9, <2>2, <3>2 DEF p, q
        <5> HIDE DEF p, q, g, l, n
        <5> QED  BY <5>1 DEF g
      <4>2. i - Len(got) \in 1..Len(rest)
        BY <1>3, <1>5, <4>1
      <4>3. all[i] = items[i - Len(got)]
        <5>1. ~(i <= Len(got))
          BY <1>1, <1>9, <2>2, <3>2
        <5> QED  BY <1>9, <2>2, <5>1
      <4> QED  BY <1>3, <1>6, <4>1, <4>2, <4>3
    <3> QED  BY <1>1, <3>1, <3>2
  <2> QED  BY <2>1, <2>2 DEF Continues, p
<1>11. next = None => Len(all) >= since
  BY <1>1, <1>3, <1>7, <1>9 DEF p, q
<1>12. next # None => items # <<>> /\ next = items[Len(items)]
  <2> SUFFICES ASSUME next # None PROVE items # <<>> /\ next = items[Len(items)]
    OBVIOUS
  <2>1. n = limit /\ n \in 1..n /\ next = rest[n]
    BY <1>2, <1>5, <1>7
  <2> QED  BY <1>6, <2>1
<1> QED  BY <1>2, <1>8, <1>10, <1>11, <1>12 DEF all, res, GoesOn

\* Where the reading is, when its page is asked for.
LEMMA ReadingIsAt ==
  ASSUME Inv, NEW c \in Callers, stage[c] = "sent", request[c].asked.op \in Views,
         request[c].asked.job \in DOMAIN jobs
  PROVE  LET r == request[c].asked
             log == jobs[r.job].log
         IN  /\ log \in Seq(Nat) /\ Increasing(log)
             /\ reading[c].from \in Int \cup {None} /\ reading[c].got \in Seq(Nat) /\ reading[c].since \in Nat
             /\ Continues(log, reading[c].from, reading[c].got)
             /\ Passed(log, reading[c].from) + reading[c].since <= Len(log)
             /\ Passed(log, r.cursor) = Passed(log, reading[c].from) + Len(reading[c].got)
<1> DEFINE r == request[c].asked
           log == jobs[r.job].log
           from == reading[c].from
           got == reading[c].got
<1>1. Types /\ Sound(c) /\ LogsInv
  BY DEF Inv
<1>2. request[c] # None /\ request[c] \in Sendings /\ r \in Queries /\ None \notin Queries
  <2>1. request[c] # None /\ request[c] \in Sendings
    BY <1>1 DEF Sound, Stages, Types
  <2> QED  BY <2>1, ConstantsAssumption DEF Sendings
<1>3. log \in Seq(Nat) /\ Increasing(log) /\ Len(log) \in Nat
  BY <1>1, LogType DEF LogsInv
<1>4. reading[c] \in Readings
  BY <1>1 DEF Types
<1>5. from \in Int \cup {None} /\ got \in Seq(Nat) /\ reading[c].since \in Nat /\ Len(got) \in Nat
  BY <1>4 DEF Readings
<1>6. CASE ~request[c].followed
  <2>1. reading[c].job = None /\ from = r.cursor /\ Passed(log, r.cursor) + reading[c].since <= Len(log)
    BY <1>1, <1>2, <1>6 DEF Sound, Begins
  <2>2. got = <<>>
    BY <1>1, <2>1 DEF Sound, Reads
  <2>3. Passed(log, from) \in 0..Len(log)
    BY <1>3, <1>5, PassedType
  <2>4. Continues(log, from, got) /\ Len(got) = 0
    BY <1>3, <2>2, <2>3 DEF Continues
  <2> QED  BY <1>3, <1>5, <2>1, <2>3, <2>4
<1>7. CASE request[c].followed
  <2>1. r = reading[c].next /\ r # None
    BY <1>1, <1>2, <1>7 DEF Sound, Asking
  <2>2. reading[c].job # None
    BY <1>1, <2>1 DEF Sound, Reads
  <2>3. /\ reading[c].job = r.job
        /\ Continues(log, from, got) /\ Passed(log, from) + reading[c].since <= Len(log)
        /\ got # <<>> /\ r.cursor = got[Len(got)]
    BY <1>1, <2>1, <2>2 DEF Sound, Reads
  <2> DEFINE k == Passed(log, from) + Len(got)
  <2>4. k \in DOMAIN log /\ log[k] = r.cursor
    <3>1. Passed(log, from) \in 0..Len(log)
      BY <1>3, <1>5, PassedType
    <3>2. Len(got) \in 1..Len(got)
      BY <1>5, <2>3
    <3>3. k <= Len(log) /\ got[Len(got)] = log[k]
      BY <2>3, <3>2 DEF Continues
    <3> QED  BY <1>3, <2>3, <3>1, <3>2, <3>3
  <2> HIDE DEF k
  <2>5. Passed(log, r.cursor) = k
    BY <1>3, <2>4, PassedItself
  <2> QED  BY <1>3, <1>5, <2>3, <2>5 DEF k
<1> QED  BY <1>6, <1>7

LEMMA ServeReadKeeps ==
  ASSUME Inv, NEW c \in Callers, ServeRead(c)
  PROVE  Inv'
<1> DEFINE r == request[c].asked
<1>1. /\ Types /\ Sound(c) /\ stage[c] = "sent" /\ r.op \notin Submissions
      /\ UNCHANGED <<realm, upstream, request, answer, reading, asked>>
  BY DEF Inv, ServeRead
<1>2. faults' \in Nat
  BY <1>1 DEF ServeRead, Fault, Types
<1>3. /\ r \in Queries /\ request[c] # None
      /\ r.op \in Operations /\ r.cursor \in Int \cup {None} /\ r.limit \in Int \cup {None}
      /\ Shaped(r) /\ Valid(r)
  <2>1. request[c] # None /\ request[c] \in Sendings
    BY <1>1 DEF Sound, Stages, Types
  <2>2. r \in Queries
    BY <2>1 DEF Sendings
  <2>3. Shaped(r) /\ Valid(r)
    BY <1>1, <2>1 DEF Sound, Asking
  <2> QED  BY <2>1, <2>2, <2>3 DEF Queries
<1>4. ASSUME NEW res, res.body \notin Views, Respond(c, res), res \in Responses
      PROVE  PageLeadsOn(c)'
  <2>1. response'[c] = res
    BY <1>1, <1>4, RespondType
  <2> QED  BY <1>4, <2>1 DEF PageLeadsOn, IsPage
<1>5. ASSUME NEW status \in {200, 404}, NEW body \in {"none", "odd", "list", "summary"},
             Respond(c, Plain(status, body, None))
      PROVE  Inv'
  <2> DEFINE res == Plain(status, body, None)
  <2>1. res \in Responses /\ res.body # "queued" /\ res.body \notin Views /\ Respond(c, res)
    BY <1>5 DEF Plain, Responses, Operations, Views
  <2> HIDE DEF res
  <2>2. PageLeadsOn(c)'
    BY <1>4, <2>1
  <2> QED  BY <1>1, <1>2, <2>1, <2>2, RespondKeeps
<1>6. ASSUME r.op \in Views, Respond(c, BadPage(r.op))
      PROVE  Inv'
  <2> DEFINE res == BadPage(r.op)
  <2>1. res \in Responses /\ res.body # "queued" /\ res.next = -1 /\ Respond(c, res)
    BY <1>6 DEF BadPage, Responses, Operations, Views
  <2> HIDE DEF res
  <2>2. PageLeadsOn(c)'
    <3>1. response'[c] = res
      BY <1>1, <2>1, RespondType
    <3>2. res.next # None
      BY <2>1, ConstantsAssumption
    <3> QED  BY <2>1, <3>1, <3>2 DEF PageLeadsOn, IsPage, BadCursor
  <2> QED  BY <1>1, <1>2, <2>1, <2>2, RespondKeeps
<1>7. ASSUME r.op \in Views, r.job \in DOMAIN jobs, Respond(c, Page(jobs[r.job].log, Call(r)))
      PROVE  Inv'
  <2> DEFINE log == jobs[r.job].log
             call == Call(r)
             res == Page(log, call)
  <2>1. call.view = r.op /\ call.limit = r.limit /\ call.after_id = r.cursor
    BY DEF Call
  <2>2. call.limit \in 1..MaxLimit /\ call.after_id \in Int \cup {None} /\ call.view \in Views
    BY <1>3, <1>7, <2>1 DEF Shaped, Valid
  <2>3. /\ log \in Seq(Nat) /\ Increasing(log)
        /\ reading[c].from \in Int \cup {None} /\ reading[c].got \in Seq(Nat) /\ reading[c].since \in Nat
        /\ Continues(log, reading[c].from, reading[c].got)
        /\ Passed(log, reading[c].from) + reading[c].since <= Len(log)
        /\ Passed(log, call.after_id) = Passed(log, reading[c].from) + Len(reading[c].got)
    BY <1>1, <1>7, <2>1, ReadingIsAt
  <2>4. Respond(c, res)
    BY <1>7
  <2> HIDE DEF log, call, res
  <2>5. res \in Responses /\ res.body = call.view /\ GoesOn(res, log, reading[c].from, reading[c].got, reading[c].since)
    <3> HIDE DEF log, call
    <3> QED  BY <2>2, <2>3, PageGoesOn DEF res
  <2> HIDE DEF res
  <2>6. response'[c] = res
    BY <1>1, <2>4, <2>5, RespondType
  <2>7. UNCHANGED <<jobs, request, reading>>
    BY <1>1 DEF upstream
  <2>8. PageLeadsOn(c)'
    BY <1>7, <2>1, <2>3, <2>5, <2>6, <2>7 DEF PageLeadsOn, log
  <2>9. res.body # "queued"
    BY <1>7, <2>1, <2>5 DEF Views
  <2> QED  BY <1>1, <1>2, <2>4, <2>5, <2>8, <2>9, RespondKeeps
<1>8. \/ \E status \in {200, 404}, body \in {"none", "odd", "list", "summary"} :
           Respond(c, Plain(status, body, None))
      \/ r.op \in Views /\ Respond(c, BadPage(r.op))
      \/ r.op \in Views /\ r.job \in DOMAIN jobs /\ Respond(c, Page(jobs[r.job].log, Call(r)))
  BY DEF ServeRead, Odd
<1> QED  BY <1>5, <1>6, <1>7, <1>8

\* Jobs stay, and what continued their logs still does.
Grown ==
  /\ \A k \in DOMAIN jobs :
       /\ k \in DOMAIN jobs'
       /\ \A from \in Int \cup {None} :
            /\ \A es \in Seq(Nat) : Continues(jobs[k].log, from, es) => Continues(jobs'[k].log, from, es)
            /\ \A n \in Nat : Passed(jobs[k].log, from) + n <= Len(jobs[k].log) =>
                                Passed(jobs'[k].log, from) + n <= Len(jobs'[k].log)
  /\ \A k \in DOMAIN jobs' \ DOMAIN jobs : \A from \in Int \cup {None} :
       Passed(jobs'[k].log, from) + 0 <= Len(jobs'[k].log)

LEMMA ReadsGrow ==
  ASSUME Types, NEW d \in Callers, Sound(d), Grown, request'[d] = request[d], reading'[d] = reading[d],
         response'[d] = response[d] \/ ~IsPage(response'[d])
  PROVE  Reads(d)' /\ Begins(d)' /\ PageLeadsOn(d)'
<1>1. /\ reading[d].from \in Int \cup {None} /\ reading[d].got \in Seq(Nat) /\ reading[d].since \in Nat
      /\ request[d] # None => request[d].asked.cursor \in Int \cup {None}
  BY DEF Types, Readings, Sendings, Queries
<1>2. Reads(d)'
  <2>1. CASE reading[d].job = None
    BY <2>1 DEF Sound, Reads
  <2>2. CASE reading[d].job # None
    <3>1. reading[d].job \in DOMAIN jobs /\ reading[d].job \in DOMAIN jobs'
      BY <2>2 DEF Sound, Reads, Grown
    <3>2. /\ Continues(jobs'[reading[d].job].log, reading[d].from, reading[d].got)
          /\ Passed(jobs'[reading[d].job].log, reading[d].from) + reading[d].since
               <= Len(jobs'[reading[d].job].log)
      BY <1>1, <2>2, <3>1 DEF Sound, Reads, Grown
    <3> QED  BY <2>2, <3>1, <3>2 DEF Sound, Reads
  <2> QED  BY <2>1, <2>2
<1>3. Begins(d)'
  <2> SUFFICES ASSUME request[d] # None, ~request[d].followed PROVE Begins(d)'
    BY DEF Begins
  <2> DEFINE r == request[d].asked
  <2>1. /\ reading[d].job = None /\ reading[d].from = r.cursor
        /\ IF r.job \in DOMAIN jobs
           THEN Passed(jobs[r.job].log, r.cursor) + reading[d].since <= Len(jobs[r.job].log)
           ELSE reading[d].since = 0
    BY DEF Sound, Begins
  <2>2. IF r.job \in DOMAIN jobs'
        THEN Passed(jobs'[r.job].log, r.cursor) + reading[d].since <= Len(jobs'[r.job].log)
        ELSE reading[d].since = 0
    <3>1. CASE r.job \in DOMAIN jobs
      BY <1>1, <2>1, <3>1 DEF Grown
    <3>2. CASE r.job \in DOMAIN jobs' \ DOMAIN jobs
      BY <1>1, <2>1, <3>2 DEF Grown
    <3>3. CASE r.job \notin DOMAIN jobs /\ r.job \notin DOMAIN jobs'
      BY <2>1, <3>3
    <3> QED  BY <3>1, <3>2, <3>3
  <2> QED  BY <2>1, <2>2 DEF Begins
<1>4. PageLeadsOn(d)'
  <2>1. CASE ~IsPage(response'[d])
    BY <2>1 DEF PageLeadsOn, IsPage, BadCursor
  <2>2. CASE IsPage(response'[d])
    <3> DEFINE r == request[d].asked
               all == reading[d].got \o response[d].items
    <3>1. /\ response'[d] = response[d] /\ r.op \in Views /\ r.job \in DOMAIN jobs
          /\ GoesOn(response[d], jobs[r.job].log, reading[d].from, reading[d].got, reading[d].since)
          /\ Passed(jobs[r.job].log, reading[d].from) + reading[d].since <= Len(jobs[r.job].log)
      BY <2>2 DEF Sound, PageLeadsOn
    <3>2. all \in Seq(Nat)
      <4>1. response[d] \in Responses
        BY <2>2, <3>1 DEF Types, IsPage
      <4>2. response[d].items \in Seq(Nat)
        BY <4>1 DEF Responses
      <4> QED  BY <1>1, <4>2
    <3>3. Continues(jobs'[r.job].log, reading[d].from, all)
      BY <1>1, <3>1, <3>2 DEF Grown, GoesOn
    <3>4. GoesOn(response[d], jobs'[r.job].log, reading[d].from, reading[d].got, reading[d].since)
      BY <3>1, <3>3 DEF GoesOn
    <3>5. /\ r.job \in DOMAIN jobs'
          /\ Passed(jobs'[r.job].log, reading[d].from) + reading[d].since <= Len(jobs'[r.job].log)
      BY <1>1, <3>1 DEF Grown
    <3> QED  BY <3>1, <3>4, <3>5 DEF PageLeadsOn
  <2> QED  BY <2>1, <2>2
<1> QED  BY <1>2, <1>3, <1>4

\* A job is made once, for the request that is sent.
LEMMA MakeJobKeeps ==
  ASSUME Inv, NEW c \in Callers, MakeJob(c)
  PROVE  Inv'
<1> DEFINE r == request[c].asked
           job == Job(request[c].id, r.op, r.token.user, r.catalog, <<>>)
<1>1. /\ Types /\ Sound(c) /\ stage[c] = "sent" /\ r.op \in Submissions /\ jobs' = Append(jobs, job)
      /\ UNCHANGED <<published, cached, keyless, events, request, answer, reading, asked>>
  BY DEF Inv, MakeJob, realm
<1>2. /\ request[c] # None /\ r \in Queries /\ request[c].id \in 0..asked /\ asked \in Nat
      /\ r.token.user = Owner /\ r.catalog \in Catalogs /\ response[c] = None
  <2>1. request[c] # None /\ request[c] \in Sendings /\ response[c] = None
    BY <1>1 DEF Sound, Stages, Types
  <2>2. r.token.user = Owner /\ r.catalog \in Catalogs /\ request[c].id \in 0..asked
    BY <1>1, <2>1 DEF Sound, Asking, Shaped
  <2> QED  BY <1>1, <2>1, <2>2 DEF Sendings, Types
<1>3. /\ job \in Jobs /\ job.asked = request[c].id /\ job.user = Owner /\ job.log = <<>>
  BY <1>1, <1>2, ConstantsAssumption DEF Job, Jobs
<1>4. \E res \in Responses : /\ Respond(c, res) /\ res.body \notin Views
                             /\ res.body = "queued" => res.job = Len(jobs) + 1
  <2>1. Len(jobs) + 1 \in Nat
    BY <1>1 DEF Types
  <2>2. Plain(200, "queued", Len(jobs) + 1) \in Responses /\ Lost \in Responses /\ Odd \in Responses
    BY <2>1 DEF Plain, Lost, Odd, Responses
  <2>3. \/ Respond(c, Plain(200, "queued", Len(jobs) + 1))
        \/ Respond(c, Lost)
        \/ Respond(c, Odd)
    BY DEF MakeJob
  <2>4. /\ Plain(200, "queued", Len(jobs) + 1).body = "queued"
        /\ Plain(200, "queued", Len(jobs) + 1).job = Len(jobs) + 1
        /\ Lost.body = "none" /\ Odd.body = "odd"
    BY DEF Plain, Lost, Odd
  <2> QED  BY <2>2, <2>3, <2>4 DEF Views
<1>5. PICK res \in Responses : /\ Respond(c, res) /\ res.body \notin Views
                               /\ res.body = "queued" => res.job = Len(jobs) + 1
  BY <1>4
<1>6. /\ response' \in [Callers -> Responses \cup {None}] /\ response'[c] = res /\ res # None
      /\ stage' \in [Callers -> {"idle", "arrived", "sent", "answered"}] /\ stage'[c] = "answered"
      /\ \A d \in Callers \ {c} : response'[d] = response[d] /\ stage'[d] = stage[d]
  BY <1>1, <1>5, RespondType
<1>7. faults' \in Nat
  BY <1>1 DEF MakeJob, Fault, Types
<1> HIDE DEF r, job
<1>8. /\ jobs' \in Seq(Jobs) /\ DOMAIN jobs' = DOMAIN jobs \cup {Len(jobs) + 1}
      /\ Len(jobs) + 1 \notin DOMAIN jobs /\ jobs'[Len(jobs) + 1] = job
      /\ \A k \in DOMAIN jobs : jobs'[k] = jobs[k]
  <2>1. jobs \in Seq(Jobs)
    BY <1>1 DEF Types
  <2> QED  BY <1>1, <1>3, <2>1
<1>9. Types'
  BY <1>1, <1>6, <1>7, <1>8 DEF Types
<1>10. Unmade(request[c].id)
  BY <1>1 DEF Sound, MadeFor
<1>11. JobsInv'
  <2>1. JobsInv
    BY DEF Inv
  <2> QED  BY <1>1, <1>2, <1>3, <1>8, <1>10, <2>1 DEF JobsInv, Unmade
<1>12. LogsInv'
  <2>1. LogsInv
    BY DEF Inv
  <2>2. Increasing(<<>>) /\ DOMAIN <<>> = {}
    BY DEF Increasing
  <2> QED  BY <1>1, <1>3, <1>8, <2>1, <2>2 DEF LogsInv, Increasing
<1>13. Grown
  <2>1. ASSUME NEW from \in Int \cup {None} PROVE Passed(<<>>, from) + 0 <= Len(<<>>)
    <3>1. <<>> \in Seq(Nat) /\ Len(<<>>) = 0
      OBVIOUS
    <3>2. Passed(<<>>, from) \in 0..Len(<<>>)
      BY <3>1, PassedType
    <3> QED  BY <3>1, <3>2
  <2> QED  BY <1>3, <1>8, <2>1 DEF Grown
<1>14. IdsApart'
  <2>1. \A d \in Callers : Id(d)' = Id(d)
    BY <1>1 DEF Id
  <2> QED  BY <1>1, <2>1 DEF Inv, IdsApart
<1>15. ASSUME NEW d \in Callers PROVE Sound(d)'
  <2>1. Sound(d) /\ request'[d] = request[d] /\ answer'[d] = answer[d] /\ reading'[d] = reading[d]
    BY <1>1 DEF Inv
  <2>2. Reads(d)' /\ Begins(d)' /\ PageLeadsOn(d)'
    <3>1. response'[d] = response[d] \/ ~IsPage(response'[d])
      BY <1>5, <1>6 DEF IsPage
    <3> QED  BY <1>1, <1>13, <2>1, <3>1, ReadsGrow
  <2>3. Stages(d)' /\ Answered(d)' /\ Asking(d)'
    BY <1>1, <1>2, <1>6, <2>1 DEF Sound, Stages, Answered, Asking
  <2>4. MadeFor(d)'
    <3> DEFINE StillUnmade(id) == \A j \in DOMAIN jobs' : jobs'[j].asked = id => id = 0
               StillThere(k, id) == k \in DOMAIN jobs' /\ jobs'[k].asked = id
    <3>1. \A id, k : Acknowledged(k, id) => StillThere(k, id)
      BY <1>8 DEF Acknowledged
    <3>2. CASE d = c
      <4>1. answer[c].status = 0
        BY <1>1, <1>2 DEF Sound, Stages, NoAnswer
      <4>2. res.body = "queued" => StillThere(res.job, request[c].id)
        BY <1>3, <1>5, <1>8
      <4> QED  BY <1>6, <2>1, <3>2, <4>1, <4>2 DEF MadeFor, Acknowledged
    <3>3. CASE d # c
      <4>1. Id(d) = Id(c) /\ Id(d) # 0 => d = c
        BY DEF Inv, IdsApart
      <4>2. \A id : Unmade(id) /\ (id # 0 => id # request[c].id) => StillUnmade(id)
        BY <1>3, <1>8 DEF Unmade
      <4> HIDE DEF StillUnmade, StillThere
      <4>3. request[d] # None => (request[d].id # 0 => request[d].id # request[c].id)
        BY <1>2, <3>3, <4>1 DEF Id
      <4>4. request[d] = None => (answer[d].id # 0 => answer[d].id # request[c].id)
        BY <1>2, <3>3, <4>1 DEF Id
      <4>5. request[d] # None => answer[d].status = 0
        BY <2>1 DEF Sound, Stages, NoAnswer
      <4>6. stage'[d] = stage[d] /\ response'[d] = response[d] /\ (request[d] = None <=> stage[d] = "idle")
        BY <1>6, <2>1, <3>3 DEF Sound, Stages
      <4>7. MadeFor(d)
        BY <2>1 DEF Sound
      <4>8. stage[d] \in {"arrived", "sent"} => StillUnmade(request[d].id)
        BY <4>2, <4>3, <4>6, <4>7 DEF MadeFor
      <4>9. answer[d].status \in {401, 403, 422, 500, 503} /\ answer[d].reason # "publication_request_rejected" =>
              StillUnmade(answer[d].id)
        BY <4>2, <4>4, <4>5, <4>7 DEF MadeFor
      <4>10. /\ response[d] # None /\ response[d].body = "queued" => StillThere(response[d].job, request[d].id)
             /\ answer[d].status = 202 => StillThere(answer[d].job, answer[d].id)
        BY <3>1, <4>7 DEF MadeFor
      <4> QED  BY <2>1, <4>6, <4>8, <4>9, <4>10 DEF MadeFor, Unmade, Acknowledged, StillUnmade, StillThere
    <3> QED  BY <3>2, <3>3
  <2> QED  BY <2>2, <2>3, <2>4 DEF Sound
<1> QED  BY <1>9, <1>11, <1>12, <1>14, <1>15 DEF Inv

\* An event comes at the end of its log.
LEMMA WorkKeeps ==
  ASSUME Inv, Work
  PROVE  Inv'
<1> DEFINE e == events + 1
<1>1. PICK j \in DOMAIN jobs :
        jobs' = [jobs EXCEPT ![j] = Job(@.asked, @.op, @.user, @.catalog, Append(@.log, e))]
  BY DEF Work
<1>2. /\ Types /\ LogsInv /\ JobsInv /\ IdsApart /\ events' = e /\ events \in Nat /\ e \in Nat
      /\ UNCHANGED <<published, cached, keyless, request, stage, response, answer, reading, asked, faults>>
  BY DEF Inv, Work, Types, realm
<1> HIDE DEF e
<1>3. /\ DOMAIN jobs' = DOMAIN jobs /\ jobs' \in Seq(Jobs)
      /\ \A k \in DOMAIN jobs : /\ jobs'[k].asked = jobs[k].asked /\ jobs'[k].user = jobs[k].user
                                /\ jobs'[k].log = IF k = j THEN Append(jobs[j].log, e) ELSE jobs[k].log
  <2> DEFINE old == jobs[j]
             new == Job(old.asked, old.op, old.user, old.catalog, Append(old.log, e))
  <2>1. jobs' = [jobs EXCEPT ![j] = new]
    BY <1>1, Zenon
  <2>2. jobs[j] \in Jobs /\ jobs \in Seq(Jobs) /\ jobs[j].log \in Seq(Nat)
    BY <1>2, LogType DEF Types
  <2>3. new \in Jobs /\ new.asked = jobs[j].asked /\ new.user = jobs[j].user /\ new.log = Append(jobs[j].log, e)
    <3>1. Append(jobs[j].log, e) \in Seq(Nat)
      BY <1>2, <2>2
    <3> QED  BY <2>2, <3>1 DEF Job, Jobs
  <2> HIDE DEF new
  <2>4. DOMAIN jobs' = DOMAIN jobs /\ jobs' \in Seq(Jobs)
    BY <2>1, <2>2, <2>3
  <2>5. \A k \in DOMAIN jobs : jobs'[k] = IF k = j THEN new ELSE jobs[k]
    BY <2>1, <2>2
  <2> QED  BY <2>3, <2>4, <2>5
<1>4. Increasing(Append(jobs[j].log, e)) /\ \A i \in DOMAIN Append(jobs[j].log, e) : Append(jobs[j].log, e)[i] <= e
  <2> DEFINE log == jobs[j].log
  <2>1. /\ log \in Seq(Nat) /\ Len(log) \in Nat /\ Increasing(log)
        /\ \A i \in DOMAIN log : log[i] <= events /\ log[i] \in Nat
    BY <1>2, LogType DEF LogsInv
  <2> HIDE DEF log
  <2>2. /\ DOMAIN Append(log, e) = 1..(Len(log) + 1) /\ Append(log, e)[Len(log) + 1] = e
        /\ \A i \in 1..Len(log) : Append(log, e)[i] = log[i]
    BY <1>2, <2>1
  <2>3. \A i \in DOMAIN log : log[i] < e
    BY <1>2, <2>1 DEF e
  <2>4. ASSUME NEW i \in DOMAIN Append(log, e), NEW k \in DOMAIN Append(log, e), i < k
        PROVE  Append(log, e)[i] < Append(log, e)[k]
    <3>1. i \in 1..Len(log)
      BY <2>1, <2>2, <2>4
    <3>2. CASE k = Len(log) + 1
      BY <2>1, <2>2, <2>3, <3>1, <3>2
    <3>3. CASE k # Len(log) + 1
      <4>1. k \in 1..Len(log)
        BY <2>1, <2>2, <3>3
      <4> QED  BY <2>1, <2>2, <2>4, <3>1, <4>1 DEF Increasing
    <3> QED  BY <3>2, <3>3
  <2>5. ASSUME NEW i \in DOMAIN Append(log, e) PROVE Append(log, e)[i] <= e
    <3>1. CASE i = Len(log) + 1
      BY <1>2, <2>2, <3>1
    <3>2. CASE i # Len(log) + 1
      <4>1. i \in 1..Len(log)
        BY <2>1, <2>2, <3>2
      <4> QED  BY <1>2, <2>1, <2>2, <2>3, <4>1
    <3> QED  BY <3>1, <3>2
  <2>6. Increasing(Append(log, e)) /\ \A i \in DOMAIN Append(log, e) : Append(log, e)[i] <= e
    BY <2>4, <2>5 DEF Increasing
  <2> QED  BY <2>6 DEF log
<1>5. Types'
  BY <1>2, <1>3 DEF Types
<1>6. JobsInv'
  BY <1>2, <1>3 DEF JobsInv
<1>7. LogsInv'
  <2>1. ASSUME NEW k \in DOMAIN jobs
        PROVE  Increasing(jobs'[k].log) /\ \A i \in DOMAIN jobs'[k].log : jobs'[k].log[i] <= e
    <3>1. CASE k = j
      BY <1>3, <1>4, <3>1
    <3>2. CASE k # j
      <4>1. /\ jobs'[k].log = jobs[k].log /\ Increasing(jobs[k].log) /\ jobs[k].log \in Seq(Nat)
            /\ \A i \in DOMAIN jobs[k].log : jobs[k].log[i] <= events
        BY <1>2, <1>3, <3>2, LogType DEF LogsInv
      <4>2. \A i \in DOMAIN jobs[k].log : jobs[k].log[i] \in Nat
        BY <4>1
      <4> QED  BY <1>2, <4>1, <4>2 DEF e
    <3> QED  BY <3>1, <3>2
  <2> QED  BY <1>2, <1>3, <2>1 DEF LogsInv, Increasing
<1>8. Grown
  <2>1. ASSUME NEW k \in DOMAIN jobs, NEW from \in Int \cup {None}
        PROVE  /\ \A es \in Seq(Nat) :
                    Continues(jobs[k].log, from, es) => Continues(jobs'[k].log, from, es)
               /\ \A n \in Nat : Passed(jobs[k].log, from) + n <= Len(jobs[k].log) =>
                                   Passed(jobs'[k].log, from) + n <= Len(jobs'[k].log)
    <3>1. CASE k = j
      <4>1. jobs[j].log \in Seq(Nat)
        BY <1>2, LogType
      <4> QED  BY <1>2, <1>3, <1>4, <3>1, <4>1, ContinuesGrows, RoomGrows
    <3>2. CASE k # j
      BY <1>3, <3>2
    <3> QED  BY <3>1, <3>2
  <2> QED  BY <1>3, <2>1 DEF Grown
<1>9. IdsApart'
  BY <1>2 DEF IdsApart, Id
<1>10. ASSUME NEW d \in Callers PROVE Sound(d)'
  <2>1. Sound(d)
    BY DEF Inv
  <2>2. Reads(d)' /\ Begins(d)' /\ PageLeadsOn(d)'
    BY <1>2, <1>8, <2>1, ReadsGrow
  <2>3. Stages(d)' /\ Answered(d)' /\ Asking(d)'
    BY <1>2, <2>1 DEF Sound, Stages, Answered, Asking
  <2>4. MadeFor(d)'
    BY <1>2, <1>3, <2>1 DEF Sound, MadeFor, Unmade, Acknowledged
  <2> QED  BY <2>2, <2>3, <2>4 DEF Sound
<1> QED  BY <1>5, <1>6, <1>7, <1>9, <1>10 DEF Inv

-----------------------------------------------------------------------------
(* Answers                                                                 *)

\* A failure is not the caller's, and tells nothing about a job.
LEMMA FailedKeeps ==
  ASSUME Inv, NEW c \in Callers, NEW status \in 200..599, status \notin 200..299,
         NEW reason \in {"publication_backend_unavailable", "publication_request_rejected"},
         reason = "publication_backend_unavailable" => status = 502,
         Failed(c, status, reason)
  PROVE  Inv'
<1>1. /\ Types /\ Sound(c) /\ stage[c] = "answered" /\ Answer(c, status, reason, None)
      /\ response' = [response EXCEPT ![c] = None]
      /\ UNCHANGED <<published, cached, keyless, jobs, events, reading, asked, faults>>
  BY DEF Inv, Failed, realm, upstream
<1>2. request[c] # None
  BY <1>1 DEF Sound, Stages
<1>3. Ends(c, status, reason, None)
  <2>1. reason \in Whys /\ None \in Ids /\ status \in Codes
    BY DEF Reasons, Whys, Ids, Codes
  <2>2. keyless' \in BOOLEAN
    BY <1>1 DEF Types
  <2> QED  BY <1>1, <1>2, <2>1, <2>2, AnswerIs
<1>4. response' \in [Callers -> Responses \cup {None}] /\ response'[c] = None
      /\ \A d \in Callers \ {c} : response'[d] = response[d]
  BY <1>1 DEF Types
<1>5. Types' /\ OnlyFor(c)
  BY <1>1, <1>3, <1>4 DEF Types, OnlyFor, Ends
<1>6. Stages(c)' /\ Asking(c)' /\ Begins(c)' /\ PageLeadsOn(c)'
  BY <1>3, <1>4 DEF Stages, Asking, Begins, PageLeadsOn, IsPage, Ends
<1>7. Reads(c)'
  BY <1>1 DEF Sound, Reads
<1>8. MadeFor(c)' /\ Answered(c)'
  BY <1>3, <1>4 DEF MadeFor, Answered, Ends
<1> QED  BY <1>1, <1>3, <1>5, <1>6, <1>7, <1>8, Frame DEF Sound, upstream, Ends

\* An answer shows the job that was made, or the page that goes on.
LEMMA SucceedKeeps ==
  ASSUME Inv, NEW c \in Callers, Succeed(c)
  PROVE  Inv'
<1> DEFINE res == response[c]
           r == request[c].asked
           status == IF r.op \in Submissions THEN 202 ELSE 200
<1>1. /\ Types /\ Sound(c) /\ stage[c] = "answered" /\ res.status \in 200..299
      /\ Documented(r, res.body) /\ ~BadCursor(res) /\ Answer(c, status, None, res.job)
      /\ response' = [response EXCEPT ![c] = None]
      /\ IF res.body \in Views THEN Shown(c, res) ELSE UNCHANGED reading
      /\ UNCHANGED <<published, cached, keyless, jobs, events, asked, faults>>
  BY DEF Inv, Succeed, realm, upstream
<1>2. /\ request[c] # None /\ request[c] \in Sendings /\ r \in Queries /\ r.op \in Operations
      /\ res # None /\ res \in Responses
  <2>1. request[c] # None /\ request[c] \in Sendings /\ res # None /\ res \in Responses
    BY <1>1 DEF Sound, Stages, Types
  <2>2. r \in Queries
    BY <2>1 DEF Sendings
  <2> QED  BY <2>1, <2>2 DEF Queries
<1>3. /\ res.job \in Nat \cup {None} /\ res.items \in Seq(Nat) /\ res.limit \in Int /\ res.next \in Int \cup {None}
      /\ status \in {200, 202} /\ status \in 200..599
  BY <1>2 DEF Responses
<1> HIDE DEF res, r, status
<1>4. Ends(c, status, None, res.job)
  <2>1. None \in Whys /\ res.job \in Ids /\ status \in Codes
    BY <1>3 DEF Whys, Ids, Codes
  <2>2. keyless' \in BOOLEAN
    BY <1>1 DEF Types
  <2> QED  BY <1>1, <1>2, <2>1, <2>2, AnswerIs
<1>5. response' \in [Callers -> Responses \cup {None}] /\ response'[c] = None
      /\ \A d \in Callers \ {c} : response'[d] = response[d]
  BY <1>1 DEF Types
<1>6. /\ reading' \in [Callers -> Readings] /\ Reads(c)'
      /\ \A d \in Callers \ {c} : reading'[d] = reading[d]
  <2>1. CASE res.body \notin Views
    BY <1>1, <2>1 DEF Sound, Reads, Types
  <2>2. CASE res.body \in Views
    <3> DEFINE old == reading[c]
               log == jobs[r.job].log
               all == old.got \o res.items
               link == Link(r, res)
               new == [job |-> r.job, from |-> old.from, got |-> all, next |-> link, since |-> old.since,
                       done |-> link = None]
    <3>1. r.op \in Views /\ r.job \in DOMAIN jobs /\ r.job \in Nat /\ old \in Readings /\ Shaped(r) /\ Valid(r)
      <4>1. IsPage(res)
        BY <1>1, <1>2, <2>2 DEF IsPage
      <4>2. r.op \in Views /\ r.job \in DOMAIN jobs
        BY <1>1, <4>1 DEF Sound, PageLeadsOn, r, res
      <4>3. Shaped(r) /\ Valid(r)
        BY <1>1, <1>2 DEF Sound, Asking, r
      <4> QED  BY <1>1, <4>2, <4>3 DEF Types
    <3>2. /\ GoesOn(res, log, old.from, old.got, old.since)
          /\ Passed(log, old.from) + old.since <= Len(log)
      <4>1. IsPage(res)
        BY <1>1, <1>2, <2>2 DEF IsPage
      <4> QED  BY <1>1, <4>1 DEF Sound, PageLeadsOn, r, res
    <3>3. /\ old.from \in Int \cup {None} /\ old.got \in Seq(Nat) /\ old.since \in Nat
          /\ all \in Seq(Nat) /\ Len(all) = Len(old.got) + Len(res.items)
          /\ Len(res.items) \in Nat /\ Len(old.got) \in Nat
      <4>1. old.from \in Int \cup {None} /\ old.got \in Seq(Nat) /\ old.since \in Nat
        BY <3>1 DEF Readings
      <4> QED  BY <1>3, <4>1, Concatenation
    <3>4. reading' = [reading EXCEPT ![c] = new]
      BY <1>1, <2>2, Zenon DEF Shown, r
    <3>5. CASE res.next = None
      <4>1. link = None
        BY <3>5 DEF Link
      <4>2. Len(all) >= old.since /\ Continues(log, old.from, all)
        BY <3>2, <3>5 DEF GoesOn
      <4> HIDE DEF link, all, old
      <4>3. new \in Readings
        BY <3>1, <3>3, <4>1 DEF Readings
      <4>4. /\ new.job = r.job /\ new.from = old.from /\ new.got = all /\ new.next = None /\ new.since = old.since
        BY <4>1
      <4> HIDE DEF new
      <4>5. /\ reading' \in [Callers -> Readings] /\ reading'[c] = new
            /\ \A d \in Callers \ {c} : reading'[d] = reading[d]
        BY <1>1, <3>4, <4>3 DEF Types
      <4>6. r.job # None
        BY <3>1, ConstantsAssumption
      <4> QED  BY <1>1, <3>1, <3>2, <4>2, <4>4, <4>5, <4>6 DEF Reads
    <3>6. CASE res.next # None
      <4>1. link = [r EXCEPT !.limit = res.limit, !.cursor = res.next]
        BY <3>6 DEF Link
      <4>2. link = [op |-> r.op, body |-> r.body, token |-> r.token, refresh |-> r.refresh,
                    catalog |-> r.catalog, job |-> r.job, limit |-> res.limit, cursor |-> res.next]
        <5> HIDE DEF link
        <5> QED  BY <1>2, <4>1, Zenon DEF Queries
      <4>3. /\ res.items # <<>> /\ res.next = res.items[Len(res.items)] /\ res.limit \in 1..MaxLimit
            /\ Continues(log, old.from, all)
        BY <3>2, <3>6 DEF GoesOn
      <4>4. res.next \in Int /\ ~(res.next < 0)
        BY <1>1, <1>3, <3>6 DEF BadCursor
      <4> HIDE DEF link
      <4>5. link \in Queries /\ Linked(link) /\ Shaped(link) /\ link.job = r.job /\ link.cursor = res.next
        <5>1. /\ link.op = r.op /\ link.body = r.body /\ link.job = r.job /\ link.limit = res.limit
              /\ link.cursor = res.next /\ link.catalog = r.catalog
          BY <4>2
        <5>2. link \in Queries
          BY <1>2, <1>3, <4>2 DEF Queries
        <5>3. Linked(link)
          BY <3>1, <3>6, <4>3, <4>4, <5>1, ConstantsAssumption DEF Linked, Valid
        <5> QED  BY <3>1, <5>1, <5>2, <5>3 DEF Shaped, Linked
      <4>6. link # None /\ r.job # None
        BY <3>1, <4>5, ConstantsAssumption
      <4>7. all # <<>> /\ all[Len(all)] = res.next
        <5>1. Len(res.items) \in 1..Len(res.items)
          BY <1>3, <3>3, <4>3
        <5>2. Len(all) \in 1..Len(all) /\ ~(Len(all) <= Len(old.got)) /\ Len(all) - Len(old.got) = Len(res.items)
          <6> DEFINE n == Len(all)
                     a == Len(old.got)
                     b == Len(res.items)
          <6>1. n = a + b /\ a \in Nat /\ b \in Nat /\ b >= 1
            BY <3>3, <5>1
          <6> HIDE DEF n, a, b, all, old, res
          <6>2. ~(n <= a) /\ n - a = b
            BY <6>1
          <6>3. n \in 1..n
            BY <6>1
          <6> QED  BY <6>2, <6>3 DEF n, a, b
        <5>3. all[Len(all)] = res.items[Len(all) - Len(old.got)]
          <6>1. \A i \in 1..Len(all) : all[i] = IF i <= Len(old.got) THEN old.got[i]
                                                ELSE res.items[i - Len(old.got)]
            BY <1>3, <3>3, Concatenation
          <6> HIDE DEF all, old, res
          <6> QED  BY <5>2, <6>1
        <5>4. all # <<>>
          <6> HIDE DEF all, old
          <6>1. Len(all) # 0 /\ Len(<<>>) = 0
            BY <5>2
          <6> QED  BY <6>1
        <5> QED  BY <4>3, <5>2, <5>3, <5>4
      <4> HIDE DEF all, old
      <4>8. new \in Readings
        BY <3>1, <3>3, <4>5, <4>6 DEF Readings
      <4>9. /\ new.job = r.job /\ new.from = old.from /\ new.got = all /\ new.next = link
            /\ new.since = old.since /\ ~new.done
        BY <4>6
      <4> HIDE DEF new
      <4>10. /\ reading' \in [Callers -> Readings] /\ reading'[c] = new
             /\ \A d \in Callers \ {c} : reading'[d] = reading[d]
        BY <1>1, <3>4, <4>8 DEF Types
      <4> QED  BY <1>1, <3>1, <3>2, <4>3, <4>5, <4>6, <4>7, <4>9, <4>10 DEF Reads
    <3> QED  BY <3>5, <3>6
  <2> QED  BY <2>1, <2>2
<1>7. Types' /\ OnlyFor(c)
  BY <1>1, <1>4, <1>5, <1>6 DEF Types, OnlyFor, Ends
<1>8. Stages(c)' /\ Asking(c)' /\ Begins(c)' /\ PageLeadsOn(c)'
  BY <1>4, <1>5 DEF Stages, Asking, Begins, PageLeadsOn, IsPage, Ends
<1>9. MadeFor(c)'
  <2>1. status = 202 => res.body = "queued"
    BY <1>1 DEF Documented, status
  <2>2. status = 202 => Acknowledged(res.job, request[c].id)
    BY <1>1, <1>2, <2>1 DEF Sound, MadeFor, res
  <2> QED  BY <1>1, <1>3, <1>4, <1>5, <2>2 DEF MadeFor, Acknowledged, Ends
<1>10. Answered(c)'
  <2>1. None \notin Reasons
    BY ConstantsAssumption
  <2> QED  BY <1>4, <2>1 DEF Answered, Ends, Reasons
<1> QED  BY <1>1, <1>4, <1>6, <1>7, <1>8, <1>9, <1>10, Frame DEF Sound, upstream, Ends

-----------------------------------------------------------------------------
(* The theorems                                                            *)

LEMMA RealmKeeps ==
  ASSUME Inv, Rotate \/ Forget \/ UNCHANGED vars
  PROVE  Inv'
<1>1. /\ UNCHANGED <<jobs, events, request, stage, response, answer, reading, asked>>
      /\ Types
  BY DEF Rotate, Forget, vars, realm, upstream, Inv
<1>2. /\ published' \subseteq Keys /\ published' # {} /\ faults' \in Nat
      /\ cached' = None \/ cached' \subseteq Keys
      /\ keyless' \in BOOLEAN /\ (cached' = {} => keyless')
  <2>1. CASE Rotate
    BY <1>1, <2>1 DEF Rotate, Fault, Types
  <2>2. CASE Forget
    <3>1. None # {}
      BY ConstantsAssumption
    <3> QED  BY <1>1, <2>2, <3>1 DEF Forget, Types
  <2>3. CASE UNCHANGED vars
    BY <1>1, <2>3 DEF vars, realm, Types
  <2> QED  BY <2>1, <2>2, <2>3
<1>3. Types'
  BY <1>1, <1>2 DEF Types
<1>4. IdsApart' /\ JobsInv' /\ LogsInv'
  BY <1>1 DEF Inv, IdsApart, Id, JobsInv, LogsInv
<1>5. ASSUME NEW d \in Callers PROVE Sound(d)'
  <2>1. Sound(d)
    BY DEF Inv
  <2>2. Stages(d)' /\ Asking(d)' /\ MadeFor(d)' /\ Answered(d)'
    BY <1>1, <2>1 DEF Sound, Stages, Asking, MadeFor, Unmade, Acknowledged, Answered
  <2>3. Reads(d)' /\ Begins(d)' /\ PageLeadsOn(d)'
    BY <1>1, <2>1 DEF Sound, Reads, Begins, PageLeadsOn
  <2> QED  BY <2>2, <2>3 DEF Sound
<1> QED  BY <1>3, <1>4, <1>5 DEF Inv

LEMMA InitInv == Init => Inv
<1> SUFFICES ASSUME Init PROVE Inv
  OBVIOUS
<1>1. PICK k \in Catalogs, u \in Users \ {Owner} :
        jobs = <<Job(0, "publish", Owner, k, <<1, 3>>), Job(0, "publish", u, k, <<2>>)>>
  BY DEF Init
<1>2. /\ <<1, 3>> \in Seq(Nat) /\ <<2>> \in Seq(Nat) /\ Owner \in Users
      /\ Increasing(<<1, 3>>) /\ Increasing(<<2>>)
  BY ConstantsAssumption DEF Increasing
<1>3. /\ jobs \in Seq(Jobs) /\ DOMAIN jobs = 1..2
      /\ jobs[1].asked = 0 /\ jobs[1].log = <<1, 3>> /\ jobs[2].asked = 0 /\ jobs[2].log = <<2>>
  <2> DEFINE a == Job(0, "publish", Owner, k, <<1, 3>>)
             b == Job(0, "publish", u, k, <<2>>)
  <2>1. /\ a \in Jobs /\ a.asked = 0 /\ a.log = <<1, 3>>
        /\ b \in Jobs /\ b.asked = 0 /\ b.log = <<2>>
    BY <1>2 DEF Job, Jobs, Submissions
  <2>2. jobs = <<a, b>>
    BY <1>1
  <2> HIDE DEF a, b
  <2>3. jobs \in Seq(Jobs) /\ DOMAIN jobs = 1..2 /\ jobs[1] = a /\ jobs[2] = b
    BY <2>1, <2>2
  <2> QED  BY <2>1, <2>3
<1>4. /\ events = 3 /\ asked = 0 /\ faults = 0 /\ cached = None /\ keyless = FALSE
      /\ \A c \in Callers : /\ request[c] = None /\ stage[c] = "idle" /\ response[c] = None
                            /\ answer[c] = NoAnswer /\ reading[c] = NoReading
  BY DEF Init
<1>5. Types
  <2>1. published \subseteq Keys /\ published # {} /\ None # {}
    BY ConstantsAssumption DEF Init
  <2>2. NoAnswer \in Answers /\ NoReading \in Readings
    BY DEF NoAnswer, Answers, NoReading, Readings, Reasons
  <2>3. /\ request \in [Callers -> Sendings \cup {None}]
        /\ stage \in [Callers -> {"idle", "arrived", "sent", "answered"}]
        /\ response \in [Callers -> Responses \cup {None}]
        /\ answer \in [Callers -> Answers] /\ reading \in [Callers -> Readings]
    BY <2>2 DEF Init
  <2> QED  BY <1>3, <1>4, <2>1, <2>3 DEF Types
<1>6. IdsApart
  BY <1>4 DEF IdsApart, Id, NoAnswer
<1>7. JobsInv
  BY <1>3, <1>4 DEF JobsInv
<1>8. LogsInv
  <2>1. (\A i \in DOMAIN <<1, 3>> : <<1, 3>>[i] <= 3) /\ (\A i \in DOMAIN <<2>> : <<2>>[i] <= 3)
    OBVIOUS
  <2>2. \A j \in DOMAIN jobs : j = 1 \/ j = 2
    BY <1>3
  <2> QED  BY <1>2, <1>3, <1>4, <2>1, <2>2 DEF LogsInv
<1>9. ASSUME NEW c \in Callers PROVE Sound(c)
  <2>1. Stages(c) /\ Asking(c) /\ Begins(c) /\ PageLeadsOn(c)
    BY <1>4 DEF Stages, Asking, Begins, PageLeadsOn, IsPage
  <2>2. MadeFor(c) /\ Answered(c)
    BY <1>4, ConstantsAssumption DEF MadeFor, Answered, NoAnswer, Reasons
  <2>3. Reads(c)
    BY <1>4 DEF Reads, NoReading
  <2> QED  BY <2>1, <2>2, <2>3 DEF Sound
<1> QED  BY <1>5, <1>6, <1>7, <1>8, <1>9 DEF Inv

LEMMA UnavailableKeeps ==
  ASSUME Inv, NEW c \in Callers, Unavailable(c)
  PROVE  Inv'
<1>1. /\ Failed(c, 502, "publication_backend_unavailable")
      /\ 502 \in 200..599 /\ 502 \notin 200..299
  BY DEF Unavailable
<1> QED  BY <1>1, FailedKeeps

LEMMA RejectedKeeps ==
  ASSUME Inv, NEW c \in Callers, Rejected(c)
  PROVE  Inv'
<1> DEFINE status == response[c].status
<1>1. /\ response[c] # None /\ status # 0
      /\ \/ status \notin 200..299 /\ Failed(c, status, "publication_request_rejected")
         \/ Failed(c, 502, "publication_request_rejected")
  BY DEF Rejected
<1>2. status \in 200..599
  BY <1>1 DEF Inv, Types, Responses
<1> HIDE DEF status
<1>3. 502 \in 200..599 /\ 502 \notin 200..299
  OBVIOUS
<1> QED  BY <1>1, <1>2, <1>3, FailedKeeps

\* Every step keeps the invariant.
THEOREM Invariance == Spec => []Inv
<1>1. Inv /\ [Next]_vars => Inv'
  <2> SUFFICES ASSUME Inv, [Next]_vars PROVE Inv'
    OBVIOUS
  <2>1. ASSUME NEW c \in Callers, Ask(c) \/ Follow(c) \/ Proceed(c) \/ Refuse(c) PROVE Inv'
    BY <2>1, AskKeeps, FollowKeeps, AdmitKeeps, MakeJobKeeps, ServeReadKeeps, UnavailableKeeps,
       RejectedKeeps, SucceedKeeps, RefuseKeeps DEF Proceed
  <2> QED  BY <2>1, WorkKeeps, RealmKeeps DEF Next
<1> QED  BY <1>1, InitInv, PTL DEF Spec

\* The kinds of things, as the runs check them.
THEOREM TypeCorrect == Spec => []TypeOK
<1>1. Inv => TypeOK
  <2> SUFFICES ASSUME Inv PROVE TypeOK
    OBVIOUS
  <2>1. /\ Types /\ \A c \in Callers : Stages(c) /\ Reads(c)
    BY DEF Inv, Sound
  <2>2. ASSUME NEW c \in Callers PROVE answer[c].status \in {0} \cup (200..599)
    <3> DEFINE AllCodes == {0} \cup (200..599)
    <3>1. answer[c] \in Answers
      BY <2>1 DEF Types
    <3>2. Answers = [id : Nat, status : AllCodes, reason : Whys, job : Ids, good : BOOLEAN, keyless : BOOLEAN,
                     followed : BOOLEAN]
      BY DEF Answers, Whys, Ids
    <3> HIDE DEF AllCodes
    <3>3. answer[c].status \in AllCodes
      BY <3>1, <3>2
    <3> QED  BY <3>3 DEF AllCodes
  <2>3. ASSUME NEW c \in Callers, reading[c].next # None
        PROVE  reading[c].next.cursor \in Nat /\ reading[c].got \in Seq(Nat)
    <3>1. Linked(reading[c].next) /\ reading[c].next \in Queries /\ reading[c].got \in Seq(Nat)
      BY <2>1, <2>3 DEF Reads, Types, Readings
    <3> QED  BY <3>1 DEF Linked, Valid, Queries
  <2> QED  BY <2>1, <2>2, <2>3 DEF TypeOK, Types, Jobs, Stages
<1> QED  BY <1>1, Invariance, PTL

\* publish_stac_job, remove_stac_job: a request makes one job at most, for its own user,
\* none when EPT has refused it, and what is acknowledged is there.
THEOREM JobsStayAskedFor == Spec => []JobsAreAskedFor
<1>1. Inv => JobsAreAskedFor
  BY DEF Inv, Sound, JobsInv, MadeFor, Unmade, Acknowledged, JobsAreAskedFor
<1> QED  BY <1>1, Invariance, PTL

\* get_publish_job: whoever follows EPT's links reads a log from where it asked to begin,
\* in order and without a gap, whatever is written meanwhile.
THEOREM LinksKeepLeadingOn == Spec => []LinksLeadOn
<1>1. Inv => LinksLeadOn
  <2> SUFFICES ASSUME Inv, NEW c \in Callers, reading[c].job # None
               PROVE  LET r == reading[c]
                      IN /\ r.job \in DOMAIN jobs
                         /\ LET log == After(jobs[r.job].log, r.from)
                            IN Len(r.got) <= Len(log) /\ r.got = SubSeq(log, 1, Len(r.got))
                         /\ r.done => Len(r.got) >= r.since
    BY DEF Inv, Sound, Answered, LinksLeadOn
  <2> DEFINE r == reading[c]
             log == jobs[r.job].log
             p == Passed(log, r.from)
             rest == After(log, r.from)
             got == r.got
  <2>1. Types /\ r.job \in DOMAIN jobs /\ Continues(log, r.from, got) /\ (r.done => Len(got) >= r.since)
    BY DEF Inv, Sound, Reads
  <2>2. log \in Seq(Nat) /\ r.from \in Int \cup {None} /\ got \in Seq(Nat) /\ Len(got) \in Nat /\ Len(log) \in Nat
    <3>1. r \in Readings
      BY <2>1 DEF Types
    <3>2. r.from \in Int \cup {None} /\ got \in Seq(Nat)
      BY <3>1 DEF Readings
    <3>3. log \in Seq(Nat)
      BY <2>1, LogType
    <3> QED  BY <3>2, <3>3
  <2>3. rest = SubSeq(log, p + 1, Len(log))
    BY DEF After
  <2> HIDE DEF r, log, got
  <2>4. p \in 0..Len(log)
    BY <2>2, PassedType
  <2>5. p + Len(got) <= Len(log) /\ \A i \in 1..Len(got) : got[i] = log[p + i]
    BY <2>1 DEF Continues
  <2> HIDE DEF p, rest
  <2>6. /\ rest \in Seq(Nat) /\ Len(rest) = Len(log) - p
        /\ \A i \in 1..(Len(log) - p) : rest[i] = log[p + i]
    BY <2>2, <2>3, <2>4
  <2>7. Len(got) <= Len(rest)
    BY <2>2, <2>4, <2>5, <2>6
  <2>8. \A i \in 1..Len(got) : got[i] = rest[i]
    BY <2>2, <2>4, <2>5, <2>6
  <2>9. got = SubSeq(rest, 1, Len(got))
    <3>1. SubSeq(rest, 1, Len(got)) \in Seq(Nat) /\ Len(SubSeq(rest, 1, Len(got))) = Len(got)
      BY <2>2, <2>6, <2>7
    <3>2. \A i \in 1..Len(got) : SubSeq(rest, 1, Len(got))[i] = rest[i]
      BY <2>2, <2>6, <2>7
    <3> QED  BY <2>2, <2>8, <3>1, <3>2
  <2> QED  BY <2>1, <2>7, <2>9 DEF rest, got, log, r
<1> QED  BY <1>1, Invariance, PTL

\* validate_bearer_token: a token that Keycloak would accept is called invalid only if
\* what its certs endpoint answered last was no key set.
THEOREM GoodTokensStayUnblamed == Spec => []GoodTokensAreNotBlamed
<1>1. Inv => GoodTokensAreNotBlamed
  BY DEF Inv, Sound, Answered, GoodTokensAreNotBlamed
<1> QED  BY <1>1, Invariance, PTL

=============================================================================
