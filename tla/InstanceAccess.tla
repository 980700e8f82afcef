--------------------------- MODULE InstanceAccess ---------------------------
(***************************************************************************)
(* Who may use an instance of EPT, and with which S3 session: the owner    *)
(* binding (ept/api/owner_binding.py), the requests that check it          *)
(* (ept/api/auth.py, ept/api/dependencies.py) and the cache of S3 sessions *)
(* (ept/infrastructure/services/edito_auth.py).                            *)
(*                                                                         *)
(* The handlers run on one event loop and interleave where they wait for   *)
(* Keycloak, the STS or a thread.  check_owner does not wait: while it     *)
(* claims the instance, no other handler runs, but the service may stop    *)
(* and the operator may touch the state file.                              *)
(***************************************************************************)
EXTENDS Integers

Outcomes == {"ok", "failed", "instance_bound", "s3_session_missing"}

CONSTANTS
  Subjects,   \* EDITO users
  Requests,   \* slots for requests in flight
  None,       \* no subject, no session, no reply
  Malformed,  \* a state file that cannot be read
  Lifetime,   \* of an S3 session: S3_SESSION_DURATION_SECONDS, _S3_SESSION_TTL_SECONDS
  MaxTime     \* bound on the clock, for TLC

ASSUME ConstantsAssumption ==
  /\ None \notin Subjects /\ Malformed \notin Subjects /\ None # Malformed
  /\ None \notin Requests \cup Outcomes
  /\ Lifetime \in Nat /\ MaxTime \in Nat

\* A password grant, a refresh grant, and GET /v1/storage/s3/buckets with a
\* bearer token and no credentials of its own.
Kinds == {"password", "refresh", "buckets"}

\* What a handler waits for before it checks the owner.
Legs(kind) == IF kind = "password" THEN {"token", "s3"} ELSE {"token"}

Credentials == [subject : Subjects \cup {None}, until : Nat]

VARIABLES
  now,       \* the monotonic clock
  binding,   \* the owner in the state file: a subject, None or Malformed
  loop,      \* the request whose check_owner is about to write the file, or None
  sessions,  \* _s3_sessions
  kind,      \* of each request
  subject,   \* in its token
  at,        \* where it is
  got,       \* the legs that have been answered
  s3,        \* the session the STS has issued for it
  reply,     \* its answer
  given,     \* the S3 credentials in its answer, or used for it
  owners,    \* history: who was served since the state file was last lost
  served     \* history: who was served since the service started

request == <<kind, subject, at, got, s3>>
answer  == <<reply, given>>
vars    == <<now, binding, loop, sessions, request, answer, owners, served>>

Init ==
  /\ now = 0
  /\ binding \in Subjects \cup {None, Malformed}
  /\ loop = None
  /\ sessions = [s \in Subjects |-> None]
  /\ kind = [r \in Requests |-> "buckets"]
  /\ subject = [r \in Requests |-> None]
  /\ at = [r \in Requests |-> "idle"]
  /\ got = [r \in Requests |-> {}]
  /\ s3 = [r \in Requests |-> None]
  /\ reply = [r \in Requests |-> None]
  /\ given = [r \in Requests |-> None]
  /\ owners = {}
  /\ served = {}

-----------------------------------------------------------------------------
(* Waiting for Keycloak, the STS and the validation of bearer tokens       *)

\* A request arrives.  A validated bearer token has a subject; the token
\* Keycloak answers a grant with may be unreadable.
Arrive(r, k, s) ==
  /\ at[r] = "idle" /\ loop = None
  /\ k = "buckets" => s # None
  /\ kind' = [kind EXCEPT ![r] = k]
  /\ subject' = [subject EXCEPT ![r] = s]
  /\ at' = [at EXCEPT ![r] = "waiting"]
  /\ reply' = [reply EXCEPT ![r] = None]
  /\ given' = [given EXCEPT ![r] = None]
  /\ UNCHANGED <<now, binding, loop, sessions, got, s3, owners, served>>

\* The STS issues a session, while its answer is still on the way.
Issue(r) ==
  /\ at[r] = "waiting" /\ kind[r] = "password" /\ s3[r] = None
  /\ s3' = [s3 EXCEPT ![r] = [subject |-> subject[r], until |-> now + Lifetime]]
  /\ UNCHANGED <<now, binding, loop, sessions, kind, subject, at, got, answer, owners, served>>

\* A leg is answered; the two of a password grant in either order.
Answered(r, leg) ==
  /\ at[r] = "waiting"
  /\ leg \in Legs(kind[r]) \ got[r]
  /\ leg = "s3" => s3[r] # None
  /\ got' = [got EXCEPT ![r] = @ \cup {leg}]
  /\ UNCHANGED <<now, binding, loop, sessions, kind, subject, at, s3, answer, owners, served>>

\* The handler returns, and forgets what it has got.
Finish(r, outcome) ==
  /\ at' = [at EXCEPT ![r] = "idle"]
  /\ reply' = [reply EXCEPT ![r] = outcome]
  /\ got' = [got EXCEPT ![r] = {}]
  /\ s3' = [s3 EXCEPT ![r] = None]
  /\ UNCHANGED <<kind, subject>>

\* A leg fails: 401 or 503.  The other leg goes on, for nobody.
LegFails(r) ==
  /\ at[r] = "waiting" /\ loop = None
  /\ got[r] # Legs(kind[r])
  /\ Finish(r, "failed")
  /\ UNCHANGED <<now, binding, loop, sessions, given, owners, served>>

-----------------------------------------------------------------------------
(* The S3 sessions                                                         *)

Live(s) == sessions[s] # None /\ now <= sessions[s].expires_at

\* Mutant: the entry, not what it holds.
SessionEntry(s) == IF Live(s) THEN sessions[s] ELSE None

Session(s) == IF Live(s) THEN sessions[s].credentials ELSE None

\* store_s3_session also forgets every expired session.
Stored(s, credentials) ==
  [u \in Subjects |->
     IF u = s THEN [credentials |-> credentials, expires_at |-> now + Lifetime]
     ELSE IF Live(u) THEN sessions[u] ELSE None]

\* get_s3_session forgets the one it finds expired.
Looked(s) == [sessions EXCEPT ![s] = IF Live(s) THEN @ ELSE None]

-----------------------------------------------------------------------------
(* The owner                                                               *)

Ready(r) == at[r] = "waiting" /\ got[r] = Legs(kind[r]) /\ loop = None

\* A password grant answers with the S3 session and registers it; without a
\* subject there is no name to register it under.
ServePassword(r) ==
  /\ kind[r] = "password"
  /\ Finish(r, "ok")
  /\ given' = [given EXCEPT ![r] = s3[r]]
  /\ sessions' = IF subject[r] = None THEN sessions ELSE Stored(subject[r], s3[r])

ServeRefresh(r) ==
  /\ kind[r] = "refresh"
  /\ Finish(r, "ok")
  /\ UNCHANGED <<given, sessions>>

ServeBuckets(r) ==
  /\ kind[r] = "buckets"
  /\ Finish(r, IF Session(subject[r]) = None THEN "s3_session_missing" ELSE "ok")
  /\ given' = [given EXCEPT ![r] = Session(subject[r])]
  /\ sessions' = Looked(subject[r])

\* What follows the check of a request that may go on.
Serve(r) ==
  /\ ServePassword(r) \/ ServeRefresh(r) \/ ServeBuckets(r)
  /\ owners' = owners \cup ({subject[r]} \ {None})
  /\ served' = served \cup ({subject[r]} \ {None})

\* The owner, and whoever's token is unreadable.
Pass(r) ==
  /\ Ready(r)
  /\ subject[r] \in {binding, None}
  /\ Serve(r)
  /\ UNCHANGED <<now, binding, loop>>

\* Anybody else: 403.
Reject(r) ==
  /\ Ready(r)
  /\ subject[r] # None
  /\ binding \in Subjects \ {subject[r]}
  /\ Finish(r, "instance_bound")
  /\ UNCHANGED <<now, binding, loop, sessions, given, owners, served>>

\* Mutant: the file is written in a thread, and other handlers run meanwhile.
TakeLoopAsync(r) ==
  /\ at' = [at EXCEPT ![r] = "claiming"]
  /\ UNCHANGED <<now, binding, loop, sessions, kind, subject, got, s3, answer, served>>

\* The new binding is in a temporary file; the loop is busy with it.
TakeLoop(r) ==
  /\ at' = [at EXCEPT ![r] = "claiming"]
  /\ loop' = r
  /\ UNCHANGED <<now, binding, sessions, kind, subject, got, s3, answer, served>>

\* An unclaimed instance, or one with a malformed state file.
StartClaim(r) ==
  /\ Ready(r)
  /\ subject[r] # None
  /\ binding \notin Subjects
  /\ TakeLoop(r)
  /\ UNCHANGED owners

\* A state file that cannot be read counts as lost, whatever is in it.
Misread(r) ==
  /\ Ready(r)
  /\ subject[r] # None
  /\ TakeLoop(r)
  /\ owners' = {}

\* The temporary file takes the place of the state file.
Claim(r) ==
  /\ at[r] = "claiming"
  /\ binding' = subject[r]
  /\ loop' = None
  /\ Serve(r)
  /\ UNCHANGED now

\* Mutant: an instance that cannot be claimed serves all the same.
ClaimFailsOpen(r) ==
  /\ at[r] = "claiming"
  /\ loop' = None
  /\ Serve(r)
  /\ UNCHANGED <<now, binding>>

\* Writing fails: 500.
ClaimFails(r) ==
  /\ at[r] = "claiming"
  /\ loop' = None
  /\ Finish(r, "failed")
  /\ UNCHANGED <<now, binding, sessions, given, owners, served>>

-----------------------------------------------------------------------------
(* The service and its operator                                            *)

\* The service stops and starts: the state file stays, all else is forgotten.
Restart ==
  /\ loop' = None
  /\ sessions' = [s \in Subjects |-> None]
  /\ at' = [r \in Requests |-> "idle"]
  /\ got' = [r \in Requests |-> {}]
  /\ s3' = [r \in Requests |-> None]
  /\ reply' = [r \in Requests |-> None]
  /\ given' = [r \in Requests |-> None]
  /\ served' = {}
  /\ UNCHANGED <<now, binding, kind, subject, owners>>

\* The operator deletes the state file, or a volume loses or damages it.
Lose(remains) ==
  /\ binding' = remains
  /\ owners' = {}
  /\ UNCHANGED <<now, loop, sessions, request, answer, served>>

Tick ==
  /\ now < MaxTime
  /\ now' = now + 1
  /\ UNCHANGED <<binding, loop, sessions, request, answer, owners, served>>

Next ==
  \/ \E r \in Requests :
       \/ \E k \in Kinds, s \in Subjects \cup {None} : Arrive(r, k, s)
       \/ Issue(r)
       \/ \E leg \in {"token", "s3"} : Answered(r, leg)
       \/ LegFails(r)
       \/ Pass(r) \/ Reject(r) \/ StartClaim(r) \/ Misread(r) \/ Claim(r) \/ ClaimFails(r)
  \/ Restart
  \/ \E remains \in {None, Malformed} : Lose(remains)
  \/ Tick

Spec == Init /\ [][Next]_vars

-----------------------------------------------------------------------------
(* Properties                                                              *)

TypeOK ==
  /\ now \in Nat
  /\ binding \in Subjects \cup {None, Malformed}
  /\ loop \in Requests \cup {None}
  /\ sessions \in [Subjects -> [credentials : Credentials, expires_at : Nat] \cup {None}]
  /\ kind \in [Requests -> Kinds]
  /\ subject \in [Requests -> Subjects \cup {None}]
  /\ at \in [Requests -> {"idle", "waiting", "claiming"}]
  /\ got \in [Requests -> SUBSET {"token", "s3"}]
  /\ s3 \in [Requests -> Credentials \cup {None}]
  /\ reply \in [Requests -> Outcomes \cup {None}]
  /\ given \in [Requests -> Credentials \cup {None}]
  /\ owners \subseteq Subjects
  /\ served \subseteq Subjects

\* owner_binding.py: "the first login locks the deployment to that user".  As
\* long as the state file is not lost, the instance serves one user, over all
\* restarts, however the first requests of several users race.
OneOwner == \A s, u \in owners : s = u

\* Nobody is told that the instance is bound to another user when it has served
\* him since the state file was last lost.
OwnerNeverRejected ==
  [][\A r \in Requests :
       at[r] # "idle" /\ at'[r] = "idle" /\ reply'[r] = "instance_bound"
         => subject[r] \notin owners]_vars

\* Whoever is served by name has the state file to his name at that moment: an
\* instance whose claim could not be written serves nobody.
ServesTheBound ==
  [][\A s \in served' \ served : binding' = s]_vars

\* There is an S3 session only of users that were served since the service has
\* started, each under his own name; a rejected login leaves none behind, and
\* nobody is given another's.
SessionsOwned ==
  /\ \A s \in Subjects : sessions[s] # None =>
       s \in served /\ sessions[s].credentials.subject = s
  /\ \A r \in Requests : at[r] = "idle" /\ given[r] # None =>
       reply[r] = "ok" /\ given[r].subject = subject[r]

\* The instance and the sessions in it belong to the users they were given to.
InstanceIsOwned == OneOwner /\ SessionsOwned

\* check_owner serves the user it has bound the instance to, and him only.
OnlyOwnerServed == OwnerNeverRejected /\ ServesTheBound

=============================================================================
