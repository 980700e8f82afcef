------------------------ MODULE InstanceAccessProofs ------------------------
(***************************************************************************)
(* Proofs about InstanceAccess, for any users, requests and session        *)
(* lifetime.                                                               *)
(***************************************************************************)
EXTENDS InstanceAccess, TLAPS

\* Where a request stands and what it holds: a request at rest holds nothing, one
\* that waits has given no answer, and the one that claims has had all its legs.
RequestInv ==
  \A r \in Requests :
    /\ at[r] = "idle" => got[r] = {} /\ s3[r] = None
    /\ at[r] # "idle" => given[r] = None
    /\ s3[r] # None => s3[r].subject = subject[r]
    /\ "s3" \in got[r] => s3[r] # None
    /\ kind[r] = "buckets" /\ at[r] # "idle" => subject[r] # None
    /\ at[r] = "claiming" => loop = r /\ got[r] = Legs(kind[r]) /\ subject[r] # None

\* Only the user in the state file has been served since it was last lost, and
\* nobody while it is being claimed.
OwnersInv ==
  /\ owners \subseteq {binding}
  /\ \A r \in Requests : at[r] = "claiming" => owners = {}

Inv == TypeOK /\ RequestInv /\ OwnersInv /\ SessionsOwned

\* An entry of the session table and what is looked up in it.
LEMMA SessionTypes ==
  ASSUME TypeOK, SessionsOwned, NEW s \in Subjects, NEW c \in Credentials
  PROVE  /\ Session(s) \in Credentials \cup {None}
         /\ Session(s) # None => Session(s).subject = s /\ s \in served
         /\ Looked(s) \in [Subjects -> [credentials : Credentials, expires_at : Nat] \cup {None}]
         /\ \A u \in Subjects : Looked(s)[u] # None => Looked(s)[u] = sessions[u]
         /\ Stored(s, c) \in [Subjects -> [credentials : Credentials, expires_at : Nat] \cup {None}]
         /\ \A u \in Subjects \ {s} : Stored(s, c)[u] # None => Stored(s, c)[u] = sessions[u]
         /\ Stored(s, c)[s].credentials = c
  BY ConstantsAssumption DEF TypeOK, SessionsOwned, Session, Looked, Stored, Live

THEOREM InitInv == Init => Inv
  BY ConstantsAssumption
  DEF Init, Inv, Outcomes, TypeOK, RequestInv, OwnersInv, SessionsOwned, Kinds

\* What serving a request whose legs are answered does to the invariant; the
\* actions that serve say what they do to the binding and the loop.
LEMMA ServeKeeps ==
  ASSUME Inv, NEW r \in Requests, Serve(r), at[r] # "idle", got[r] = Legs(kind[r]),
         kind[r] = "buckets" => subject[r] # None,
         now' = now, binding' \in Subjects \cup {None, Malformed}, loop' = None,
         loop \in {r, None},
         subject[r] \in {binding', None}, owners \subseteq {binding'}
  PROVE  Inv'
  <1> DEFINE s == subject[r]
  <1> USE DEF Outcomes
  <1>1. s \in Subjects \cup {None}
    BY DEF Inv, TypeOK
  <1>2. /\ at' = [at EXCEPT ![r] = "idle"] /\ got' = [got EXCEPT ![r] = {}]
        /\ s3' = [s3 EXCEPT ![r] = None] /\ kind' = kind /\ subject' = subject
        /\ owners' = owners \cup ({s} \ {None}) /\ served' = served \cup ({s} \ {None})
    BY DEF Serve, ServePassword, ServeRefresh, ServeBuckets, Finish
  <1>3. RequestInv'
    <2>1. \A q \in Requests \ {r} : given'[q] = given[q]
      BY DEF Serve, ServePassword, ServeRefresh, ServeBuckets, Inv, TypeOK
    <2> QED
      BY <1>2, <2>1, ConstantsAssumption DEF Inv, TypeOK, RequestInv
  <1>4. OwnersInv'
    BY <1>2, ConstantsAssumption DEF Inv, TypeOK, RequestInv, OwnersInv
  <1>5. CASE kind[r] = "password"
    <2>1. s3[r] # None /\ s3[r] \in Credentials /\ s3[r].subject = s
      BY <1>5 DEF Inv, TypeOK, RequestInv, Legs
    <2>2. /\ reply' = [reply EXCEPT ![r] = "ok"] /\ given' = [given EXCEPT ![r] = s3[r]]
          /\ sessions' = IF s = None THEN sessions ELSE Stored(s, s3[r])
      BY <1>5 DEF Serve, ServePassword, ServeRefresh, ServeBuckets, Finish
    <2>3. TypeOK'
      BY <1>1, <1>2, <2>1, <2>2, SessionTypes DEF Inv, TypeOK
    <2>4. SessionsOwned'
      <3>1. ASSUME NEW u \in Subjects, sessions'[u] # None
            PROVE  u \in served' /\ sessions'[u].credentials.subject = u
        BY <1>1, <1>2, <2>1, <2>2, <3>1, SessionTypes DEF Inv, TypeOK, SessionsOwned
      <3>2. ASSUME NEW q \in Requests, at'[q] = "idle", given'[q] # None
            PROVE  reply'[q] = "ok" /\ given'[q].subject = subject'[q]
        BY <1>2, <2>1, <2>2, <3>2 DEF Inv, TypeOK, SessionsOwned
      <3> QED
        BY <3>1, <3>2 DEF SessionsOwned
    <2> QED
      BY <1>3, <1>4, <2>3, <2>4 DEF Inv
  <1>6. CASE kind[r] = "refresh"
    <2>1. reply' = [reply EXCEPT ![r] = "ok"] /\ given' = given /\ sessions' = sessions
      BY <1>6 DEF Serve, ServePassword, ServeRefresh, ServeBuckets, Finish
    <2>2. TypeOK'
      BY <1>1, <1>2, <2>1, ConstantsAssumption DEF Inv, TypeOK
    <2>3. SessionsOwned'
      BY <1>2, <2>1 DEF Inv, TypeOK, RequestInv, SessionsOwned
    <2> QED
      BY <1>3, <1>4, <2>2, <2>3 DEF Inv
  <1>7. CASE kind[r] = "buckets"
    <2>1. s \in Subjects
      BY <1>1, <1>7
    <2>2. /\ reply' = [reply EXCEPT ![r] = IF Session(s) = None THEN "s3_session_missing" ELSE "ok"]
          /\ given' = [given EXCEPT ![r] = Session(s)]
          /\ sessions' = Looked(s)
      BY <1>7 DEF Serve, ServePassword, ServeRefresh, ServeBuckets, Finish
    <2>3. /\ Session(s) \in Credentials \cup {None}
          /\ Session(s) # None => Session(s).subject = s
          /\ Looked(s) \in [Subjects -> [credentials : Credentials, expires_at : Nat] \cup {None}]
          /\ \A u \in Subjects : Looked(s)[u] # None => Looked(s)[u] = sessions[u]
      BY <2>1, SessionTypes, [subject |-> s, until |-> 0] \in Credentials DEF Inv, Credentials
    <2>4. TypeOK'
      BY <1>1, <1>2, <2>2, <2>3 DEF Inv, TypeOK
    <2>5. SessionsOwned'
      BY <1>2, <2>2, <2>3 DEF Inv, TypeOK, SessionsOwned
    <2> QED
      BY <1>3, <1>4, <2>4, <2>5 DEF Inv
  <1> QED
    BY <1>5, <1>6, <1>7 DEF Inv, TypeOK, Kinds

\* Every step keeps the invariant.
LEMMA NextInv == Inv /\ [Next]_vars => Inv'
  <1> SUFFICES ASSUME Inv, [Next]_vars PROVE Inv'
    OBVIOUS
  <1> USE ConstantsAssumption DEF Outcomes
  <1>1. ASSUME NEW r \in Requests, NEW k \in Kinds, NEW s \in Subjects \cup {None}, Arrive(r, k, s)
        PROVE  Inv'
    BY <1>1 DEF Arrive, Inv, TypeOK, RequestInv, OwnersInv, SessionsOwned
  <1>2. ASSUME NEW r \in Requests, Issue(r)
        PROVE  Inv'
    <2>1. [subject |-> subject[r], until |-> now + Lifetime] \in Credentials
      BY DEF Inv, TypeOK, Credentials
    <2>2. TypeOK'
      BY <1>2, <2>1 DEF Issue, Inv, TypeOK, answer
    <2>3. RequestInv'
      BY <1>2 DEF Issue, Inv, TypeOK, RequestInv, answer
    <2>4. OwnersInv' /\ SessionsOwned'
      BY <1>2 DEF Issue, Inv, OwnersInv, SessionsOwned, answer
    <2> QED
      BY <2>2, <2>3, <2>4 DEF Inv
  <1>3. ASSUME NEW r \in Requests, NEW leg \in {"token", "s3"}, Answered(r, leg)
        PROVE  Inv'
    BY <1>3 DEF Answered, Inv, TypeOK, RequestInv, OwnersInv, SessionsOwned, answer
  <1>4. ASSUME NEW r \in Requests, LegFails(r)
        PROVE  Inv'
    BY <1>4 DEF LegFails, Finish, Inv, TypeOK, RequestInv, OwnersInv, SessionsOwned
  <1>5. ASSUME NEW r \in Requests, Pass(r)
        PROVE  Inv'
    <2>1. kind[r] = "buckets" => subject[r] # None
      BY <1>5 DEF Pass, Ready, Inv, RequestInv
    <2> QED
      BY <1>5, <2>1, ServeKeeps DEF Pass, Ready, Inv, TypeOK, OwnersInv
  <1>6. ASSUME NEW r \in Requests, Reject(r)
        PROVE  Inv'
    BY <1>6 DEF Reject, Ready, Finish, Inv, TypeOK, RequestInv, OwnersInv, SessionsOwned
  <1>7. ASSUME NEW r \in Requests, StartClaim(r)
        PROVE  Inv'
    BY <1>7 DEF StartClaim, TakeLoop, Ready, Inv, TypeOK, RequestInv, OwnersInv, SessionsOwned, answer
  <1>8. ASSUME NEW r \in Requests, Misread(r)
        PROVE  Inv'
    BY <1>8 DEF Misread, TakeLoop, Ready, Inv, TypeOK, RequestInv, OwnersInv, SessionsOwned, answer
  <1>9. ASSUME NEW r \in Requests, Claim(r)
        PROVE  Inv'
    BY <1>9, ServeKeeps DEF Claim, Inv, TypeOK, RequestInv, OwnersInv
  <1>10. ASSUME NEW r \in Requests, ClaimFails(r)
         PROVE  Inv'
    BY <1>10 DEF ClaimFails, Finish, Inv, TypeOK, RequestInv, OwnersInv, SessionsOwned
  <1>11. CASE Restart
    BY <1>11 DEF Restart, Inv, TypeOK, RequestInv, OwnersInv, SessionsOwned
  <1>12. ASSUME NEW remains \in {None, Malformed}, Lose(remains)
         PROVE  Inv'
    BY <1>12 DEF Lose, Inv, TypeOK, RequestInv, OwnersInv, SessionsOwned, request, answer
  <1>13. CASE Tick
    BY <1>13 DEF Tick, Inv, TypeOK, RequestInv, OwnersInv, SessionsOwned, request, answer
  <1>14. CASE UNCHANGED vars
    BY <1>14 DEF vars, Inv, TypeOK, RequestInv, OwnersInv, SessionsOwned, request, answer
  <1> QED
    BY <1>1, <1>2, <1>3, <1>4, <1>5, <1>6, <1>7, <1>8, <1>9, <1>10, <1>11, <1>12,
       <1>13, <1>14 DEF Next

\* The invariant holds throughout.
THEOREM Invariance == Spec => []Inv
  BY InitInv, NextInv, PTL DEF Spec

\* Every variable keeps its type.
THEOREM TypeCorrect == Spec => []TypeOK
  BY Invariance, PTL DEF Inv

\* The first login locks the instance to its user: as long as the state file is
\* not lost, nobody else is served, however many users and requests there are.
THEOREM OwnerIsOne == Spec => []OneOwner
  <1>1. Inv => OneOwner
    BY DEF Inv, OwnersInv, OneOwner
  <1> QED
    BY <1>1, Invariance, PTL

\* S3 sessions are registered for users that were served, under their own names,
\* and given to nobody else.
THEOREM SessionsStayOwned == Spec => []SessionsOwned
  BY Invariance, PTL DEF Inv

\* The user the instance is bound to is never told that it is bound to another.
THEOREM OwnerIsServed == Spec => OwnerNeverRejected
  <1>1. ASSUME Inv, [Next]_vars, NEW r \in Requests,
               at[r] # "idle", at'[r] = "idle", reply'[r] = "instance_bound"
        PROVE  subject[r] \notin owners
    <2> USE ConstantsAssumption
    <2> USE DEF Inv, TypeOK, Outcomes
    <2>1. ASSUME NEW q \in Requests, Serve(q)
          PROVE  FALSE
      BY <1>1, <2>1 DEF Serve, ServePassword, ServeRefresh, ServeBuckets, Finish
    <2>2. ASSUME NEW q \in Requests, at' = [at EXCEPT ![q] = "claiming"]
          PROVE  FALSE
      BY <1>1, <2>2
    <2>3. ASSUME NEW q \in Requests, Finish(q, "failed")
          PROVE  FALSE
      BY <1>1, <2>3 DEF Finish
    <2>4. ASSUME NEW q \in Requests, Reject(q)
          PROVE  subject[r] \notin owners
      <3>1. at' = [at EXCEPT ![q] = "idle"]
        BY <2>4 DEF Reject, Finish
      <3>2. q = r
        BY <1>1, <3>1
      <3> QED
        BY <1>1, <2>4, <3>2 DEF Reject, OwnersInv
    <2>5. at' # at
      BY <1>1
    <2>6. ASSUME NEW q \in Requests, NEW k \in Kinds, NEW s \in Subjects \cup {None}, Arrive(q, k, s)
          PROVE  FALSE
      BY <1>1, <2>6 DEF Arrive
    <2> QED
      BY <1>1, <2>1, <2>2, <2>3, <2>4, <2>5, <2>6
      DEF Next, Issue, Answered, LegFails, Pass, StartClaim, Misread, TakeLoop, Claim,
          ClaimFails, Restart, Lose, Tick, vars, request
  <1>2. Inv /\ [Next]_vars =>
          [\A r \in Requests :
             at[r] # "idle" /\ at'[r] = "idle" /\ reply'[r] = "instance_bound"
               => subject[r] \notin owners]_vars
    BY <1>1
  <1> QED
    BY <1>2, Invariance, PTL DEF Spec, OwnerNeverRejected

\* Whoever is served has the state file to his name.
THEOREM ServedAreBound == Spec => ServesTheBound
  <1>1. ASSUME Inv, [Next]_vars, NEW s \in served' \ served
        PROVE  binding' = s
    BY <1>1, ConstantsAssumption
    DEF Next, Arrive, Issue, Answered, LegFails, Pass, Reject, StartClaim, Misread, TakeLoop, Claim,
        ClaimFails, Restart, Lose, Tick, vars, request, answer, Serve
  <1>2. Inv /\ [Next]_vars => [\A s \in served' \ served : binding' = s]_vars
    BY <1>1
  <1> QED
    BY <1>2, Invariance, PTL DEF Spec, ServesTheBound

\* InstanceIsOwned holds in every instance: one owner, and sessions of their users.
THEOREM InstanceStaysOwned == Spec => []InstanceIsOwned
  BY OwnerIsOne, SessionsStayOwned, PTL DEF InstanceIsOwned

\* OnlyOwnerServed holds in every instance: the bound user is served, and only he.
THEOREM OnlyOwnerIsServed == Spec => OnlyOwnerServed
  BY OwnerIsServed, ServedAreBound DEF OnlyOwnerServed

=============================================================================
