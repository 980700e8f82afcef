---------------------------- MODULE ThrottledRead ----------------------------
(***************************************************************************)
(* How one STAC document is read (read_stac and fetch_stac_objects of      *)
(* ept/infrastructure/formats/stac/read.py, urlguard.py): every URL of a   *)
(* traversal is read once, in one of the slots the reads of the traversal  *)
(* share.  A read asks up to a number of times, sleeping in between, and   *)
(* each time follows redirects one by one, having looked at each of their  *)
(* targets.  Servers, DNS and the network answer as they like.             *)
(*                                                                         *)
(* One step is one stretch of the event loop between two awaits.           *)
(***************************************************************************)
EXTENDS Integers, FiniteSets

CONSTANTS
  Nil,
  Reads,      \* the reads of one traversal
  Attempts,   \* of each: _MAX_FETCH_ATTEMPTS, or ROOT_FETCH_ATTEMPTS
  Slots,      \* max_concurrency
  Targets,    \* what is read, and what is redirected to
  Host,       \* the host and port of each
  Wellformed, \* the ones with a scheme, a host and no credentials that will do
  Literal,    \* the ones whose host is an address, a public one if it is wellformed
  MaxHops,    \* _MAX_REDIRECT_HOPS
  MaxWait,    \* _MAX_RETRY_WAIT
  Retries     \* the Retry-After headers that servers send, in seconds

\* What comes of a read.
Results == {"document", "nonsense", "refused", "unsafe", "redirects", "busy", "unreachable"}

ASSUME ReadAssumption ==
  /\ Attempts \in [Reads -> Nat \ {0}]
  /\ IsFiniteSet(Reads) /\ Slots \in Nat \ {0}
  /\ Wellformed \subseteq Targets /\ Literal \subseteq Targets /\ DOMAIN Host = Targets
  /\ MaxHops \in Nat /\ MaxWait \in Nat /\ Retries \subseteq Nat
  /\ Nil \notin Nat /\ Nil \notin Results

VARIABLES
  at,      \* idle, looking at a URL, asking for it, sleeping, or done
  url,     \* what is read
  target,  \* next_url, the hop that is next
  attempt, hop,
  left,    \* what is left of the sleep
  result,  \* the document, or why there is none
  gets,    \* history: the GETs of a read
  rest     \* history: how much longer the server is to be left alone

readVars == <<at, url, target, attempt, hop, left, result, gets, rest>>

ReadInit ==
  /\ at = [r \in Reads |-> "idle"]
  /\ url \in [Reads -> Targets] /\ target = url
  /\ attempt = [r \in Reads |-> 0] /\ hop = [r \in Reads |-> 0]
  /\ left = [r \in Reads |-> 0] /\ result = [r \in Reads |-> Nil]
  /\ gets = [r \in Reads |-> 0] /\ rest = [r \in Reads |-> 0]

-----------------------------------------------------------------------------

\* Mutant: a failing read keeps its slot.
InsideStill == {r \in Reads : at[r] \in {"looking", "asking", "sleeping"} \/ result[r] \notin {Nil, "document"}}

\* The reads that hold a slot.
Inside == {r \in Reads : at[r] \in {"looking", "asking", "sleeping"}}

\* async with semaphore
Enter(r) ==
  /\ at[r] = "idle" /\ Cardinality(Inside) < Slots
  /\ at' = [at EXCEPT ![r] = "looking"]
  /\ UNCHANGED <<url, target, attempt, hop, left, result, gets, rest>>

\* The read is over, and its slot is free.
End(r, how) ==
  /\ at' = [at EXCEPT ![r] = "done"]
  /\ result' = [result EXCEPT ![r] = how]
  /\ UNCHANGED <<url, target, attempt, hop, left>>

\* same_http_host
same_http_host(u, v) == Host[u] = Host[v]

\* What DNS says of a host: all of its addresses are public, some are not, or it
\* does not know it.
Resolved(u) == IF u \in Literal THEN {"public"} ELSE {"public", "private", "unknown"}

\* public_http_url, and the comparison with the host that was meant.
Safe(r, addresses) ==
  target[r] \in Wellformed /\ addresses = "public" /\ same_http_host(url[r], target[r])

\* _guarded_get, up to its GET.  An unsafe URL ends the read; so does a host that DNS
\* does not know at that moment.
Look(r) ==
  /\ at[r] = "looking"
  /\ \E addresses \in Resolved(target[r]) :
       \/ /\ Safe(r, addresses)
          /\ at' = [at EXCEPT ![r] = "asking"]
          /\ gets' = [gets EXCEPT ![r] = @ + 1]
          /\ UNCHANGED <<url, target, attempt, hop, left, result, rest>>
       \/ ~Safe(r, addresses) /\ End(r, "unsafe") /\ UNCHANGED <<gets, rest>>

\* A redirect, up to MaxHops in one attempt.
Redirected(r) ==
  /\ at[r] = "asking"
  /\ \/ /\ hop[r] < MaxHops
        /\ \E u \in Targets : target' = [target EXCEPT ![r] = u]
        /\ hop' = [hop EXCEPT ![r] = @ + 1]
        /\ at' = [at EXCEPT ![r] = "looking"]
        /\ UNCHANGED <<url, attempt, left, result>>
     \/ hop[r] = MaxHops /\ End(r, "redirects")
  /\ UNCHANGED <<gets, rest>>

Smaller(m, n) == IF m < n THEN m ELSE n

\* Mutant: one attempt too many.
LastAttemptLate(r) == attempt[r] = Attempts[r]

LastAttempt(r) == attempt[r] = Attempts[r] - 1

\* Mutant: the header is not looked at.
WaitUntold(r, told) == Smaller(2 ^ attempt[r], MaxWait)

\* The server's wish, or 1, 2, 4 ... seconds.
Wait(r, told) == Smaller(IF told # Nil THEN told ELSE 2 ^ attempt[r], MaxWait)

\* 429 and 5xx, whose Retry-After may be absent or broken, and transport errors: they
\* are the end of the last attempt only.
Again(r, told) ==
  /\ ~LastAttempt(r)
  /\ at' = [at EXCEPT ![r] = "sleeping"]
  /\ left' = [left EXCEPT ![r] = Wait(r, told)]
  /\ UNCHANGED <<url, target, attempt, hop, result>>

Throttled(r) ==
  /\ at[r] = "asking"
  /\ \E told \in Retries \cup {Nil} :
       /\ Again(r, told) \/ (LastAttempt(r) /\ End(r, "busy"))
       /\ rest' = [rest EXCEPT ![r] = IF told = Nil THEN 0 ELSE Smaller(told, MaxWait)]
  /\ UNCHANGED gets

Unreachable(r) ==
  /\ at[r] = "asking"
  /\ Again(r, Nil) \/ (LastAttempt(r) /\ End(r, "unreachable"))
  /\ UNCHANGED <<gets, rest>>

\* Any other answer is final: a document, something that is no JSON, or an error, which
\* a redirect to nowhere is as well.
Answered(r) ==
  /\ at[r] = "asking"
  /\ \E how \in {"document", "nonsense", "refused"} : End(r, how)
  /\ UNCHANGED <<gets, rest>>

\* The next attempt starts from the URL that is read.
Wake(r) ==
  /\ at[r] = "sleeping" /\ left[r] = 0
  /\ at' = [at EXCEPT ![r] = "looking"]
  /\ attempt' = [attempt EXCEPT ![r] = @ + 1]
  /\ hop' = [hop EXCEPT ![r] = 0]
  /\ target' = [target EXCEPT ![r] = url[r]]
  /\ UNCHANGED <<url, left, result, gets, rest>>

Less(n) == IF n > 0 THEN n - 1 ELSE 0

\* A second passes.  Nothing looks at the time but the ones that sleep.
Tick ==
  /\ \E r \in Reads : left[r] > 0
  /\ left' = [r \in Reads |-> Less(left[r])]
  /\ rest' = [r \in Reads |-> Less(rest[r])]
  /\ UNCHANGED <<at, url, target, attempt, hop, result, gets>>

Step(r) ==
  \/ Enter(r) \/ Look(r) \/ Redirected(r) \/ Throttled(r) \/ Unreachable(r) \/ Answered(r) \/ Wake(r)

ReadNext == Tick \/ \E r \in Reads : Step(r)

\* DNS and every GET end, by their timeouts at the latest, and timers fire.
ReadSpec == ReadInit /\ [][ReadNext]_readVars /\ WF_readVars(Tick) /\ \A r \in Reads : WF_readVars(Step(r))

-----------------------------------------------------------------------------
(* Properties                                                              *)

\* The kinds of things, and their bounds.
ReadTypeOK ==
  /\ at \in [Reads -> {"idle", "looking", "asking", "sleeping", "done"}]
  /\ url \in [Reads -> Targets] /\ target \in [Reads -> Targets]
  /\ attempt \in [Reads -> Nat] /\ hop \in [Reads -> 0..MaxHops]
  /\ left \in [Reads -> 0..MaxWait] /\ rest \in [Reads -> 0..MaxWait]
  /\ result \in [Reads -> Results \cup {Nil}]
  /\ gets \in [Reads -> Nat]
  /\ \A r \in Reads : attempt[r] < Attempts[r]

\* read_stac, fetch_stac_objects: the reads that ask or sleep never outnumber the slots;
\* none asks more often than its attempts and their redirects allow; and a server that
\* names a time is left alone for as long, or for the longest wait.
ReadsAreModerate ==
  /\ Cardinality(Inside) <= Slots
  /\ \A r \in Reads : gets[r] <= Attempts[r] * (MaxHops + 1)
  /\ \A r \in Reads : at[r] = "asking" => rest[r] = 0

\* read_stac: what a GET is sent to, however many redirects and attempts led there, is
\* a wellformed URL of the host that is meant; and a throttled or unreachable server is
\* only given up when every attempt is used up.
ReadsAreGuarded ==
  \A r \in Reads :
    /\ at[r] = "asking" \/ result[r] = "document" =>
         target[r] \in Wellformed /\ same_http_host(url[r], target[r])
    /\ result[r] \in {"busy", "unreachable"} => gets[r] >= Attempts[r]

\* What a read asks for, how often, and when it gives up.
ReadsAreRight == ReadsAreModerate /\ ReadsAreGuarded

\* Every read ends and frees its slot, however the servers behave.
ReadsEnd == \A r \in Reads : <>(at[r] = "done")

=============================================================================
