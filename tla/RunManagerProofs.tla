-------------------------- MODULE RunManagerProofs --------------------------
(* Theorems about RunManager, for every value of its constants.            *)
EXTENDS RunManager, RankTheorems

(* The inductive invariant.  A run's task, its status, its call in the pool *)
(* and the request to stop it always fit together.                         *)
TaskInv(r) ==
  /\ phase[r] = "none" <=> r > n
  /\ phase[r] = "none" => status[r] = "queued"
  /\ phase[r] \in {"none", "ready"} => outcome[r] = "none" /\ job[r] = "none"
  /\ phase[r] = "none" => ~asked[r]
  /\ phase[r] = "ready" => status[r] = IF asked[r] THEN "cancelled" ELSE "queued"
  /\ phase[r] \in {"io", "thread", "woken"} => status[r] = "running"
  /\ phase[r] = "done" => status[r] \in Terminal
  /\ phase[r] = "thread" => ~asked[r] /\ job[r] \in {"queued", "busy"} /\ outcome[r] = "none"
  /\ asked[r] => status[r] # "succeeded"
  /\ asked[r] /\ phase[r] \in {"io", "woken"} =>
       wake[r] = "cancel" \/ outcome[r] = "cancelled"
  /\ wake[r] # "value" => phase[r] = "woken"
  /\ wake[r] = "cancel" => asked[r]
  /\ outcome[r] = "cancelled" => asked[r]
  /\ job[r] # "none" /\ phase[r] # "thread" => asked[r]
  /\ job[r] = "queued" /\ phase[r] # "thread" => phase[r] = "woken" /\ wake[r] = "cancel"
  /\ r <= n /\ r \notin runs => status[r] \in Terminal

DeleteInv == \A d \in Requests : deletes[d] # 0 =>
  /\ asked[deletes[d]]
  /\ phase[deletes[d]] # "ready"
  /\ owner[deletes[d]] = Caller[d]

QueueInv ==
  /\ \A i, j \in DOMAIN queue : queue[i] = queue[j] => i = j
  /\ \A i \in DOMAIN queue : job[queue[i]] \in {"queued", "dropped"}
  /\ \A r \in Runs : job[r] \in {"queued", "dropped"} => \E i \in DOMAIN queue : queue[i] = r

Busy == {r \in Runs : job[r] = "busy"}

Inv == /\ TypeOK
       /\ \A r \in Runs : TaskInv(r)
       /\ QueueInv
       /\ Cardinality(Busy) <= Workers
       /\ DeleteInv

-----------------------------------------------------------------------------
(* Type correctness                                                        *)

\* What the stretches of a runner change.
TaskTypes ==
  /\ status \in [Runs -> Statuses]
  /\ finished \in [Runs -> 0 .. now]
  /\ phase \in [Runs -> Phases]
  /\ todo \in [Runs -> Seq(Kinds)]
  /\ holds \in [Runs -> BOOLEAN]
  /\ outcome \in [Runs -> {"none"} \cup Terminal]
  /\ job \in [Runs -> Jobs]
  /\ queue \in Seq(Runs)

\* Every stretch of a runner keeps their types.
LEMMA AdvanceTypes ==
  ASSUME TypeOK, NEW r \in Runs, NEW got \in Wakes, Advance(r, got), now' = now
  PROVE  TaskTypes'
<1> USE DEF TypeOK, TaskTypes, Statuses, Terminal, Phases, Kinds, Jobs
<1>1. ASSUME NEW how \in Terminal, End(r, how), UNCHANGED pool
      PROVE  TaskTypes'
  BY <1>1 DEF End, Record, pool
<1>2. ASSUME NEW how \in Terminal, Leave(r, how)
      PROVE  TaskTypes'
  <2>1. job' \in [Runs -> Jobs] /\ queue' = queue
    BY <1>2 DEF Leave, DropCall
  <2>2. CASE holds[r]
    <3>1. /\ status' = [status EXCEPT ![r] = "running"]
          /\ phase' = [phase EXCEPT ![r] = "io"]
          /\ holds' = [holds EXCEPT ![r] = FALSE]
          /\ outcome' = [outcome EXCEPT ![r] = how]
          /\ todo' = [todo EXCEPT ![r] = <<>>]
          /\ finished' = finished
      BY <1>2, <2>2 DEF Leave
    <3> QED  BY <2>1, <3>1
  <2>3. CASE ~holds[r]
    <3>1. End(r, how)
      BY <1>2, <2>3 DEF Leave
    <3>2. status' \in [Runs -> Statuses] /\ finished' \in [Runs -> 0 .. now']
      BY <3>1 DEF End, Record
    <3>3. /\ phase' \in [Runs -> Phases]
          /\ todo' \in [Runs -> Seq(Kinds)]
          /\ holds' \in [Runs -> BOOLEAN]
          /\ outcome' \in [Runs -> {"none"} \cup Terminal]
      BY <3>1 DEF End
    <3> QED  BY <2>1, <3>2, <3>3
  <2> QED  BY <2>2, <2>3
<1>3. ASSUME Await(r) PROVE TaskTypes'
  <2>1. Head(todo[r]) \in Kinds /\ Tail(todo[r]) \in Seq(Kinds)
    BY <1>3 DEF Await
  <2>2. Append(queue, r) \in Seq(Runs)
    OBVIOUS
  <2>3. status' \in [Runs -> Statuses] /\ phase' \in [Runs -> Phases]
        /\ todo' \in [Runs -> Seq(Kinds)]
    BY <1>3, <2>1 DEF Await
  <2>4. job' \in [Runs -> Jobs] /\ queue' \in Seq(Runs)
    BY <1>3, <2>2 DEF Await, pool
  <2>5. UNCHANGED <<finished, holds, outcome>>
    BY <1>3 DEF Await
  <2> QED  BY <2>3, <2>4, <2>5
<1>4. outcome[r] # "none" => outcome[r] \in Terminal
  OBVIOUS
<1>5. {"cancelled", "succeeded", "failed"} \subseteq Terminal
  OBVIOUS
<1>6. CASE \E how \in Terminal : Leave(r, how)
  BY <1>2, <1>6
<1>7. CASE \E how \in Terminal : End(r, how) /\ UNCHANGED pool
  BY <1>1, <1>7
<1> HIDE DEF TypeOK, TaskTypes, Terminal
<1> QED
  BY <1>3, <1>4, <1>5, <1>6, <1>7 DEF Advance

LEMMA TypeStep == TypeOK /\ [Next]_vars => TypeOK'
<1> SUFFICES ASSUME TypeOK, [Next]_vars PROVE TypeOK'
  OBVIOUS
<1> USE DEF TypeOK, n
<1>0. Len(owner) \in Nat
  OBVIOUS
<1>1. ASSUME NEW o \in Owners, NEW op \in Operations, Submit(o, op)
      PROVE  TypeOK'
  <2>1. op.awaits \in Seq(Kinds) /\ op.cleanup \in BOOLEAN
    BY ConstantsAssumption
  <2>2. owner' \in Seq(Owners) /\ Len(owner') = Len(owner) + 1 /\ Len(owner) \in Nat
    BY <1>1 DEF Submit
  <2>3. Len(owner') <= MaxRuns
    BY <1>1, <2>2, ConstantsAssumption DEF Submit
  <2>4. runs' \subseteq 1 .. Len(owner')
    <3>1. runs' = (runs \ Pruned) \cup {Len(owner) + 1}
      BY <1>1 DEF Submit
    <3>2. runs \subseteq 1 .. Len(owner)
      OBVIOUS
    <3>3. 1 .. Len(owner) \subseteq 1 .. Len(owner') /\ Len(owner) + 1 \in 1 .. Len(owner')
      BY <2>2
    <3> QED  BY <3>1, <3>2, <3>3, Zenon
  <2>5. phase' \in [Runs -> Phases]
    BY <1>1 DEF Submit, Phases, Runs
  <2>6. todo' \in [Runs -> Seq(Kinds)] /\ holds' \in [Runs -> BOOLEAN]
    BY <1>1, <2>1 DEF Submit
  <2>7. deletes' \in [Requests -> 0 .. Len(owner')]
    BY <1>1, <2>2, 0 .. Len(owner) \subseteq 0 .. Len(owner') DEF Submit
  <2> QED  BY <1>1, <2>2, <2>3, <2>4, <2>5, <2>6, <2>7 DEF Submit, pool
<1>2. ASSUME NEW r \in Runs, Start(r) PROVE TypeOK'
  <2>1. TaskTypes'
    BY <1>2, AdvanceTypes DEF Start, Wakes
  <2> QED  BY <1>2, <2>1 DEF Start, TaskTypes
<1>3. ASSUME NEW r \in Runs, DropUnstarted(r) PROVE TypeOK'
  BY <1>3 DEF DropUnstarted, records, pool, Phases
<1>4. ASSUME NEW r \in Runs, Resume(r) PROVE TypeOK'
  <2>1. TaskTypes'
    BY <1>4, AdvanceTypes DEF Resume
  <2> QED  BY <1>4, <2>1 DEF Resume, TaskTypes, Wakes
<1>5. ASSUME NEW r \in Runs, FinishIO(r) PROVE TypeOK'
  BY <1>5 DEF FinishIO, Wake, records, pool, Phases, Wakes
<1>6. ASSUME NEW r \in Runs, FinishCall(r) PROVE TypeOK'
  BY <1>6 DEF FinishCall, Deliver, Wake, records, Phases, Wakes, Jobs
<1>7. ASSUME NEW d \in Requests, NEW r \in Runs, CancelQueued(d, r) PROVE TypeOK'
  <2>1. status' \in [Runs -> Statuses] /\ finished' \in [Runs -> 0 .. now]
    BY <1>7 DEF CancelQueued, Record, Statuses, Terminal
  <2> QED  BY <1>7, <2>1 DEF CancelQueued, pool
<1>8. ASSUME NEW d \in Requests, NEW r \in Runs, CancelRunning(d, r) PROVE TypeOK'
  <2>1. r \in 0 .. Len(owner)
    BY <1>8 DEF CancelRunning, Visible
  <2>2. phase' \in [Runs -> Phases] /\ wake' \in [Runs -> Wakes]
    BY <1>8 DEF CancelRunning, Interrupt, Wake, Phases, Wakes
  <2> QED  BY <1>8, <2>1, <2>2 DEF CancelRunning, records, pool
<1>9. ASSUME NEW d \in Requests, Acknowledge(d) \/ GiveUp(d) PROVE TypeOK'
  <2>1. UNCHANGED <<now, records, tasks, pool>> /\ deletes' = [deletes EXCEPT ![d] = 0]
    BY <1>9 DEF Acknowledge, GiveUp
  <2> QED  BY <1>0, <2>1 DEF records, tasks, pool
<1>10. ASSUME TakeCall PROVE TypeOK'
  <2>1. Head(queue) \in Runs /\ Tail(queue) \in Seq(Runs)
    BY <1>10 DEF TakeCall
  <2> QED  BY <1>10, <2>1 DEF TakeCall, records, tasks, Jobs
<1>11. ASSUME Tick PROVE TypeOK'
  <2>1. now' \in 1 .. MaxClock /\ 0 .. now \subseteq 0 .. now'
    BY <1>11, ConstantsAssumption DEF Tick
  <2>2. finished' \in [Runs -> 0 .. now']
    BY <1>11, <2>1 DEF Tick, records
  <2> QED  BY <1>11, <2>1, <2>2 DEF Tick, records, tasks, pool
<1>12. ASSUME UNCHANGED vars PROVE TypeOK'
  BY <1>12 DEF vars, records, tasks, pool
<1> HIDE DEF TypeOK
<1> QED  BY <1>1, <1>2, <1>3, <1>4, <1>5, <1>6, <1>7, <1>8, <1>9, <1>10, <1>11, <1>12
         DEF Next

LEMMA TypeInit == Init => TypeOK
BY ConstantsAssumption
   DEF Init, TypeOK, n, Runs, Statuses, Phases, Wakes, Jobs

\* TypeOK holds in every instance: the runs, tasks, queue and deletes of
\* manager.py keep their types through every step.
THEOREM TypeCorrect == Spec => []TypeOK
BY TypeInit, TypeStep, PTL DEF Spec

-----------------------------------------------------------------------------
(* The task, its status and its call fit together                          *)

\* One stretch of a runner keeps the invariant of every run.
LEMMA AdvanceInv ==
  ASSUME TypeOK, NEW r \in Runs, TaskInv(r), UNCHANGED <<owner, runs, asked>>,
         \/ phase[r] = "ready" /\ ~asked[r] /\ Advance(r, "value") /\ wake' = wake
         \/ /\ phase[r] = "woken" /\ Advance(r, wake[r])
            /\ wake' = [wake EXCEPT ![r] = "value"]
  PROVE  /\ TaskInv(r)'
         /\ \A s \in Runs \ {r} : TaskInv(s) => TaskInv(s)'
<1> DEFINE got == IF phase[r] = "ready" THEN "value" ELSE wake[r]
<1>1. /\ phase[r] \in {"ready", "woken"} /\ Advance(r, got)
      /\ wake' = [wake EXCEPT ![r] = "value"]
      /\ got \in Wakes
      /\ got = "cancel" => asked[r]
      /\ got # "cancel" => job[r] # "queued" /\ (asked[r] => outcome[r] = "cancelled")
      /\ ~asked[r] => job[r] = "none"
      /\ r \in runs
  <2>1. CASE phase[r] = "ready"
    <3>1. wake[r] = "value" /\ wake = [wake EXCEPT ![r] = wake[r]]
      BY <2>1 DEF TaskInv, TypeOK
    <3>2. r \in runs
      BY <2>1 DEF TaskInv, n, Terminal, TypeOK, Runs
    <3> QED  BY <2>1, <3>1, <3>2 DEF TaskInv, Wakes
  <2>2. CASE phase[r] # "ready"
    <3>1. phase[r] = "woken" /\ got = wake[r]
      BY <2>2
    <3>2. wake[r] \in Wakes
      BY DEF TypeOK
    <3>3. r \in runs
      BY <3>1 DEF TaskInv, n, Terminal, TypeOK, Runs
    <3> HIDE DEF got
    <3> QED  BY <2>2, <3>1, <3>2, <3>3 DEF TaskInv
  <2> QED  BY <2>1, <2>2
<1>2. /\ wake'[r] = "value" /\ asked' = asked /\ runs' = runs /\ Len(owner') = Len(owner)
      /\ ~(r > Len(owner))
      /\ \A s \in Runs \ {r} : wake'[s] = wake[s]
  BY <1>1 DEF TypeOK, TaskInv, n
<1> HIDE DEF got
<1>3. ASSUME NEW how \in Terminal, End(r, how), how = "succeeded" => ~asked[r],
             \/ job' = [job EXCEPT ![r] = IF @ = "queued" THEN "dropped" ELSE @]
             \/ got # "cancel" /\ job' = job
      PROVE  /\ TaskInv(r)'
             /\ \A s \in Runs \ {r} : TaskInv(s) => TaskInv(s)'
  <2>1. /\ phase'[r] = "done" /\ status'[r] = how /\ outcome'[r] = "none"
        /\ job'[r] # "queued" /\ (job'[r] # "none" => asked[r])
    BY <1>1, <1>3 DEF End, Record, TypeOK, TaskInv
  <2>2. \A s \in Runs \ {r} : /\ phase'[s] = phase[s] /\ status'[s] = status[s]
                               /\ outcome'[s] = outcome[s] /\ job'[s] = job[s]
    BY <1>3 DEF End, Record, TypeOK
  <2>3. TaskInv(r)'
    BY <1>1, <1>2, <1>3, <2>1 DEF TaskInv, n, Terminal
  <2>4. ASSUME NEW s \in Runs \ {r}, TaskInv(s) PROVE TaskInv(s)'
    BY <1>2, <2>2, <2>4 DEF TaskInv, n
  <2> QED  BY <2>3, <2>4
<1>4. ASSUME NEW how \in Terminal, Leave(r, how), how = "succeeded" => ~asked[r],
             asked[r] <=> how = "cancelled"
      PROVE  /\ TaskInv(r)'
             /\ \A s \in Runs \ {r} : TaskInv(s) => TaskInv(s)'
  <2>1. CASE ~holds[r]
    BY <1>3, <1>4, <2>1 DEF Leave, DropCall
  <2>2. CASE holds[r]
    <3>1. /\ phase'[r] = "io" /\ status'[r] = "running" /\ outcome'[r] = how
          /\ job'[r] # "queued" /\ (job'[r] # "none" => asked[r])
      BY <1>1, <1>4, <2>2 DEF Leave, DropCall, TypeOK, TaskInv
    <3>2. \A s \in Runs \ {r} : /\ phase'[s] = phase[s] /\ status'[s] = status[s]
                                 /\ outcome'[s] = outcome[s] /\ job'[s] = job[s]
      BY <1>4, <2>2 DEF Leave, DropCall, TypeOK
    <3> QED  BY <1>1, <1>2, <1>4, <3>1, <3>2 DEF TaskInv, n, Terminal
  <2> QED  BY <2>1, <2>2
<1>5. ASSUME Await(r), got = "value", outcome[r] = "none"
      PROVE  /\ TaskInv(r)'
             /\ \A s \in Runs \ {r} : TaskInv(s) => TaskInv(s)'
  <2>1. ~asked[r] /\ job[r] = "none"
    BY <1>1, <1>5
  <2>2. Head(todo[r]) \in Kinds
    BY <1>5 DEF Await, TypeOK
  <2>3. /\ status'[r] = "running" /\ outcome'[r] = "none"
        /\ phase'[r] = Head(todo[r])
        /\ phase'[r] = "thread" => job'[r] = "queued"
        /\ phase'[r] # "thread" => job'[r] = "none"
    BY <1>5, <2>1 DEF Await, TypeOK, pool
  <2>4. \A s \in Runs \ {r} : /\ phase'[s] = phase[s] /\ status'[s] = status[s]
                               /\ outcome'[s] = outcome[s] /\ job'[s] = job[s]
    BY <1>5 DEF Await, TypeOK, pool
  <2> QED  BY <1>1, <1>2, <2>1, <2>2, <2>3, <2>4 DEF TaskInv, n, Kinds
<1>6. CASE got = "cancel" /\ Leave(r, "cancelled")
  BY <1>1, <1>4, <1>6 DEF Terminal
<1>7. CASE outcome[r] = "none" /\ got = "value" /\ Await(r)
  BY <1>5, <1>7
<1>8. CASE outcome[r] = "none" /\ got = "value" /\ todo[r] = <<>> /\ Leave(r, "succeeded")
  BY <1>1, <1>4, <1>8 DEF Terminal
<1>9. CASE outcome[r] = "none" /\ got # "cancel" /\ Leave(r, "failed")
  BY <1>1, <1>4, <1>9 DEF Terminal
<1>10. CASE outcome[r] # "none" /\ got = "value" /\ End(r, outcome[r]) /\ UNCHANGED pool
  <2>1. outcome[r] \in Terminal
    BY <1>10 DEF TypeOK
  <2>2. outcome[r] = "succeeded" => ~asked[r]
    BY <1>1, <1>10
  <2> QED  BY <1>3, <1>10, <2>1, <2>2 DEF pool
<1>11. CASE outcome[r] # "none" /\ got = "error" /\ End(r, "failed") /\ UNCHANGED pool
  BY <1>3, <1>11 DEF Terminal, pool
<1> QED  BY <1>1, <1>6, <1>7, <1>8, <1>9, <1>10, <1>11 DEF Advance

\* A step that leaves a run's fields alone keeps its invariant.
LEMMA Frame ==
  ASSUME NEW s \in Runs, TaskInv(s), Len(owner') = Len(owner), runs' = runs,
         status'[s] = status[s], asked'[s] = asked[s], phase'[s] = phase[s],
         wake'[s] = wake[s], outcome'[s] = outcome[s], job'[s] = job[s]
  PROVE  TaskInv(s)'
BY DEF TaskInv, n

LEMMA TaskStep ==
  ASSUME TypeOK, QueueInv, \A r \in Runs : TaskInv(r), [Next]_vars, NEW s \in Runs
  PROVE  TaskInv(s)'
<1> USE DEF TypeOK
<1>1. ASSUME NEW o \in Owners, NEW op \in Operations, Submit(o, op)
      PROVE  TaskInv(s)'
  <2>1. Len(owner') = Len(owner) + 1 /\ Len(owner) \in Nat
    BY <1>1 DEF Submit
  <2>2. /\ phase'[s] = IF s = Len(owner) + 1 THEN "ready" ELSE phase[s]
        /\ UNCHANGED <<status, asked, wake, outcome, job>>
    BY <1>1 DEF Submit, pool, n
  <2>3. s \in Int
    BY DEF Runs
  <2>4. s <= Len(owner) /\ s \in runs \ runs' => status[s] \in Terminal
    BY <1>1 DEF Submit, Pruned, Stale, Excess, TerminalRuns
  <2>5. s = Len(owner) + 1 => s \in runs'
    BY <1>1 DEF Submit, n
  <2> HIDE DEF TypeOK
  <2> QED  BY <2>1, <2>2, <2>3, <2>4, <2>5 DEF TaskInv, n
<1>2. ASSUME NEW r \in Runs, Start(r) PROVE TaskInv(s)'
  <2>1. UNCHANGED <<owner, runs, asked, wake>> /\ phase[r] = "ready" /\ ~asked[r] /\ Advance(r, "value")
    BY <1>2 DEF Start
  <2> HIDE DEF TypeOK
  <2> QED  BY <2>1, AdvanceInv
<1>3. ASSUME NEW r \in Runs, DropUnstarted(r) PROVE TaskInv(s)'
  <2>1. UNCHANGED <<owner, runs, status, asked, wake, outcome, job>>
    BY <1>3 DEF DropUnstarted, records, pool
  <2>2. phase[r] = "ready" /\ asked[r] /\ phase' = [phase EXCEPT ![r] = "done"]
    BY <1>3 DEF DropUnstarted
  <2> QED  BY <2>1, <2>2 DEF TaskInv, n, Terminal
<1>4. ASSUME NEW r \in Runs, Resume(r) PROVE TaskInv(s)'
  <2>1. /\ UNCHANGED <<owner, runs, asked>> /\ phase[r] = "woken" /\ Advance(r, wake[r])
        /\ wake' = [wake EXCEPT ![r] = "value"]
    BY <1>4 DEF Resume
  <2> HIDE DEF TypeOK
  <2> QED  BY <2>1, AdvanceInv
<1>5. ASSUME NEW r \in Runs, FinishIO(r) PROVE TaskInv(s)'
  <2>1. UNCHANGED <<owner, runs, status, asked, outcome, job>>
    BY <1>5 DEF FinishIO, records, pool
  <2>2. phase[r] = "io" /\ \E got \in {"value", "error"} : Wake(r, got)
    BY <1>5 DEF FinishIO
  <2> QED  BY <2>1, <2>2 DEF Wake, TaskInv, n
<1>6. ASSUME NEW r \in Runs, FinishCall(r) PROVE TaskInv(s)'
  <2>1. UNCHANGED <<owner, runs, status, asked, outcome>>
    BY <1>6 DEF FinishCall, records
  <2>2. job[r] = "busy" /\ job' = [job EXCEPT ![r] = "none"]
    BY <1>6 DEF FinishCall
  <2>3. CASE phase[r] = "thread" /\ \E got \in {"value", "error"} : Wake(r, got)
    BY <2>1, <2>2, <2>3 DEF Wake, TaskInv, n
  <2>4. CASE phase[r] # "thread" /\ UNCHANGED <<phase, wake>>
    BY <2>1, <2>2, <2>4 DEF TaskInv, n
  <2> QED  BY <1>6, <2>3, <2>4 DEF FinishCall, Deliver
<1>7. ASSUME NEW d \in Requests, NEW r \in Runs, CancelQueued(d, r) PROVE TaskInv(s)'
  <2>1. UNCHANGED <<owner, runs, phase, wake, outcome, job>>
    BY <1>7 DEF CancelQueued, pool
  <2>2. /\ r \in 1 .. n /\ status[r] = "queued"
        /\ asked' = [asked EXCEPT ![r] = TRUE]
        /\ status' = [status EXCEPT ![r] = "cancelled"]
    BY <1>7 DEF CancelQueued, Visible, Record
  <2>3. phase[r] = "ready"
    <3>1. TaskInv(r) /\ phase[r] \in Phases /\ ~(r > n)
      BY <2>2 DEF n
    <3> HIDE DEF TypeOK
    <3> QED  BY <2>2, <3>1 DEF TaskInv, Phases, Terminal
  <2>4. CASE s = r
    <3>1. asked'[r] /\ status'[r] = "cancelled" /\ TaskInv(r)
      BY <2>2
    <3> HIDE DEF TypeOK
    <3> QED  BY <2>1, <2>3, <2>4, <3>1 DEF TaskInv, n, Terminal
  <2>5. CASE s # r
    BY <2>1, <2>2, <2>5, Frame
  <2> QED  BY <2>4, <2>5
<1>8. ASSUME NEW d \in Requests, NEW r \in Runs, CancelRunning(d, r) PROVE TaskInv(s)'
  <2>1. UNCHANGED <<owner, runs, status, outcome, job>>
    BY <1>8 DEF CancelRunning, records, pool
  <2>2. /\ status[r] = "running"
        /\ asked' = [asked EXCEPT ![r] = TRUE]
        /\ phase' = [phase EXCEPT ![r] = "woken"]
        /\ wake' = [wake EXCEPT ![r] = "cancel"]
    BY <1>8 DEF CancelRunning, Interrupt, Wake
  <2>3. phase[r] \in {"io", "thread", "woken"}
    BY <2>2 DEF TaskInv, Phases, Terminal
  <2> QED  BY <2>1, <2>2, <2>3 DEF TaskInv, n
<1>9. ASSUME TakeCall PROVE TaskInv(s)'
  <2>1. UNCHANGED <<owner, runs, status, asked, phase, wake, outcome>>
    BY <1>9 DEF TakeCall, records, tasks
  <2>2. Head(queue) \in Runs /\ job[Head(queue)] \in {"queued", "dropped"}
    BY <1>9 DEF TakeCall, QueueInv
  <2>3. job' = [job EXCEPT ![Head(queue)] = IF @ = "dropped" THEN "none" ELSE "busy"]
    BY <1>9 DEF TakeCall
  <2> QED  BY <2>1, <2>2, <2>3 DEF TaskInv, n
<1>10. CASE \/ \E d \in Requests : Acknowledge(d) \/ GiveUp(d)
            \/ Tick
            \/ UNCHANGED vars
  <2>1. UNCHANGED <<owner, runs, status, asked, phase, wake, outcome, job>>
    BY <1>10 DEF Acknowledge, GiveUp, Tick, vars, records, tasks, pool
  <2> QED  BY <2>1, Frame
<1> HIDE DEF TypeOK
<1> QED  BY <1>1, <1>2, <1>3, <1>4, <1>5, <1>6, <1>7, <1>8, <1>9, <1>10 DEF Next

-----------------------------------------------------------------------------
(* The thread pool                                                         *)

\* A step of a task either leaves the pool alone, enqueues a call of a run that
\* has none, or drops a call that is still queued.
PoolStep(r) ==
  \/ UNCHANGED pool
  \/ /\ job[r] = "none"
     /\ job' = [job EXCEPT ![r] = "queued"]
     /\ queue' = Append(queue, r)
  \/ DropCall(r)

LEMMA AdvancePool ==
  ASSUME TypeOK, NEW r \in Runs, TaskInv(r),
         \/ phase[r] = "ready" /\ ~asked[r] /\ Advance(r, "value")
         \/ phase[r] = "woken" /\ Advance(r, wake[r])
  PROVE  PoolStep(r)
<1>1. PICK got \in Wakes : /\ Advance(r, got)
                           /\ got = "value" /\ outcome[r] = "none" => job[r] = "none"
  <2>1. CASE phase[r] = "ready" /\ Advance(r, "value")
    BY <2>1 DEF TaskInv, Wakes
  <2>2. CASE phase[r] = "woken" /\ Advance(r, wake[r])
    <3>1. wake[r] \in Wakes
      BY DEF TypeOK
    <3> QED  BY <2>2, <3>1 DEF TaskInv
  <2> QED  BY <2>1, <2>2
<1>2. CASE got = "value" /\ outcome[r] = "none" /\ Await(r)
  BY <1>1, <1>2 DEF Await, PoolStep, pool
<1>3. ASSUME NEW how, Leave(r, how) PROVE PoolStep(r)
  BY <1>3 DEF Leave, PoolStep
<1> QED  BY <1>1, <1>2, <1>3 DEF Advance, PoolStep

LEMMA QueueStep ==
  ASSUME TypeOK, QueueInv, Cardinality(Busy) <= Workers,
         NEW r \in Runs, PoolStep(r)
  PROVE  QueueInv' /\ Cardinality(Busy') <= Workers
<1>1. CASE UNCHANGED pool
  BY <1>1 DEF pool, QueueInv, Busy
<1>2. CASE /\ job[r] = "none"
           /\ job' = [job EXCEPT ![r] = "queued"]
           /\ queue' = Append(queue, r)
  <2>1. queue \in Seq(Runs) /\ job \in [Runs -> Jobs]
    BY DEF TypeOK
  <2>2. /\ DOMAIN queue' = 1 .. Len(queue) + 1 /\ DOMAIN queue = 1 .. Len(queue)
        /\ Len(queue) \in Nat
        /\ queue'[Len(queue) + 1] = r
        /\ \A i \in 1 .. Len(queue) : queue'[i] = queue[i] /\ queue[i] \in Runs
    BY <1>2, <2>1
  <2>3. \A i \in 1 .. Len(queue) : queue[i] # r
    BY <1>2, <2>2 DEF QueueInv
  <2>4. QueueInv'
    <3>1. \A i, j \in DOMAIN queue' : queue'[i] = queue'[j] => i = j
      BY <2>2, <2>3 DEF QueueInv
    <3>2. \A i \in DOMAIN queue' : job'[queue'[i]] \in {"queued", "dropped"}
      BY <1>2, <2>1, <2>2, <2>3 DEF QueueInv
    <3>3. ASSUME NEW s \in Runs, job'[s] \in {"queued", "dropped"}
          PROVE  \E i \in DOMAIN queue' : queue'[i] = s
      <4>1. CASE s = r
        BY <2>2, <4>1
      <4>2. CASE s # r
        <5>1. PICK i \in DOMAIN queue : queue[i] = s
          BY <1>2, <2>1, <3>3, <4>2 DEF QueueInv
        <5> QED  BY <2>2, <5>1
      <4> QED  BY <4>1, <4>2
    <3> QED  BY <3>1, <3>2, <3>3 DEF QueueInv
  <2>5. Busy' = Busy
    BY <1>2, <2>1 DEF Busy
  <2> QED  BY <2>4, <2>5
<1>3. CASE DropCall(r)
  <2>1. job \in [Runs -> Jobs] /\ queue \in Seq(Runs)
    BY DEF TypeOK
  <2>2. /\ \A s \in Runs : (job'[s] = "busy") = (job[s] = "busy")
        /\ \A s \in Runs : (job'[s] \in {"queued", "dropped"})
                             = (job[s] \in {"queued", "dropped"})
        /\ queue' = queue
    BY <1>3, <2>1 DEF DropCall
  <2>3. Busy' = Busy
    BY <2>2 DEF Busy
  <2>4. \A i \in DOMAIN queue : queue[i] \in Runs
    BY <2>1
  <2>5. QueueInv'
    BY <2>2, <2>4 DEF QueueInv
  <2> QED  BY <2>3, <2>5
<1> QED  BY <1>1, <1>2, <1>3 DEF PoolStep

LEMMA TakeCallPool ==
  ASSUME TypeOK, QueueInv, Cardinality(Busy) <= Workers, TakeCall
  PROVE  QueueInv' /\ Cardinality(Busy') <= Workers
<1> DEFINE h == Head(queue)
<1>1. queue \in Seq(Runs) /\ queue # <<>> /\ job \in [Runs -> Jobs]
  BY DEF TakeCall, TypeOK
<1>2. /\ Len(queue) \in Nat \ {0} /\ DOMAIN queue = 1 .. Len(queue)
      /\ queue[1] = h /\ h \in Runs
      /\ queue' = Tail(queue) /\ DOMAIN queue' = 1 .. Len(queue) - 1
      /\ \A i \in 1 .. Len(queue) - 1 : queue'[i] = queue[i + 1]
      /\ \A i \in 1 .. Len(queue) : queue[i] \in Runs
  BY <1>1 DEF TakeCall
<1>3. job' = [job EXCEPT ![h] = IF @ = "dropped" THEN "none" ELSE "busy"]
  BY DEF TakeCall
<1> HIDE DEF h
<1>4. \A i \in 1 .. Len(queue) - 1 : queue[i + 1] # h
  BY <1>2 DEF QueueInv
<1>5. QueueInv'
  <2>1. \A i, j \in DOMAIN queue' : queue'[i] = queue'[j] => i = j
    BY <1>2 DEF QueueInv
  <2>2. \A i \in DOMAIN queue' : job'[queue'[i]] \in {"queued", "dropped"}
    BY <1>1, <1>2, <1>3, <1>4 DEF QueueInv
  <2>3. ASSUME NEW s \in Runs, job'[s] \in {"queued", "dropped"}
        PROVE  \E i \in DOMAIN queue' : queue'[i] = s
    <3>1. s # h /\ job[s] \in {"queued", "dropped"}
      BY <1>1, <1>2, <1>3, <2>3
    <3>2. PICK i \in DOMAIN queue : queue[i] = s
      BY <3>1 DEF QueueInv
    <3>3. i # 1 /\ i - 1 \in 1 .. Len(queue) - 1
      BY <1>2, <3>1, <3>2
    <3> QED  BY <1>2, <3>2, <3>3
  <2> QED  BY <2>1, <2>2, <2>3 DEF QueueInv
<1>6. Cardinality(Busy') <= Workers
  <2>1. IsFiniteSet(Runs)
    BY FS_Interval, ConstantsAssumption DEF Runs
  <2>2. Busy \subseteq Runs /\ IsFiniteSet(Busy)
    BY <2>1, FS_Subset DEF Busy
  <2>3. Busy' \subseteq Busy \cup {h}
    BY <1>1, <1>2, <1>3 DEF Busy
  <2>4. Cardinality(Busy) < Workers
    BY DEF TakeCall, Busy
  <2>5. IsFiniteSet(Busy \cup {h}) /\ Cardinality(Busy \cup {h}) <= Cardinality(Busy) + 1
        /\ Cardinality(Busy) \in Nat
    BY <2>2, FS_AddElement, FS_CardinalityType
  <2>6. Cardinality(Busy') <= Cardinality(Busy \cup {h}) /\ Cardinality(Busy') \in Nat
        /\ Cardinality(Busy \cup {h}) \in Nat
    BY <2>3, <2>5, FS_Subset, FS_CardinalityType
  <2> QED  BY <2>4, <2>5, <2>6, ConstantsAssumption
<1> QED  BY <1>5, <1>6

LEMMA FinishCallPool ==
  ASSUME TypeOK, QueueInv, Cardinality(Busy) <= Workers,
         NEW r \in Runs, FinishCall(r)
  PROVE  QueueInv' /\ Cardinality(Busy') <= Workers
<1>1. /\ queue \in Seq(Runs) /\ job \in [Runs -> Jobs] /\ queue' = queue
      /\ job[r] = "busy" /\ job' = [job EXCEPT ![r] = "none"]
  BY DEF FinishCall, TypeOK
<1>2. \A i \in DOMAIN queue : queue[i] \in Runs
  BY <1>1
<1>3. QueueInv'
  BY <1>1, <1>2 DEF QueueInv
<1>4. Cardinality(Busy') <= Workers
  <2>1. IsFiniteSet(Runs)
    BY FS_Interval, ConstantsAssumption DEF Runs
  <2>2. Busy \subseteq Runs /\ IsFiniteSet(Busy)
    BY <2>1, FS_Subset DEF Busy
  <2>3. Busy' \subseteq Busy
    BY <1>1 DEF Busy
  <2>4. Cardinality(Busy') <= Cardinality(Busy) /\ Cardinality(Busy') \in Nat
        /\ Cardinality(Busy) \in Nat
    BY <2>2, <2>3, FS_Subset, FS_CardinalityType
  <2> QED  BY <2>4, ConstantsAssumption
<1> QED  BY <1>3, <1>4

LEMMA PoolNext ==
  ASSUME TypeOK, \A r \in Runs : TaskInv(r), QueueInv, Cardinality(Busy) <= Workers,
         [Next]_vars
  PROVE  QueueInv' /\ Cardinality(Busy') <= Workers
<1>1. ASSUME NEW r \in Runs, Start(r) \/ Resume(r)
      PROVE  QueueInv' /\ Cardinality(Busy') <= Workers
  <2>1. PoolStep(r)
    BY <1>1, AdvancePool DEF Start, Resume
  <2> QED  BY <2>1, QueueStep
<1>2. CASE TakeCall
  BY <1>2, TakeCallPool
<1>3. CASE \E r \in Runs : FinishCall(r)
  BY <1>3, FinishCallPool
<1>4. CASE UNCHANGED pool
  BY <1>4 DEF pool, QueueInv, Busy
<1>5. \/ \E r \in Runs : Start(r) \/ Resume(r) \/ FinishCall(r)
      \/ TakeCall
      \/ UNCHANGED pool
  BY DEF Next, Submit, DropUnstarted, FinishIO, CancelQueued, CancelRunning,
         Acknowledge, GiveUp, Tick, vars
<1> QED  BY <1>1, <1>2, <1>3, <1>4, <1>5

-----------------------------------------------------------------------------
(* The DELETE requests                                                     *)

\* No task becomes ready again.
LEMMA AdvancePhase ==
  ASSUME TypeOK, NEW r \in Runs, NEW got, Advance(r, got)
  PROVE  \A s \in Runs : phase'[s] = "ready" => phase[s] = "ready"
<1>1. ASSUME NEW how, End(r, how)
      PROVE  \A s \in Runs : phase'[s] = "ready" => phase[s] = "ready"
  BY <1>1 DEF End, TypeOK
<1>2. ASSUME NEW how, Leave(r, how)
      PROVE  \A s \in Runs : phase'[s] = "ready" => phase[s] = "ready"
  <2>1. CASE holds[r]
    BY <1>2, <2>1 DEF Leave, TypeOK
  <2>2. CASE ~holds[r]
    BY <1>1, <1>2, <2>2 DEF Leave
  <2> QED  BY <2>1, <2>2
<1>3. CASE Await(r)
  <2>1. Head(todo[r]) \in Kinds
    BY <1>3 DEF Await, TypeOK
  <2> QED  BY <1>3, <2>1 DEF Await, TypeOK, Kinds
<1> QED  BY <1>1, <1>2, <1>3 DEF Advance

LEMMA DeleteStep ==
  ASSUME TypeOK, \A r \in Runs : TaskInv(r), DeleteInv, [Next]_vars
  PROVE  DeleteInv'
<1> SUFFICES ASSUME NEW d \in Requests, deletes'[d] # 0
             PROVE  /\ asked'[deletes'[d]]
                    /\ phase'[deletes'[d]] # "ready"
                    /\ owner'[deletes'[d]] = Caller[d]
  BY DEF DeleteInv
<1>1. ASSUME NEW e \in Requests, NEW r \in Runs, CancelRunning(e, r), d = e
      PROVE  /\ asked'[deletes'[d]]
             /\ phase'[deletes'[d]] # "ready"
             /\ owner'[deletes'[d]] = Caller[d]
  BY <1>1 DEF CancelRunning, Visible, Interrupt, Wake, records, TypeOK
<1>2. ASSUME deletes[d] # 0, deletes'[d] = deletes[d]
      PROVE  /\ asked'[deletes'[d]]
             /\ phase'[deletes'[d]] # "ready"
             /\ owner'[deletes'[d]] = Caller[d]
  <2> DEFINE r == deletes[d]
  <2>1. r \in 1 .. Len(owner) /\ r \in Runs /\ asked[r] /\ phase[r] # "ready"
        /\ owner[r] = Caller[d] /\ Len(owner) \in Nat
    BY <1>2, ConstantsAssumption DEF TypeOK, DeleteInv, n, Runs
  <2> HIDE DEF r
  <2>2. owner'[r] = owner[r]
    <3>1. CASE \E o \in Owners : owner' = Append(owner, o)
      BY <2>1, <3>1 DEF TypeOK
    <3>2. CASE owner' = owner
      BY <3>2
    <3>3. (\E o \in Owners : owner' = Append(owner, o)) \/ owner' = owner
      BY DEF Next, Submit, Start, DropUnstarted, Resume, FinishIO, FinishCall, TakeCall,
             CancelQueued, CancelRunning, Acknowledge, GiveUp, Tick, vars, records
    <3> QED  BY <3>1, <3>2, <3>3
  <2>3. asked'[r]
    BY <2>1 DEF TypeOK, Next, Submit, Start, DropUnstarted, Resume, FinishIO, FinishCall,
                TakeCall, CancelQueued, CancelRunning, Acknowledge, GiveUp, Tick, vars, tasks
  <2>4. phase'[r] # "ready"
    <3>1. ASSUME NEW s \in Runs, Start(s) \/ Resume(s) PROVE phase'[r] # "ready"
      BY <2>1, <3>1, AdvancePhase DEF Start, Resume
    <3>2. ASSUME NEW s \in Runs, DropUnstarted(s) \/ FinishIO(s) PROVE phase'[r] # "ready"
      BY <2>1, <3>2 DEF TypeOK, DropUnstarted, FinishIO, Wake
    <3>3. ASSUME NEW s \in Runs, FinishCall(s) PROVE phase'[r] # "ready"
      BY <2>1, <3>3 DEF TypeOK, FinishCall, Deliver, Wake
    <3>4. ASSUME NEW e \in Requests, NEW s \in Runs, CancelRunning(e, s)
          PROVE  phase'[r] # "ready"
      BY <2>1, <3>4 DEF TypeOK, CancelRunning, Interrupt, Wake
    <3>5. ASSUME NEW o \in Owners, NEW op \in Operations, Submit(o, op)
          PROVE  phase'[r] # "ready"
      BY <2>1, <3>5 DEF TypeOK, Submit, n
    <3>6. CASE phase' = phase
      BY <2>1, <3>6
    <3>7. \/ \E s \in Runs : \/ Start(s) \/ Resume(s) \/ DropUnstarted(s)
                           \/ FinishIO(s) \/ FinishCall(s)
          \/ \E e \in Requests, s \in Runs : CancelRunning(e, s)
          \/ \E o \in Owners, op \in Operations : Submit(o, op)
          \/ phase' = phase
      BY DEF Next, CancelQueued, TakeCall, Acknowledge, GiveUp, Tick, vars, tasks
    <3> QED  BY <3>1, <3>2, <3>3, <3>4, <3>5, <3>6, <3>7
  <2>5. deletes'[d] = r
    BY <1>2 DEF r
  <2> QED  BY <2>1, <2>2, <2>3, <2>4, <2>5
<1>3. \/ deletes[d] # 0 /\ deletes'[d] = deletes[d]
      \/ \E e \in Requests, r \in Runs : CancelRunning(e, r) /\ d = e
  <2>1. ASSUME NEW e \in Requests, NEW r \in Runs, CancelRunning(e, r), d # e
        PROVE  deletes'[d] = deletes[d]
    BY <2>1 DEF CancelRunning, TypeOK
  <2>2. ASSUME NEW e \in Requests, Acknowledge(e) \/ GiveUp(e)
        PROVE  deletes'[d] = deletes[d]
    BY <2>2 DEF Acknowledge, GiveUp, TypeOK
  <2>3. \/ \E e \in Requests, r \in Runs : CancelRunning(e, r)
        \/ \E e \in Requests : Acknowledge(e) \/ GiveUp(e)
        \/ deletes' = deletes
    BY DEF Next, Submit, Start, DropUnstarted, Resume, FinishIO, FinishCall, TakeCall,
           CancelQueued, Tick, vars
  <2> QED  BY <2>1, <2>2, <2>3
<1> QED  BY <1>1, <1>2, <1>3

-----------------------------------------------------------------------------
(* The theorems                                                            *)

LEMMA InvInit == Init => Inv
<1> SUFFICES ASSUME Init PROVE Inv
  OBVIOUS
<1>1. TypeOK
  BY TypeInit
<1>2. \A r \in Runs : TaskInv(r)
  BY DEF Init, TaskInv, n, Runs
<1>3. QueueInv
  BY DEF Init, QueueInv
<1>4. Busy = {}
  BY DEF Init, Busy
<1>5. Cardinality(Busy) <= Workers
  BY <1>4, FS_EmptySet, ConstantsAssumption
<1>6. DeleteInv
  BY DEF Init, DeleteInv
<1> QED  BY <1>1, <1>2, <1>3, <1>5, <1>6 DEF Inv

LEMMA InvStep == Inv /\ [Next]_vars => Inv'
BY TypeStep, TaskStep, PoolNext, DeleteStep DEF Inv

\* The inductive invariant behind the safety theorems: how the status, the task
\* and the pool call of one run in manager.py constrain each other.
THEOREM Invariance == Spec => []Inv
BY InvInit, InvStep, PTL DEF Spec

\* NoZombie holds in every instance: a run that has not ended has a live task.
THEOREM RunsStayAlive == Spec => []NoZombie
<1>1. Inv => NoZombie
  <2> SUFFICES ASSUME Inv, NEW r \in 1 .. n
               PROVE  \/ status[r] \in Terminal
                      \/ phase[r] \in {"io", "thread", "woken"}
                      \/ phase[r] = "ready" /\ ~asked[r]
    BY DEF NoZombie
  <2>1. r \in Runs /\ ~(r > n)
    BY ConstantsAssumption DEF Inv, TypeOK, Runs, n
  <2>2. TaskInv(r) /\ phase[r] \in Phases
    BY <2>1 DEF Inv, TypeOK
  <2> QED  BY <2>1, <2>2 DEF TaskInv, Phases, Terminal
<1> QED  BY <1>1, Invariance, PTL

\* NoLostWakeup holds in every instance: a task that waits for a thread will be
\* woken by one, and only cancellation abandons a call.
THEOREM WakeupsAreNotLost == Spec => []NoLostWakeup
<1>1. Inv => NoLostWakeup
  BY DEF Inv, TaskInv, NoLostWakeup
<1> QED  BY <1>1, Invariance, PTL

\* PoolConsistent holds in every instance: the default executor's bound and its
\* work queue are respected.
THEOREM PoolStaysConsistent == Spec => []PoolConsistent
<1>1. Inv => PoolConsistent
  BY DEF Inv, TypeOK, QueueInv, Busy, PoolConsistent
<1> QED  BY <1>1, Invariance, PTL

\* DeleteAnswers holds in every instance: what a waiting DELETE can answer.
THEOREM DeletesAnswer == Spec => []DeleteAnswers
<1>1. Inv => DeleteAnswers
  <2> SUFFICES ASSUME Inv, NEW d \in Requests, deletes[d] # 0
               PROVE  /\ owner[deletes[d]] = Caller[d]
                      /\ status[deletes[d]] \in {"running", "failed", "cancelled"}
    BY DEF DeleteAnswers
  <2>1. deletes[d] \in Runs /\ ~(deletes[d] > n) /\ TaskInv(deletes[d])
    BY ConstantsAssumption DEF Inv, TypeOK, Runs, n
  <2>2. /\ asked[deletes[d]] /\ phase[deletes[d]] # "ready"
        /\ owner[deletes[d]] = Caller[d]
        /\ phase[deletes[d]] \in Phases
    BY <2>1 DEF Inv, DeleteInv, TypeOK
  <2> QED  BY <2>1, <2>2 DEF TaskInv, Terminal, Phases
<1> QED  BY <1>1, Invariance, PTL

\* Consistent holds in every instance: runs, tasks, threads and waiting requests
\* fit together, however submissions, cancellations and prunes interleave.
THEOREM StaysConsistent == Spec => []Consistent
BY RunsStayAlive, WakeupsAreNotLost, PoolStaysConsistent, DeletesAnswer, PTL DEF Consistent

-----------------------------------------------------------------------------
(* The runner implements RunLifecycle                                      *)

LifeOf == [r \in Runs |-> Life(r)]

\* Only r's life may change, in a step that neither submits nor forgets.
LEMMA OneLife ==
  ASSUME NEW r \in Runs, UNCHANGED <<owner, runs>>,
         \A s \in Runs \ {r} : status'[s] = status[s] /\ asked'[s] = asked[s]
  PROVE  LifeOf' = [LifeOf EXCEPT ![r] = Life(r)']
BY DEF LifeOf, Life, n

\* What a stretch of a runner does to its status.
LEMMA AdvanceLife ==
  ASSUME Inv, NEW r \in Runs, UNCHANGED <<owner, runs, asked>>,
         \/ phase[r] = "ready" /\ ~asked[r] /\ Advance(r, "value")
         \/ phase[r] = "woken" /\ Advance(r, wake[r])
  PROVE  Lifecycle!Next \/ LifeOf' = LifeOf
<1>1. PICK got \in Wakes : /\ Advance(r, got)
                           /\ got = "cancel" => asked[r]
                           /\ got # "cancel" /\ asked[r] => outcome[r] = "cancelled"
  <2>1. CASE phase[r] = "ready" /\ ~asked[r] /\ Advance(r, "value")
    BY <2>1 DEF Wakes
  <2>2. CASE phase[r] = "woken" /\ Advance(r, wake[r])
    <3>1. wake[r] \in Wakes /\ TaskInv(r)
      BY DEF TypeOK, Inv
    <3> QED  BY <2>2, <3>1 DEF TaskInv
  <2> QED  BY <2>1, <2>2
<1>2. /\ r \in runs /\ ~(r > n) /\ ~(r > n)' /\ r \in runs' /\ asked'[r] = asked[r]
      /\ status[r] \in {"queued", "running"} /\ (status[r] = "queued" => ~asked[r])
      /\ (outcome[r] = "cancelled" => asked[r]) /\ outcome[r] \in {"none"} \cup Terminal
  <2>1. TaskInv(r) /\ outcome[r] \in {"none"} \cup Terminal /\ r \in Int /\ Len(owner) \in Nat
    <3>1. r \in Runs /\ TaskInv(r) /\ Len(owner) \in Nat
      BY DEF Inv, TypeOK
    <3>2. outcome[r] \in {"none"} \cup Terminal
      BY <3>1 DEF Inv, TypeOK
    <3> QED  BY <3>1, <3>2 DEF Runs
  <2> QED  BY <2>1 DEF TaskInv, n, Terminal
<1>3. ASSUME NEW how \in Terminal, status'[r] = how,
             how = "succeeded" => ~asked[r], how = "cancelled" => asked[r],
             LifeOf' = [LifeOf EXCEPT ![r] = Life(r)']
      PROVE  Lifecycle!Next
  <2>1. Life(r)' = how
    BY <1>2, <1>3 DEF Life, Terminal
  <2>2. LifeOf[r] = IF asked[r] THEN "stopping" ELSE status[r]
    BY <1>2 DEF LifeOf, Life
  <2>3. CASE how = "succeeded"
    <3>1. Lifecycle!Succeed(r)
      BY <1>2, <1>3, <2>1, <2>2, <2>3 DEF Lifecycle!Succeed, Lifecycle!Become, LifeOf
    <3> QED  BY <3>1 DEF Lifecycle!Next
  <2>4. CASE how = "failed"
    <3>1. Lifecycle!Fail(r)
      BY <1>2, <1>3, <2>1, <2>2, <2>4 DEF Lifecycle!Fail, Lifecycle!Become, LifeOf
    <3> QED  BY <3>1 DEF Lifecycle!Next
  <2>5. CASE how = "cancelled"
    <3>1. Lifecycle!Cancel(r)
      BY <1>2, <1>3, <2>1, <2>2, <2>5 DEF Lifecycle!Cancel, Lifecycle!Become, LifeOf
    <3> QED  BY <3>1 DEF Lifecycle!Next
  <2> QED  BY <2>3, <2>4, <2>5 DEF Terminal
<1>4. ASSUME status'[r] = "running", LifeOf' = [LifeOf EXCEPT ![r] = Life(r)']
      PROVE  Lifecycle!Next \/ LifeOf' = LifeOf
  <2>1. Life(r)' = IF asked[r] THEN "stopping" ELSE "running"
    BY <1>2, <1>4 DEF Life
  <2>2. LifeOf[r] = IF asked[r] THEN "stopping" ELSE status[r]
    BY <1>2 DEF LifeOf, Life
  <2>3. CASE status[r] = "running"
    BY <1>4, <2>1, <2>2, <2>3 DEF LifeOf
  <2>4. CASE status[r] = "queued"
    <3>1. Lifecycle!Start(r)
      BY <1>2, <1>4, <2>1, <2>2, <2>4 DEF Lifecycle!Start, Lifecycle!Become, LifeOf
    <3> QED  BY <3>1 DEF Lifecycle!Next
  <2> QED  BY <1>2, <2>3, <2>4
<1>5. ASSUME NEW how \in Terminal, End(r, how),
             how = "succeeded" => ~asked[r], how = "cancelled" => asked[r]
      PROVE  Lifecycle!Next
  <2>1. status' = [status EXCEPT ![r] = how] /\ status \in [Runs -> Statuses]
    BY <1>5 DEF End, Record, Inv, TypeOK
  <2>2. LifeOf' = [LifeOf EXCEPT ![r] = Life(r)']
    BY <2>1, OneLife
  <2> QED  BY <1>3, <1>5, <2>1, <2>2
<1>6. ASSUME status' = [status EXCEPT ![r] = "running"]
      PROVE  Lifecycle!Next \/ LifeOf' = LifeOf
  <2>1. status'[r] = "running" /\ \A s \in Runs \ {r} : status'[s] = status[s]
    BY <1>6 DEF Inv, TypeOK
  <2> QED  BY <1>4, <2>1, OneLife
<1>7. ASSUME NEW how \in Terminal, Leave(r, how),
             how = "succeeded" => ~asked[r], how = "cancelled" => asked[r]
      PROVE  Lifecycle!Next \/ LifeOf' = LifeOf
  BY <1>5, <1>6, <1>7 DEF Leave
<1>8. CASE got = "cancel" /\ Leave(r, "cancelled")
  BY <1>1, <1>7, <1>8 DEF Terminal
<1>9. CASE outcome[r] = "none" /\ got = "value" /\ Await(r)
  BY <1>6, <1>9 DEF Await
<1>10. CASE outcome[r] = "none" /\ got = "value" /\ todo[r] = <<>> /\ Leave(r, "succeeded")
  BY <1>1, <1>7, <1>10 DEF Terminal
<1>11. CASE outcome[r] = "none" /\ got # "cancel" /\ Leave(r, "failed")
  BY <1>1, <1>7, <1>11 DEF Terminal
<1>12. CASE outcome[r] # "none" /\ got = "value" /\ End(r, outcome[r])
  BY <1>1, <1>2, <1>5, <1>12 DEF Terminal
<1>13. CASE outcome[r] # "none" /\ got = "error" /\ End(r, "failed")
  BY <1>1, <1>5, <1>13 DEF Terminal
<1> QED  BY <1>1, <1>8, <1>9, <1>10, <1>11, <1>12, <1>13 DEF Advance

LEMMA SubmitLife ==
  ASSUME Inv, NEW o \in Owners, NEW op \in Operations, Submit(o, op)
  PROVE  Lifecycle!Next
<1> DEFINE r == Len(owner) + 1
<1>1. /\ Len(owner) \in Nat /\ Len(owner') = r /\ r \in Runs
      /\ runs' = (runs \ Pruned) \cup {r} /\ status' = status /\ asked' = asked
      /\ runs \subseteq 1 .. Len(owner) /\ \A s \in Runs : s \in Int
  BY ConstantsAssumption DEF Inv, TypeOK, Submit, n, Runs
<1>2. Pruned \subseteq {s \in Runs : LifeOf[s] \in Lifecycle!Ended}
  <2>1. Pruned \subseteq runs /\ \A s \in Pruned : status[s] \in Terminal
    BY DEF Pruned, Stale, Excess, TerminalRuns
  <2>2. ASSUME NEW s \in Pruned PROVE s \in Runs /\ LifeOf[s] \in Lifecycle!Ended
    <3>1. s \in runs /\ s \in Runs /\ ~(s > Len(owner)) /\ status[s] \in Terminal
      BY <1>1, <2>1, ConstantsAssumption DEF Runs, Inv, TypeOK, n
    <3> QED  BY <3>1 DEF LifeOf, Life, n, Terminal, Lifecycle!Ended
  <2> QED  BY <2>2
<1>3. LifeOf[r] = "absent"
  BY <1>1 DEF LifeOf, Life, n
<1>4. TaskInv(r) /\ status[r] = "queued"
  BY <1>1 DEF Inv, TaskInv, n
<1>5. ASSUME NEW s \in Runs
      PROVE  LifeOf'[s] = IF s = r THEN "queued"
                          ELSE IF s \in Pruned THEN "forgotten" ELSE LifeOf[s]
  <2>1. s \in runs' <=> s = r \/ (s \in runs /\ s \notin Pruned)
    BY <1>1
  <2>2. LifeOf'[s] = Life(s)' /\ LifeOf[s] = Life(s)
    BY DEF LifeOf
  <2>3. s \in Pruned => s \in runs
    BY DEF Pruned, Stale, Excess, TerminalRuns
  <2>4. s > Len(owner) => s = r \/ s > Len(owner')
    BY <1>1
  <2>5. s \in runs => ~(s > Len(owner)) /\ ~(s > Len(owner')) /\ s # r
    BY <1>1
  <2>6. CASE s = r
    BY <1>1, <1>4, <2>1, <2>2, <2>6 DEF Life, n
  <2>7. CASE s # r
    <3>1. s > Len(owner') <=> s > Len(owner)
      BY <1>1, <2>7
    <3> HIDE DEF r
    <3> QED  BY <1>1, <2>1, <2>2, <2>3, <2>5, <2>7, <3>1 DEF Life, n
  <2> QED  BY <2>6, <2>7
<1>6. LifeOf' = [s \in Runs |-> IF s = r THEN "queued"
                               ELSE IF s \in Pruned THEN "forgotten" ELSE LifeOf[s]]
  <2>1. LifeOf' = [s \in Runs |-> LifeOf'[s]]
    BY DEF LifeOf
  <2> HIDE DEF r
  <2> QED  BY <1>5, <2>1
<1> HIDE DEF r
<1>7. Lifecycle!Submit(r)
  BY <1>2, <1>3, <1>6 DEF Lifecycle!Submit, LifeOf
<1> QED  BY <1>1, <1>7 DEF Lifecycle!Next

\* Every step of the runner is a step of RunLifecycle or leaves the lives alone.
LEMMA LifeStep == Inv /\ [Next]_vars => Lifecycle!Next \/ LifeOf' = LifeOf
<1> SUFFICES ASSUME Inv, [Next]_vars PROVE Lifecycle!Next \/ LifeOf' = LifeOf
  OBVIOUS
<1>1. ASSUME NEW r \in Runs, Start(r) \/ Resume(r)
      PROVE  Lifecycle!Next \/ LifeOf' = LifeOf
  BY <1>1, AdvanceLife DEF Start, Resume
<1>2. ASSUME NEW d \in Requests, NEW r \in Runs, CancelQueued(d, r)
      PROVE  Lifecycle!Next
  <2>1. /\ r \in runs /\ status[r] = "queued" /\ UNCHANGED <<owner, runs>>
        /\ asked' = [asked EXCEPT ![r] = TRUE]
        /\ status' = [status EXCEPT ![r] = "cancelled"]
        /\ ~(r > n) /\ r \in 1 .. n
    BY <1>2 DEF CancelQueued, Visible, Record, Inv, TypeOK, n
  <2>2. status'[r] = "cancelled" /\ \A s \in Runs \ {r} : status'[s] = status[s] /\ asked'[s] = asked[s]
    BY <2>1 DEF Inv, TypeOK
  <2>3. LifeOf' = [LifeOf EXCEPT ![r] = "cancelled"]
    BY <2>1, <2>2, OneLife DEF Life, n
  <2>4. LifeOf[r] = "queued"
    BY <2>1 DEF LifeOf, Life, n
  <2>5. Lifecycle!Cancel(r)
    BY <2>3, <2>4 DEF Lifecycle!Cancel, Lifecycle!Become, LifeOf
  <2> QED  BY <2>5 DEF Lifecycle!Next
<1>3. ASSUME NEW d \in Requests, NEW r \in Runs, CancelRunning(d, r)
      PROVE  Lifecycle!Next \/ LifeOf' = LifeOf
  <2>1. /\ r \in runs /\ status[r] = "running" /\ UNCHANGED <<owner, runs, status>>
        /\ asked' = [asked EXCEPT ![r] = TRUE]
        /\ ~(r > n)
    BY <1>3 DEF CancelRunning, Visible, records, Inv, TypeOK, n
  <2>2. asked'[r] /\ \A s \in Runs \ {r} : asked'[s] = asked[s]
    BY <2>1 DEF Inv, TypeOK
  <2>3. LifeOf' = [LifeOf EXCEPT ![r] = "stopping"]
    BY <2>1, <2>2, OneLife DEF Life, n
  <2>4. LifeOf[r] = IF asked[r] THEN "stopping" ELSE "running"
    BY <2>1 DEF LifeOf, Life, n
  <2>5. CASE asked[r]
    BY <2>3, <2>4, <2>5 DEF LifeOf
  <2>6. CASE ~asked[r]
    <3>1. Lifecycle!Stop(r)
      BY <2>3, <2>4, <2>6 DEF Lifecycle!Stop, Lifecycle!Become, LifeOf
    <3> QED  BY <3>1 DEF Lifecycle!Next
  <2> QED  BY <2>5, <2>6
<1>4. CASE UNCHANGED <<owner, runs, status, asked>>
  BY <1>4 DEF LifeOf, Life, n
<1>5. \/ \E r \in Runs : Start(r) \/ Resume(r)
      \/ \E d \in Requests, r \in Runs : CancelQueued(d, r) \/ CancelRunning(d, r)
      \/ \E o \in Owners, op \in Operations : Submit(o, op)
      \/ UNCHANGED <<owner, runs, status, asked>>
  BY DEF Next, DropUnstarted, FinishIO, FinishCall, TakeCall, Acknowledge, GiveUp, Tick,
         vars, records, tasks
<1> QED  BY <1>1, <1>2, <1>3, <1>4, <1>5, SubmitLife

\* The job runner implements RunLifecycle in every instance: a run that was asked
\* to stop never succeeds, an ended run never changes, and only an ended run is
\* forgotten (LifecycleSpec).
THEOREM RunnerImplementsLifecycle == Spec => LifecycleSpec
<1>1. Init => Lifecycle!Init
  BY DEF Init, Lifecycle!Init, Life, n, Runs
<1>2. Inv /\ [Next]_vars => [Lifecycle!Next]_LifeOf
  BY LifeStep
<1> QED  BY <1>1, <1>2, Invariance, PTL DEF Spec, LifecycleSpec, Lifecycle!Spec, LifeOf

-----------------------------------------------------------------------------
(* What a submission forgets                                               *)

\* The ended runs that are still in time, in the order of the sort.
InTime == TerminalRuns \ Stale
Sorted == {rs \in Runs \X Runs : Before(rs[1], rs[2])}

\* The registry holds submitted runs only, whose times are numbers.
LEMMA Registered ==
  ASSUME Inv
  PROVE  /\ n \in Nat /\ runs \subseteq 1 .. n /\ runs \subseteq Runs
         /\ \A r \in runs : r \in Int /\ finished[r] \in Int
<1>1. n \in Nat /\ n <= MaxRuns /\ runs \subseteq 1 .. n /\ MaxRuns \in Nat
  BY ConstantsAssumption DEF Inv, TypeOK, n
<1>2. \A r \in runs : r \in Runs /\ r \in Int
  BY <1>1 DEF Runs
<1>3. \A r \in Runs : finished[r] \in Int
  BY DEF Inv, TypeOK
<1> QED  BY <1>1, <1>2, <1>3

\* The order of the sort is strict, and the places of the runs are what a prune
\* compares.
LEMMA SortedInTime ==
  ASSUME Inv
  PROVE  /\ IsFiniteSet(InTime) /\ InTime \in SUBSET Runs
         /\ StrictOrder(InTime, Sorted)
         /\ \A r \in InTime :
              Place(InTime, Sorted)[r] = Cardinality({s \in InTime : Before(r, s)})
<1>1. InTime \in SUBSET Runs
  BY Registered DEF InTime, TerminalRuns
<1>2. IsFiniteSet(InTime)
  <2>1. IsFiniteSet(Runs)
    BY ConstantsAssumption, FS_Interval DEF Runs
  <2> QED  BY <1>1, <2>1, FS_Subset
<1>3. /\ \A r \in InTime : finished[r] \in Int /\ r \in Int
      /\ \A r, s \in InTime : <<r, s>> \in Sorted <=> Before(r, s)
  <2>1. \A r \in Runs : r \in Int
    BY ConstantsAssumption DEF Runs
  <2>2. \A r \in Runs : finished[r] \in Int
    BY DEF Inv, TypeOK
  <2>3. \A r, s \in InTime : <<r, s>> \in Sorted <=> Before(r, s)
    BY <1>1 DEF Sorted
  <2> QED  BY <1>1, <2>1, <2>2, <2>3
<1>4. StrictOrder(InTime, Sorted)
  <2> HIDE DEF InTime, Sorted
  <2> QED  BY <1>3 DEF StrictOrder, Before
<1>5. ASSUME NEW r \in InTime
      PROVE  Place(InTime, Sorted)[r] = Cardinality({s \in InTime : Before(r, s)})
  <2>1. Ahead(r, InTime, Sorted) = {s \in InTime : Before(r, s)}
    BY <1>3 DEF Ahead
  <2> QED  BY <2>1 DEF Place
<1> QED  BY <1>1, <1>2, <1>4, <1>5

\* What is left of the ended runs are the last MaxTerminalRuns - 1 in time, or all.
LEMMA PruneLeaves ==
  ASSUME Inv
  PROVE  LET Left == InTime \ Excess
         IN  /\ Cardinality(Left) = IF MaxTerminalRuns - 1 < Cardinality(InTime)
                                    THEN MaxTerminalRuns - 1 ELSE Cardinality(InTime)
             /\ \A r \in Excess, s \in Left : finished[s] >= finished[r]
             /\ Excess # {} => MaxTerminalRuns - 1 < Cardinality(InTime)
<1> DEFINE k == MaxTerminalRuns - 1
           f == Place(InTime, Sorted)
           Left == InTime \ Excess
<1>1. /\ IsFiniteSet(InTime) /\ InTime \in SUBSET Runs /\ StrictOrder(InTime, Sorted)
      /\ Excess = {r \in InTime : f[r] >= k}
  BY SortedInTime DEF Excess, InTime
<1>2. k \in Nat
  BY ConstantsAssumption
<1>3. \A r \in InTime : f[r] \in 0 .. Cardinality(InTime) - 1
  BY <1>1, PlaceType
<1>4. Cardinality(InTime) \in Nat
  BY <1>1, FS_CardinalityType
<1>5. Left = {r \in InTime : f[r] < k}
  <2> HIDE DEF f, k
  <2>1. \A r \in InTime : f[r] < k <=> ~(f[r] >= k)
    BY <1>2, <1>3, <1>4
  <2> QED  BY <1>1, <2>1
<1>6. Cardinality(Left) = IF k < Cardinality(InTime) THEN k ELSE Cardinality(InTime)
  BY <1>1, <1>2, <1>5, FirstPlaces
<1>7. ASSUME NEW r \in Excess, NEW s \in Left
      PROVE  finished[s] >= finished[r]
  <2>1. f[r] >= k /\ f[s] < k /\ r \in InTime /\ s \in InTime
    BY <1>1, <1>5
  <2>2. f[r] \in Int /\ f[s] \in Int
    BY <1>3, <1>4, <2>1
  <2>3. ~(<<s, r>> \in Sorted)
    BY <1>1, <1>2, <2>1, <2>2, PlaceMonotonic
  <2>4. ~Before(s, r)
    BY <1>1, <2>1, <2>3 DEF Sorted
  <2>5. finished[r] \in Int /\ finished[s] \in Int
    BY <1>1, <2>1 DEF Inv, TypeOK
  <2> QED  BY <2>4, <2>5 DEF Before
<1>8. Excess # {} => k < Cardinality(InTime)
  <2> HIDE DEF f, k
  <2> QED  BY <1>1, <1>2, <1>3, <1>4
<1> QED  BY <1>6, <1>7, <1>8

\* A submission leaves the ended runs that are in time and not in excess; the new
\* run has not ended.
LEMMA SubmitLeaves ==
  ASSUME Inv, NEW o \in Owners, NEW op \in Operations, Submit(o, op)
  PROVE  /\ runs' \cap TerminalRuns = InTime \ Excess
         /\ runs \ (runs' \cup Stale) \subseteq Excess
<1>1. /\ runs' = (runs \ (Stale \cup Excess)) \cup {n + 1}
      /\ n \in Nat /\ runs \subseteq 1 .. n
  BY Registered DEF Submit, Pruned
<1>2. n + 1 \notin runs
  BY <1>1
<1> QED  BY <1>1, <1>2 DEF InTime, TerminalRuns

\* Nothing but a submission touches the registry of runs.
LEMMA OnlySubmit ==
  ASSUME [Next]_vars, runs' # runs \/ owner' # owner
  PROVE  \E o \in Owners, op \in Operations : Submit(o, op)
BY DEF Next, Start, Resume, DropUnstarted, FinishIO, FinishCall, TakeCall, Acknowledge,
       GiveUp, CancelQueued, CancelRunning, Tick, vars, records, tasks

\* What a submission forgets before its time finished no later than any ended run
\* it keeps, and it keeps exactly as many as leave room for its own.
THEOREM PrunesKeepTheNewest == Spec => PruneKeepsNewest
<1> DEFINE Newest == \A r \in runs \ (runs' \cup Stale) :
                       /\ \A s \in runs' \cap TerminalRuns : finished[r] <= finished[s]
                       /\ Cardinality(runs' \cap TerminalRuns) = MaxTerminalRuns - 1
<1>1. Inv /\ [Next]_vars => Newest
  <2> SUFFICES ASSUME Inv, [Next]_vars, NEW r \in runs \ (runs' \cup Stale)
               PROVE  /\ \A s \in runs' \cap TerminalRuns : finished[r] <= finished[s]
                      /\ Cardinality(runs' \cap TerminalRuns) = MaxTerminalRuns - 1
    OBVIOUS
  <2>1. PICK o \in Owners, op \in Operations : Submit(o, op)
    <3>1. runs' # runs
      OBVIOUS
    <3> QED  BY <3>1, OnlySubmit
  <2>2. r \in Excess /\ runs' \cap TerminalRuns = InTime \ Excess
    BY <2>1, SubmitLeaves
  <2>3. \A s \in runs' \cap TerminalRuns : finished[r] \in Int /\ finished[s] \in Int
    BY Registered DEF TerminalRuns
  <2> QED  BY <2>2, <2>3, PruneLeaves
<1>2. Inv /\ [Next]_vars => [Newest]_vars
  BY <1>1
<1> QED  BY <1>2, Invariance, PTL DEF Spec, PruneKeepsNewest

\* After a submission there is room under the cap for its own run, and no ended run
\* is past its retention.
THEOREM SubmissionsCap == Spec => SubmitCaps
<1> DEFINE Caps == n' # n =>
                     /\ Cardinality(runs' \cap TerminalRuns) < MaxTerminalRuns
                     /\ \A r \in runs' \cap TerminalRuns : now - finished[r] <= Retention
<1>1. Inv /\ [Next]_vars => Caps
  <2> SUFFICES ASSUME Inv, [Next]_vars, n' # n
               PROVE  /\ Cardinality(runs' \cap TerminalRuns) < MaxTerminalRuns
                      /\ \A r \in runs' \cap TerminalRuns : now - finished[r] <= Retention
    OBVIOUS
  <2>1. PICK o \in Owners, op \in Operations : Submit(o, op)
    <3>1. owner' # owner
      BY DEF n
    <3> QED  BY <3>1, OnlySubmit
  <2>2. runs' \cap TerminalRuns = InTime \ Excess
    BY <2>1, SubmitLeaves
  <2>3. Cardinality(InTime) \in Nat /\ MaxTerminalRuns \in Nat
    BY SortedInTime, FS_CardinalityType, ConstantsAssumption
  <2>4. Cardinality(runs' \cap TerminalRuns) < MaxTerminalRuns
    BY <2>2, <2>3, PruneLeaves
  <2>5. ASSUME NEW r \in runs' \cap TerminalRuns
        PROVE  now - finished[r] <= Retention
    <3>1. r \in TerminalRuns /\ r \notin Stale
      BY <2>2, <2>5 DEF InTime
    <3>2. finished[r] \in Int /\ now \in Int /\ Retention \in Int
      BY <3>1, Registered, ConstantsAssumption DEF Inv, TypeOK, TerminalRuns
    <3> QED  BY <3>1, <3>2 DEF Stale
  <2> QED  BY <2>4, <2>5
<1>2. Inv /\ [Next]_vars => [Caps]_vars
  BY <1>1
<1> QED  BY <1>2, Invariance, PTL DEF Spec, SubmitCaps

\* _prune forgets what submit needs the room of, and the oldest first (PruneIsFair).
THEOREM PruningIsFair == Spec => PruneIsFair
BY PrunesKeepTheNewest, SubmissionsCap, PTL DEF PruneIsFair

=============================================================================
