----------------------------- MODULE RunManager -----------------------------
(***************************************************************************)
(* The EPT job runner (ept/features/job_runner): RunManager and the        *)
(* POST/DELETE /v1/runs handlers, on the asyncio event loop that executes  *)
(* them and the default thread pool that asyncio.to_thread uses.           *)
(*                                                                         *)
(* One step of this specification is one uninterrupted stretch of the      *)
(* event loop (a handler up to its next await, one step of a run's task),  *)
(* one thing a worker thread does, or one completion from outside.         *)
(*                                                                         *)
(* A run is numbered by its place in the submission order, which is the    *)
(* insertion order of the _runs dictionary; its uuid is that number.       *)
(***************************************************************************)
EXTENDS Integers, Sequences, FiniteSets

CONSTANTS
  Owners,           \* callers (username or subject of the bearer token)
  Requests,         \* DELETE requests that may be in flight at once
  Caller,           \* the owner each of them is sent by
  Operations,       \* operations.toml: the awaits of a runner, and its finally
  Workers,          \* threads of the default executor
  MaxTerminalRuns,  \* MAX_TERMINAL_RUNS
  Retention,        \* RUN_RETENTION_SECONDS
  MaxRuns,          \* bound: runs submitted in a behaviour
  MaxClock          \* bound: ticks of the clock

\* What a runner waits for: a future of the event loop, or a worker thread.
Kinds == {"io", "thread"}

ASSUME ConstantsAssumption ==
  /\ Caller \in [Requests -> Owners]
  /\ Operations \subseteq [awaits : Seq(Kinds), cleanup : BOOLEAN]
  /\ Workers \in Nat \ {0}
  /\ MaxTerminalRuns \in Nat \ {0}
  /\ Retention \in Nat
  /\ MaxRuns \in Nat
  /\ MaxClock \in Nat \ {0}

VARIABLES
  now,       \* the clock utcnow() reads
  owner,     \* FeatureRun.owner, of every run submitted so far
  runs,      \* the keys of RunManager._runs
  status,    \* FeatureRun.status
  finished,  \* FeatureRun.finished_at, 0 for None
  asked,     \* whether task.cancel() was called on the run's task
  phase,     \* where the task is: ready, suspended on io/thread, woken, done
  wake,      \* what its next step gets from the await: a value or an exception
  todo,      \* awaits its runner still has to reach
  holds,     \* whether the runner has a client to close in its finally block
  outcome,   \* how the runner is leaving while that block awaits
  job,       \* the run's call in the pool: none, queued, dropped or busy
  queue,     \* the pool's work queue
  deletes    \* the run each DELETE in flight waits for, 0 when there is none

records == <<owner, runs, status, finished>>
tasks   == <<asked, phase, wake, todo, holds, outcome>>
pool    == <<job, queue>>
vars    == <<now, records, tasks, pool, deletes>>

Runs     == 1 .. MaxRuns
Terminal == {"succeeded", "failed", "cancelled"}
Statuses == {"queued", "running"} \cup Terminal
n        == Len(owner)
Phases   == {"none", "ready", "io", "thread", "woken", "done"}
Wakes    == {"value", "error", "cancel"}
Jobs     == {"none", "queued", "dropped", "busy"}

TypeOK ==
  /\ now \in 1 .. MaxClock
  /\ owner \in Seq(Owners) /\ n <= MaxRuns
  /\ runs \subseteq 1 .. n
  /\ status \in [Runs -> Statuses]
  /\ finished \in [Runs -> 0 .. now]
  /\ asked \in [Runs -> BOOLEAN]
  /\ phase \in [Runs -> Phases]
  /\ wake \in [Runs -> Wakes]
  /\ todo \in [Runs -> Seq(Kinds)]
  /\ holds \in [Runs -> BOOLEAN]
  /\ outcome \in [Runs -> {"none"} \cup Terminal]
  /\ job \in [Runs -> Jobs]
  /\ queue \in Seq(Runs)
  /\ deletes \in [Requests -> 0 .. n]

Init ==
  /\ now = 1
  /\ owner = <<>>
  /\ runs = {}
  /\ status = [r \in Runs |-> "queued"]
  /\ finished = [r \in Runs |-> 0]
  /\ asked = [r \in Runs |-> FALSE]
  /\ phase = [r \in Runs |-> "none"]
  /\ wake = [r \in Runs |-> "value"]
  /\ todo = [r \in Runs |-> <<>>]
  /\ holds = [r \in Runs |-> FALSE]
  /\ outcome = [r \in Runs |-> "none"]
  /\ job = [r \in Runs |-> "none"]
  /\ queue = <<>>
  /\ deletes = [d \in Requests |-> 0]

-----------------------------------------------------------------------------
(* RunManager.submit and _prune                                            *)

TerminalRuns == {r \in runs : status[r] \in Terminal}

Stale == {r \in TerminalRuns : now - finished[r] > Retention}

\* Mutant: sorted newest first.
BeforeReversed(r, s) == finished[r] > finished[s] \/ (finished[r] = finished[s] /\ r < s)

\* r comes before s in the stable sort by finished_at.
Before(r, s) == finished[r] < finished[s] \/ (finished[r] = finished[s] /\ r < s)

\* All but the last MaxTerminalRuns - 1 of the sorted terminal runs.
Excess == {r \in TerminalRuns \ Stale :
             Cardinality({s \in TerminalRuns \ Stale : Before(r, s)})
               >= MaxTerminalRuns - 1}

Pruned == Stale \cup Excess

\* POST /v1/runs with a registered operation and a valid payload.
Submit(o, op) ==
  /\ n < MaxRuns
  /\ owner' = Append(owner, o)
  /\ runs' = (runs \ Pruned) \cup {n + 1}
  /\ phase' = [phase EXCEPT ![n + 1] = "ready"]
  /\ todo' = [todo EXCEPT ![n + 1] = op.awaits]
  /\ holds' = [holds EXCEPT ![n + 1] = op.cleanup]
  /\ UNCHANGED <<now, status, finished, asked, wake, outcome, pool, deletes>>

-----------------------------------------------------------------------------
(* RunManager._execute and the runner it awaits                            *)

\* Mutant: the runner waits for a call that was never handed to the pool.
AwaitUnsubmitted(r) ==
  /\ todo[r] # <<>>
  /\ status' = [status EXCEPT ![r] = "running"]
  /\ phase' = [phase EXCEPT ![r] = Head(todo[r])]
  /\ todo' = [todo EXCEPT ![r] = Tail(@)]
  /\ UNCHANGED <<finished, holds, outcome, pool>>

\* The runner suspends in its next await.  A thread call joins the pool's
\* queue in the same stretch.
Await(r) ==
  /\ todo[r] # <<>>
  /\ status' = [status EXCEPT ![r] = "running"]
  /\ phase' = [phase EXCEPT ![r] = Head(todo[r])]
  /\ todo' = [todo EXCEPT ![r] = Tail(@)]
  /\ IF Head(todo[r]) = "thread"
     THEN /\ job' = [job EXCEPT ![r] = "queued"]
          /\ queue' = Append(queue, r)
     ELSE UNCHANGED pool
  /\ UNCHANGED <<finished, holds, outcome>>

\* A runner that leaves a call no worker has taken yet drops it: the cancelled
\* asyncio future cancels the executor's future.  Once the call runs that is
\* too late, and the worker carries on.
DropCall(r) ==
  /\ job' = [job EXCEPT ![r] = IF @ = "queued" THEN "dropped" ELSE @]
  /\ UNCHANGED queue

\* A run gets its terminal status and its finish time.
Record(r, how) ==
  /\ status' = [status EXCEPT ![r] = how]
  /\ finished' = [finished EXCEPT ![r] = now]

\* _execute records how the runner ended, and the task is done.  Nothing is
\* left of the runner's frame.
End(r, how) ==
  /\ Record(r, how)
  /\ phase' = [phase EXCEPT ![r] = "done"]
  /\ todo' = [todo EXCEPT ![r] = <<>>]
  /\ outcome' = [outcome EXCEPT ![r] = "none"]
  /\ holds' = [holds EXCEPT ![r] = FALSE]

\* The runner's body is left.  With a client to close, its finally block
\* awaits first.
Leave(r, how) ==
  /\ IF holds[r]
     THEN /\ status' = [status EXCEPT ![r] = "running"]
          /\ phase' = [phase EXCEPT ![r] = "io"]
          /\ holds' = [holds EXCEPT ![r] = FALSE]
          /\ outcome' = [outcome EXCEPT ![r] = how]
          /\ todo' = [todo EXCEPT ![r] = <<>>]
          /\ UNCHANGED finished
     ELSE End(r, how)
  /\ DropCall(r)

\* One stretch of the runner whose await has just produced got.
Advance(r, got) ==
  \/ got = "cancel" /\ Leave(r, "cancelled")
  \/ outcome[r] = "none" /\ got = "value" /\ Await(r)
  \/ outcome[r] = "none" /\ got = "value" /\ todo[r] = <<>> /\ Leave(r, "succeeded")
  \/ outcome[r] = "none" /\ got # "cancel" /\ Leave(r, "failed")
  \/ outcome[r] # "none" /\ got = "value" /\ End(r, outcome[r]) /\ UNCHANGED pool
  \/ outcome[r] # "none" /\ got = "error" /\ End(r, "failed") /\ UNCHANGED pool

\* The first step of the task enters _execute ...
Start(r) ==
  /\ phase[r] = "ready"
  /\ ~asked[r]
  /\ Advance(r, "value")
  /\ UNCHANGED <<now, owner, runs, asked, wake, deletes>>

\* ... unless it was cancelled before: the coroutine is never entered.
DropUnstarted(r) ==
  /\ phase[r] = "ready"
  /\ asked[r]
  /\ phase' = [phase EXCEPT ![r] = "done"]
  /\ todo' = [todo EXCEPT ![r] = <<>>]
  /\ holds' = [holds EXCEPT ![r] = FALSE]
  /\ UNCHANGED <<now, records, asked, wake, outcome, pool, deletes>>

\* Every later step resumes the runner at its await.
Resume(r) ==
  /\ phase[r] = "woken"
  /\ Advance(r, wake[r])
  /\ wake' = [wake EXCEPT ![r] = "value"]
  /\ UNCHANGED <<now, owner, runs, asked, deletes>>

-----------------------------------------------------------------------------
(* What the awaits wait for                                                *)

Wake(r, got) ==
  /\ phase' = [phase EXCEPT ![r] = "woken"]
  /\ wake' = [wake EXCEPT ![r] = got]

\* A network operation answers or fails.
FinishIO(r) ==
  /\ phase[r] = "io"
  /\ \E got \in {"value", "error"} : Wake(r, got)
  /\ UNCHANGED <<now, records, asked, todo, holds, outcome, pool, deletes>>

\* An idle worker takes the oldest call, and skips it if it was dropped.
TakeCall ==
  /\ queue # <<>>
  /\ Cardinality({r \in Runs : job[r] = "busy"}) < Workers
  /\ job' = [job EXCEPT ![Head(queue)] = IF @ = "dropped" THEN "none" ELSE "busy"]
  /\ queue' = Tail(queue)
  /\ UNCHANGED <<now, records, tasks, deletes>>

\* What a call returned or raised reaches the task that waits for it.  Nobody
\* listens if the run's future was cancelled meanwhile.
Deliver(r) ==
  IF phase[r] = "thread"
  THEN \E got \in {"value", "error"} : Wake(r, got)
  ELSE UNCHANGED <<phase, wake>>

\* A worker's call ends.
FinishCall(r) ==
  /\ job[r] = "busy"
  /\ job' = [job EXCEPT ![r] = "none"]
  /\ Deliver(r)
  /\ UNCHANGED <<now, records, asked, todo, holds, outcome, queue, deletes>>

Tick ==
  /\ now < MaxClock
  /\ now' = now + 1
  /\ UNCHANGED <<records, tasks, pool, deletes>>

-----------------------------------------------------------------------------
(* DELETE /v1/runs/{run_id} and RunManager.cancel                          *)

\* RunManager.get: a foreign or forgotten run is answered 404.
Visible(r, o) == r \in runs /\ owner[r] = o

\* The task has not entered _execute: the handler does the bookkeeping and
\* answers at once.
CancelQueued(d, r) ==
  /\ deletes[d] = 0
  /\ Visible(r, Caller[d])
  /\ status[r] = "queued"
  /\ asked' = [asked EXCEPT ![r] = TRUE]
  /\ Record(r, "cancelled")
  /\ UNCHANGED <<now, owner, runs, phase, wake, todo, holds, outcome, pool, deletes>>

\* Mutants: a task that is about to go on goes on; a thread is waited for.
InterruptSuspended(r) == Wake(r, IF phase[r] = "woken" THEN wake[r] ELSE "cancel")
InterruptAfterCall(r) ==
  IF phase[r] = "thread" THEN UNCHANGED <<phase, wake>> ELSE Wake(r, "cancel")

\* task.cancel() cancels the future the task waits for, or replaces what a
\* woken task is about to receive.
Interrupt(r) == Wake(r, "cancel")

\* The task is in _execute: it is interrupted, and the handler waits for it.
CancelRunning(d, r) ==
  /\ deletes[d] = 0
  /\ Visible(r, Caller[d])
  /\ status[r] = "running"
  /\ asked' = [asked EXCEPT ![r] = TRUE]
  /\ Interrupt(r)
  /\ deletes' = [deletes EXCEPT ![d] = r]
  /\ UNCHANGED <<now, records, todo, holds, outcome, pool>>

\* The handler answers with the run's public view, when the task is done ...
Acknowledge(d) ==
  /\ deletes[d] # 0
  /\ phase[deletes[d]] = "done"
  /\ deletes' = [deletes EXCEPT ![d] = 0]
  /\ UNCHANGED <<now, records, tasks, pool>>

\* ... or after CANCEL_WAIT_SECONDS, whatever the task does.
GiveUp(d) ==
  /\ deletes[d] # 0
  /\ deletes' = [deletes EXCEPT ![d] = 0]
  /\ UNCHANGED <<now, records, tasks, pool>>

-----------------------------------------------------------------------------

Next ==
  \/ \E o \in Owners, op \in Operations : Submit(o, op)
  \/ \E r \in Runs : \/ Start(r) \/ DropUnstarted(r) \/ Resume(r)
                     \/ FinishIO(r) \/ FinishCall(r)
  \/ \E d \in Requests, r \in Runs : CancelQueued(d, r) \/ CancelRunning(d, r)
  \/ \E d \in Requests : Acknowledge(d) \/ GiveUp(d)
  \/ TakeCall
  \/ Tick

Spec == Init /\ [][Next]_vars

-----------------------------------------------------------------------------
(* Fairness                                                                *)

\* The event loop runs every ready task and every handler that can go on, and
\* its timers fire.
LoopFairness ==
  /\ \A r \in Runs : WF_vars(Start(r)) /\ WF_vars(DropUnstarted(r)) /\ WF_vars(Resume(r))
  /\ \A d \in Requests : WF_vars(Acknowledge(d)) /\ WF_vars(GiveUp(d))

\* Every HTTP operation ends: the clients are built with timeouts.
NetworkFairness == \A r \in Runs : WF_vars(FinishIO(r))

\* Threads are scheduled, and what they are given to do ends.
PoolFairness == WF_vars(TakeCall) /\ \A r \in Runs : WF_vars(FinishCall(r))

\* The pool is left out: a worker thread may hang for ever.
FairSpec == Spec /\ LoopFairness /\ NetworkFairness

-----------------------------------------------------------------------------
(* Properties                                                              *)

\* The life of run r as its clients see it.
Life(r) == IF r > n THEN "absent"
           ELSE IF r \notin runs THEN "forgotten"
           ELSE IF status[r] = "running" /\ asked[r] THEN "stopping"
           ELSE status[r]

Lifecycle == INSTANCE RunLifecycle WITH life <- [r \in Runs |-> Life(r)]

\* The runner, with its tasks, threads and prunes, implements RunLifecycle:
\* a run that was asked to stop never succeeds, an ended run never changes,
\* and only an ended run is forgotten.
LifecycleSpec == Lifecycle!Spec

\* The task of a run that has not ended is alive: no run is left queued or
\* running with nobody to end it (manager.py's "task is None or done" branch of
\* cancel is never needed).
NoZombie == \A r \in 1 .. n :
  \/ status[r] \in Terminal
  \/ phase[r] \in {"io", "thread", "woken"}
  \/ phase[r] = "ready" /\ ~asked[r]

\* A task that waits for a thread has a call in the pool that will wake it, and
\* a call nobody waits for is one whose run was cancelled.
NoLostWakeup == \A r \in Runs :
  /\ phase[r] = "thread" => job[r] \in {"queued", "busy"}
  /\ job[r] # "none" /\ phase[r] # "thread" => asked[r]

\* A DELETE in flight waits for a run of its own caller, and that run can only
\* be answered as still running, failed or cancelled, even if it was forgotten
\* meanwhile.
DeleteAnswers == \A d \in Requests : deletes[d] # 0 =>
  /\ owner[deletes[d]] = Caller[d]
  /\ status[deletes[d]] \in {"running", "failed", "cancelled"}

\* No more calls run than there are workers, and every call that waits for one
\* is in the work queue once.
PoolConsistent ==
  /\ Cardinality({r \in Runs : job[r] = "busy"}) <= Workers
  /\ \A i, j \in DOMAIN queue : queue[i] = queue[j] => i = j
  /\ \A r \in Runs : job[r] \in {"queued", "dropped"}
                      <=> \E i \in DOMAIN queue : queue[i] = r

\* Runs, tasks, threads and requests fit together, whatever is cancelled when.
Consistent == NoZombie /\ NoLostWakeup /\ PoolConsistent /\ DeleteAnswers

\* What a prune drops before its time finished no later than any ended run it
\* keeps, and leaves exactly MaxTerminalRuns - 1 of those.
PruneKeepsNewest ==
  [][\A r \in runs \ (runs' \cup Stale) :
       /\ \A s \in runs' \cap TerminalRuns : finished[r] <= finished[s]
       /\ Cardinality(runs' \cap TerminalRuns) = MaxTerminalRuns - 1]_vars

\* A submission leaves room for its own run under the cap, and no run past its
\* retention.
SubmitCaps ==
  [][n' # n => /\ Cardinality(runs' \cap TerminalRuns) < MaxTerminalRuns
               /\ \A r \in runs' \cap TerminalRuns : now - finished[r] <= Retention]_vars

\* _prune forgets what submit needs the room of, and the oldest first.
PruneIsFair == PruneKeepsNewest /\ SubmitCaps

\* Every submitted run ends, if the calls in the pool do.
EveryRunEnds ==
  PoolFairness => \A r \in Runs : n >= r ~> status[r] \in Terminal

\* A running run that is asked to stop stops, whatever its worker thread and
\* those of all other runs do.
CancelStops == \A r \in Runs : asked[r] ~> status[r] \in Terminal

\* No run is for ever on its way, neither to its end nor to its cancellation.
RunsEnd == EveryRunEnds /\ CancelStops

=============================================================================
