----------------------------- MODULE Monitoring -----------------------------
(***************************************************************************)
(* What EPT records of itself (ept/infrastructure/utils/monitoring.py,     *)
(* ept/api/app.py, ept/features/monitoring): log records and the counters  *)
(* of its requests.                                                        *)
(*                                                                         *)
(* Any thread may log.  The record gets its time, then enters a queue that *)
(* has no limit.  One listener thread takes the records out of it and      *)
(* gives each to the log file and to the store, an SQLite database that    *)
(* keeps the newest ones.  A failing file is ignored; a failing store      *)
(* raises in the listener, and ends it.  GET /v1/monitoring/logs reads the *)
(* store in three steps, with the listener writing in between.  The        *)
(* process may stop, which drains the queue, or crash, and start again on  *)
(* the database it finds.                                                  *)
(***************************************************************************)
EXTENDS Integers, Sequences, FiniteSets

CONSTANTS
  None,
  Threads,    \* what runs in the process: requests,
  Workers,    \*   and threads that work for runs
  Paths,      \* the paths that are asked for
  Statuses,   \* and what they are answered with
  Loggers,    \* where records come from
  Kinds,      \* the records that are logged: [level, logger]
  LogLevel,   \* LOG_LEVEL, of the file and of the loggers outside ept
  Queries,    \* what is asked of the logs: [level, logger, since, limit]
  Capacity,   \* LOG_BUFFER_CAPACITY
  MaxRecords, \* bound: records that are logged
  MaxTime,    \* bound: how far the clock goes
  MaxCalls,   \* bound: requests
  MaxFaults   \* bound: failures of the file or the store, and crashes

Levels == 1..3  \* DEBUG, INFO and above, WARNING and above

Records == [n : Nat, created : Nat, level : Levels, logger : Loggers]

ASSUME ConstantsAssumption ==
  /\ Capacity \in Nat \ {0} /\ LogLevel \in Levels
  /\ {MaxRecords, MaxTime, MaxCalls, MaxFaults} \subseteq Nat
  /\ "logs" \in Paths /\ "ept" \in Loggers /\ Statuses \subseteq 100..599
  /\ Kinds \subseteq [level : Levels, logger : Loggers]
  /\ None \notin Records \cup Paths \cup Queries /\ Workers \subseteq Threads
  /\ Queries \subseteq [level : Levels, logger : Loggers \cup {None}, since : Nat, limit : Nat]

\* What tells the listener to stop.
Sentinel == [n |-> -1]

VARIABLES
  process,   \* up, stopping or down
  now,
  pending,   \* the record a thread has made and not yet put into the queue
  queue,
  listener,  \* running, stopped by the sentinel, or dead of an exception
  file,      \* the records in the rotating log file
  rows,      \* the records in the store, as its connection sees them
  disk,      \* the ones that are committed to the database file
  durable,   \* the store has a file; else it is in memory
  dropped,   \* rows this process has pruned
  serving,   \* the path each thread is serving
  counters,  \* _counters
  reading,   \* what a thread has read of the logs so far
  made, calls, faults,  \* bounds
  base, arrived,        \* history: rows at the start, and what was put into the store since
  evicted,              \* history: the records that were pruned
  ended, failures       \* history: requests that ended, and those that ended with a 5xx

store    == <<rows, disk, durable, dropped, base, arrived, evicted>>
requests == <<serving, counters, calls, ended, failures>>
vars     == <<process, now, pending, queue, listener, file, store, requests, reading, made, faults>>

NoPage == [query |-> None, events |-> <<>>, matched |-> 0, size |-> 0, dropped |-> 0,
           complete |-> FALSE, kept |-> FALSE]

Init ==
  /\ process = "up" /\ listener = "running" /\ now = 0
  /\ pending = [t \in Threads |-> None]
  /\ queue = <<>> /\ file = <<>>
  /\ rows = <<>> /\ disk = <<>> /\ durable \in BOOLEAN /\ dropped = 0
  /\ serving = [t \in Threads |-> None]
  /\ counters = [active |-> 0, total |-> 0, server_errors |-> 0]
  /\ reading = [t \in Threads |-> NoPage]
  /\ made = 0 /\ calls = 0 /\ faults = 0
  /\ base = 0 /\ arrived = <<>> /\ evicted = {} /\ ended = 0 /\ failures = 0

-----------------------------------------------------------------------------
(* Logging                                                                 *)

\* The levels configure_logging gives to ept, to httpx and to all others.
Emitted(logger, level) ==
  level >= CASE logger = "ept" -> 1 [] logger = "httpx" -> 3 [] OTHER -> LogLevel

Record(level, logger) == [n |-> made, created |-> now', level |-> level, logger |-> logger]

\* Time passes between two records, or does not.
Tick == now' = now \/ (now < MaxTime /\ now' = now + 1)

\* A call of the logger makes a record, with its time.
Make(t, level, logger) ==
  /\ pending[t] = None /\ made < MaxRecords
  /\ Tick
  /\ pending' = [pending EXCEPT ![t] = Record(level, logger)]
  /\ made' = made + 1

\* A request logs anything, and so does a worker, which may outlive the server.
Log(t) ==
  /\ process # "down" /\ (t \in Workers \/ serving[t] # None)
  /\ \E k \in Kinds : Emitted(k.logger, k.level) /\ Make(t, k.level, k.logger)
  /\ UNCHANGED <<process, queue, listener, file, store, requests, reading, faults>>

\* QueueHandler.enqueue
Enqueue(t) ==
  /\ process # "down" /\ pending[t] # None
  /\ queue' = Append(queue, pending[t])
  /\ pending' = [pending EXCEPT ![t] = None]
  /\ UNCHANGED <<process, now, listener, file, store, requests, reading, made, faults>>

\* Mutant: one row too many is kept.
NewestPlus(s) == IF Len(s) <= Capacity + 1 THEN s ELSE SubSeq(s, Len(s) - Capacity, Len(s))

\* The newest rows, by their place in the table and not by their time.
Newest(s) == IF Len(s) <= Capacity THEN s ELSE SubSeq(s, Len(s) - Capacity + 1, Len(s))

\* Mutant: the transaction is left open.
Uncommitted(s) == disk

Committed(s) == IF durable THEN s ELSE disk

Pruned(s) == {s[i] : i \in 1..(Len(s) - Len(Newest(s)))}

\* LogBufferHandler.emit, under its lock: the row is inserted, the oldest are deleted,
\* and both are committed.
Emit(record) ==
  LET inserted == Append(rows, record)
  IN /\ rows' = Newest(inserted)
     /\ dropped' = dropped + Len(inserted) - Len(Newest(inserted))
     /\ disk' = Committed(Newest(inserted))
     /\ arrived' = Append(arrived, record)
     /\ evicted' = evicted \cup Pruned(inserted)
     /\ UNCHANGED <<durable, base>>

\* It fails in its first, second or third statement, having done the ones before.
EmitFails(record) ==
  LET inserted == Append(rows, record)
  IN \/ UNCHANGED store
     \/ /\ rows' = inserted
        /\ arrived' = Append(arrived, record)
        /\ UNCHANGED <<disk, durable, dropped, base, evicted>>
     \/ /\ rows' = Newest(inserted)
        /\ dropped' = dropped + Len(inserted) - Len(Newest(inserted))
        /\ arrived' = Append(arrived, record)
        /\ evicted' = evicted \cup Pruned(inserted)
        /\ UNCHANGED <<disk, durable, base>>

\* The stream handlers catch their own errors and go on.
ToFile(record) ==
  IF record.level < LogLevel THEN UNCHANGED file ELSE file' = Append(file, record)

Listening == listener = "running" /\ queue # <<>>

\* QueueListener._monitor: the file first, then the store.
Handle ==
  /\ Listening /\ Head(queue) # Sentinel
  /\ queue' = Tail(queue)
  /\ ToFile(Head(queue))
  /\ Emit(Head(queue))
  /\ UNCHANGED <<process, now, pending, listener, requests, reading, made, faults>>

HandleFails ==
  /\ Listening /\ Head(queue) # Sentinel /\ faults < MaxFaults
  /\ faults' = faults + 1
  /\ queue' = Tail(queue)
  /\ \/ UNCHANGED <<file, listener>> /\ Emit(Head(queue))
     \/ ToFile(Head(queue)) /\ EmitFails(Head(queue)) /\ listener' = "dead"
  /\ UNCHANGED <<process, now, pending, requests, reading, made>>

-----------------------------------------------------------------------------
(* Requests                                                                *)

\* request_logging_middleware: record_request_start
Enter(t) ==
  /\ process = "up" /\ t \notin Workers /\ calls < MaxCalls
  /\ serving[t] = None /\ pending[t] = None
  /\ calls' = calls + 1
  /\ \E p \in Paths : serving' = [serving EXCEPT ![t] = p]
  /\ counters' = [counters EXCEPT !.active = @ + 1, !.total = @ + 1]
  /\ reading' = [reading EXCEPT ![t] = NoPage]
  /\ UNCHANGED <<process, now, pending, queue, listener, file, store, made, faults, ended, failures>>

\* A successful poll of the status of EPT leaves no trace.
Silent(path, status) == path \in {"health", "logs"} /\ status < 400

\* Mutant: a request that raised ends twice, in its handler and behind it.
CloseTwice(status) ==
  counters' = [counters EXCEPT !.active = @ - (IF status = 500 THEN 2 ELSE 1),
                               !.server_errors = IF status >= 500 THEN @ + 1 ELSE @]

\* record_request_end
Close(status) ==
  counters' = [counters EXCEPT !.active = @ - 1,
                               !.server_errors = IF status >= 500 THEN @ + 1 ELSE @]

\* The request has its response, or has raised, which counts and is logged as a 500.
Leave(t, status) ==
  /\ process = "up" /\ serving[t] # None /\ pending[t] = None
  /\ serving[t] = "logs" /\ status = 200 => reading[t].complete
  /\ serving' = [serving EXCEPT ![t] = None]
  /\ Close(status)
  /\ ended' = ended + 1
  /\ failures' = IF status >= 500 THEN failures + 1 ELSE failures
  /\ \/ Silent(serving[t], status) /\ UNCHANGED <<now, pending, made>>
     \/ ~Silent(serving[t], status) /\ Make(t, IF status >= 400 THEN 3 ELSE 2, "ept")
  /\ UNCHANGED <<process, queue, listener, file, store, reading, calls, faults>>

Matches(record, query) ==
  /\ record.level >= query.level
  /\ query.logger = None \/ record.logger = query.logger
  /\ record.created >= query.since

Matching(query) == {i \in DOMAIN rows : Matches(rows[i], query)}

\* ORDER BY created DESC, seq DESC
Before(i, j) == rows[i].created > rows[j].created \/ (rows[i].created = rows[j].created /\ i > j)

Rank(i, all) == Cardinality({j \in all : Before(j, i)}) + 1

Smaller(m, n) == IF m < n THEN m ELSE n

\* search, under the lock of the store: the count and the page.
Search(t) ==
  /\ process = "up" /\ serving[t] = "logs" /\ reading[t].query = None
  /\ \E q \in Queries :
       LET all == Matching(q)
       IN reading' = [reading EXCEPT ![t] =
            [query |-> q, matched |-> Cardinality(all),
             events |-> [k \in 1..Smaller(q.limit, Cardinality(all)) |->
                           rows[CHOOSE i \in all : Rank(i, all) = k]],
             size |-> 0, dropped |-> 0, complete |-> FALSE,
             kept |-> (durable /\ listener # "dead")]]
  /\ UNCHANGED <<process, now, pending, queue, listener, file, store, requests, made, faults>>

\* The size and then the pruned rows are read after it.
Measure(t) ==
  /\ process = "up" /\ serving[t] = "logs" /\ reading[t].query # None /\ reading[t].size = 0
  /\ reading' = [reading EXCEPT ![t].size = Len(rows), ![t].complete = (rows = <<>>)]
  /\ UNCHANGED <<process, now, pending, queue, listener, file, store, requests, made, faults>>

ReadDropped(t) ==
  /\ process = "up" /\ serving[t] = "logs" /\ reading[t].size > 0 /\ ~reading[t].complete
  /\ reading' = [reading EXCEPT ![t].dropped = dropped, ![t].complete = TRUE]
  /\ UNCHANGED <<process, now, pending, queue, listener, file, store, requests, made, faults>>

-----------------------------------------------------------------------------
(* The process                                                             *)

\* The server lets its requests end, then leaves the lifespan: it logs, and puts the
\* sentinel behind everything that is queued.
Shutdown ==
  /\ process = "up" /\ \A t \in Threads : serving[t] = None
  /\ made < MaxRecords
  /\ process' = "stopping"
  /\ Tick
  /\ queue' = queue \o <<Record(2, "ept"), Sentinel>>
  /\ made' = made + 1
  /\ UNCHANGED <<pending, listener, file, store, requests, reading, faults>>

StopListening ==
  /\ Listening /\ Head(queue) = Sentinel
  /\ listener' = "stopped"
  /\ queue' = Tail(queue)
  /\ UNCHANGED <<process, now, pending, file, store, requests, reading, made, faults>>

Gone ==
  /\ process' = "down"
  /\ pending' = [t \in Threads |-> None]
  /\ queue' = <<>>
  /\ serving' = [t \in Threads |-> None]
  /\ UNCHANGED <<now, listener, file, store, counters, reading, calls, ended, failures, made>>

\* Mutant: the listener is not waited for.
ExitAtOnce == process = "stopping" /\ Gone /\ UNCHANGED faults

\* listener.stop() joins the thread.
Exit == process = "stopping" /\ listener # "running" /\ Gone /\ UNCHANGED faults

Crash == process # "down" /\ faults < MaxFaults /\ faults' = faults + 1 /\ Gone

\* A new process: the database is opened, or cannot be and the store is in memory.
Start ==
  /\ process = "down" /\ made < MaxRecords
  /\ process' = "up" /\ listener' = "running"
  /\ durable' \in BOOLEAN
  /\ rows' = IF durable' THEN disk ELSE <<>>
  /\ arrived' = <<>> /\ base' = Len(rows') /\ dropped' = 0
  /\ counters' = [active |-> 0, total |-> 0, server_errors |-> 0]
  /\ ended' = 0 /\ failures' = 0
  /\ UNCHANGED <<now, pending, queue, file, disk, evicted, serving, calls, reading, made, faults>>

Next ==
  \/ \E t \in Threads : \/ Log(t) \/ Enqueue(t) \/ Enter(t) \/ Search(t) \/ Measure(t) \/ ReadDropped(t)
                        \/ \E status \in Statuses : Leave(t, status)
  \/ Handle \/ HandleFails \/ StopListening \/ Shutdown \/ Exit \/ Crash \/ Start

\* The listener thread is scheduled, and a join returns.
Spec == Init /\ [][Next]_vars /\ WF_vars(Handle) /\ WF_vars(StopListening) /\ WF_vars(Exit)

-----------------------------------------------------------------------------
(* Properties                                                              *)

\* The kinds of things.
TypeOK ==
  /\ process \in {"up", "stopping", "down"} /\ listener \in {"running", "stopped", "dead"}
  /\ now \in Nat /\ made \in Nat /\ calls \in Nat /\ faults \in Nat
  /\ pending \in [Threads -> Records \cup {None}]
  /\ queue \in Seq(Records \cup {Sentinel})
  /\ file \in Seq(Records) /\ rows \in Seq(Records) /\ disk \in Seq(Records) /\ arrived \in Seq(Records)
  /\ durable \in BOOLEAN /\ dropped \in Nat /\ base \in Nat
  /\ evicted \subseteq Records
  /\ serving \in [Threads -> Paths \cup {None}]
  /\ counters \in [active : Nat, total : Nat, server_errors : Nat]
  /\ ended \in Nat /\ failures \in Nat

\* emit: as long as the store has not failed it holds its capacity at most; what it
\* holds and what it has reported as dropped add up to what it was given; and what it
\* holds of this process is the newest that it was given.
StoreIsAccounted ==
  /\ listener # "dead" => Len(rows) <= Capacity
  /\ process # "down" => dropped + Len(rows) = base + Len(arrived)
  /\ process # "down" => \A i \in 1..Smaller(Len(rows), Len(arrived)) :
                           rows[Len(rows) + 1 - i] = arrived[Len(arrived) + 1 - i]

\* The requests a thread is serving are the ones counted as active, and every one that
\* came is active or has ended (record_request_start, record_request_end).
CountersBalance ==
  process # "down" =>
    /\ counters.active = Cardinality({t \in Threads : serving[t] # None})
    /\ counters.total = counters.active + ended
    /\ counters.server_errors = failures

\* What the status reports adds up: records and requests.
CountsAreRight == StoreIsAccounted /\ CountersBalance

\* get_monitoring_logs: a page is sorted, newest first, holds what the filters allow,
\* and never claims more matches than the store has rows, although the store is
\* written between the search and the reading of its size.
LogsPageFits ==
  \A t \in Threads : LET page == reading[t] IN page.complete =>
    /\ page.matched <= page.size
    /\ Len(page.events) = Smaller(page.query.limit, page.matched)
    /\ \A i \in DOMAIN page.events : Matches(page.events[i], page.query)
    /\ \A i, j \in DOMAIN page.events : i < j =>
         /\ page.events[i].created >= page.events[j].created
         /\ page.events[i] # page.events[j]

\* What was shown of a store that has a file and has not failed is on disk, also after a
\* stop or a crash, until it is pruned.
SeenIsKept ==
  \A t \in Threads : reading[t].kept => \A i \in DOMAIN reading[t].events :
    \/ reading[t].events[i] \in evicted
    \/ \E k \in DOMAIN disk : disk[k] = reading[t].events[i]

\* What a search shows is what the store holds, and keeps.
SearchesAreTrue == LogsPageFits /\ SeenIsKept

InQueue(n) ==
  listener = "running" /\ \E i \in DOMAIN queue : queue[i].n = n /\ \A j \in 1..i : queue[j] # Sentinel
Stored(n) == \E i \in DOMAIN arrived : /\ arrived[i].n = n
                                      /\ arrived[i].level >= LogLevel => \E k \in DOMAIN file : file[k] = arrived[i]

\* Every record that is queued before the process is told to stop reaches the store,
\* also when it stops, and the log file if its level allows; unless the store fails or
\* the process crashes.
RecordsAreHandled ==
  \A n \in 0..MaxRecords : InQueue(n) ~> (Stored(n) \/ faults > 0)

=============================================================================
