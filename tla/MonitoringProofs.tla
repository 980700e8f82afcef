--------------------------- MODULE MonitoringProofs ---------------------------
(* Theorems about Monitoring, for every value of its constants.             *)
EXTENDS Monitoring, RankTheorems

(* The inductive invariant, in four parts.                                  *)

\* What a thread has read of the logs.
Pages == [query : Queries \cup {None}, events : Seq(Records), matched : Nat, size : Nat,
          dropped : Nat, complete : BOOLEAN, kept : BOOLEAN]

\* The requests that are being served, and what is counted of them.
Active == {t \in Threads : serving[t] # None}

CountInv ==
  /\ IsFiniteSet(Active)
  /\ process # "up" => Active = {}
  /\ CountersBalance

\* The database holds its capacity at most, and is what a store that has not failed
\* holds; the two only differ in what a failure has left uncommitted.
LatestIn(held, given) ==
  \A i \in 1 .. Smaller(Len(held), Len(given)) :
    held[Len(held) + 1 - i] = given[Len(given) + 1 - i]

StoreInv ==
  /\ Len(disk) <= Capacity
  /\ listener # "dead" => Len(rows) <= Capacity
  /\ durable /\ listener # "dead" => rows = disk
  /\ dropped + Len(rows) = base + Len(arrived)
  /\ LatestIn(rows, arrived)

\* A record is in one place on its way, and in one row.
Numbered(s, m) ==
  /\ \A i \in DOMAIN s : s[i].n < m
  /\ \A i, j \in DOMAIN s : s[i].n = s[j].n => i = j \/ s[i].n = -1

Apart(s, q, p) ==
  \A i \in DOMAIN s :
    /\ \A j \in DOMAIN q : s[i].n # q[j].n
    /\ \A t \in Threads : p[t] # None => p[t].n # s[i].n

Underway(p, q, m) ==
  \A t \in Threads : p[t] # None =>
    /\ p[t].n < m
    /\ \A u \in Threads : p[u] # None /\ p[u].n = p[t].n => t = u
    /\ \A j \in DOMAIN q : q[j].n # p[t].n

NumberInv ==
  /\ Underway(pending, queue, made)
  /\ Numbered(queue, made)
  /\ Numbered(rows, made) /\ Apart(rows, queue, pending)
  /\ Numbered(disk, made) /\ Apart(disk, queue, pending)

\* A page, from its search on.
PageInv(t) == LET page == reading[t] IN
  /\ page.complete \/ page.size > 0 => page.query # None
  /\ page.query = None => page.events = <<>>
  /\ page.query # None =>
       /\ Len(page.events) = Smaller(page.query.limit, page.matched)
       /\ \A i \in DOMAIN page.events : Matches(page.events[i], page.query)
       /\ \A i, j \in DOMAIN page.events : i < j =>
            /\ page.events[i].created >= page.events[j].created
            /\ page.events[i] # page.events[j]
       /\ page.size = 0 /\ ~page.complete /\ serving[t] # None => page.matched <= Len(rows)
       /\ page.complete \/ page.size > 0 => page.matched <= page.size

Inv ==
  /\ TypeOK /\ reading \in [Threads -> Pages]
  /\ CountInv /\ StoreInv /\ NumberInv
  /\ \A t \in Threads : PageInv(t)
  /\ SeenIsKept

-----------------------------------------------------------------------------
(* The rows that are kept                                                   *)

\* Newest keeps the end of a sequence, of the length of the store at most.
LEMMA NewestIsEnd ==
  ASSUME NEW s \in Seq(Records)
  PROVE  /\ Newest(s) \in Seq(Records)
         /\ Len(Newest(s)) = IF Len(s) <= Capacity THEN Len(s) ELSE Capacity
         /\ Len(s) - Len(Newest(s)) \in Nat
         /\ \A i \in 1 .. Len(Newest(s)) :
              /\ Newest(s)[i] = s[i + (Len(s) - Len(Newest(s)))]
              /\ i + (Len(s) - Len(Newest(s))) \in 1 .. Len(s)
<1>0. Capacity \in Nat /\ Capacity > 0 /\ Len(s) \in Nat
  BY ConstantsAssumption
<1>1. CASE Len(s) <= Capacity
  <2>1. Newest(s) = s
    BY <1>1 DEF Newest
  <2>2. \A i \in 1 .. Len(s) : i + (Len(s) - Len(s)) = i
    BY <1>0
  <2> QED  BY <1>0, <1>1, <2>1, <2>2
<1>2. CASE ~(Len(s) <= Capacity)
  <2> DEFINE m == Len(s) - Capacity + 1
  <2>1. Newest(s) = SubSeq(s, m, Len(s))
    BY <1>2 DEF Newest
  <2>2. m \in 1 .. Len(s) /\ Len(s) - m + 1 = Capacity
    BY <1>0, <1>2
  <2>3. /\ Newest(s) \in Seq(Records) /\ Len(Newest(s)) = Capacity
        /\ \A i \in 1 .. Capacity : Newest(s)[i] = s[m + i - 1]
    BY <1>0, <2>1, <2>2
  <2>4. \A i \in 1 .. Capacity : m + i - 1 = i + (Len(s) - Capacity) /\ i + (Len(s) - Capacity) \in 1 .. Len(s)
    BY <1>0, <1>2
  <2> HIDE DEF m
  <2> QED  BY <1>0, <1>2, <2>3, <2>4
<1> QED  BY <1>1, <1>2

\* How many records those are.
LEMMA NewestLength ==
  ASSUME NEW s \in Seq(Records)
  PROVE  /\ Newest(s) \in Seq(Records) /\ Len(s) \in Nat /\ Len(Newest(s)) \in Nat
         /\ Len(s) - Len(Newest(s)) \in Nat
<1>1. Newest(s) \in Seq(Records) /\ Len(s) - Len(Newest(s)) \in Nat
  BY NewestIsEnd
<1> HIDE DEF Newest
<1> QED  BY <1>1

\* Every row is kept or pruned.
LEMMA KeptOrPruned ==
  ASSUME NEW s \in Seq(Records), NEW i \in DOMAIN s
  PROVE  s[i] \in Pruned(s) \/ \E k \in DOMAIN Newest(s) : Newest(s)[k] = s[i]
<1> DEFINE d == Len(s) - Len(Newest(s))
           k == Len(Newest(s))
<1>1. d \in Nat /\ k \in Nat /\ Len(s) = k + d /\ Newest(s) \in Seq(Records)
  <2>1. d \in Nat /\ k \in Nat /\ Len(s) \in Nat /\ Newest(s) \in Seq(Records)
    BY NewestLength
  <2>2. d = Len(s) - k
    OBVIOUS
  <2> HIDE DEF d, k
  <2> QED  BY <2>1, <2>2
<1>2. CASE i <= d
  BY <1>1, <1>2 DEF Pruned
<1>3. CASE i > d
  <2>1. i - d \in 1 .. Len(Newest(s)) /\ (i - d) + d = i
    BY <1>1, <1>3
  <2>2. Newest(s)[i - d] = s[i]
    BY <2>1, NewestIsEnd
  <2>3. i - d \in DOMAIN Newest(s)
    BY <2>1, NewestIsEnd
  <2> HIDE DEF d
  <2> QED  BY <2>2, <2>3
<1> QED  BY <1>1, <1>2, <1>3

\* What is the latest stays so when both get a record more, and when the oldest rows
\* are pruned.
LEMMA LatestAppend ==
  ASSUME NEW s \in Seq(Records), NEW a \in Seq(Records), NEW r \in Records, LatestIn(s, a)
  PROVE  LatestIn(Append(s, r), Append(a, r))
<1>1. Len(Append(s, r)) = Len(s) + 1 /\ Len(Append(a, r)) = Len(a) + 1
      /\ Len(s) \in Nat /\ Len(a) \in Nat
  OBVIOUS
<1>2. ASSUME NEW i \in 1 .. Smaller(Len(s) + 1, Len(a) + 1)
      PROVE  Append(s, r)[Len(s) + 2 - i] = Append(a, r)[Len(a) + 2 - i]
  <2>1. CASE i = 1
    BY <1>1, <2>1
  <2>2. CASE i # 1
    <3>1. i - 1 \in 1 .. Smaller(Len(s), Len(a))
      BY <1>1, <2>2 DEF Smaller
    <3>2. s[Len(s) + 1 - (i - 1)] = a[Len(a) + 1 - (i - 1)]
      BY <3>1 DEF LatestIn
    <3>3. /\ Len(s) + 1 - (i - 1) = Len(s) + 2 - i /\ Len(s) + 2 - i \in 1 .. Len(s)
          /\ Len(a) + 1 - (i - 1) = Len(a) + 2 - i /\ Len(a) + 2 - i \in 1 .. Len(a)
      BY <1>1, <3>1 DEF Smaller
    <3> QED  BY <3>2, <3>3
  <2> QED  BY <2>1, <2>2
<1>4. ASSUME NEW i \in 1 .. Smaller(Len(Append(s, r)), Len(Append(a, r)))
      PROVE  Append(s, r)[Len(Append(s, r)) + 1 - i] = Append(a, r)[Len(Append(a, r)) + 1 - i]
  <2>1. i \in 1 .. Smaller(Len(s) + 1, Len(a) + 1)
    BY <1>1
  <2>2. Len(Append(s, r)) + 1 - i = Len(s) + 2 - i /\ Len(Append(a, r)) + 1 - i = Len(a) + 2 - i
    BY <1>1, <2>1 DEF Smaller
  <2> QED  BY <1>2, <2>1, <2>2
<1> QED  BY <1>4 DEF LatestIn

LEMMA LatestNewest ==
  ASSUME NEW s \in Seq(Records), NEW a \in Seq(Records), LatestIn(s, a)
  PROVE  LatestIn(Newest(s), a)
<1> DEFINE d == Len(s) - Len(Newest(s))
           k == Len(Newest(s))
<1>1. d \in Nat /\ k \in Nat /\ Len(s) = k + d /\ Len(a) \in Nat /\ Newest(s) \in Seq(Records)
  <2>1. d \in Nat /\ k \in Nat /\ Len(s) \in Nat /\ Len(a) \in Nat /\ Newest(s) \in Seq(Records)
    BY NewestLength
  <2>2. d = Len(s) - k
    OBVIOUS
  <2> HIDE DEF d, k
  <2> QED  BY <2>1, <2>2
<1>2. ASSUME NEW i \in 1 .. Smaller(k, Len(a))
      PROVE  Newest(s)[k + 1 - i] = a[Len(a) + 1 - i]
  <2>1. /\ k + 1 - i \in 1 .. k /\ (k + 1 - i) + d = Len(s) + 1 - i
        /\ i \in 1 .. Smaller(Len(s), Len(a))
    BY <1>1 DEF Smaller
  <2>2. Newest(s)[k + 1 - i] = s[(k + 1 - i) + d]
    BY <2>1, NewestIsEnd
  <2>3. s[Len(s) + 1 - i] = a[Len(a) + 1 - i]
    BY <2>1 DEF LatestIn
  <2> QED  BY <2>1, <2>2, <2>3
<1> QED  BY <1>2 DEF LatestIn


-----------------------------------------------------------------------------
(* The numbers of records                                                   *)

Entries == Records \cup {Sentinel}

LEMMA EntryTypes ==
  /\ \A e \in Entries : e.n \in Int
  /\ \A r \in Records : r.n \in Nat /\ r # None /\ r # Sentinel
  /\ Sentinel.n = -1
<1>1. \A r \in Records : r.n \in Nat /\ r # None
  BY ConstantsAssumption DEF Records
<1>2. Sentinel.n = -1
  BY DEF Sentinel
<1> QED  BY <1>1, <1>2 DEF Entries

\* A stretch of a sequence, some of its first left out.
Part(u, s) ==
  /\ s \in Seq(Entries) /\ u \in Seq(Entries)
  /\ \E d \in Nat : \A i \in DOMAIN u : i + d \in DOMAIN s /\ u[i] = s[i + d]

LEMMA PartNumbers ==
  ASSUME NEW s, NEW u, Part(u, s), NEW m, NEW q, NEW p
  PROVE  /\ Numbered(s, m) => Numbered(u, m)
         /\ Apart(s, q, p) => Apart(u, q, p)
<1>1. PICK d \in Nat : \A i \in DOMAIN u : i + d \in DOMAIN s /\ u[i] = s[i + d]
  BY DEF Part
<1>2. u \in Seq(Entries)
  BY DEF Part
<1>3. \A i \in DOMAIN u : i \in Int
  BY <1>2
<1>4. Numbered(s, m) => Numbered(u, m)
  BY <1>1, <1>3 DEF Numbered
<1>5. Apart(s, q, p) => Apart(u, q, p)
  BY <1>1 DEF Apart
<1> QED  BY <1>4, <1>5

LEMMA TailPart ==
  ASSUME NEW s \in Seq(Entries), s # <<>>
  PROVE  Part(Tail(s), s)
<1>1. Tail(s) \in Seq(Entries) /\ \A i \in DOMAIN Tail(s) : i + 1 \in DOMAIN s /\ Tail(s)[i] = s[i + 1]
  OBVIOUS
<1> QED  BY <1>1 DEF Part

LEMMA NewestPart ==
  ASSUME NEW s \in Seq(Records)
  PROVE  Part(Newest(s), s)
<1> DEFINE d == Len(s) - Len(Newest(s))
<1>1. /\ Newest(s) \in Seq(Records) /\ d \in Nat
      /\ \A i \in 1 .. Len(Newest(s)) : i + d \in 1 .. Len(s) /\ Newest(s)[i] = s[i + d]
  BY NewestIsEnd
<1>2. DOMAIN s = 1 .. Len(s) /\ DOMAIN Newest(s) = 1 .. Len(Newest(s))
  BY <1>1
<1>3. s \in Seq(Entries) /\ Newest(s) \in Seq(Entries)
  BY <1>1 DEF Entries
<1> HIDE DEF d
<1> QED  BY <1>1, <1>2, <1>3 DEF Part

LEMMA NumberedMore ==
  ASSUME NEW s \in Seq(Entries), NEW m \in Int, NEW k \in Int, m <= k, Numbered(s, m)
  PROVE  Numbered(s, k)
<1>1. \A i \in DOMAIN s : s[i].n \in Int
  BY EntryTypes
<1> QED  BY <1>1 DEF Numbered

LEMMA AppendEntries ==
  ASSUME NEW s \in Seq(Entries), NEW e \in Entries
  PROVE  \A j \in DOMAIN Append(s, e) :
           Append(s, e)[j] = e \/ \E k \in DOMAIN s : Append(s, e)[j] = s[k]
<1>1. /\ DOMAIN Append(s, e) = DOMAIN s \cup {Len(s) + 1}
      /\ Append(s, e)[Len(s) + 1] = e
      /\ \A i \in DOMAIN s : Append(s, e)[i] = s[i]
  OBVIOUS
<1> QED  BY <1>1

LEMMA NumberedAppend ==
  ASSUME NEW s \in Seq(Entries), NEW m \in Int, Numbered(s, m),
         NEW e \in Entries, e.n < m, \A i \in DOMAIN s : s[i].n # e.n \/ e.n = -1
  PROVE  Numbered(Append(s, e), m)
<1>1. /\ DOMAIN Append(s, e) = DOMAIN s \cup {Len(s) + 1}
      /\ Append(s, e)[Len(s) + 1] = e
      /\ \A i \in DOMAIN s : Append(s, e)[i] = s[i]
  OBVIOUS
<1> QED  BY <1>1 DEF Numbered

LEMMA ApartAppend ==
  ASSUME NEW s \in Seq(Entries), NEW q, NEW p, Apart(s, q, p),
         NEW e \in Entries, \A j \in DOMAIN q : q[j].n # e.n,
         \A t \in Threads : p[t] # None => p[t].n # e.n
  PROVE  Apart(Append(s, e), q, p)
<1>1. /\ DOMAIN Append(s, e) = DOMAIN s \cup {Len(s) + 1}
      /\ Append(s, e)[Len(s) + 1] = e
      /\ \A i \in DOMAIN s : Append(s, e)[i] = s[i]
  OBVIOUS
<1> QED  BY <1>1 DEF Apart

\* What is in a queue with one entry more.
LEMMA ApartQueued ==
  ASSUME NEW s \in Seq(Records), NEW q \in Seq(Entries), NEW p, Apart(s, q, p),
         NEW e \in Entries, \A i \in DOMAIN s : s[i].n # e.n
  PROVE  Apart(s, Append(q, e), p)
<1>1. /\ DOMAIN Append(q, e) = DOMAIN q \cup {Len(q) + 1}
      /\ Append(q, e)[Len(q) + 1] = e
      /\ \A i \in DOMAIN q : Append(q, e)[i] = q[i]
  OBVIOUS
<1> QED  BY <1>1 DEF Apart

LEMMA ApartTail ==
  ASSUME NEW s, NEW q \in Seq(Entries), q # <<>>, NEW p
  PROVE  /\ Apart(s, q, p) => Apart(s, Tail(q), p)
         /\ \A m : Underway(p, q, m) => Underway(p, Tail(q), m)
<1>1. \A i \in DOMAIN Tail(q) : i + 1 \in DOMAIN q /\ Tail(q)[i] = q[i + 1]
  OBVIOUS
<1>2. Apart(s, q, p) => Apart(s, Tail(q), p)
  BY <1>1 DEF Apart
<1>3. \A m : Underway(p, q, m) => Underway(p, Tail(q), m)
  BY <1>1 DEF Underway
<1> QED  BY <1>2, <1>3

LEMMA NumberTypes ==
  ASSUME TypeOK
  PROVE  /\ made \in Nat /\ queue \in Seq(Entries)
         /\ rows \in Seq(Records) /\ disk \in Seq(Records) /\ arrived \in Seq(Records)
         /\ rows \in Seq(Entries) /\ disk \in Seq(Entries)
         /\ \A t \in Threads : pending[t] # None => pending[t] \in Records
BY DEF TypeOK, Entries

\* A new record has a number of its own.
LEMMA MakeNumbers ==
  ASSUME TypeOK, NumberInv, NEW t \in Threads, NEW level \in Levels, NEW logger \in Loggers,
         Make(t, level, logger), UNCHANGED <<queue, rows, disk>>
  PROVE  NumberInv'
<1> DEFINE r == Record(level, logger)
<1>1. r \in Records /\ r.n = made /\ r # None
  <2>1. made \in Nat /\ now' \in Nat
    BY DEF TypeOK, Make, Tick
  <2> QED  BY <2>1, EntryTypes DEF Record, Records
<1>2. /\ made' = made + 1 /\ pending[t] = None
      /\ \A u \in Threads : pending'[u] = IF u = t THEN r ELSE pending[u]
  BY DEF Make, TypeOK
<1> HIDE DEF r
<1>3. Underway(pending, queue, made)'
  <2>1. \A u \in Threads : pending[u] # None => pending[u].n \in Int /\ pending[u].n < made
    BY NumberTypes, EntryTypes DEF NumberInv, Underway
  <2>2. \A j \in DOMAIN queue : queue[j].n < made /\ queue[j].n \in Int
    BY NumberTypes, EntryTypes DEF NumberInv, Numbered
  <2>3. \A j \in DOMAIN queue : queue[j].n # made
    BY <2>2, NumberTypes
  <2>4. ASSUME NEW u \in Threads, pending'[u] # None
        PROVE  /\ pending'[u].n < made + 1
               /\ \A v \in Threads : pending'[v] # None /\ pending'[v].n = pending'[u].n => u = v
               /\ \A j \in DOMAIN queue : queue[j].n # pending'[u].n
    <3>1. CASE u = t
      <4>1. pending'[u] = r /\ r.n = made /\ made < made + 1
        BY <1>1, <1>2, <3>1, NumberTypes
      <4>2. \A v \in Threads : v # t /\ pending'[v] # None => pending'[v].n # made
        BY <1>2, <2>1, NumberTypes
      <4> QED  BY <2>3, <3>1, <4>1, <4>2
    <3>2. CASE u # t
      <4>1. pending'[u] = pending[u] /\ pending[u] # None /\ pending[u].n \in Int /\ pending[u].n < made
        BY <1>2, <2>1, <2>4, <3>2
      <4>2. ASSUME NEW v \in Threads, pending'[v] # None, pending'[v].n = pending[u].n
            PROVE  u = v
        <5>1. CASE v = t
          <6>1. pending'[v].n = made
            BY <1>1, <1>2, <5>1
          <6> QED  BY <4>1, <4>2, <6>1, NumberTypes
        <5>2. CASE v # t
          <6>1. pending'[v] = pending[v]
            BY <1>2, <5>2
          <6> QED  BY <4>1, <4>2, <6>1 DEF NumberInv, Underway
        <5> QED  BY <5>1, <5>2
      <4>3. \A j \in DOMAIN queue : queue[j].n # pending[u].n
        BY <4>1 DEF NumberInv, Underway
      <4>4. pending[u].n < made + 1
        BY <4>1, NumberTypes
      <4> QED  BY <4>1, <4>2, <4>3, <4>4
    <3> QED  BY <3>1, <3>2
  <2> QED  BY <1>2, <2>4 DEF Underway
<1>4. Numbered(queue, made)' /\ Numbered(rows, made)' /\ Numbered(disk, made)'
  BY <1>2, NumberedMore, NumberTypes DEF NumberInv
<1>5. ASSUME NEW s \in Seq(Records), Numbered(s, made), Apart(s, queue, pending)
      PROVE  Apart(s, queue, pending')
  <2>1. \A i \in DOMAIN s : s[i].n # made
    <3>1. \A i \in DOMAIN s : s[i].n < made /\ s[i].n \in Int
      BY <1>5, EntryTypes DEF Numbered
    <3> QED  BY <3>1, NumberTypes
  <2> QED  BY <1>1, <1>2, <1>5, <2>1 DEF Apart
<1>6. Apart(rows, queue, pending)' /\ Apart(disk, queue, pending)'
  BY <1>5, NumberTypes DEF NumberInv
<1> QED  BY <1>3, <1>4, <1>6 DEF NumberInv

LEMMA EnqueueNumbers ==
  ASSUME TypeOK, NumberInv, NEW t \in Threads, Enqueue(t)
  PROVE  NumberInv'
<1> DEFINE r == pending[t]
<1>1. r \in Records /\ r # None /\ r.n \in Nat /\ r.n < made
  BY NumberTypes, EntryTypes DEF Enqueue, NumberInv, Underway
<1>2. /\ queue' = Append(queue, r) /\ UNCHANGED <<made, rows, disk>>
      /\ \A u \in Threads : pending'[u] = IF u = t THEN None ELSE pending[u]
  BY DEF Enqueue, TypeOK, store
<1>3. Numbered(queue, made)'
  <2>1. \A j \in DOMAIN queue : queue[j].n # r.n
    BY <1>1 DEF NumberInv, Underway
  <2> HIDE DEF r
  <2>2. Numbered(Append(queue, r), made)
    BY <1>1, <2>1, NumberTypes, NumberedAppend DEF NumberInv, Entries
  <2> QED  BY <1>2, <2>2
<1>4. Underway(pending, queue, made)'
  <2>1. \A u \in Threads : pending'[u] # None => pending'[u].n # r.n
    BY <1>1, <1>2 DEF NumberInv, Underway
  <2>2. \A u \in Threads : pending'[u] # None => pending'[u] = pending[u] /\ pending[u] # None
    BY <1>2
  <2> HIDE DEF r
  <2>3. \A j \in DOMAIN queue' : queue'[j] = r \/ \E k \in DOMAIN queue : queue'[j] = queue[k]
    BY <1>2, NumberTypes
  <2> QED  BY <1>2, <2>1, <2>2, <2>3 DEF NumberInv, Underway
<1>5. ASSUME NEW s \in Seq(Records), Apart(s, queue, pending)
      PROVE  Apart(s, queue', pending')
  <2>1. \A i \in DOMAIN s : s[i].n # r.n
    BY <1>1, <1>5 DEF Apart
  <2> HIDE DEF r
  <2>2. Apart(s, Append(queue, r), pending)
    BY <1>1, <1>5, <2>1, NumberTypes, ApartQueued DEF Entries
  <2>3. \A u \in Threads : pending'[u] # None => pending'[u] = pending[u] /\ pending[u] # None
    BY <1>2
  <2> QED  BY <1>2, <2>2, <2>3 DEF Apart
<1> QED  BY <1>2, <1>3, <1>4, <1>5, NumberTypes DEF NumberInv

\* What the listener has taken out of the queue is nowhere, before it is stored.
LEMMA TakenNumbers ==
  ASSUME TypeOK, NumberInv, Listening
  PROVE  /\ Underway(pending, Tail(queue), made)
         /\ Numbered(Tail(queue), made)
         /\ Apart(rows, Tail(queue), pending) /\ Apart(disk, Tail(queue), pending)
         /\ Head(queue) # Sentinel =>
              /\ Head(queue) \in Records /\ Head(queue).n < made
              /\ \A i \in DOMAIN rows : rows[i].n # Head(queue).n
              /\ \A j \in DOMAIN Tail(queue) : Tail(queue)[j].n # Head(queue).n
              /\ \A t \in Threads : pending[t] # None => pending[t].n # Head(queue).n
<1>1. queue \in Seq(Entries) /\ queue # <<>>
  BY NumberTypes DEF Listening
<1>2. Head(queue) = queue[1] /\ 1 \in DOMAIN queue /\ Head(queue) \in Entries
  BY <1>1
<1>3. \A j \in DOMAIN Tail(queue) : j + 1 \in DOMAIN queue /\ Tail(queue)[j] = queue[j + 1] /\ j + 1 # 1
  BY <1>1
<1>4. Head(queue) # Sentinel => Head(queue) \in Records /\ Head(queue).n \in Nat
  BY <1>2, EntryTypes DEF Entries
<1>5. Head(queue) # Sentinel =>
              /\ Head(queue).n < made
              /\ \A i \in DOMAIN rows : rows[i].n # Head(queue).n
              /\ \A t \in Threads : pending[t] # None => pending[t].n # Head(queue).n
  BY <1>2 DEF NumberInv, Numbered, Apart, Underway
<1>6. Head(queue) # Sentinel =>
              \A j \in DOMAIN Tail(queue) : Tail(queue)[j].n # Head(queue).n
  <2> SUFFICES ASSUME Head(queue) # Sentinel, NEW j \in DOMAIN Tail(queue),
                      Tail(queue)[j].n = Head(queue).n
               PROVE  FALSE
    OBVIOUS
  <2>1. queue[j + 1].n = queue[1].n /\ j + 1 # 1 /\ queue[1].n # -1
    BY <1>2, <1>3, <1>4
  <2> QED  BY <1>2, <1>3, <2>1 DEF NumberInv, Numbered
<1>7. Numbered(Tail(queue), made)
  BY <1>1, TailPart, PartNumbers DEF NumberInv
<1> QED  BY <1>1, <1>4, <1>5, <1>6, <1>7, ApartTail DEF NumberInv

\* What emit leaves in the table and in the database.
Stores(record) ==
  /\ rows' \in {rows, Append(rows, record), Newest(Append(rows, record))}
  /\ disk' \in {disk, Newest(Append(rows, record))}

LEMMA StoreNumbers ==
  ASSUME TypeOK, NumberInv, Listening, Head(queue) # Sentinel, Stores(Head(queue)),
         queue' = Tail(queue), UNCHANGED <<pending, made>>
  PROVE  NumberInv'
<1> DEFINE r == Head(queue)
           q == Tail(queue)
           all == Append(rows, r)
<1>1. /\ r \in Records /\ r.n < made
      /\ \A i \in DOMAIN rows : rows[i].n # r.n
      /\ \A j \in DOMAIN q : q[j].n # r.n
      /\ \A t \in Threads : pending[t] # None => pending[t].n # r.n
      /\ Underway(pending, q, made) /\ Numbered(q, made)
      /\ Apart(rows, q, pending) /\ Apart(disk, q, pending)
  BY TakenNumbers
<1>2. all \in Seq(Records)
  BY <1>1, NumberTypes
<1>3. Numbered(all, made) /\ Apart(all, q, pending)
  <2>1. r \in Entries /\ rows \in Seq(Entries) /\ made \in Int /\ Numbered(rows, made)
    BY <1>1, NumberTypes DEF NumberInv, Entries
  <2> HIDE DEF r, q
  <2>2. Numbered(all, made)
    BY <1>1, <2>1, NumberedAppend
  <2>3. Apart(all, q, pending)
    BY <1>1, <2>1, ApartAppend
  <2> QED  BY <2>2, <2>3
<1>4. Numbered(Newest(all), made) /\ Apart(Newest(all), q, pending)
  <2> HIDE DEF all, q
  <2> QED  BY <1>2, <1>3, NewestPart, PartNumbers
<1>5. Numbered(rows, made) /\ Numbered(disk, made)
  BY DEF NumberInv
<1>6. rows' \in {rows, all, Newest(all)} /\ disk' \in {disk, Newest(all)}
  BY DEF Stores
<1> HIDE DEF r, all, q
<1>7. Numbered(rows', made) /\ Apart(rows', q, pending)
  BY <1>1, <1>3, <1>4, <1>5, <1>6
<1>8. Numbered(disk', made) /\ Apart(disk', q, pending)
  BY <1>1, <1>4, <1>5, <1>6
<1> QED  BY <1>1, <1>7, <1>8 DEF NumberInv, q

LEMMA ShutdownNumbers ==
  ASSUME TypeOK, NumberInv, Shutdown
  PROVE  NumberInv'
<1> DEFINE r == Record(2, "ept")
<1>1. r \in Records /\ r.n = made
  <2>1. made \in Nat /\ now' \in Nat
    BY DEF TypeOK, Shutdown, Tick
  <2> QED  BY <2>1, ConstantsAssumption DEF Record, Records, Levels
<1>2. queue' = queue \o <<r, Sentinel>> /\ made' = made + 1 /\ UNCHANGED <<pending, rows, disk>>
  BY DEF Shutdown, store
<1> HIDE DEF r
<1>3. queue' = Append(Append(queue, r), Sentinel)
  BY <1>1, <1>2, NumberTypes DEF Entries
<1>4. /\ r \in Entries /\ Sentinel \in Entries /\ Sentinel.n = -1 /\ Append(queue, r) \in Seq(Entries)
      /\ made + 1 \in Int /\ made \in Int /\ made <= made + 1 /\ made < made + 1 /\ -1 < made + 1
  BY <1>1, NumberTypes, EntryTypes DEF Entries
<1>5. /\ \A j \in DOMAIN queue : queue[j].n # made
      /\ \A i \in DOMAIN rows : rows[i].n # made /\ rows[i].n # -1
      /\ \A i \in DOMAIN disk : disk[i].n # made /\ disk[i].n # -1
      /\ \A t \in Threads : pending[t] # None => pending[t].n # made /\ pending[t].n # -1
  <2>1. /\ \A j \in DOMAIN queue : queue[j].n < made /\ queue[j].n \in Int
        /\ \A i \in DOMAIN rows : rows[i].n < made /\ rows[i].n \in Nat
        /\ \A i \in DOMAIN disk : disk[i].n < made /\ disk[i].n \in Nat
        /\ \A t \in Threads : pending[t] # None => pending[t].n < made /\ pending[t].n \in Nat
    BY NumberTypes, EntryTypes DEF NumberInv, Numbered, Underway
  <2> QED  BY <2>1, NumberTypes
<1>6. Numbered(queue', made')
  <2>1. Numbered(queue, made + 1)
    BY <1>4, NumberTypes, NumberedMore DEF NumberInv
  <2>2. Numbered(Append(queue, r), made + 1)
    BY <1>1, <1>4, <1>5, <2>1, NumberTypes, NumberedAppend
  <2>3. Numbered(Append(Append(queue, r), Sentinel), made + 1)
    BY <1>4, <2>2, NumberedAppend
  <2> QED  BY <1>2, <1>3, <2>3
<1>7. Numbered(rows', made') /\ Numbered(disk', made')
  BY <1>2, <1>4, NumberTypes, NumberedMore DEF NumberInv
<1>8. ASSUME NEW s \in Seq(Records), Apart(s, queue, pending),
             \A i \in DOMAIN s : s[i].n # made /\ s[i].n # -1
      PROVE  Apart(s, queue', pending')
  <2>1. Apart(s, Append(queue, r), pending)
    BY <1>1, <1>4, <1>8, NumberTypes, ApartQueued
  <2>2. Apart(s, Append(Append(queue, r), Sentinel), pending)
    BY <1>4, <1>8, <2>1, ApartQueued
  <2> QED  BY <1>2, <1>3, <2>2
<1>9. Underway(pending', queue', made')
  <2>1. \A j \in DOMAIN queue' : queue'[j].n \in {made, -1} \/ \E k \in DOMAIN queue : queue'[j] = queue[k]
    <3>1. \A j \in DOMAIN queue' : queue'[j] = Sentinel
                \/ \E k \in DOMAIN Append(queue, r) : queue'[j] = Append(queue, r)[k]
      BY <1>3, <1>4, AppendEntries
    <3>2. \A j \in DOMAIN Append(queue, r) : Append(queue, r)[j] = r
                \/ \E k \in DOMAIN queue : Append(queue, r)[j] = queue[k]
      BY <1>4, NumberTypes, AppendEntries
    <3> QED  BY <1>1, <1>4, <3>1, <3>2
  <2>2. \A t \in Threads : pending[t] # None => pending[t].n < made + 1
    <3>1. \A t \in Threads : pending[t] # None => pending[t].n < made /\ pending[t].n \in Nat
      BY NumberTypes, EntryTypes DEF NumberInv, Underway
    <3> QED  BY <3>1, NumberTypes
  <2> QED  BY <1>2, <1>5, <2>1, <2>2 DEF NumberInv, Underway
<1> QED  BY <1>2, <1>5, <1>6, <1>7, <1>8, <1>9, NumberTypes DEF NumberInv

\* Every step keeps the numbers of records apart.
LEMMA NumberStep == TypeOK /\ NumberInv /\ [Next]_vars => NumberInv'
<1> SUFFICES ASSUME TypeOK, NumberInv, [Next]_vars PROVE NumberInv'
  OBVIOUS
<1>1. ASSUME NEW t \in Threads, Log(t) PROVE NumberInv'
  <2>1. PICK k \in Kinds : Make(t, k.level, k.logger)
    BY <1>1 DEF Log
  <2>2. k.level \in Levels /\ k.logger \in Loggers /\ UNCHANGED <<queue, rows, disk>>
    BY <1>1, ConstantsAssumption DEF Log, store
  <2> QED  BY <2>1, <2>2, MakeNumbers
<1>2. ASSUME NEW t \in Threads, NEW status \in Statuses, Leave(t, status) PROVE NumberInv'
  <2>1. UNCHANGED <<queue, rows, disk>>
    BY <1>2 DEF Leave, store
  <2>2. CASE UNCHANGED <<pending, made>>
    BY <2>1, <2>2 DEF NumberInv
  <2>3. CASE Make(t, IF status >= 400 THEN 3 ELSE 2, "ept")
    <3>1. (IF status >= 400 THEN 3 ELSE 2) \in Levels /\ "ept" \in Loggers
      BY ConstantsAssumption DEF Levels
    <3> QED  BY <2>1, <2>3, <3>1, MakeNumbers
  <2> QED  BY <1>2, <2>2, <2>3 DEF Leave
<1>3. CASE Handle \/ HandleFails
  <2>1. /\ Listening /\ Head(queue) # Sentinel /\ queue' = Tail(queue)
        /\ UNCHANGED <<pending, made>>
    BY <1>3 DEF Handle, HandleFails
  <2>2. Stores(Head(queue))
    BY <1>3 DEF Handle, HandleFails, Stores, Emit, EmitFails, Committed, store
  <2> QED  BY <2>1, <2>2, StoreNumbers
<1>4. CASE StopListening
  <2>1. Listening /\ queue' = Tail(queue) /\ UNCHANGED <<pending, made, rows, disk>>
    BY <1>4 DEF StopListening, store
  <2> QED  BY <2>1, TakenNumbers DEF NumberInv
<1>5. CASE Exit \/ Crash
  <2>1. /\ queue' = <<>> /\ UNCHANGED <<made, rows, disk>>
        /\ \A t \in Threads : pending'[t] = None
    BY <1>5 DEF Exit, Crash, Gone, store
  <2> QED  BY <2>1 DEF NumberInv, Underway, Numbered, Apart
<1>6. CASE Start
  <2>1. UNCHANGED <<made, queue, pending, disk>> /\ (rows' = disk \/ rows' = <<>>)
    BY <1>6 DEF Start
  <2>2. Numbered(<<>>, made) /\ Apart(<<>>, queue, pending)
    BY DEF Numbered, Apart
  <2> QED  BY <2>1, <2>2 DEF NumberInv
<1>7. CASE \E t \in Threads : Enter(t) \/ Search(t) \/ Measure(t) \/ ReadDropped(t)
  <2>1. UNCHANGED <<made, queue, pending, disk, rows>>
    BY <1>7 DEF Enter, Search, Measure, ReadDropped, store
  <2> QED  BY <2>1 DEF NumberInv
<1>8. CASE UNCHANGED vars
  BY <1>8 DEF NumberInv, vars, store
<1> QED  BY <1>1, <1>2, <1>3, <1>4, <1>5, <1>6, <1>7, <1>8, EnqueueNumbers, ShutdownNumbers DEF Next

-----------------------------------------------------------------------------
(* The store                                                                *)

LEMMA EmitStore ==
  ASSUME TypeOK, StoreInv, listener # "dead", NEW r \in Records,
         Emit(r) \/ (EmitFails(r) /\ listener' = "dead")
  PROVE  StoreInv'
<1> DEFINE all == Append(rows, r)
           given == Append(arrived, r)
<1>1. /\ rows \in Seq(Records) /\ arrived \in Seq(Records) /\ all \in Seq(Records)
      /\ given \in Seq(Records) /\ Len(all) = Len(rows) + 1 /\ Len(given) = Len(arrived) + 1
      /\ Len(rows) \in Nat /\ Len(arrived) \in Nat /\ Len(rows) <= Capacity
      /\ dropped \in Nat /\ base \in Nat /\ Capacity \in Nat
  BY ConstantsAssumption DEF TypeOK, StoreInv
<1>2. /\ Len(Newest(all)) \in Nat /\ Len(Newest(all)) <= Capacity
  <2> HIDE DEF all, given
  <2>1. Len(Newest(all)) = IF Len(all) <= Capacity THEN Len(all) ELSE Capacity
    BY <1>1, NewestIsEnd
  <2> QED  BY <1>1, <2>1
<1>3. LatestIn(all, given) /\ LatestIn(Newest(all), given)
  <2>1. LatestIn(all, given)
    BY <1>1, LatestAppend DEF StoreInv
  <2> HIDE DEF all, given
  <2> QED  BY <1>1, <2>1, LatestNewest
<1> HIDE DEF all, given
<1>4. CASE UNCHANGED store /\ listener' = "dead"
  BY <1>4 DEF StoreInv, store
<1>5. CASE /\ rows' = all /\ arrived' = given /\ listener' = "dead"
           /\ UNCHANGED <<disk, durable, dropped, base>>
  <2>1. dropped' + Len(rows') = base' + Len(arrived')
    <3>1. /\ dropped' = dropped /\ base' = base
          /\ Len(rows') = Len(rows) + 1 /\ Len(arrived') = Len(arrived) + 1
      BY <1>1, <1>5
    <3>2. dropped + Len(rows) = base + Len(arrived)
      BY DEF StoreInv
    <3>3. dropped \in Int /\ base \in Int /\ Len(rows) \in Int /\ Len(arrived) \in Int
      BY <1>1
    <3> QED  BY <3>1, <3>2, <3>3
  <2>2. Len(disk') <= Capacity /\ LatestIn(rows, arrived)'
    BY <1>3, <1>5 DEF StoreInv
  <2> QED  BY <1>5, <2>1, <2>2 DEF StoreInv
<1>6. CASE /\ rows' = Newest(all) /\ arrived' = given
           /\ dropped' = dropped + Len(all) - Len(Newest(all))
           /\ disk' = disk /\ listener' = "dead" /\ base' = base
  <2>1. dropped' + Len(rows') = base' + Len(arrived')
    BY <1>1, <1>2, <1>6 DEF StoreInv
  <2> QED  BY <1>3, <1>6, <2>1 DEF StoreInv
<1>7. CASE /\ rows' = Newest(all) /\ arrived' = given
           /\ dropped' = dropped + Len(all) - Len(Newest(all))
           /\ disk' = Committed(Newest(all)) /\ durable' = durable /\ base' = base
  BY <1>1, <1>2, <1>3, <1>7 DEF StoreInv, Committed
<1> QED  BY <1>4, <1>5, <1>6, <1>7 DEF Emit, EmitFails, all, given

\* Every step keeps the store accounted for.
LEMMA StoreStep == TypeOK /\ NumberInv /\ StoreInv /\ [Next]_vars => StoreInv'
<1> SUFFICES ASSUME TypeOK, NumberInv, StoreInv, [Next]_vars PROVE StoreInv'
  OBVIOUS
<1>1. CASE Handle \/ HandleFails
  <2>1. listener # "dead" /\ Head(queue) \in Records
    BY <1>1, TakenNumbers DEF Handle, HandleFails, Listening
  <2>2. Emit(Head(queue)) \/ (EmitFails(Head(queue)) /\ listener' = "dead")
    BY <1>1 DEF Handle, HandleFails
  <2> QED  BY <2>1, <2>2, EmitStore
<1>2. CASE Start
  <2>1. /\ rows' = (IF durable' THEN disk ELSE <<>>) /\ disk' = disk /\ arrived' = <<>>
        /\ base' = Len(rows') /\ dropped' = 0
    BY <1>2 DEF Start
  <2>2. Len(disk) \in Nat /\ Len(<<>>) = 0 /\ Capacity \in Nat
    BY ConstantsAssumption DEF TypeOK
  <2>3. Len(rows') \in Nat /\ Len(rows') <= Capacity
    BY <2>1, <2>2 DEF StoreInv
  <2>4. LatestIn(rows', <<>>)
    BY <2>2, <2>3 DEF LatestIn, Smaller
  <2> QED  BY <2>1, <2>2, <2>3, <2>4 DEF StoreInv
<1>3. CASE UNCHANGED <<store, listener>>
  BY <1>3 DEF StoreInv, store
<1>4. CASE StopListening
  BY <1>4 DEF StopListening, StoreInv, store, Listening
<1>5. ASSUME NEW t \in Threads, Log(t) \/ Enqueue(t) \/ Enter(t) \/ ReadDropped(t)
      PROVE  UNCHANGED <<store, listener>>
  BY <1>5 DEF Log, Enqueue, Enter, ReadDropped
<1>6. ASSUME NEW t \in Threads, Search(t) \/ Measure(t)
      PROVE  UNCHANGED <<store, listener>>
  BY <1>6 DEF Search, Measure
<1>7. ASSUME NEW t \in Threads, NEW status \in Statuses, Leave(t, status)
      PROVE  UNCHANGED <<store, listener>>
  BY <1>7 DEF Leave
<1>8. CASE Shutdown \/ Exit \/ Crash
  <2>1. UNCHANGED <<store, listener>>
    BY <1>8 DEF Shutdown, Exit, Crash, Gone
  <2> QED  BY <1>3, <2>1
<1>9. CASE UNCHANGED vars
  <2>1. UNCHANGED <<store, listener>>
    BY <1>9 DEF vars
  <2> QED  BY <1>3, <2>1
<1> QED  BY <1>1, <1>2, <1>3, <1>4, <1>5, <1>6, <1>7, <1>8, <1>9 DEF Next

-----------------------------------------------------------------------------
(* The requests                                                             *)

\* Every step keeps the counters of the requests in balance.
LEMMA CountStep == TypeOK /\ CountInv /\ [Next]_vars => CountInv'
<1> SUFFICES ASSUME TypeOK, CountInv, [Next]_vars PROVE CountInv'
  OBVIOUS
<1>0. /\ serving \in [Threads -> Paths \cup {None}]
      /\ counters \in [active : Nat, total : Nat, server_errors : Nat] /\ ended \in Nat /\ failures \in Nat
      /\ IsFiniteSet(Active) /\ Cardinality(Active) \in Nat
  BY FS_CardinalityType DEF TypeOK, CountInv
<1>1. ASSUME NEW t \in Threads, Enter(t) PROVE CountInv'
  <2>1. PICK p \in Paths : serving' = [serving EXCEPT ![t] = p]
    BY <1>1 DEF Enter
  <2>2. p # None /\ serving[t] = None /\ process = "up" /\ UNCHANGED <<process, ended, failures>>
    BY <1>1, ConstantsAssumption DEF Enter
  <2>3. Active' = Active \cup {t} /\ t \notin Active
    BY <1>0, <2>1, <2>2 DEF Active
  <2>4. IsFiniteSet(Active') /\ Cardinality(Active') = Cardinality(Active) + 1
    BY <1>0, <2>3, FS_AddElement
  <2>5. /\ counters'.active = counters.active + 1 /\ counters'.total = counters.total + 1
        /\ counters'.server_errors = counters.server_errors
    BY <1>0, <1>1 DEF Enter
  <2> QED  BY <1>0, <2>2, <2>4, <2>5 DEF CountInv, CountersBalance, Active
<1>2. ASSUME NEW t \in Threads, NEW status \in Statuses, Leave(t, status) PROVE CountInv'
  <2>1. /\ serving' = [serving EXCEPT ![t] = None] /\ serving[t] # None
        /\ process = "up" /\ process' = process /\ ended' = ended + 1
        /\ failures' = IF status >= 500 THEN failures + 1 ELSE failures
    BY <1>2 DEF Leave
  <2>2. Active' = Active \ {t} /\ t \in Active
    BY <1>0, <2>1 DEF Active
  <2>3. IsFiniteSet(Active') /\ Cardinality(Active') = Cardinality(Active) - 1
    BY <1>0, <2>2, FS_RemoveElement
  <2>4. /\ counters'.active = counters.active - 1 /\ counters'.total = counters.total
        /\ counters'.server_errors = IF status >= 500 THEN counters.server_errors + 1
                                     ELSE counters.server_errors
    BY <1>0, <1>2 DEF Leave, Close
  <2> QED  BY <1>0, <2>1, <2>3, <2>4 DEF CountInv, CountersBalance, Active
<1>3. CASE Shutdown
  <2>1. process = "up" /\ process' = "stopping" /\ UNCHANGED <<serving, counters, ended, failures>>
        /\ Active = {}
    BY <1>3 DEF Shutdown, requests, Active
  <2> QED  BY <2>1 DEF CountInv, CountersBalance, Active
<1>4. CASE Exit \/ Crash
  <2>1. process' = "down" /\ \A t \in Threads : serving'[t] = None
    BY <1>4 DEF Exit, Crash, Gone
  <2>2. Active' = {}
    BY <2>1 DEF Active
  <2> QED  BY <2>1, <2>2, FS_EmptySet DEF CountInv, CountersBalance
<1>5. CASE Start
  <2>1. /\ process = "down" /\ serving' = serving /\ ended' = 0 /\ failures' = 0
        /\ counters' = [active |-> 0, total |-> 0, server_errors |-> 0]
    BY <1>5 DEF Start
  <2>2. Active' = {}
    BY <2>1 DEF CountInv, Active
  <2>3. counters'.active = 0 /\ counters'.total = 0 /\ counters'.server_errors = 0
    BY <2>1
  <2> QED  BY <2>1, <2>2, <2>3, FS_EmptySet DEF CountInv, CountersBalance, Active
<1>6. CASE UNCHANGED <<process, serving, counters, ended, failures>>
  BY <1>6 DEF CountInv, CountersBalance, Active
<1>7. \/ \E t \in Threads : Enter(t) \/ \E status \in Statuses : Leave(t, status)
      \/ Shutdown \/ Exit \/ Crash \/ Start
      \/ UNCHANGED <<process, serving, counters, ended, failures>>
  BY DEF Next, Log, Enqueue, Search, Measure, ReadDropped, Handle, HandleFails, StopListening,
         vars, requests
<1> QED  BY <1>1, <1>2, <1>3, <1>4, <1>5, <1>6, <1>7

-----------------------------------------------------------------------------
(* Type correctness                                                         *)

\* An emission keeps the types of the store.
LEMMA EmitTypes ==
  ASSUME TypeOK, NEW r \in Records, Emit(r) \/ EmitFails(r)
  PROVE  /\ rows' \in Seq(Records) /\ disk' \in Seq(Records) /\ arrived' \in Seq(Records)
         /\ durable' \in BOOLEAN /\ dropped' \in Nat /\ base' \in Nat /\ evicted' \subseteq Records
<1> DEFINE all == Append(rows, r)
<1>1. all \in Seq(Records) /\ Append(arrived, r) \in Seq(Records)
  BY DEF TypeOK
<1>2. /\ Newest(all) \in Seq(Records) /\ Len(all) - Len(Newest(all)) \in Nat
      /\ Len(Newest(all)) \in Nat /\ Len(all) \in Nat
  <2> HIDE DEF all
  <2> QED  BY <1>1, NewestLength
<1>3. Pruned(all) \subseteq Records
  <2> HIDE DEF all
  <2>1. \A i \in 1 .. (Len(all) - Len(Newest(all))) : i \in 1 .. Len(all)
    BY <1>2
  <2> QED  BY <1>1, <2>1 DEF Pruned
<1>4. dropped + Len(all) - Len(Newest(all)) \in Nat
  <2> HIDE DEF all
  <2> QED  BY <1>2 DEF TypeOK
<1> HIDE DEF all
<1> QED  BY <1>1, <1>2, <1>3, <1>4 DEF Emit, EmitFails, TypeOK, Committed, store, all

LEMMA MakeTypes ==
  ASSUME TypeOK, NEW t \in Threads, NEW level \in Levels, NEW logger \in Loggers,
         Make(t, level, logger)
  PROVE  /\ pending' \in [Threads -> Records \cup {None}] /\ made' \in Nat /\ now' \in Nat
         /\ pending' = [pending EXCEPT ![t] = Record(level, logger)]
<1>1. made \in Nat /\ now' \in Nat /\ made' = made + 1
  BY DEF TypeOK, Make, Tick
<1>2. Record(level, logger) \in Records
  BY <1>1 DEF Record, Records
<1> QED  BY <1>1, <1>2 DEF Make, TypeOK

-----------------------------------------------------------------------------
(* A search                                                                 *)

\* The order of a page, as a relation on the rows.
Newer == {rs \in (DOMAIN rows) \X (DOMAIN rows) : Before(rs[2], rs[1])}

Ranked(q, k) == CHOOSE i \in Matching(q) : Rank(i, Matching(q)) = k

\* Every place of a page is taken by a row that matches, and a later place by an older
\* row.
LEMMA RankedRows ==
  ASSUME TypeOK, NEW q \in Queries
  PROVE  LET m == Cardinality(Matching(q))
         IN  /\ m \in Nat /\ m <= Len(rows)
             /\ \A k \in 1 .. m : Ranked(q, k) \in Matching(q)
             /\ \A k, l \in 1 .. m : k < l => Before(Ranked(q, k), Ranked(q, l))
<1> DEFINE all == Matching(q)
           m == Cardinality(all)
<1>1. rows \in Seq(Records) /\ all \in SUBSET (1 .. Len(rows)) /\ Len(rows) \in Nat
      /\ DOMAIN rows = 1 .. Len(rows)
  BY DEF TypeOK, Matching
<1>2. IsFiniteSet(all) /\ m \in Nat /\ m <= Len(rows)
  <2> DEFINE top == Len(rows)
  <2>1. top \in Nat /\ all \in SUBSET (1 .. top)
    BY <1>1
  <2> HIDE DEF all, top
  <2>2. IsFiniteSet(1 .. top) /\ Cardinality(1 .. top) = top
    BY <2>1, FS_Interval
  <2>3. IsFiniteSet(all) /\ Cardinality(all) <= Cardinality(1 .. top)
    BY <2>1, <2>2, FS_Subset
  <2>4. Cardinality(all) \in Nat
    BY <2>3, FS_CardinalityType
  <2> QED  BY <2>2, <2>3, <2>4 DEF top
<1>3. \A i \in 1 .. Len(rows) : rows[i].created \in Int /\ i \in Int
  <2>1. \A i \in 1 .. Len(rows) : rows[i] \in Records /\ i \in Int
    BY <1>1
  <2>2. \A r \in Records : r.created \in Int
    BY DEF Records
  <2> QED  BY <2>1, <2>2
<1>4. \A i, j \in all : <<i, j>> \in Newer <=> Before(j, i)
  <2> HIDE DEF all
  <2> QED  BY <1>1 DEF Newer
<1>5. StrictOrder(all, Newer)
  <2> HIDE DEF all
  <2>1. \A i \in all : rows[i].created \in Int /\ i \in Int
    BY <1>1, <1>3
  <2> QED  BY <1>4, <2>1 DEF StrictOrder, Before
<1> DEFINE f == Place(all, Newer)
<1>6. \A i \in all : Rank(i, all) = f[i] + 1
  <2>1. \A i \in all : Ahead(i, all, Newer) = {j \in all : Before(j, i)}
    <3> HIDE DEF all
    <3> QED  BY <1>4 DEF Ahead
  <2> HIDE DEF all
  <2> QED  BY <2>1 DEF Rank, Place
<1>7. \A i \in all : f[i] \in 0 .. m - 1
  <2> HIDE DEF all
  <2> QED  BY <1>2, <1>5, PlaceType
<1>8. ASSUME NEW k \in 1 .. m
      PROVE  Ranked(q, k) \in all /\ f[Ranked(q, k)] = k - 1
  <2>1. f \in Bijection(all, 0 .. m - 1)
    <3> HIDE DEF all
    <3> QED  BY <1>2, <1>5, PlaceBijection
  <2>2. k - 1 \in 0 .. m - 1
    BY <1>2
  <2>3. PICK i \in all : f[i] = k - 1
    <3> HIDE DEF f, all, m
    <3> QED  BY <2>1, <2>2 DEF Bijection, Surjection
  <2>4. Rank(i, all) = k
    BY <1>2, <1>6, <2>3
  <2>5. Ranked(q, k) \in all /\ Rank(Ranked(q, k), all) = k
    BY <2>4 DEF Ranked
  <2> HIDE DEF f, all, m
  <2> QED  BY <1>2, <1>6, <1>7, <2>5
<1>9. ASSUME NEW k \in 1 .. m, NEW l \in 1 .. m, k < l
      PROVE  Before(Ranked(q, k), Ranked(q, l))
  <2> DEFINE i == Ranked(q, k)
             j == Ranked(q, l)
  <2>1. i \in all /\ j \in all /\ f[i] = k - 1 /\ f[j] = l - 1
    BY <1>8
  <2> HIDE DEF i, j, f, all
  <2>2. i # j /\ ~(f[j] < f[i])
    BY <1>2, <1>9, <2>1
  <2>3. <<i, j>> \notin Newer
    BY <1>2, <1>5, <2>1, <2>2, PlaceMonotonic DEF f
  <2>4. <<j, i>> \in Newer
    BY <1>5, <2>1, <2>2, <2>3 DEF StrictOrder
  <2> QED  BY <1>4, <2>1, <2>4 DEF i, j
<1> HIDE DEF all, f
<1> QED  BY <1>2, <1>8, <1>9 DEF all

\* What a search returns.
Found(q) ==
  [k \in 1 .. Smaller(q.limit, Cardinality(Matching(q))) |->
     rows[CHOOSE i \in Matching(q) : Rank(i, Matching(q)) = k]]

LEMMA FoundRows ==
  ASSUME TypeOK, NumberInv, NEW q \in Queries
  PROVE  /\ Found(q) \in Seq(Records)
         /\ Len(Found(q)) = Smaller(q.limit, Cardinality(Matching(q)))
         /\ \A k \in DOMAIN Found(q) :
              Matches(Found(q)[k], q) /\ \E i \in DOMAIN rows : rows[i] = Found(q)[k]
         /\ \A k, l \in DOMAIN Found(q) : k < l =>
              /\ Found(q)[k].created >= Found(q)[l].created
              /\ Found(q)[k] # Found(q)[l]
<1> DEFINE m == Cardinality(Matching(q))
           top == Smaller(q.limit, m)
<1>1. q.limit \in Nat
  BY ConstantsAssumption
<1>2. m \in Nat /\ \A k \in 1 .. m : Ranked(q, k) \in Matching(q)
  BY RankedRows
<1>3. top \in Nat /\ \A k \in 1 .. top : k \in 1 .. m
  BY <1>1, <1>2 DEF Smaller
<1>4. Found(q) = [k \in 1 .. top |-> rows[Ranked(q, k)]]
  BY DEF Found, Ranked
<1>5. rows \in Seq(Records) /\ \A i \in DOMAIN rows : rows[i] \in Records
  BY DEF TypeOK
<1>6. \A k \in 1 .. top : /\ Ranked(q, k) \in DOMAIN rows /\ rows[Ranked(q, k)] \in Records
                           /\ Matches(rows[Ranked(q, k)], q)
  <2> HIDE DEF top, m
  <2> QED  BY <1>2, <1>3, <1>5 DEF Matching
<1>7. ASSUME NEW k \in 1 .. top, NEW l \in 1 .. top, k < l
      PROVE  /\ rows[Ranked(q, k)].created >= rows[Ranked(q, l)].created
             /\ rows[Ranked(q, k)] # rows[Ranked(q, l)]
  <2> DEFINE i == Ranked(q, k)
             j == Ranked(q, l)
  <2>1. Before(i, j)
    BY <1>3, <1>7, RankedRows
  <2>2. i \in DOMAIN rows /\ j \in DOMAIN rows /\ rows[i] \in Records /\ rows[j] \in Records
    BY <1>6
  <2> HIDE DEF i, j, top, m
  <2>3. rows[i].created \in Int /\ rows[j].created \in Int /\ rows[i].n \in Nat /\ i \in Int /\ j \in Int
    BY <1>5, <2>2 DEF Records
  <2>4. rows[i].created >= rows[j].created /\ i # j
    BY <2>1, <2>3 DEF Before
  <2>5. rows[i] # rows[j]
    BY <2>2, <2>3, <2>4 DEF NumberInv, Numbered
  <2> QED  BY <2>4, <2>5 DEF i, j
<1>8. Found(q) \in Seq(Records) /\ Len(Found(q)) = top /\ DOMAIN Found(q) = 1 .. top
  <2> HIDE DEF top, m
  <2> QED  BY <1>3, <1>4, <1>6
<1>9. \A k \in 1 .. top : Found(q)[k] = rows[Ranked(q, k)]
  <2> HIDE DEF top
  <2> QED  BY <1>4
<1>10. \A k \in DOMAIN Found(q) :
         Matches(Found(q)[k], q) /\ \E i \in DOMAIN rows : rows[i] = Found(q)[k]
  BY <1>6, <1>8, <1>9
<1>11. \A k, l \in DOMAIN Found(q) : k < l =>
         Found(q)[k].created >= Found(q)[l].created /\ Found(q)[k] # Found(q)[l]
  BY <1>7, <1>8, <1>9
<1> QED  BY <1>8, <1>10, <1>11

\* The page a search begins.
Begun(q) ==
  [query |-> q, events |-> Found(q), matched |-> Cardinality(Matching(q)), size |-> 0,
   dropped |-> 0, complete |-> FALSE, kept |-> (durable /\ listener # "dead")]

LEMMA SearchBegins ==
  ASSUME NEW t \in Threads, Search(t)
  PROVE  \E q \in Queries : reading' = [reading EXCEPT ![t] = Begun(q)]
BY DEF Search, Begun, Found

LEMMA PageTypes ==
  ASSUME TypeOK, NumberInv
  PROVE  /\ \A q \in Queries : Begun(q) \in Pages
         /\ NoPage \in Pages
<1>1. \A q \in Queries : Found(q) \in Seq(Records) /\ Cardinality(Matching(q)) \in Nat
  BY FoundRows, RankedRows
<1>2. durable \in BOOLEAN
  BY DEF TypeOK
<1>3. \A q \in Queries : Begun(q) \in Pages
  BY <1>1, <1>2 DEF Begun, Pages
<1>4. NoPage \in Pages
  BY DEF NoPage, Pages
<1> QED  BY <1>3, <1>4

\* Every step keeps the types of the pages.
LEMMA ReadingTypes ==
  TypeOK /\ NumberInv /\ reading \in [Threads -> Pages] /\ [Next]_vars
    => reading' \in [Threads -> Pages]
<1> SUFFICES ASSUME TypeOK, NumberInv, reading \in [Threads -> Pages], [Next]_vars
             PROVE  reading' \in [Threads -> Pages]
  OBVIOUS
<1>1. ASSUME NEW t \in Threads, Enter(t) PROVE reading' \in [Threads -> Pages]
  BY <1>1, PageTypes DEF Enter
<1>2. ASSUME NEW t \in Threads, Search(t) PROVE reading' \in [Threads -> Pages]
  BY <1>2, SearchBegins, PageTypes
<1>3. ASSUME NEW t \in Threads, Measure(t) PROVE reading' \in [Threads -> Pages]
  <2>1. Len(rows) \in Nat /\ (rows = <<>>) \in BOOLEAN
    BY DEF TypeOK
  <2>2. reading' = [reading EXCEPT ![t] = [reading[t] EXCEPT !.size = Len(rows), !.complete = (rows = <<>>)]]
    BY <1>3 DEF Measure
  <2>3. [reading[t] EXCEPT !.size = Len(rows), !.complete = (rows = <<>>)] \in Pages
    BY <2>1 DEF Pages
  <2> QED  BY <2>2, <2>3
<1>4. ASSUME NEW t \in Threads, ReadDropped(t) PROVE reading' \in [Threads -> Pages]
  <2>1. dropped \in Nat
    BY DEF TypeOK
  <2>2. reading' = [reading EXCEPT ![t] = [reading[t] EXCEPT !.dropped = dropped, !.complete = TRUE]]
    BY <1>4 DEF ReadDropped
  <2>3. [reading[t] EXCEPT !.dropped = dropped, !.complete = TRUE] \in Pages
    BY <2>1 DEF Pages
  <2> QED  BY <2>2, <2>3
<1>5. CASE reading' = reading
  BY <1>5
<1>6. \/ \E t \in Threads : Enter(t) \/ Search(t) \/ Measure(t) \/ ReadDropped(t)
      \/ reading' = reading
  BY DEF Next, Log, Enqueue, Leave, Handle, HandleFails, StopListening, Shutdown, Exit, Crash,
         Gone, Start, vars
<1> QED  BY <1>1, <1>2, <1>3, <1>4, <1>5, <1>6

\* Every step keeps the types of all the rest.
LEMMA TypeStep == TypeOK /\ NumberInv /\ CountInv /\ [Next]_vars => TypeOK'
<1> SUFFICES ASSUME TypeOK, NumberInv, CountInv, [Next]_vars PROVE TypeOK'
  OBVIOUS
<1>1. ASSUME NEW t \in Threads, Log(t) PROVE TypeOK'
  <2>1. PICK k \in Kinds : Make(t, k.level, k.logger)
    BY <1>1 DEF Log
  <2>2. k.level \in Levels /\ k.logger \in Loggers
    BY ConstantsAssumption
  <2>3. pending' \in [Threads -> Records \cup {None}] /\ made' \in Nat /\ now' \in Nat
    BY <2>1, <2>2, MakeTypes
  <2> QED  BY <1>1, <2>3 DEF TypeOK, Log, store, requests
<1>2. ASSUME NEW t \in Threads, Enqueue(t) PROVE TypeOK'
  <2>1. queue' \in Seq(Records \cup {Sentinel}) /\ pending' \in [Threads -> Records \cup {None}]
    BY <1>2 DEF TypeOK, Enqueue
  <2> QED  BY <1>2, <2>1 DEF TypeOK, Enqueue, store, requests
<1>3. ASSUME NEW t \in Threads, Enter(t) PROVE TypeOK'
  <2>1. serving' \in [Threads -> Paths \cup {None}] /\ calls' \in Nat
    <3>1. serving' \in [Threads -> Paths \cup {None}]
      <4>1. PICK p \in Paths : serving' = [serving EXCEPT ![t] = p]
        BY <1>3 DEF Enter
      <4> QED  BY <4>1 DEF TypeOK
    <3>2. calls \in Nat /\ calls' = calls + 1
      BY <1>3 DEF TypeOK, Enter
    <3> QED  BY <3>1, <3>2
  <2>2. counters' \in [active : Nat, total : Nat, server_errors : Nat]
    <3>1. counters \in [active : Nat, total : Nat, server_errors : Nat]
      BY DEF TypeOK
    <3>2. counters' = [active |-> counters.active + 1, total |-> counters.total + 1,
                       server_errors |-> counters.server_errors]
      BY <1>3, <3>1, Zenon DEF Enter
    <3> QED  BY <3>1, <3>2
  <2> QED  BY <1>3, <2>1, <2>2 DEF TypeOK, Enter, store
<1>4. ASSUME NEW t \in Threads, NEW status \in Statuses, Leave(t, status) PROVE TypeOK'
  <2>1. serving' \in [Threads -> Paths \cup {None}] /\ ended' \in Nat /\ failures' \in Nat
    <3>1. serving' = [serving EXCEPT ![t] = None]
      BY <1>4 DEF Leave
    <3>2. ended' = ended + 1 /\ (failures' = failures + 1 \/ failures' = failures)
      BY <1>4 DEF Leave
    <3> QED  BY <3>1, <3>2 DEF TypeOK
  <2>2. counters' \in [active : Nat, total : Nat, server_errors : Nat]
    <3>1. counters.active > 0
      <4>1. IsFiniteSet(Active) /\ t \in Active /\ counters.active = Cardinality(Active)
        BY <1>4 DEF Leave, CountInv, CountersBalance, Active
      <4>2. Cardinality(Active) # 0 /\ Cardinality(Active) \in Nat
        BY <4>1, FS_EmptySet, FS_CardinalityType
      <4> QED  BY <4>1, <4>2
    <3>2. counters.active - 1 \in Nat
      BY <3>1 DEF TypeOK
    <3>3. counters \in [active : Nat, total : Nat, server_errors : Nat]
      BY DEF TypeOK
    <3>4. counters' = [active |-> counters.active - 1, total |-> counters.total,
                       server_errors |-> IF status >= 500 THEN counters.server_errors + 1
                                         ELSE counters.server_errors]
      BY <1>4, <3>3, Zenon DEF Leave, Close
    <3> QED  BY <3>2, <3>3, <3>4
  <2>3. pending' \in [Threads -> Records \cup {None}] /\ made' \in Nat /\ now' \in Nat
    <3>1. CASE UNCHANGED <<now, pending, made>>
      BY <3>1 DEF TypeOK
    <3>2. CASE Make(t, IF status >= 400 THEN 3 ELSE 2, "ept")
      <4>1. (IF status >= 400 THEN 3 ELSE 2) \in Levels /\ "ept" \in Loggers
        BY ConstantsAssumption DEF Levels
      <4> QED  BY <3>2, <4>1, MakeTypes
    <3> QED  BY <1>4, <3>1, <3>2 DEF Leave
  <2> QED  BY <1>4, <2>1, <2>2, <2>3 DEF TypeOK, Leave, store
<1>5. CASE Handle \/ HandleFails
  <2>1. Head(queue) \in Records /\ queue' = Tail(queue)
    BY <1>5, TakenNumbers DEF Handle, HandleFails
  <2>2. Emit(Head(queue)) \/ EmitFails(Head(queue))
    BY <1>5 DEF Handle, HandleFails
  <2>3. /\ rows' \in Seq(Records) /\ disk' \in Seq(Records) /\ arrived' \in Seq(Records)
        /\ durable' \in BOOLEAN /\ dropped' \in Nat /\ base' \in Nat /\ evicted' \subseteq Records
    BY <2>1, <2>2, EmitTypes
  <2>4. file' = file \/ file' = Append(file, Head(queue))
    BY <1>5 DEF Handle, HandleFails, ToFile
  <2>5. file' \in Seq(Records) /\ queue' \in Seq(Records \cup {Sentinel})
    <3>1. queue # <<>>
      BY <1>5 DEF Handle, HandleFails, Listening
    <3>2. Tail(queue) \in Seq(Records \cup {Sentinel})
      BY <3>1 DEF TypeOK
    <3>3. file \in Seq(Records) /\ Append(file, Head(queue)) \in Seq(Records)
      BY <2>1 DEF TypeOK
    <3> QED  BY <2>1, <2>4, <3>2, <3>3
  <2>6. faults' \in Nat /\ listener' \in {"running", "stopped", "dead"}
    <3>1. CASE Handle
      BY <3>1 DEF TypeOK, Handle
    <3>2. CASE HandleFails
      BY <3>2 DEF TypeOK, HandleFails
    <3> QED  BY <1>5, <3>1, <3>2
  <2>7. UNCHANGED <<process, now, pending, requests, made>>
    BY <1>5 DEF Handle, HandleFails
  <2> QED  BY <2>3, <2>5, <2>6, <2>7 DEF TypeOK, requests
<1>6. CASE StopListening
  <2>1. queue' \in Seq(Records \cup {Sentinel})
    BY <1>6 DEF TypeOK, StopListening, Listening
  <2> QED  BY <1>6, <2>1 DEF TypeOK, StopListening, store, requests
<1>7. CASE Shutdown
  <2>1. made \in Nat /\ now' \in Nat /\ made' \in Nat
    BY <1>7 DEF TypeOK, Shutdown, Tick
  <2>2. Record(2, "ept") \in Records
    BY <2>1, ConstantsAssumption DEF Record, Records, Levels
  <2>3. queue' \in Seq(Records \cup {Sentinel})
    BY <1>7, <2>2 DEF TypeOK, Shutdown
  <2> QED  BY <1>7, <2>1, <2>3 DEF TypeOK, Shutdown, store, requests
<1>8. CASE Exit \/ Crash
  <2>1. /\ pending' = [t \in Threads |-> None] /\ serving' = [t \in Threads |-> None]
        /\ queue' = <<>> /\ process' = "down" /\ faults' \in Nat
        /\ UNCHANGED <<now, listener, file, store, counters, calls, ended, failures, made>>
    <3>1. CASE Exit
      BY <3>1 DEF TypeOK, Exit, Gone
    <3>2. CASE Crash
      BY <3>2 DEF TypeOK, Crash, Gone
    <3> QED  BY <1>8, <3>1, <3>2
  <2>2. queue' \in Seq(Records \cup {Sentinel})
    BY <2>1
  <2> QED  BY <2>1, <2>2 DEF TypeOK, store
<1>9. CASE Start
  <2>1. /\ rows' \in Seq(Records) /\ arrived' \in Seq(Records) /\ durable' \in BOOLEAN
        /\ base' = Len(rows') /\ dropped' = 0 /\ ended' = 0 /\ failures' = 0
        /\ counters' = [active |-> 0, total |-> 0, server_errors |-> 0]
        /\ process' = "up" /\ listener' = "running"
    BY <1>9 DEF TypeOK, Start
  <2>2. base' \in Nat /\ counters' \in [active : Nat, total : Nat, server_errors : Nat]
    BY <2>1
  <2> QED  BY <1>9, <2>1, <2>2 DEF TypeOK, Start
<1>10. CASE \E t \in Threads : Search(t) \/ Measure(t) \/ ReadDropped(t)
  BY <1>10 DEF TypeOK, Search, Measure, ReadDropped, store, requests
<1>11. CASE UNCHANGED vars
  BY <1>11 DEF TypeOK, vars, store, requests
<1> QED  BY <1>1, <1>2, <1>3, <1>4, <1>5, <1>6, <1>7, <1>8, <1>9, <1>10, <1>11 DEF Next

-----------------------------------------------------------------------------
(* The pages                                                                *)

\* As long as a process is up its store only grows, up to its capacity.
LEMMA RowsGrow ==
  ASSUME TypeOK, StoreInv, NumberInv, Handle \/ HandleFails
  PROVE  Len(rows') >= Len(rows)
<1> DEFINE r == Head(queue)
           all == Append(rows, r)
<1>1. r \in Records /\ listener # "dead"
  BY TakenNumbers DEF Handle, HandleFails, Listening
<1>2. rows' \in {rows, all, Newest(all)}
  BY DEF Handle, HandleFails, Emit, EmitFails, store
<1>3. /\ rows \in Seq(Records) /\ Len(rows) \in Nat /\ Len(rows) <= Capacity /\ Capacity \in Nat
      /\ all \in Seq(Records) /\ Len(all) = Len(rows) + 1
  BY <1>1, ConstantsAssumption DEF TypeOK, StoreInv
<1> HIDE DEF r, all
<1>4. Len(Newest(all)) = IF Len(all) <= Capacity THEN Len(all) ELSE Capacity
  BY <1>3, NewestIsEnd
<1> QED  BY <1>2, <1>3, <1>4

\* A step that leaves a page alone, and its rows if it is being read, keeps it.
LEMMA PageFrame ==
  ASSUME TypeOK, reading \in [Threads -> Pages], NEW t \in Threads, PageInv(t),
         reading'[t] = reading[t], rows' \in Seq(Records),
         serving'[t] # None => serving[t] # None /\ Len(rows') >= Len(rows)
  PROVE  PageInv(t)'
<1>1. Len(rows') \in Nat /\ Len(rows) \in Nat /\ reading[t].matched \in Nat
  BY DEF TypeOK, Pages
<1> QED  BY <1>1 DEF PageInv, Matches

LEMMA PageStep ==
  ASSUME TypeOK, reading \in [Threads -> Pages], CountInv, StoreInv, NumberInv,
         [Next]_vars, TypeOK', NEW t \in Threads, PageInv(t)
  PROVE  PageInv(t)'
<1>0. None \notin Queries /\ rows' \in Seq(Records) /\ Len(rows) \in Nat
  BY ConstantsAssumption DEF TypeOK
<1>1. CASE Enter(t)
  <2>1. reading'[t] = NoPage
    BY <1>1 DEF Enter
  <2> QED  BY <2>1 DEF PageInv, NoPage
<1>2. CASE Search(t)
  <2>1. PICK q \in Queries : reading' = [reading EXCEPT ![t] = Begun(q)]
    BY <1>2, SearchBegins
  <2>2. reading'[t] = Begun(q) /\ rows' = rows /\ q # None
    BY <1>0, <1>2, <2>1 DEF Search, store
  <2>3. /\ Begun(q).query = q /\ Begun(q).events = Found(q) /\ Begun(q).size = 0
        /\ Begun(q).matched = Cardinality(Matching(q)) /\ Begun(q).complete = FALSE
    BY DEF Begun
  <2>4. Cardinality(Matching(q)) <= Len(rows)
    BY RankedRows
  <2> QED  BY <2>2, <2>3, <2>4, FoundRows DEF PageInv, Matches
<1>3. CASE Measure(t)
  <2>1. /\ reading[t].query # None /\ reading[t].size = 0 /\ serving[t] # None
        /\ reading' = [reading EXCEPT ![t] =
                         [reading[t] EXCEPT !.size = Len(rows), !.complete = (rows = <<>>)]]
    <3>1. serving[t] = "logs" /\ "logs" # None
      BY <1>3, ConstantsAssumption DEF Measure
    <3> QED  BY <1>3, <3>1 DEF Measure
  <2>2. /\ reading'[t].query = reading[t].query /\ reading'[t].events = reading[t].events
        /\ reading'[t].matched = reading[t].matched /\ reading'[t].size = Len(rows)
        /\ reading'[t].complete = (rows = <<>>)
    BY <2>1 DEF Pages
  <2>3. reading[t].matched \in Nat /\ reading[t].matched <= Len(rows)
    BY <1>0, <2>1 DEF PageInv, Pages
  <2>4. Len(rows) = 0 => rows = <<>>
    BY DEF TypeOK
  <2> QED  BY <1>0, <2>1, <2>2, <2>3, <2>4 DEF PageInv, Matches
<1>4. CASE ReadDropped(t)
  <2>1. /\ reading[t].size > 0
        /\ reading' = [reading EXCEPT ![t] = [reading[t] EXCEPT !.dropped = dropped, !.complete = TRUE]]
    BY <1>4 DEF ReadDropped
  <2>2. /\ reading'[t].query = reading[t].query /\ reading'[t].events = reading[t].events
        /\ reading'[t].matched = reading[t].matched /\ reading'[t].size = reading[t].size
        /\ reading'[t].complete = TRUE
    BY <2>1 DEF Pages
  <2> QED  BY <2>1, <2>2 DEF PageInv, Matches
<1>5. CASE reading'[t] = reading[t] /\ serving' = serving /\ rows' = rows
  BY <1>0, <1>5, PageFrame
<1>6. CASE \E u \in Threads : u # t /\ (Enter(u) \/ Search(u) \/ Measure(u) \/ ReadDropped(u))
  <2>1. /\ reading'[t] = reading[t] /\ rows' = rows
        /\ serving'[t] = serving[t]
    <3>1. PICK u \in Threads : u # t /\ (Enter(u) \/ Search(u) \/ Measure(u) \/ ReadDropped(u))
      BY <1>6
    <3>2. reading'[t] = reading[t]
      BY <3>1 DEF Enter, Search, Measure, ReadDropped
    <3>3. rows' = rows
      BY <3>1 DEF Enter, Search, Measure, ReadDropped, store
    <3>4. serving'[t] = serving[t]
      BY <3>1 DEF Enter, Search, Measure, ReadDropped, requests, TypeOK
    <3> QED  BY <3>2, <3>3, <3>4
  <2> QED  BY <1>0, <2>1, PageFrame
<1>7. CASE \E u \in Threads, status \in Statuses : Leave(u, status)
  <2>1. reading' = reading /\ rows' = rows /\ (serving'[t] # None => serving[t] # None)
    BY <1>7 DEF Leave, store, TypeOK
  <2> QED  BY <1>0, <2>1, PageFrame
<1>8. CASE Handle \/ HandleFails
  <2>1. reading' = reading /\ serving' = serving
    BY <1>8 DEF Handle, HandleFails, requests
  <2> QED  BY <1>0, <1>8, <2>1, RowsGrow, PageFrame
<1>9. CASE Exit \/ Crash \/ Start
  <2>1. reading' = reading /\ serving'[t] = None
    BY <1>9 DEF Exit, Crash, Gone, Start, CountInv, Active
  <2> QED  BY <1>0, <2>1, PageFrame
<1>10. CASE (\E u \in Threads : Log(u) \/ Enqueue(u)) \/ StopListening \/ Shutdown \/ UNCHANGED vars
  BY <1>5, <1>10 DEF Log, Enqueue, StopListening, Shutdown, vars, store, requests
<1> QED  BY <1>1, <1>2, <1>3, <1>4, <1>6, <1>7, <1>8, <1>9, <1>10 DEF Next

\* What was shown of a lasting store stays on disk until it is pruned.
LEMMA SeenStep ==
  ASSUME TypeOK, reading \in [Threads -> Pages], StoreInv, NumberInv, [Next]_vars, SeenIsKept
  PROVE  SeenIsKept'
<1> DEFINE Kept(e) == e \in evicted \/ \E k \in DOMAIN disk : disk[k] = e
           StillKept(e) == e \in evicted' \/ \E k \in DOMAIN disk' : disk'[k] = e
<1>1. ASSUME NEW e, Kept(e) PROVE StillKept(e)
  <2>1. CASE Handle \/ HandleFails
    <3> DEFINE all == Append(rows, Head(queue))
    <3>1. Head(queue) \in Records /\ listener # "dead"
      BY <2>1, TakenNumbers DEF Handle, HandleFails, Listening
    <3>2. \/ disk' = disk /\ evicted \subseteq evicted'
          \/ durable /\ disk' = Newest(all) /\ evicted' = evicted \cup Pruned(all)
      BY <2>1 DEF Handle, HandleFails, Emit, EmitFails, Committed, store
    <3>3. CASE disk' = disk /\ evicted \subseteq evicted'
      BY <1>1, <3>3
    <3>4. CASE durable /\ disk' = Newest(all) /\ evicted' = evicted \cup Pruned(all)
      <4>1. disk = rows /\ rows \in Seq(Records) /\ all \in Seq(Records)
        BY <3>1, <3>4 DEF StoreInv, TypeOK
      <4>2. CASE e \in evicted
        BY <3>4, <4>2
      <4>3. ASSUME NEW k \in DOMAIN rows, rows[k] = e PROVE StillKept(e)
        <5>1. k \in DOMAIN all /\ all[k] = e
          BY <3>1, <4>1, <4>3
        <5> HIDE DEF all
        <5> QED  BY <3>4, <4>1, <5>1, KeptOrPruned
      <4> QED  BY <1>1, <4>1, <4>2, <4>3
    <3> QED  BY <3>2, <3>3, <3>4
  <2>2. CASE UNCHANGED <<disk, evicted>>
    BY <1>1, <2>2
  <2>3. CASE Handle \/ HandleFails
    BY <2>1, <2>3
  <2>4. ASSUME NEW u \in Threads, Log(u) \/ Enqueue(u) \/ Enter(u) \/ ReadDropped(u)
        PROVE  UNCHANGED <<disk, evicted>>
    BY <2>4 DEF Log, Enqueue, Enter, ReadDropped, store
  <2>5. ASSUME NEW u \in Threads, Search(u) \/ Measure(u)
        PROVE  UNCHANGED <<disk, evicted>>
    BY <2>5 DEF Search, Measure, store
  <2>6. ASSUME NEW u \in Threads, NEW status \in Statuses, Leave(u, status)
        PROVE  UNCHANGED <<disk, evicted>>
    BY <2>6 DEF Leave, store
  <2>7. CASE Shutdown \/ Exit \/ Crash \/ Start \/ StopListening
    <3>1. UNCHANGED <<disk, evicted>>
      BY <2>7 DEF Shutdown, Exit, Crash, Gone, Start, StopListening, store
    <3> QED  BY <2>2, <3>1
  <2>8. CASE UNCHANGED vars
    <3>1. UNCHANGED <<disk, evicted>>
      BY <2>8 DEF vars, store
    <3> QED  BY <2>2, <3>1
  <2> QED  BY <2>2, <2>3, <2>4, <2>5, <2>6, <2>7, <2>8 DEF Next
<1>2. ASSUME NEW t \in Threads, reading'[t].kept, NEW i \in DOMAIN reading'[t].events
      PROVE  StillKept(reading'[t].events[i])
  <2>1. CASE /\ reading'[t].kept = reading[t].kept /\ reading'[t].events = reading[t].events
    <3>1. Kept(reading[t].events[i])
      BY <1>2, <2>1 DEF SeenIsKept
    <3> HIDE DEF Kept, StillKept
    <3> QED  BY <1>1, <2>1, <3>1
  <2>2. CASE Enter(t)
    <3>1. reading'[t] = NoPage
      BY <2>2 DEF Enter
    <3> QED  BY <1>2, <3>1 DEF NoPage
  <2>3. CASE Search(t)
    <3>1. PICK q \in Queries : reading' = [reading EXCEPT ![t] = Begun(q)]
      BY <2>3, SearchBegins
    <3>2. reading'[t].kept = (durable /\ listener # "dead") /\ reading'[t].events = Found(q)
      BY <3>1 DEF Begun
    <3>3. disk = rows /\ UNCHANGED <<disk, evicted>>
      BY <1>2, <2>3, <3>2 DEF StoreInv, Search, store
    <3>4. \E k \in DOMAIN rows : rows[k] = Found(q)[i]
      BY <1>2, <3>2, FoundRows
    <3> QED  BY <3>2, <3>3, <3>4
  <2>4. \/ Enter(t) \/ Search(t)
        \/ reading'[t].kept = reading[t].kept /\ reading'[t].events = reading[t].events
    <3>1. CASE reading'[t] = reading[t]
      BY <3>1
    <3>2. CASE Measure(t) \/ ReadDropped(t)
      BY <3>2 DEF Measure, ReadDropped, Pages
    <3>3. \/ reading'[t] = reading[t] \/ Enter(t) \/ Search(t) \/ Measure(t) \/ ReadDropped(t)
      <4>1. CASE \E u \in Threads : u # t /\ (Enter(u) \/ Search(u) \/ Measure(u) \/ ReadDropped(u))
        BY <4>1 DEF Enter, Search, Measure, ReadDropped
      <4>2. CASE reading' = reading
        BY <4>2
      <4>3. \/ \E u \in Threads : Enter(u) \/ Search(u) \/ Measure(u) \/ ReadDropped(u)
            \/ reading' = reading
        BY DEF Next, Log, Enqueue, Leave, Handle, HandleFails, StopListening, Shutdown, Exit,
               Crash, Gone, Start, vars
      <4> QED  BY <4>1, <4>2, <4>3
    <3> QED  BY <3>1, <3>2, <3>3
  <2> QED  BY <2>1, <2>2, <2>3, <2>4
<1>3. ASSUME NEW t \in Threads, reading'[t].kept
      PROVE  \A i \in DOMAIN reading'[t].events : StillKept(reading'[t].events[i])
  BY <1>2, <1>3
<1> QED  BY <1>3 DEF SeenIsKept

-----------------------------------------------------------------------------
(* The theorems                                                             *)

LEMMA InitInv == Init => Inv
<1> SUFFICES ASSUME Init PROVE Inv
  OBVIOUS
<1>1. TypeOK
  BY DEF Init, TypeOK
<1>2. reading \in [Threads -> Pages] /\ \A t \in Threads : reading[t] = NoPage
  BY DEF Init, NoPage, Pages
<1>3. CountInv
  <2>1. Active = {}
    BY DEF Init, Active
  <2>2. /\ counters.active = 0 /\ counters.total = 0 /\ counters.server_errors = 0
        /\ ended = 0 /\ failures = 0
    BY DEF Init
  <2>3. IsFiniteSet({}) /\ Cardinality({}) = 0
    BY FS_EmptySet
  <2>4. CountersBalance
    BY <2>1, <2>2, <2>3 DEF CountersBalance, Active
  <2> QED  BY <2>1, <2>3, <2>4 DEF CountInv
<1>4. StoreInv
  <2>1. Len(<<>>) = 0 /\ Capacity \in Nat
    BY ConstantsAssumption
  <2>2. LatestIn(<<>>, <<>>)
    BY <2>1 DEF LatestIn, Smaller
  <2> QED  BY <2>1, <2>2 DEF Init, StoreInv
<1>5. NumberInv
  BY DEF Init, NumberInv, Underway, Numbered, Apart
<1>6. (\A t \in Threads : PageInv(t)) /\ SeenIsKept
  BY <1>2 DEF PageInv, SeenIsKept, NoPage
<1> QED  BY <1>1, <1>2, <1>3, <1>4, <1>5, <1>6 DEF Inv

LEMMA InvStep == Inv /\ [Next]_vars => Inv'
<1> SUFFICES ASSUME Inv, [Next]_vars PROVE Inv'
  OBVIOUS
<1>1. /\ TypeOK /\ reading \in [Threads -> Pages] /\ CountInv /\ StoreInv /\ NumberInv
      /\ SeenIsKept /\ \A t \in Threads : PageInv(t)
  BY DEF Inv
<1>2. TypeOK' /\ reading' \in [Threads -> Pages] /\ CountInv' /\ StoreInv' /\ NumberInv'
  BY <1>1, TypeStep, ReadingTypes, CountStep, StoreStep, NumberStep
<1>3. SeenIsKept' /\ \A t \in Threads : PageInv(t)'
  BY <1>1, <1>2, SeenStep, PageStep
<1> QED  BY <1>2, <1>3 DEF Inv

\* The inductive invariant holds in every reachable state.
THEOREM Invariance == Spec => []Inv
BY InitInv, InvStep, PTL DEF Spec

\* The variables of the log store and of the request metrics keep their types (TypeOK).
THEOREM TypeCorrect == Spec => []TypeOK
<1>1. Inv => TypeOK
  BY DEF Inv
<1> QED  BY <1>1, Invariance, PTL

\* The rows of the store and the counters of the requests add up at any moment,
\* whatever fails, and after any number of restarts (CountsAreRight).
THEOREM CountsStayRight == Spec => []CountsAreRight
<1>1. Inv => CountsAreRight
  BY DEF Inv, CountInv, StoreInv, LatestIn, CountsAreRight, StoreIsAccounted
<1> QED  BY <1>1, Invariance, PTL

\* What a search of the logs shows is sorted, matches, was in the store, and is on disk
\* until it is pruned, however many records are logged meanwhile (SearchesAreTrue).
THEOREM SearchesStayTrue == Spec => []SearchesAreTrue
<1>1. Inv => SearchesAreTrue
  BY DEF Inv, PageInv, SearchesAreTrue, LogsPageFits
<1> QED  BY <1>1, Invariance, PTL
===============================================================================
