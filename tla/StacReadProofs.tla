---------------------------- MODULE StacReadProofs ----------------------------
(***************************************************************************)
(* Theorems about the reading of STAC catalogs, for every value of the     *)
(* constants: first of one read (ThrottledRead), then of the traversal     *)
(* that takes the reads' results as answers (StacValidation), and last of  *)
(* finding things in a STAC API (StacFind).                                *)
(***************************************************************************)
EXTENDS ThrottledRead, StacValidation, StacFind, RankTheorems

(* The reads: the inductive invariant.  An attempt and its hops are worth  *)
(* a GET each, of which the one of the hop that is looked at is still to   *)
(* come; what is left of a sleep covers what the server asked for; and     *)
(* what was looked at is what is asked.                                    *)

GetsInv(r) ==
  /\ at[r] = "sleeping" => attempt[r] + 1 < Attempts[r]
  /\ gets[r] >= attempt[r] + (IF at[r] \in {"asking", "sleeping"} THEN 1 ELSE 0)
  /\ gets[r] <= attempt[r] * (MaxHops + 1) + hop[r]
                 + (IF at[r] \in {"idle", "looking"} THEN 0 ELSE 1)
  /\ result[r] \in {"busy", "unreachable"} => gets[r] >= Attempts[r]

RestInv(r) ==
  /\ at[r] \in {"idle", "looking", "asking"} => rest[r] = 0
  /\ at[r] = "sleeping" => rest[r] <= left[r]

TargetInv(r) ==
  /\ at[r] # "done" => result[r] = Nil
  /\ at[r] = "asking" \/ result[r] = "document" =>
       target[r] \in Wellformed /\ same_http_host(url[r], target[r])

AllReadsInv ==
  /\ ReadTypeOK
  /\ Cardinality(Inside) <= Slots
  /\ \A r \in Reads : GetsInv(r) /\ RestInv(r) /\ TargetInv(r)

-----------------------------------------------------------------------------
(* Numbers                                                                 *)

\* A back-off is a number of seconds: the size of a power set.
LEMMA PowerOfTwo ==
  ASSUME NEW k \in Nat
  PROVE  2 ^ k \in Nat
<1>1. IsFiniteSet(1 .. k) /\ Cardinality(1 .. k) = k
  BY FS_Interval
<1>2. IsFiniteSet(SUBSET (1 .. k)) /\ Cardinality(SUBSET (1 .. k)) = 2 ^ k
  BY <1>1, FS_SUBSET
<1> QED  BY <1>2, FS_CardinalityType

\* A wait is never longer than the longest, nor shorter than what the server asks
\* for, up to the longest.
LEMMA WaitBounds ==
  ASSUME NEW r \in Reads, attempt[r] \in Nat, NEW told \in Retries \cup {Nil}
  PROVE  /\ Wait(r, told) \in 0 .. MaxWait
         /\ told # Nil => told \in Nat /\ Wait(r, told) = Smaller(told, MaxWait)
<1>1. 2 ^ attempt[r] \in Nat
  BY PowerOfTwo
<1>2. told # Nil => told \in Nat
  BY ReadAssumption
<1>3. (IF told # Nil THEN told ELSE 2 ^ attempt[r]) \in Nat
  BY <1>1, <1>2
<1> HIDE DEF Wait
<1>4. ASSUME NEW m \in Nat PROVE Smaller(m, MaxWait) \in 0 .. MaxWait
  BY ReadAssumption DEF Smaller
<1> QED  BY <1>2, <1>3, <1>4 DEF Wait

\* An attempt more is worth another MaxHops + 1 of GETs.
LEMMA AttemptIsWorth ==
  ASSUME NEW a \in Nat, NEW b \in Nat, a < b, NEW k \in Nat
  PROVE  /\ (a + 1) * k = a * k + k
         /\ (a + 1) * k <= b * k
<1>1. (a + 1) * k = a * k + k
  OBVIOUS
<1>2. PICK c \in Nat : b = (a + 1) + c
  <2>1. b - (a + 1) \in Nat /\ b = (a + 1) + (b - (a + 1))
    OBVIOUS
  <2> QED  BY <2>1
<1>3. b * k = (a + 1) * k + c * k
  BY <1>2
<1>4. c * k \in Nat /\ (a + 1) * k \in Nat
  OBVIOUS
<1> QED  BY <1>1, <1>3, <1>4

-----------------------------------------------------------------------------
(* What the invariant says of the properties                               *)

\* What the invariant says of a read is what is right.
LEMMA InvIsRight == AllReadsInv => ReadsAreRight
<1> SUFFICES ASSUME AllReadsInv PROVE ReadsAreRight
  OBVIOUS
<1>1. ASSUME NEW r \in Reads PROVE gets[r] <= Attempts[r] * (MaxHops + 1)
  <2> DEFINE k == MaxHops + 1
  <2>1. /\ attempt[r] \in Nat /\ Attempts[r] \in Nat /\ attempt[r] < Attempts[r]
        /\ hop[r] \in 0 .. MaxHops /\ gets[r] \in Nat /\ MaxHops \in Nat
    BY ReadAssumption DEF AllReadsInv, ReadTypeOK
  <2>2. k \in Nat /\ hop[r] + 1 <= k
    BY <2>1
  <2>3. gets[r] <= attempt[r] * k + hop[r] + 1
    BY <2>1 DEF AllReadsInv, GetsInv
  <2>4. attempt[r] * k + k <= Attempts[r] * k /\ attempt[r] * k \in Nat /\ Attempts[r] * k \in Nat
    <3> HIDE DEF k
    <3> QED  BY <2>1, <2>2, AttemptIsWorth
  <2> HIDE DEF k
  <2>5. gets[r] <= Attempts[r] * k
    BY <2>1, <2>2, <2>3, <2>4
  <2> QED  BY <2>5 DEF k
<1>2. ReadsAreModerate
  BY <1>1 DEF AllReadsInv, RestInv, ReadsAreModerate
<1>3. ReadsAreGuarded
  BY DEF AllReadsInv, GetsInv, TargetInv, ReadsAreGuarded
<1> QED  BY <1>2, <1>3 DEF ReadsAreRight

-----------------------------------------------------------------------------
(* Type correctness                                                        *)

\* A read ends.
LEMMA EndTypes ==
  ASSUME ReadTypeOK, NEW r \in Reads, NEW how \in Results, End(r, how),
         gets' = gets, rest' \in [Reads -> 0 .. MaxWait]
  PROVE  ReadTypeOK'
BY DEF ReadTypeOK, End

\* A read is to be tried again.
LEMMA AgainTypes ==
  ASSUME ReadTypeOK, NEW r \in Reads, NEW told \in Retries \cup {Nil}, Again(r, told),
         gets' = gets, rest' \in [Reads -> 0 .. MaxWait]
  PROVE  ReadTypeOK'
<1>1. Wait(r, told) \in 0 .. MaxWait
  BY WaitBounds DEF ReadTypeOK
<1> QED  BY <1>1 DEF ReadTypeOK, Again

\* Every step keeps the types.
LEMMA ReadTypeStep == AllReadsInv /\ [ReadNext]_readVars => ReadTypeOK'
<1> SUFFICES ASSUME AllReadsInv, [ReadNext]_readVars PROVE ReadTypeOK'
  OBVIOUS
<1>0. ReadTypeOK
  BY DEF AllReadsInv
<1>1. ASSUME NEW r \in Reads, Enter(r) PROVE ReadTypeOK'
  BY <1>0, <1>1 DEF ReadTypeOK, Enter
<1>2. ASSUME NEW r \in Reads, Look(r) PROVE ReadTypeOK'
  <2>1. CASE End(r, "unsafe") /\ UNCHANGED <<gets, rest>>
    BY <1>0, <2>1, EndTypes DEF ReadTypeOK, Results
  <2>2. CASE /\ at' = [at EXCEPT ![r] = "asking"]
             /\ gets' = [gets EXCEPT ![r] = @ + 1]
             /\ UNCHANGED <<url, target, attempt, hop, left, result, rest>>
    BY <1>0, <2>2 DEF ReadTypeOK
  <2> QED  BY <1>2, <2>1, <2>2 DEF Look
<1>3. ASSUME NEW r \in Reads, Redirected(r) PROVE ReadTypeOK'
  <2>1. CASE End(r, "redirects")
    BY <1>0, <1>3, <2>1, EndTypes DEF Redirected, ReadTypeOK, Results
  <2>2. CASE ~End(r, "redirects")
    <3>1. /\ hop[r] < MaxHops /\ hop' = [hop EXCEPT ![r] = @ + 1]
          /\ at' = [at EXCEPT ![r] = "looking"]
          /\ UNCHANGED <<url, attempt, left, result, gets, rest>>
      BY <1>3, <2>2 DEF Redirected
    <3>2. target' \in [Reads -> Targets]
      BY <1>0, <1>3, <2>2 DEF Redirected, ReadTypeOK
    <3>3. hop' \in [Reads -> 0 .. MaxHops]
      BY <1>0, <3>1, ReadAssumption DEF ReadTypeOK
    <3> QED  BY <1>0, <3>1, <3>2, <3>3 DEF ReadTypeOK
  <2> QED  BY <2>1, <2>2
<1>4. ASSUME NEW r \in Reads, Throttled(r) PROVE ReadTypeOK'
  <2>1. PICK told \in Retries \cup {Nil} :
          /\ Again(r, told) \/ (LastAttempt(r) /\ End(r, "busy"))
          /\ rest' = [rest EXCEPT ![r] = IF told = Nil THEN 0 ELSE Smaller(told, MaxWait)]
    BY <1>4 DEF Throttled
  <2>2. (IF told = Nil THEN 0 ELSE Smaller(told, MaxWait)) \in 0 .. MaxWait
    BY <1>0, ReadAssumption, WaitBounds DEF ReadTypeOK
  <2>3. rest' \in [Reads -> 0 .. MaxWait] /\ gets' = gets
    BY <1>0, <1>4, <2>1, <2>2 DEF Throttled, ReadTypeOK
  <2> QED  BY <1>0, <2>1, <2>3, EndTypes, AgainTypes DEF Results
<1>5. ASSUME NEW r \in Reads, Unreachable(r) PROVE ReadTypeOK'
  <2>1. rest' \in [Reads -> 0 .. MaxWait] /\ gets' = gets
    BY <1>0, <1>5 DEF Unreachable, ReadTypeOK
  <2> QED  BY <1>0, <1>5, <2>1, EndTypes, AgainTypes DEF Unreachable, Results
<1>6. ASSUME NEW r \in Reads, Answered(r) PROVE ReadTypeOK'
  <2>1. rest' \in [Reads -> 0 .. MaxWait] /\ gets' = gets
    BY <1>0, <1>6 DEF Answered, ReadTypeOK
  <2> QED  BY <1>0, <1>6, <2>1, EndTypes DEF Answered, Results
<1>7. ASSUME NEW r \in Reads, Wake(r) PROVE ReadTypeOK'
  <2>1. attempt[r] + 1 < Attempts[r]
    BY <1>7 DEF Wake, AllReadsInv, GetsInv
  <2> QED  BY <1>0, <1>7, <2>1, ReadAssumption DEF ReadTypeOK, Wake
<1>8. CASE Tick
  <2>1. ASSUME NEW r \in Reads PROVE Less(left[r]) \in 0 .. MaxWait /\ Less(rest[r]) \in 0 .. MaxWait
    BY <1>0, ReadAssumption DEF ReadTypeOK, Less
  <2>2. left' \in [Reads -> 0 .. MaxWait] /\ rest' \in [Reads -> 0 .. MaxWait]
    BY <1>8, <2>1 DEF Tick
  <2> QED  BY <1>0, <1>8, <2>2 DEF ReadTypeOK, Tick
<1>9. CASE UNCHANGED readVars
  BY <1>0, <1>9 DEF ReadTypeOK, readVars
<1> QED  BY <1>1, <1>2, <1>3, <1>4, <1>5, <1>6, <1>7, <1>8, <1>9 DEF ReadNext, Step

-----------------------------------------------------------------------------
(* The slots                                                               *)

\* No step lets a read in that finds no free slot.
LEMMA SlotStep == AllReadsInv /\ [ReadNext]_readVars => Cardinality(Inside') <= Slots
<1> SUFFICES ASSUME AllReadsInv, [ReadNext]_readVars PROVE Cardinality(Inside') <= Slots
  OBVIOUS
<1>. IsFiniteSet(Inside)
  BY ReadAssumption, FS_Subset DEF Inside
<1>0. at \in [Reads -> {"idle", "looking", "asking", "sleeping", "done"}] /\ Slots \in Nat
  BY ReadAssumption DEF AllReadsInv, ReadTypeOK
<1>1. CASE \E r \in Reads : Enter(r)
  <2>1. PICK r \in Reads : Enter(r)
    BY <1>1
  <2>2. Inside' = Inside \cup {r} /\ r \notin Inside
    BY <1>0, <2>1 DEF Enter, Inside
  <2>3. Cardinality(Inside) < Slots
    BY <2>1 DEF Enter
  <2>4. Cardinality(Inside') = Cardinality(Inside) + 1 /\ Cardinality(Inside) \in Nat
    BY <2>2, FS_AddElement, FS_CardinalityType
  <2> QED  BY <1>0, <2>3, <2>4
<1>2. CASE ~\E r \in Reads : Enter(r)
  <2>1. Inside' \in SUBSET Inside
    BY <1>0, <1>2 DEF ReadNext, Step, Tick, Look, Redirected, Throttled, Unreachable, Answered,
                      Wake, Again, End, Inside, readVars
  <2>2. Cardinality(Inside') <= Cardinality(Inside) /\ IsFiniteSet(Inside')
    BY <2>1, FS_Subset
  <2>3. Cardinality(Inside') \in Nat /\ Cardinality(Inside) \in Nat
    BY <2>2, FS_CardinalityType
  <2> QED  BY <1>0, <2>2, <2>3 DEF AllReadsInv
<1> QED  BY <1>1, <1>2

-----------------------------------------------------------------------------
(* A read's GETs, rest and target                                          *)

ReadInv(r) == GetsInv(r) /\ RestInv(r) /\ TargetInv(r)

\* The types of what the invariant relates.
LEMMA ReadTypes ==
  ASSUME ReadTypeOK, NEW r \in Reads
  PROVE  /\ gets[r] \in Nat /\ attempt[r] \in Nat /\ Attempts[r] \in Nat
         /\ attempt[r] < Attempts[r] /\ MaxHops \in Nat /\ hop[r] \in 0 .. MaxHops
         /\ attempt[r] * (MaxHops + 1) \in Nat
         /\ left[r] \in Nat /\ rest[r] \in Nat
<1>1. /\ gets[r] \in Nat /\ attempt[r] \in Nat /\ Attempts[r] \in Nat
      /\ attempt[r] < Attempts[r] /\ MaxHops \in Nat /\ hop[r] \in 0 .. MaxHops
      /\ left[r] \in 0 .. MaxWait /\ rest[r] \in 0 .. MaxWait
  BY ReadAssumption DEF ReadTypeOK
<1> QED  BY <1>1, ReadAssumption

\* The read that a step is of, and the ones it leaves alone.
LEMMA Frame ==
  ASSUME NEW s \in Reads, ReadInv(s), at'[s] = at[s], url'[s] = url[s],
         target'[s] = target[s], attempt'[s] = attempt[s], hop'[s] = hop[s],
         left'[s] = left[s], result'[s] = result[s], gets'[s] = gets[s],
         rest'[s] = rest[s]
  PROVE  ReadInv(s)'
BY DEF ReadInv, GetsInv, RestInv, TargetInv, same_http_host

\* A step of one read leaves the others alone.
LEMMA Others ==
  ASSUME ReadTypeOK, NEW r \in Reads, Step(r), NEW s \in Reads \ {r}, ReadInv(s)
  PROVE  ReadInv(s)'
<1>1. /\ at'[s] = at[s] /\ url'[s] = url[s]
      /\ target'[s] = target[s] /\ attempt'[s] = attempt[s] /\ hop'[s] = hop[s]
      /\ left'[s] = left[s] /\ result'[s] = result[s] /\ gets'[s] = gets[s]
      /\ rest'[s] = rest[s]
  BY DEF ReadTypeOK, Step, Enter, Look, Redirected, Throttled, Unreachable, Answered, Wake,
         Again, End
<1> QED  BY <1>1, Frame

\* The end of a read that has just asked or looked.
LEMMA EndInv ==
  ASSUME ReadTypeOK, NEW r \in Reads, ReadInv(r), at[r] \in {"looking", "asking"},
         NEW how \in Results, End(r, how), gets' = gets,
         how = "document" => at[r] = "asking",
         how \in {"busy", "unreachable"} => at[r] = "asking" /\ LastAttempt(r)
  PROVE  ReadInv(r)'
<1>1. /\ at'[r] = "done" /\ result'[r] = how
      /\ UNCHANGED <<url, target, attempt, hop, left, gets>>
  BY DEF End, ReadTypeOK
<1>2. GetsInv(r)'
  BY <1>1, ReadTypes DEF ReadInv, GetsInv, LastAttempt
<1>3. RestInv(r)'
  BY <1>1 DEF RestInv
<1>4. TargetInv(r)'
  BY <1>1 DEF ReadInv, TargetInv, same_http_host
<1> QED  BY <1>2, <1>3, <1>4 DEF ReadInv

\* A read that will ask again sleeps at least as long as the server wants.
LEMMA AgainInv ==
  ASSUME ReadTypeOK, NEW r \in Reads, ReadInv(r), at[r] = "asking",
         NEW told \in Retries \cup {Nil}, Again(r, told), gets' = gets,
         rest'[r] = IF told = Nil THEN 0 ELSE Smaller(told, MaxWait)
  PROVE  ReadInv(r)'
<1>1. /\ at'[r] = "sleeping" /\ left'[r] = Wait(r, told) /\ ~LastAttempt(r)
      /\ UNCHANGED <<url, target, attempt, hop, result, gets>>
  BY DEF Again, ReadTypeOK
<1>2. GetsInv(r)'
  BY <1>1, ReadTypes, ReadAssumption DEF ReadInv, GetsInv, TargetInv, LastAttempt, Results
<1>3. RestInv(r)'
  <2>1. Wait(r, told) \in 0 .. MaxWait /\ (told # Nil => Wait(r, told) = Smaller(told, MaxWait))
    BY WaitBounds DEF ReadTypeOK
  <2>2. MaxWait \in Int
    BY ReadAssumption
  <2> QED  BY <1>1, <2>1, <2>2 DEF RestInv
<1>4. TargetInv(r)'
  BY <1>1, ReadAssumption DEF ReadInv, TargetInv, Results
<1> QED  BY <1>2, <1>3, <1>4 DEF ReadInv

\* Every step of a read keeps what is said of it.
LEMMA OwnStep ==
  ASSUME ReadTypeOK, NEW r \in Reads, ReadInv(r), Step(r)
  PROVE  ReadInv(r)'
<1>1. CASE Enter(r)
  <2>1. /\ at[r] = "idle" /\ at'[r] = "looking"
        /\ UNCHANGED <<url, target, attempt, hop, left, result, gets, rest>>
    BY <1>1 DEF Enter, ReadTypeOK
  <2> QED  BY <2>1, ReadAssumption DEF ReadInv, GetsInv, RestInv, TargetInv, Results
<1>2. CASE Look(r)
  <2>1. CASE End(r, "unsafe") /\ UNCHANGED <<gets, rest>>
    BY <1>2, <2>1, EndInv DEF Look, Results
  <2>2. CASE ~(End(r, "unsafe") /\ UNCHANGED <<gets, rest>>)
    <3>1. /\ at[r] = "looking" /\ at'[r] = "asking" /\ gets'[r] = gets[r] + 1
          /\ target[r] \in Wellformed /\ same_http_host(url[r], target[r])
          /\ UNCHANGED <<url, target, attempt, hop, left, result, rest>>
      BY <1>2, <2>2 DEF Look, Safe, ReadTypeOK
    <3>2. GetsInv(r)'
      BY <3>1, ReadTypes, ReadAssumption DEF ReadInv, GetsInv, TargetInv, Results
    <3>3. RestInv(r)' /\ TargetInv(r)'
      BY <3>1, ReadAssumption DEF ReadInv, RestInv, TargetInv, same_http_host, Results
    <3> QED  BY <3>2, <3>3 DEF ReadInv
  <2> QED  BY <2>1, <2>2
<1>3. CASE Redirected(r)
  <2>1. CASE End(r, "redirects")
    BY <1>3, <2>1, EndInv DEF Redirected, Results
  <2>2. CASE ~End(r, "redirects")
    <3>1. /\ at[r] = "asking" /\ at'[r] = "looking" /\ hop'[r] = hop[r] + 1
          /\ UNCHANGED <<url, attempt, left, result, gets, rest>>
      BY <1>3, <2>2 DEF Redirected, ReadTypeOK
    <3>2. GetsInv(r)'
      BY <3>1, ReadTypes, ReadAssumption DEF ReadInv, GetsInv, TargetInv, Results
    <3>3. RestInv(r)' /\ TargetInv(r)'
      BY <3>1, ReadAssumption DEF ReadInv, RestInv, TargetInv, Results
    <3> QED  BY <3>2, <3>3 DEF ReadInv
  <2> QED  BY <2>1, <2>2
<1>4. CASE Throttled(r)
  <2>1. PICK told \in Retries \cup {Nil} :
          /\ Again(r, told) \/ (LastAttempt(r) /\ End(r, "busy"))
          /\ rest' = [rest EXCEPT ![r] = IF told = Nil THEN 0 ELSE Smaller(told, MaxWait)]
    BY <1>4 DEF Throttled
  <2>2. at[r] = "asking" /\ gets' = gets
    BY <1>4 DEF Throttled
  <2>3. rest'[r] = IF told = Nil THEN 0 ELSE Smaller(told, MaxWait)
    BY <2>1 DEF ReadTypeOK
  <2> QED  BY <2>1, <2>2, <2>3, EndInv, AgainInv DEF Results
<1>5. CASE Unreachable(r)
  <2>1. at[r] = "asking" /\ UNCHANGED <<gets, rest>>
    BY <1>5 DEF Unreachable
  <2>2. rest'[r] = 0
    BY <2>1 DEF ReadInv, RestInv
  <2> QED  BY <1>5, <2>1, <2>2, EndInv, AgainInv DEF Unreachable, Results
<1>6. CASE Answered(r)
  BY <1>6, EndInv DEF Answered, Results
<1>7. CASE Wake(r)
  <2>1. /\ at[r] = "sleeping" /\ left[r] = 0 /\ at'[r] = "looking"
        /\ attempt'[r] = attempt[r] + 1 /\ hop'[r] = 0
        /\ UNCHANGED <<url, left, result, gets, rest>>
    BY <1>7 DEF Wake, ReadTypeOK
  <2>2. (attempt[r] + 1) * (MaxHops + 1) = attempt[r] * (MaxHops + 1) + (MaxHops + 1)
    BY ReadTypes, AttemptIsWorth
  <2>3. GetsInv(r)'
    <3> DEFINE w == attempt[r] * (MaxHops + 1)
    <3>1. /\ gets[r] >= attempt[r] + 1 /\ gets[r] <= w + hop[r] + 1
          /\ result[r] = Nil
      BY <2>1 DEF ReadInv, GetsInv, TargetInv
    <3>2. attempt'[r] * (MaxHops + 1) = w + MaxHops + 1
      BY <2>1, <2>2, ReadTypes
    <3>3. w \in Nat /\ hop[r] \in 0 .. MaxHops /\ gets[r] \in Nat /\ MaxHops \in Nat /\ attempt[r] \in Nat
      BY ReadTypes
    <3>4. gets'[r] <= attempt'[r] * (MaxHops + 1) + hop'[r]
      <4> HIDE DEF w
      <4> QED  BY <2>1, <3>1, <3>2, <3>3
    <3>5. gets'[r] >= attempt'[r]
      BY <2>1, <3>1, <3>3
    <3>6. result'[r] \notin {"busy", "unreachable"}
      BY <2>1, <3>1, ReadAssumption DEF Results
    <3>7. gets'[r] >= attempt'[r] + 0 /\ gets'[r] <= attempt'[r] * (MaxHops + 1) + hop'[r] + 0
      <4> HIDE DEF w
      <4>1. attempt'[r] \in Nat /\ attempt'[r] * (MaxHops + 1) + hop'[r] \in Nat
        BY <2>1, <3>2, <3>3
      <4> QED  BY <3>4, <3>5, <4>1
    <3> HIDE DEF w
    <3> QED  BY <2>1, <3>6, <3>7 DEF GetsInv
  <2>4. RestInv(r)' /\ TargetInv(r)'
    BY <2>1, ReadTypes, ReadAssumption DEF ReadInv, RestInv, TargetInv, Results
  <2> QED  BY <2>3, <2>4 DEF ReadInv
<1> QED  BY <1>1, <1>2, <1>3, <1>4, <1>5, <1>6, <1>7 DEF Step

\* A second of every sleep passes for the server as well.
LEMMA TickInv ==
  ASSUME ReadTypeOK, NEW r \in Reads, ReadInv(r), Tick
  PROVE  ReadInv(r)'
<1>1. /\ left'[r] = Less(left[r]) /\ rest'[r] = Less(rest[r])
      /\ UNCHANGED <<at, url, target, attempt, hop, result, gets>>
  BY DEF Tick
<1>2. GetsInv(r)' /\ TargetInv(r)'
  BY <1>1 DEF ReadInv, GetsInv, TargetInv, same_http_host
<1>3. RestInv(r)'
  BY <1>1, ReadTypes DEF ReadInv, RestInv, Less
<1> QED  BY <1>2, <1>3 DEF ReadInv

-----------------------------------------------------------------------------
(* The theorems about the reads                                            *)

\* No read has begun.
LEMMA ReadInitInv == ReadInit => AllReadsInv
<1> SUFFICES ASSUME ReadInit PROVE AllReadsInv
  OBVIOUS
<1>1. ReadTypeOK
  BY ReadAssumption DEF ReadInit, ReadTypeOK
<1>2. Cardinality(Inside) <= Slots
  <2>1. Inside = {}
    BY DEF ReadInit, Inside
  <2> QED  BY <2>1, FS_EmptySet, ReadAssumption
<1>3. ASSUME NEW r \in Reads PROVE ReadInv(r)
  <2>1. at[r] = "idle" /\ gets[r] = 0 /\ attempt[r] = 0 /\ hop[r] = 0 /\ rest[r] = 0 /\ result[r] = Nil
    BY DEF ReadInit
  <2>2. MaxHops \in Nat /\ 0 * (MaxHops + 1) = 0
    BY ReadAssumption
  <2> QED  BY <2>1, <2>2, ReadAssumption DEF ReadInv, GetsInv, RestInv, TargetInv, Results
<1> QED  BY <1>1, <1>2, <1>3 DEF AllReadsInv, ReadInv

\* Every step keeps the invariant of the reads.
LEMMA ReadInvStep == AllReadsInv /\ [ReadNext]_readVars => AllReadsInv'
<1> SUFFICES ASSUME AllReadsInv, [ReadNext]_readVars PROVE AllReadsInv'
  OBVIOUS
<1>1. ASSUME NEW s \in Reads PROVE ReadInv(s)'
  <2>1. ReadTypeOK /\ ReadInv(s)
    BY DEF AllReadsInv, ReadInv
  <2>2. CASE Tick
    BY <2>1, <2>2, TickInv
  <2>3. ASSUME NEW r \in Reads, Step(r) PROVE ReadInv(s)'
    BY <2>1, <2>3, Others, OwnStep
  <2>4. CASE UNCHANGED readVars
    BY <2>1, <2>4, Frame DEF readVars
  <2> QED  BY <2>2, <2>3, <2>4 DEF ReadNext
<1>2. ReadTypeOK' /\ Cardinality(Inside') <= Slots
  BY ReadTypeStep, SlotStep
<1> QED  BY <1>1, <1>2 DEF AllReadsInv, ReadInv

\* The inductive invariant holds in every reachable state.
THEOREM ReadInvariance == ReadSpec => []AllReadsInv
BY ReadInitInv, ReadInvStep, PTL DEF ReadSpec

\* The variables of the reads keep their types, and no attempt is made after the
\* last (ReadTypeOK).
THEOREM ReadTypeCorrect == ReadSpec => []ReadTypeOK
<1>1. AllReadsInv => ReadTypeOK
  BY DEF AllReadsInv
<1> QED  BY <1>1, ReadInvariance, PTL

\* However many reads share however few slots, and whatever the servers answer: what
\* the reads ask for, how often, and when they give up (ReadsAreRight).
THEOREM ReadsStayRight == ReadSpec => []ReadsAreRight
BY InvIsRight, ReadInvariance, PTL

-----------------------------------------------------------------------------
(* Lists and their flattening                                              *)

\* The values of a function on a finite set are no more than the set has members, and
\* as many if and only if no two members share one.
LEMMA Values ==
  ASSUME NEW I, IsFiniteSet(I), NEW V, NEW g \in [I -> V], \A v \in V : \E i \in I : g[i] = v
  PROVE  /\ IsFiniteSet(V) /\ Cardinality(V) \in Nat /\ Cardinality(I) \in Nat
         /\ Cardinality(V) <= Cardinality(I)
         /\ (\A i, j \in I : g[i] = g[j] => i = j) => Cardinality(V) = Cardinality(I)
         /\ Cardinality(V) = Cardinality(I) => \A i, j \in I : g[i] = g[j] => i = j
<1>1. g \in Surjection(I, V)
  BY DEF Surjection
<1>2. IsFiniteSet(V) /\ Cardinality(V) <= Cardinality(I)
      /\ (Cardinality(V) = Cardinality(I) <=> g \in Injection(I, V))
  BY <1>1, FS_Surjection
<1>3. g \in Injection(I, V) <=> \A i, j \in I : g[i] = g[j] => i = j
  BY DEF Injection, IsInjective
<1> QED  BY <1>2, <1>3, FS_CardinalityType

\* The indices and the members of a list.
LEMMA ListIndices ==
  ASSUME NEW T, NEW s \in Seq(T)
  PROVE  /\ Len(s) \in Nat /\ DOMAIN s = 1 .. Len(s)
         /\ ToSet(s) = {s[i] : i \in DOMAIN s} /\ ToSet(s) \in SUBSET T
         /\ IsFiniteSet(DOMAIN s) /\ Cardinality(DOMAIN s) = Len(s) /\ IsFiniteSet(ToSet(s))
<1>1. Len(s) \in Nat /\ DOMAIN s = 1 .. Len(s) /\ \A i \in DOMAIN s : s[i] \in T
  OBVIOUS
<1>2. ToSet(s) = {s[i] : i \in DOMAIN s}
  BY DEF ToSet
<1>3. IsFiniteSet(DOMAIN s) /\ Cardinality(DOMAIN s) = Len(s)
  BY <1>1, FS_Interval
<1>4. s \in [DOMAIN s -> ToSet(s)] /\ \A v \in ToSet(s) : \E i \in DOMAIN s : s[i] = v
  BY <1>1, <1>2
<1>5. IsFiniteSet(ToSet(s))
  BY <1>3, <1>4, Values
<1> QED  BY <1>1, <1>2, <1>3, <1>5

\* Two lists, one behind the other.
LEMMA Appended ==
  ASSUME NEW T, NEW a \in Seq(T), NEW b \in Seq(T)
  PROVE  a \o b \in Seq(T) /\ ToSet(a \o b) = ToSet(a) \cup ToSet(b)
<1>1. DOMAIN a = 1 .. Len(a) /\ DOMAIN b = 1 .. Len(b) /\ Len(a) \in Nat /\ Len(b) \in Nat
  OBVIOUS
<1>2. DOMAIN (a \o b) = 1 .. Len(a) + Len(b)
  OBVIOUS
<1>3. \A i \in DOMAIN (a \o b) : (a \o b)[i] = IF i <= Len(a) THEN a[i] ELSE b[i - Len(a)]
  OBVIOUS
<1>4. ASSUME NEW x \in ToSet(a \o b) PROVE x \in ToSet(a) \cup ToSet(b)
  BY <1>1, <1>2, <1>3 DEF ToSet
<1>5. ASSUME NEW i \in DOMAIN a PROVE a[i] \in ToSet(a \o b)
  BY <1>1, <1>2, <1>3 DEF ToSet
<1>6. ASSUME NEW i \in DOMAIN b PROVE b[i] \in ToSet(a \o b)
  <2>1. i + Len(a) \in DOMAIN (a \o b) /\ (a \o b)[i + Len(a)] = b[i]
    BY <1>1, <1>2, <1>3
  <2> QED  BY <2>1 DEF ToSet
<1>7. ToSet(a \o b) = ToSet(a) \cup ToSet(b)
  BY <1>4, <1>5, <1>6 DEF ToSet
<1> QED  BY <1>7

\* The lists of a list, one behind the other.
LEMMA Flattened ==
  ASSUME NEW T, NEW ss \in Seq(Seq(T))
  PROVE  /\ FlattenSeq(ss) \in Seq(T)
         /\ \A x \in ToSet(FlattenSeq(ss)) : \E i \in DOMAIN ss : x \in ToSet(ss[i])
         /\ \A i \in DOMAIN ss : \A x \in ToSet(ss[i]) : x \in ToSet(FlattenSeq(ss))
         /\ Len(ss) = 1 => FlattenSeq(ss) = ss[1]
<1> DEFINE n == Len(ss)
           Joined(f, i) == IF i = 1 THEN ss[i] ELSE f[i - 1] \o ss[i]
           Right(f, k) == \A i \in 1 .. k : f[i] = Joined(f, i)
<1>1. n \in Nat /\ DOMAIN ss = 1 .. n /\ \A i \in 1 .. n : ss[i] \in Seq(T)
  OBVIOUS
<1>2. CASE n = 0
  <2>1. FlattenSeq(ss) = ss /\ ss = <<>>
    BY <1>2 DEF FlattenSeq
  <2> QED  BY <2>1, <1>1, <1>2 DEF ToSet
<1>3. CASE n # 0
  <2> DEFINE flatten[i \in 1 .. n] == IF i = 1 THEN ss[i] ELSE flatten[i - 1] \o ss[i]
             Bad == {k \in 1 .. n : ~ \E f \in [1 .. k -> Seq(T)] : Right(f, k)}
  <2>0. FlattenSeq(ss) = flatten[n]
    BY <1>3 DEF FlattenSeq
  <2>1. Bad \in SUBSET Int /\ IsFiniteSet(Bad)
    <3>1. IsFiniteSet(1 .. n) /\ Bad \in SUBSET (1 .. n)
      BY <1>1, FS_Interval
    <3> QED  BY <3>1, FS_Subset
  <2>2. Bad = {}
    <3>1. SUFFICES ASSUME Bad # {} PROVE FALSE
      OBVIOUS
    <3>2. PICK k \in Bad : \A j \in Bad : k <= j
      BY <2>1, <3>1, LeastOf
    <3>3. k \in 1 .. n
      OBVIOUS
    <3>4. CASE k = 1
      <4> DEFINE f == [i \in 1 .. 1 |-> ss[1]]
      <4>1. f \in [1 .. k -> Seq(T)] /\ Right(f, k)
        BY <3>3, <3>4, <1>1
      <4> QED  BY <4>1, <3>2
    <3>5. CASE k # 1
      <4>0. k - 1 \in 1 .. n /\ ~(k <= k - 1)
        BY <3>3, <3>5, <1>1
      <4>1. k - 1 \in 1 .. n /\ k - 1 \notin Bad
        BY <4>0, <3>2
      <4>2. PICK f \in [1 .. k - 1 -> Seq(T)] : Right(f, k - 1)
        BY <4>1
      <4> DEFINE g == [i \in 1 .. k |-> IF i = k THEN f[k - 1] \o ss[k] ELSE f[i]]
      <4>3. f[k - 1] \in Seq(T) /\ ss[k] \in Seq(T)
        BY <4>1, <4>2, <3>3, <1>1
      <4>4. g \in [1 .. k -> Seq(T)]
        BY <4>2, <4>3, <3>3
      <4>5. ASSUME NEW i \in 1 .. k PROVE g[i] = Joined(g, i)
        <5>1. CASE i = k
          <6>1. k \in 1 .. k /\ k - 1 \in 1 .. k /\ k - 1 # k
            BY <3>3, <3>5
          <6>2. g[k] = f[k - 1] \o ss[k] /\ g[k - 1] = f[k - 1]
            BY <6>1, <3>3
          <6> QED  BY <6>2, <5>1, <3>5
        <5>2. CASE i # k /\ i # 1
          <6>1. i \in 1 .. k - 1 /\ i - 1 \in 1 .. k /\ i - 1 # k
            BY <5>2, <3>3
          <6>2. g[i] = f[i] /\ g[i - 1] = f[i - 1]
            BY <6>1, <5>2
          <6>3. f[i] = f[i - 1] \o ss[i]
            BY <6>1, <5>2, <4>2
          <6> QED  BY <6>2, <6>3, <5>2
        <5>3. CASE i # k /\ i = 1
          <6>1. g[1] = f[1] /\ 1 \in 1 .. k - 1
            BY <5>3, <3>3
          <6> QED  BY <6>1, <4>2, <5>3
        <5> QED  BY <5>1, <5>2, <5>3
      <4>6. Right(g, k)
        BY <4>5
      <4> QED  BY <4>4, <4>6, <3>2
    <3> QED  BY <3>4, <3>5
  <2>3. PICK f \in [1 .. n -> Seq(T)] : Right(f, n)
    <3>1. n \in 1 .. n
      BY <1>1, <1>3
    <3> QED  BY <3>1, <2>2
  <2>4. f = [i \in 1 .. n |-> IF i = 1 THEN ss[i] ELSE f[i - 1] \o ss[i]]
    BY <2>3
  <2>5. flatten = [i \in 1 .. n |-> IF i = 1 THEN ss[i] ELSE flatten[i - 1] \o ss[i]]
    <3> HIDE DEF n
    <3> QED  BY <2>4
  <2> HIDE DEF flatten
  <2> DEFINE Sound(i) == /\ flatten[i] \in Seq(T)
                         /\ \A x \in ToSet(flatten[i]) : \E j \in 1 .. i : x \in ToSet(ss[j])
                         /\ \A j \in 1 .. i : \A x \in ToSet(ss[j]) : x \in ToSet(flatten[i])
             Unsound == {i \in 1 .. n : ~Sound(i)}
  <2>6. Unsound \in SUBSET Int /\ IsFiniteSet(Unsound)
    <3>1. IsFiniteSet(1 .. n) /\ Unsound \in SUBSET (1 .. n)
      BY <1>1, FS_Interval
    <3> QED  BY <3>1, FS_Subset
  <2>7. Unsound = {}
    <3>1. SUFFICES ASSUME Unsound # {} PROVE FALSE
      OBVIOUS
    <3>2. PICK k \in Unsound : \A j \in Unsound : k <= j
      BY <2>6, <3>1, LeastOf
    <3>3. k \in 1 .. n /\ ~Sound(k)
      OBVIOUS
    <3>4. CASE k = 1
      <4>1. flatten[1] = ss[1]
        BY <2>5, <3>3, <3>4
      <4> QED  BY <4>1, <3>3, <3>4, <1>1
    <3>5. CASE k # 1
      <4>0. k - 1 \in 1 .. n /\ ~(k <= k - 1)
        BY <3>3, <3>5, <1>1
      <4>1. k - 1 \in 1 .. n /\ k - 1 \notin Unsound
        BY <4>0, <3>2
      <4>2. Sound(k - 1)
        BY <4>1
      <4>3. flatten[k] = flatten[k - 1] \o ss[k]
        BY <2>5, <3>3, <3>5
      <4>4. ToSet(flatten[k]) = ToSet(flatten[k - 1]) \cup ToSet(ss[k])
        BY <4>2, <4>3, <3>3, <1>1, Appended
      <4>5. flatten[k] \in Seq(T)
        BY <4>2, <4>3, <3>3, <1>1
      <4>6. \A j \in 1 .. k : j = k \/ j \in 1 .. k - 1
        BY <3>3
      <4>7. \A j \in 1 .. k - 1 : j \in 1 .. k
        BY <3>3
      <4>8. k \in 1 .. k
        BY <3>3
      <4> HIDE DEF n
      <4>9. \A x \in ToSet(flatten[k]) : \E j \in 1 .. k : x \in ToSet(ss[j])
        BY <4>2, <4>4, <4>7, <4>8
      <4>10. \A j \in 1 .. k : \A x \in ToSet(ss[j]) : x \in ToSet(flatten[k])
        BY <4>2, <4>4, <4>6
      <4> QED  BY <4>5, <4>9, <4>10, <3>3
    <3> QED  BY <3>4, <3>5
  <2>8. n \in 1 .. n
    BY <1>1, <1>3
  <2>9. Sound(n)
    BY <2>7, <2>8
  <2>10. n = 1 => flatten[n] = ss[1]
    BY <2>5, <2>8
  <2> HIDE DEF n
  <2> QED  BY <2>0, <2>9, <2>10, <1>1 DEF n
<1> QED  BY <1>2, <1>3
-----------------------------------------------------------------------------
(* The traversal: the inductive invariant.  What was visited was asked for *)
(* once; what was answered was looked at and recorded; whatever waits      *)
(* hangs below what is recorded; and each node hangs below an earlier one. *)

RootEntry  == Entry(Root, 0, None, None)
UrlsOf(s)  == {x.url : x \in ToSet(s)}

\* The URLs of the objects that are nodes, or are about to be.
Recorded == DOMAIN nodes \cup UrlsOf(yielded)

\* The URLs whose answers are still to come.
Fetching == IF stage = "fetch" THEN UrlsOf(batch) ELSE {}

\* Until the root is validated nothing else is known.
RootInv ==
  N = 0 =>
    /\ visited = {} /\ queue = <<>> /\ batch = <<RootEntry>>
    /\ DOMAIN nodes = {} /\ children = <<>> /\ root_node = 0
    /\ stage # "done"
    /\ stage = "thread" => /\ yielded = Fetched(RootEntry, web[Root])
                           /\ yielded # <<>> /\ ~yielded[1].error

\* What was asked for is what was visited, and the root.
AskedInv ==
  /\ IsFiniteSet(visited) /\ visited \subseteq SameHost
  /\ Cardinality(visited) <= request.max_objects
  /\ \A u \in Urls : asked[u] = IF u \in visited \cup {Root} THEN 1 ELSE 0
  /\ N > 0 => Root \in visited /\ UrlsOf(batch) \subseteq visited
  /\ Len(batch) <= max_concurrency

\* An entry waits for its parent in the queue at most.
ParentInv ==
  /\ stage = "fetch" => yielded = <<>>
  /\ N = 0 => \A x \in ToSet(yielded) : x.depth = 0 /\ x.parent = None
  /\ N > 0 => /\ \A x \in ToSet(queue) : x.depth # 0 /\ x.parent \in Recorded
              /\ \A x \in ToSet(batch) \cup ToSet(yielded) :
                   x.depth # 0 /\ x.parent \in DOMAIN nodes

\* What was answered was looked at.
GateInv ==
  /\ stage \notin {"refused", "crashed"} =>
       \A u \in Urls \ Fetching : asked[u] > 0 => \A o \in ToSet(web[u].objects) : o.latest
  /\ N > 0 => web[Root].kind # "broken"

\* What was answered with one object, or not at all, has a node.
NodeInv ==
  /\ IsFiniteSet(DOMAIN nodes)
  /\ \A u \in visited \ Fetching : web[u].kind \in {"object", "broken"} => u \in Recorded

\* As long as no two objects share a URL, every node but the first hangs below an
\* earlier one, once.
TreeInv ==
  web[Root].kind = "object" =>
    /\ Cardinality(DOMAIN nodes) <= N
    /\ Cardinality(DOMAIN nodes) = N /\ N > 0 =>
         /\ root_node = 1 /\ Len(children) = N - 1
         /\ \A k \in 2 .. N : \E e \in ToSet(children) : e[2] = k /\ e[1] < k

Inv == TypeOK /\ RootInv /\ AskedInv /\ ParentInv /\ GateInv /\ NodeInv /\ TreeInv /\ CutIsReported

-----------------------------------------------------------------------------
(* Payloads                                                                *)

\* Without leaves entries out, and adds none.
LEMMA Removed ==
  ASSUME NEW s \in Seq(QueueEntry), NEW U
  PROVE  /\ Without(s, U) \in Seq(QueueEntry)
         /\ \A x \in ToSet(Without(s, U)) : x \in ToSet(s)
<1> DEFINE I == {i \in DOMAIN s : s[i].url \notin U}
<1>1. I \in SUBSET (DOMAIN s)
  OBVIOUS
<1> HIDE DEF I
<1>2. /\ Picked(s, I) \in Seq(QueueEntry)
      /\ \A k \in DOMAIN Picked(s, I) : Nth(k, I) \in I /\ Picked(s, I)[k] = s[Nth(k, I)]
  BY <1>1, PickedEntries
<1>3. \A x \in ToSet(Picked(s, I)) : x \in ToSet(s)
  BY <1>1, <1>2 DEF ToSet
<1> QED  BY <1>2, <1>3 DEF Without, I

\* What an answer holds.
LEMMA PayloadTypes ==
  ASSUME NEW w \in Webs, NEW u \in Urls
  PROVE  /\ w[u] \in Payloads /\ Rooted(w)
         /\ w[u].objects \in Seq(Objects) /\ w[u].entries \in Seq(Urls)
         /\ w[u].next \in Seq(Urls) /\ w[u].items \in Urls \cup {None}
         /\ w[u].data \in Seq(Urls)
         /\ w[u].kind \in {"object", "page", "listing", "broken"}
         /\ \A i \in DOMAIN w[u].objects :
              w[u].objects[i] \in Objects /\ WellformedObject(w[u].objects[i])
<1>1. w[u] \in Payloads /\ Rooted(w)
  BY ConstantsAssumption
<1>2. \A o \in ToSet(w[u].objects) : WellformedObject(o)
  BY <1>1 DEF Payloads
<1>3. w[u].objects \in Seq(Objects)
  BY <1>1 DEF Payloads
<1> QED  BY <1>1, <1>2, <1>3 DEF Payloads, ToSet

\* The objects of an answer have the parent and the depth of its entry.
LEMMA FetchedTypes ==
  ASSUME NEW w \in Webs, NEW e \in QueueEntry
  PROVE  /\ Fetched(e, w[e.url]) \in Seq(CollectedObject)
         /\ \A o \in ToSet(Fetched(e, w[e.url])) : o.parent = e.parent /\ o.depth = e.depth
         /\ \A o \in ToSet(w[e.url].objects) :
              ~o.latest => \E x \in ToSet(Fetched(e, w[e.url])) : ~x.latest
         /\ w[e.url].kind \in {"object", "broken"} =>
              /\ Len(Fetched(e, w[e.url])) = 1
              /\ Fetched(e, w[e.url])[1].url = e.url
              /\ Fetched(e, w[e.url])[1].error = (w[e.url].kind = "broken")
<1> DEFINE p == w[e.url]
           os == Fetched(e, p)
<1>1. /\ e.url \in Urls /\ e.depth \in Nat /\ e.parent \in Urls \cup {None}
  BY DEF QueueEntry
<1>2. Failure(e) \in CollectedObject
  <2>1. None \in Types /\ <<>> \in Seq(Urls)
    BY DEF Types
  <2> QED  BY <1>1, <2>1 DEF Failure, CollectedObject
<1>3. CASE p.kind = "broken"
  <2>1. os = <<Failure(e)>> /\ p.objects = <<>>
    BY <1>3, <1>1, PayloadTypes DEF Fetched, Payloads
  <2>2. ToSet(os) = {Failure(e)} /\ ToSet(p.objects) = {}
    BY <2>1 DEF ToSet
  <2>3. os \in Seq(CollectedObject) /\ Len(os) = 1 /\ os[1] = Failure(e)
    BY <2>1, <1>2
  <2>4. Failure(e).parent = e.parent /\ Failure(e).depth = e.depth /\ Failure(e).url = e.url
        /\ Failure(e).error = TRUE
    BY DEF Failure
  <2> QED  BY <2>2, <2>3, <2>4, <1>3
<1>4. CASE p.kind # "broken"
  <2>1. p.objects \in Seq(Objects) /\ \A i \in DOMAIN p.objects :
          p.objects[i] \in Objects /\ WellformedObject(p.objects[i])
    BY <1>1, PayloadTypes
  <2>2. os = [i \in DOMAIN p.objects |-> Collected(e, p.objects[i])]
    BY <1>4 DEF Fetched
  <2>3. ASSUME NEW o \in Objects, WellformedObject(o)
        PROVE  /\ Collected(e, o) \in CollectedObject
               /\ Collected(e, o).parent = e.parent /\ Collected(e, o).depth = e.depth
               /\ Collected(e, o).latest = o.latest
    <3>1. CASE o.type = "junk"
      <4>1. Collected(e, o) = Failure(e) /\ o.latest
        BY <3>1, <2>3 DEF Collected, WellformedObject
      <4>2. Failure(e).parent = e.parent /\ Failure(e).depth = e.depth /\ Failure(e).latest = TRUE
        BY DEF Failure
      <4>3. o.latest \in BOOLEAN
        BY DEF Objects
      <4> QED  BY <4>1, <4>2, <4>3, <1>2
    <3>2. CASE o.type # "junk"
      <4>1. o.url \in Urls /\ o.type \in Types /\ o.links \in Seq(Urls) /\ o.latest \in BOOLEAN
        BY <3>2, <2>3 DEF WellformedObject, Objects
      <4>2. (~o.sound \/ Misplaced(o.type, e.ptype)) \in BOOLEAN
        OBVIOUS
      <4> QED  BY <3>2, <4>1, <4>2, <1>1 DEF Collected, CollectedObject
    <3> QED  BY <3>1, <3>2
  <2>4. DOMAIN p.objects = 1 .. Len(p.objects) /\ Len(p.objects) \in Nat
    BY <2>1
  <2>5. os \in Seq(CollectedObject) /\ DOMAIN os = DOMAIN p.objects /\ Len(os) = Len(p.objects)
    <3>1. \A i \in 1 .. Len(p.objects) : Collected(e, p.objects[i]) \in CollectedObject
      BY <2>1, <2>3, <2>4
    <3> HIDE DEF p, os
    <3> QED  BY <3>1, <2>2, <2>4
  <2>6. \A o \in ToSet(os) : \E i \in DOMAIN p.objects : o = Collected(e, p.objects[i])
    BY <2>2, <2>5 DEF ToSet
  <2>7. \A o \in ToSet(p.objects) : Collected(e, o) \in ToSet(os) /\ Collected(e, o).latest = o.latest
    BY <2>1, <2>2, <2>3, <2>5 DEF ToSet
  <2>8. ASSUME p.kind = "object" PROVE Len(os) = 1 /\ os[1].url = e.url /\ os[1].error = FALSE
    <3>1. Len(p.objects) = 1 /\ p.objects[1].type # "junk" /\ p.objects[1].url = e.url
      BY <2>8, <1>1, PayloadTypes DEF Payloads, Rooted
    <3>2. os[1] = Collected(e, p.objects[1])
      BY <3>1, <2>2, <2>4
    <3> QED  BY <3>1, <3>2, <2>5 DEF Collected
  <2> HIDE DEF p, os
  <2>9. \A o \in ToSet(os) : o.parent = e.parent /\ o.depth = e.depth
    BY <2>1, <2>3, <2>6
  <2>10. \A o \in ToSet(p.objects) : ~o.latest => \E x \in ToSet(os) : ~x.latest
    BY <2>7
  <2> QED  BY <2>5, <2>8, <2>9, <2>10, <1>4 DEF p, os
<1> QED  BY <1>3, <1>4

\* Entries that were found behind an entry: never above it, and below its own parent
\* or one of its objects.
LeadsOn(s, e) ==
  /\ s \in Seq(QueueEntry)
  /\ \A x \in ToSet(s) :
       /\ x.depth >= e.depth
       /\ x.parent = e.parent \/ \E o \in ToSet(Objs(e)) : x.parent = o.url

\* Nothing leads anywhere.
LEMMA NoneFound == ASSUME NEW e PROVE LeadsOn(<<>>, e)
  BY DEF LeadsOn, ToSet

\* Two lists of what leads on.
LEMMA BothFound ==
  ASSUME NEW e, NEW s, NEW t, LeadsOn(s, e), LeadsOn(t, e)
  PROVE  LeadsOn(s \o t, e)
  BY Appended DEF LeadsOn

\* Many lists of what leads on.
LEMMA AllFound ==
  ASSUME NEW e, NEW ss, NEW n \in Nat, ss = [i \in 1 .. n |-> ss[i]],
         \A i \in 1 .. n : LeadsOn(ss[i], e)
  PROVE  LeadsOn(FlattenSeq(ss), e)
<1>1. ss \in Seq(Seq(QueueEntry)) /\ DOMAIN ss = 1 .. n
  BY DEF LeadsOn
<1>2. /\ FlattenSeq(ss) \in Seq(QueueEntry)
      /\ \A x \in ToSet(FlattenSeq(ss)) : \E i \in DOMAIN ss : x \in ToSet(ss[i])
  BY <1>1, Flattened
<1> QED  BY <1>1, <1>2 DEF LeadsOn

\* Entries are well-formed.
LEMMA EntryTypes ==
  ASSUME NEW u \in Urls, NEW d \in Nat, NEW t \in Types, NEW p \in Urls \cup {None}
  PROVE  /\ Entry(u, d, t, p) \in QueueEntry
         /\ Entry(u, d, t, p).depth = d /\ Entry(u, d, t, p).parent = p
         /\ Entry(u, d, t, p).url = u
  BY DEF Entry, QueueEntry

\* So is the root's.
LEMMA RootEntryTypes ==
  /\ RootEntry \in QueueEntry /\ RootEntry.url = Root
  /\ RootEntry.depth = 0 /\ RootEntry.parent = None
<1>1. Root \in Urls /\ 0 \in Nat /\ None \in Types /\ None \in Urls \cup {None}
  BY ConstantsAssumption DEF Types
<1> QED  BY <1>1, EntryTypes DEF RootEntry

\* Lists of entries are well-formed.
LEMMA EntriesTypes ==
  ASSUME NEW us \in Seq(Urls), NEW d \in Nat, NEW t \in Types, NEW p \in Urls \cup {None}
  PROVE  /\ Entries(us, d, t, p) \in Seq(QueueEntry)
         /\ \A x \in ToSet(Entries(us, d, t, p)) : x.depth = d /\ x.parent = p
<1> DEFINE es == Entries(us, d, t, p)
<1>1. DOMAIN us = 1 .. Len(us) /\ Len(us) \in Nat /\ \A i \in DOMAIN us : us[i] \in Urls
  OBVIOUS
<1>2. es = [i \in 1 .. Len(us) |-> Entry(us[i], d, t, p)]
  BY <1>1 DEF Entries
<1>3. \A i \in 1 .. Len(us) :
        /\ Entry(us[i], d, t, p) \in QueueEntry
        /\ Entry(us[i], d, t, p).depth = d /\ Entry(us[i], d, t, p).parent = p
  <2>1. SUFFICES ASSUME NEW v \in Urls
                 PROVE  /\ Entry(v, d, t, p) \in QueueEntry
                        /\ Entry(v, d, t, p).depth = d /\ Entry(v, d, t, p).parent = p
    BY <1>1
  <2> QED  BY EntryTypes
<1> HIDE DEF es
<1>4. es \in Seq(QueueEntry) /\ DOMAIN es = 1 .. Len(us)
  BY <1>1, <1>2, <1>3
<1>5. \A x \in ToSet(es) : x.depth = d /\ x.parent = p
  BY <1>2, <1>3, <1>4 DEF ToSet
<1> QED  BY <1>4, <1>5 DEF es

\* The links of an object, and what is found behind it.
LEMMA Behind ==
  ASSUME NEW w \in Webs, web = w, NEW e \in QueueEntry, NEW o \in ToSet(Objs(e))
  PROVE  /\ LeadsOn(static_children(o), e)
         /\ LeadsOn(BehindStatic(o, web[e.url]), e)
         /\ LeadsOn(BehindApi(o, web[e.url], e), e)
<1> DEFINE p == web[e.url]
<1>1. /\ e.url \in Urls /\ e.depth \in Nat /\ e.parent \in Urls \cup {None}
  BY DEF QueueEntry
<1>2. /\ o \in CollectedObject /\ o.parent = e.parent /\ o.depth = e.depth
  BY FetchedTypes, ListIndices DEF Objs
<1>3. /\ o.url \in Urls /\ o.type \in Types /\ o.links \in Seq(Urls)
  BY <1>2 DEF CollectedObject
<1>4. e.depth + 1 \in Nat /\ e.depth + 1 >= e.depth
  BY <1>1
<1>5. LeadsOn(static_children(o), e)
  BY <1>2, <1>3, <1>4, EntriesTypes DEF static_children, LeadsOn
<1>6. ASSUME NEW u \in Urls, NEW t \in Types
      PROVE  LeadsOn(<<Entry(u, e.depth + 1, t, o.url)>>, e)
  <2> DEFINE x == Entry(u, e.depth + 1, t, o.url)
  <2>1. x \in QueueEntry /\ x.depth = e.depth + 1 /\ x.parent = o.url
    BY <1>3, <1>4, EntryTypes
  <2> HIDE DEF x
  <2>2. <<x>> \in Seq(QueueEntry) /\ ToSet(<<x>>) = {x}
    BY <2>1 DEF ToSet
  <2>3. LeadsOn(<<x>>, e)
    BY <2>1, <2>2, <1>4 DEF LeadsOn
  <2> QED  BY <2>3 DEF x
<1>7. p.items \in Urls \cup {None} /\ DefaultItems[o.url] \in Urls
  BY <1>1, <1>3, PayloadTypes, ConstantsAssumption
<1>8. LeadsOn(<<>>, e)
  BY NoneFound
<1>9. LeadsOn(BehindStatic(o, p), e)
  <2>1. o.type = "collection" /\ p.items # None =>
          LeadsOn(<<Entry(p.items, o.depth + 1, o.type, o.url)>>, e)
    BY <1>2, <1>3, <1>6, <1>7
  <2> HIDE DEF p
  <2> QED  BY <2>1, <1>5, <1>8, BothFound DEF BehindStatic
<1>10. LeadsOn(BehindApi(o, p, e), e)
  <2>1. items_url(o, p) \in Urls /\ "collection" \in Types
    BY <1>7 DEF items_url, Types
  <2>2. LeadsOn(<<Entry(items_url(o, p), e.depth + 1, "collection", o.url)>>, e)
    BY <2>1, <1>6
  <2> HIDE DEF p
  <2> QED  BY <2>2, <1>5, <1>8, BothFound DEF BehindApi
<1> QED  BY <1>5, <1>9, <1>10

\* What is discovered behind an entry.
LEMMA Discovery ==
  ASSUME TypeOK, NEW e \in QueueEntry
  PROVE  LeadsOn(Discover(e), e)
<1> DEFINE p == web[e.url]
           os == Objs(e)
           d == request.max_depth
<1>1. web \in Webs /\ e.url \in Urls /\ e.depth \in Nat /\ e.parent \in Urls \cup {None}
      /\ e.ptype \in Types
  BY DEF QueueEntry, TypeOK
<1>2. p.next \in Seq(Urls) /\ p.entries \in Seq(Urls)
  BY <1>1, PayloadTypes
<1>3. LeadsOn(NextPages(e, p), e) /\ LeadsOn(Entries(p.entries, e.depth, e.ptype, e.parent), e)
  <2>1. ASSUME NEW us \in Seq(Urls) PROVE LeadsOn(Entries(us, e.depth, e.ptype, e.parent), e)
    <3>1. /\ Entries(us, e.depth, e.ptype, e.parent) \in Seq(QueueEntry)
          /\ \A x \in ToSet(Entries(us, e.depth, e.ptype, e.parent)) :
               x.depth = e.depth /\ x.parent = e.parent
      BY <1>1, EntriesTypes
    <3>2. e.depth >= e.depth
      BY <1>1
    <3> QED  BY <3>1, <3>2 DEF LeadsOn
  <2> QED  BY <2>1, <1>2 DEF NextPages
<1>4. os \in Seq(CollectedObject) /\ os = Fetched(e, p)
  BY <1>1, FetchedTypes DEF Objs
<1>5. DOMAIN os = 1 .. Len(os) /\ Len(os) \in Nat /\ \A i \in DOMAIN os : os[i] \in ToSet(os)
  BY <1>4 DEF ToSet
<1>6. \A i \in DOMAIN os : LeadsOn(BehindStatic(os[i], p), e) /\ LeadsOn(BehindApi(os[i], p, e), e)
  BY <1>1, <1>5, Behind
<1> HIDE DEF os, p
<1>7. LeadsOn(FlattenSeq([i \in DOMAIN os |-> BehindStatic(os[i], p)]), e)
  BY <1>5, <1>6, AllFound
<1>8. LeadsOn(FlattenSeq([i \in DOMAIN os |-> BehindApi(os[i], p, e)]), e)
  BY <1>5, <1>6, AllFound
<1>9. LeadsOn(<<>>, e)
  BY NoneFound
<1>10. LeadsOn(DiscoverStatic(e, p, d), e)
  BY <1>3, <1>4, <1>7, <1>9, BothFound DEF DiscoverStatic
<1>11. LeadsOn(DiscoverApi(e, p, d), e)
  BY <1>3, <1>4, <1>8, <1>9, BothFound DEF DiscoverApi
<1> QED  BY <1>9, <1>10, <1>11 DEF Discover, p

-----------------------------------------------------------------------------
(* Filling a batch                                                         *)

\* The objects of a gathered batch are those of its entries.
LEMMA Gathered ==
  ASSUME TypeOK
  PROVE  LET objs == FlattenSeq([i \in DOMAIN batch |-> Objs(batch[i])])
         IN  /\ objs \in Seq(CollectedObject)
             /\ \A o \in ToSet(objs) : \E e \in ToSet(batch) : o \in ToSet(Objs(e))
             /\ \A e \in ToSet(batch) : \A o \in ToSet(Objs(e)) : o \in ToSet(objs)
             /\ Len(batch) = 1 => objs = Objs(batch[1])
<1> DEFINE ss == [i \in DOMAIN batch |-> Objs(batch[i])]
           objs == FlattenSeq(ss)
<1>1. batch \in Seq(QueueEntry) /\ web \in Webs
  BY DEF TypeOK
<1>2. /\ DOMAIN batch = 1 .. Len(batch) /\ Len(batch) \in Nat
      /\ \A i \in DOMAIN batch : batch[i] \in QueueEntry
  BY <1>1
<1>3. \A i \in DOMAIN batch : Objs(batch[i]) \in Seq(CollectedObject)
  BY <1>1, <1>2, FetchedTypes DEF Objs
<1>4. ss \in Seq(Seq(CollectedObject)) /\ DOMAIN ss = DOMAIN batch /\ Len(ss) = Len(batch)
  BY <1>2, <1>3
<1>5. \A i \in DOMAIN batch : ss[i] = Objs(batch[i]) /\ batch[i] \in ToSet(batch)
  BY DEF ToSet
<1>6. \A e \in ToSet(batch) : \E i \in DOMAIN batch : e = batch[i]
  BY DEF ToSet
<1> HIDE DEF ss
<1>7. /\ objs \in Seq(CollectedObject)
      /\ \A x \in ToSet(objs) : \E i \in DOMAIN ss : x \in ToSet(ss[i])
      /\ \A i \in DOMAIN ss : \A x \in ToSet(ss[i]) : x \in ToSet(objs)
      /\ Len(ss) = 1 => objs = ss[1]
  BY <1>4, Flattened
<1> HIDE DEF objs
<1>8. Len(batch) = 1 => objs = Objs(batch[1])
  BY <1>2, <1>4, <1>5, <1>7
<1>9. \A o \in ToSet(objs) : \E e \in ToSet(batch) : o \in ToSet(Objs(e))
  BY <1>4, <1>5, <1>7
<1>10. \A e \in ToSet(batch) : \A o \in ToSet(Objs(e)) : o \in ToSet(objs)
  BY <1>4, <1>5, <1>6, <1>7
<1> QED  BY <1>7, <1>8, <1>9, <1>10 DEF objs, ss

\* What is discovered is found behind an entry of the batch, once the root is validated.
LEMMA DiscoveredTypes ==
  ASSUME TypeOK
  PROVE  /\ Discovered \in Seq(QueueEntry)
         /\ \A x \in ToSet(Discovered) :
              /\ N # 0
              /\ \E e \in ToSet(batch) :
                   /\ x.depth >= e.depth
                   /\ x.parent = e.parent \/ \E o \in ToSet(Objs(e)) : x.parent = o.url
<1> DEFINE ss == [i \in DOMAIN batch |-> Discover(batch[i])]
           found == FlattenSeq(ss)
<1>1. batch \in Seq(QueueEntry)
  BY DEF TypeOK
<1>2. /\ DOMAIN batch = 1 .. Len(batch) /\ Len(batch) \in Nat
      /\ \A i \in DOMAIN batch : batch[i] \in QueueEntry /\ batch[i] \in ToSet(batch)
  BY <1>1 DEF ToSet
<1>3. \A i \in DOMAIN batch : LeadsOn(Discover(batch[i]), batch[i])
  BY <1>2, Discovery
<1>4. ss \in Seq(Seq(QueueEntry)) /\ DOMAIN ss = DOMAIN batch
  BY <1>2, <1>3 DEF LeadsOn
<1>5. \A i \in DOMAIN ss : LeadsOn(ss[i], batch[i])
  BY <1>3, <1>4
<1> HIDE DEF ss
<1>6. /\ found \in Seq(QueueEntry)
      /\ \A x \in ToSet(found) : \E i \in DOMAIN ss : x \in ToSet(ss[i])
  BY <1>4, Flattened
<1> HIDE DEF found
<1>7. \A x \in ToSet(found) :
        \E e \in ToSet(batch) :
          /\ x.depth >= e.depth
          /\ x.parent = e.parent \/ \E o \in ToSet(Objs(e)) : x.parent = o.url
  <2>1. ASSUME NEW x \in ToSet(found)
        PROVE  \E e \in ToSet(batch) :
                 /\ x.depth >= e.depth
                 /\ x.parent = e.parent \/ \E o \in ToSet(Objs(e)) : x.parent = o.url
    <3>1. PICK i \in DOMAIN ss : x \in ToSet(ss[i])
      BY <1>6
    <3>2. batch[i] \in ToSet(batch)
      BY <3>1, <1>2, <1>4
    <3> QED  BY <3>1, <3>2, <1>5 DEF LeadsOn
  <2> QED  BY <2>1
<1>8. Discovered = IF N = 0 THEN <<>> ELSE Without(found, visited \cup skipped)
  BY DEF Discovered, RootBatch, found, ss
<1>9. CASE N = 0
  BY <1>8, <1>9 DEF ToSet
<1>10. CASE N # 0
  <2>1. /\ Discovered \in Seq(QueueEntry)
        /\ \A x \in ToSet(Discovered) : x \in ToSet(found)
    BY <1>6, <1>8, <1>10, Removed
  <2> QED  BY <2>1, <1>7, <1>10
<1> QED  BY <1>9, <1>10

\* The queue that the first batch is taken from holds children of the root.
LEMMA LineTypes ==
  ASSUME TypeOK, RootInv, stage = "thread"
  PROVE  /\ Line \in Seq(QueueEntry)
         /\ N = 0 => /\ Seen = {Root}
                     /\ \A x \in ToSet(Line) : x.depth # 0 /\ x.parent = yielded[1].url
         /\ N # 0 => Line = queue /\ Seen = visited
<1>1. web \in Webs /\ queue \in Seq(QueueEntry) /\ request \in Requests
  BY DEF TypeOK
<1>2. CASE N # 0
  BY <1>1, <1>2 DEF Line, Seen, RootBatch
<1>3. CASE N = 0
  <2> DEFINE o == yielded[1]
             p == web[Root]
  <2>1. RootEntry \in QueueEntry /\ RootEntry.url = Root /\ RootEntry.depth = 0
        /\ RootEntry.parent = None
    BY RootEntryTypes
  <2>2. yielded = Fetched(RootEntry, p) /\ yielded # <<>>
    BY <1>3 DEF RootInv
  <2>3. yielded \in Seq(CollectedObject) /\ 1 \in DOMAIN yielded /\ o \in ToSet(yielded)
    BY <2>2 DEF TypeOK, ToSet
  <2>4. o.depth = 0 /\ o \in CollectedObject
    BY <1>1, <2>1, <2>2, <2>3, FetchedTypes
  <2>5. is_stac_api_catalog(p) => o.url = Root
    <3>1. is_stac_api_catalog(p) => p.kind = "object"
      BY <1>1, ConstantsAssumption DEF Rooted
    <3> QED  BY <3>1, <1>1, <2>1, <2>2, FetchedTypes
  <2>6. Seen = {Root}
    BY <2>5, <1>3 DEF Seen, RootBatch
  <2>7. o.url \in Urls /\ o.type \in Types /\ o.links \in Seq(Urls)
    BY <2>4 DEF CollectedObject
  <2>8. /\ static_children(o) \in Seq(QueueEntry)
        /\ \A x \in ToSet(static_children(o)) : x.depth # 0 /\ x.parent = o.url
    <3>1. o.depth + 1 = 1
      BY <2>4
    <3>2. static_children(o) = Entries(o.links, 1, o.type, o.url)
      BY <3>1 DEF static_children
    <3>3. 1 \in Nat /\ 1 # 0
      OBVIOUS
    <3> HIDE DEF o
    <3> QED  BY <3>2, <3>3, <2>7, EntriesTypes
  <2>9. collections_endpoint_urls(p) \in Seq(Urls)
    <3>1. p.data \in Seq(Urls) /\ DefaultListing \in Urls
      BY <1>1, <2>1, PayloadTypes, ConstantsAssumption
    <3> QED  BY <3>1 DEF collections_endpoint_urls
  <2>10. /\ Entries(collections_endpoint_urls(p), 1, "catalog", o.url) \in Seq(QueueEntry)
         /\ \A x \in ToSet(Entries(collections_endpoint_urls(p), 1, "catalog", o.url)) :
              x.depth # 0 /\ x.parent = o.url
    <3>1. "catalog" \in Types /\ 1 \in Nat /\ 1 # 0
      BY DEF Types
    <3> HIDE DEF o, p
    <3> DEFINE us == collections_endpoint_urls(p)
    <3>2. us \in Seq(Urls) /\ o.url \in Urls \cup {None}
      BY <2>7, <2>9
    <3> HIDE DEF us
    <3>3. /\ Entries(us, 1, "catalog", o.url) \in Seq(QueueEntry)
          /\ \A x \in ToSet(Entries(us, 1, "catalog", o.url)) : x.depth = 1 /\ x.parent = o.url
      BY <3>1, <3>2, EntriesTypes
    <3> QED  BY <3>1, <3>3 DEF us
  <2> HIDE DEF o, p
  <2>11. \A U : /\ Without(static_children(o), U) \in Seq(QueueEntry)
                /\ \A x \in ToSet(Without(static_children(o), U)) : x.depth # 0 /\ x.parent = o.url
    BY <2>8, Removed
  <2>12. /\ ApiSeeds(o, p) \in Seq(QueueEntry)
         /\ \A x \in ToSet(ApiSeeds(o, p)) : x.depth # 0 /\ x.parent = o.url
    BY <2>10, <2>11, Appended DEF ApiSeeds
  <2>13. /\ StaticSeeds(o, Root) \in Seq(QueueEntry)
         /\ \A x \in ToSet(StaticSeeds(o, Root)) : x.depth # 0 /\ x.parent = o.url
    BY <2>11 DEF StaticSeeds
  <2>14. <<>> \in Seq(QueueEntry) /\ ToSet(<<>>) = {}
    BY DEF ToSet
  <2>15. Line = Seeds
    BY <1>3 DEF Line, RootBatch
  <2>16. Seeds \in {<<>>, ApiSeeds(o, p), StaticSeeds(o, Root)}
    BY DEF Seeds, o, p
  <2> QED  BY <2>6, <2>12, <2>13, <2>14, <2>15, <2>16, <1>3 DEF o
<1> QED  BY <1>2, <1>3

\* The URLs of a batch are new ones of the catalog's host, as many as there is room for,
\* and nothing waits that could have been visited unless there is no more room at all.
LEMMA Filled ==
  ASSUME TypeOK, Line \in Seq(QueueEntry), IsFiniteSet(Seen), Seen \subseteq SameHost,
         Cardinality(Seen) <= request.max_objects, Fill
  PROVE  LET Fresh == UrlsOf(batch')
         IN  /\ batch' \in Seq(QueueEntry) /\ queue' \in Seq(QueueEntry)
             /\ \A x \in ToSet(batch') \cup ToSet(queue') : x \in ToSet(Line)
             /\ Fresh \subseteq SameHost /\ Fresh \cap Seen = {} /\ visited' = Seen \cup Fresh
             /\ IsFiniteSet(visited') /\ Cardinality(visited') <= request.max_objects
             /\ Len(batch') <= max_concurrency
             /\ \A u \in Urls : Cardinality({i \in DOMAIN batch' : batch'[i].url = u})
                                = IF u \in Fresh THEN 1 ELSE 0
             /\ batch' = <<>> /\ queue' # <<>> => Cardinality(visited') = request.max_objects
<1> DEFINE n == Len(Line)
           max == request.max_objects
           c == Cardinality(Seen)
           m == Cardinality(Taken)
           room == IF max - c < max_concurrency THEN max - c ELSE max_concurrency
           Links == {Line[i].url : i \in Taken}
<1>1. /\ n \in Nat /\ DOMAIN Line = 1 .. n
      /\ \A i \in DOMAIN Line : Line[i] \in QueueEntry
  OBVIOUS
<1>2. max \in Nat \ {0} /\ max_concurrency \in Nat \ {0} /\ c \in Nat /\ c <= max
  BY ConstantsAssumption, FS_CardinalityType DEF TypeOK
<1>3. room \in Nat /\ room <= max_concurrency /\ room <= max - c
  BY <1>2
<1>4. Taken \in SUBSET (DOMAIN Line) /\ Eligible \in SUBSET (DOMAIN Line)
      /\ DOMAIN Line \ LookedAt \in SUBSET (DOMAIN Line)
  BY DEF Taken, Eligible
<1>5. Taken \in SUBSET Int /\ IsFiniteSet(Taken) /\ Eligible \in SUBSET Int /\ IsFiniteSet(Eligible)
  BY <1>4, Indices
<1>6. m \in Nat /\ m <= room
  <2>1. \A i, j \in Eligible : <<i, j>> \in Downwards <=> j < i
    BY <1>5 DEF Downwards
  <2>2. StrictOrder(Eligible, Downwards)
    BY <2>1, <1>5 DEF StrictOrder
  <2>3. ASSUME NEW i \in Eligible PROVE Place(Eligible, Downwards)[i] = TakenBefore(i)
    <3>1. Ahead(i, Eligible, Downwards) = {j \in Eligible : j < i}
      BY <2>1 DEF Ahead
    <3> QED  BY <3>1 DEF Place, TakenBefore
  <2>4. ASSUME NEW i \in Eligible
        PROVE  i \in LookedAt <=> Place(Eligible, Downwards)[i] < room
    <3>1. i \in LookedAt <=> TakenBefore(i) < max_concurrency /\ c + TakenBefore(i) < max
      BY <1>4 DEF LookedAt
    <3>2. TakenBefore(i) \in Int
      BY <2>2, <2>3, <1>5, PlaceType, FS_CardinalityType
    <3> QED  BY <3>1, <3>2, <2>3, <1>2
  <2>5. Taken = {i \in Eligible : Place(Eligible, Downwards)[i] < room}
    BY <2>4 DEF Taken
  <2>6. Cardinality(Eligible) \in Nat
    BY <1>5, FS_CardinalityType
  <2> HIDE DEF room
  <2>7. m = IF room < Cardinality(Eligible) THEN room ELSE Cardinality(Eligible)
    BY <2>2, <2>5, <1>3, <1>5, FirstPlaces
  <2> HIDE DEF m
  <2> QED  BY <2>6, <2>7, <1>3
<1>7. batch' = Picked(Line, Taken) /\ queue' = Picked(Line, DOMAIN Line \ LookedAt)
      /\ visited' = Seen \cup Links
  BY DEF Fill
<1>8. /\ batch' \in Seq(QueueEntry) /\ DOMAIN batch' = 1 .. m /\ Len(batch') = m
      /\ \A k \in DOMAIN batch' : Nth(k, Taken) \in Taken /\ batch'[k] = Line[Nth(k, Taken)]
      /\ \A k, l \in DOMAIN batch' : Nth(k, Taken) = Nth(l, Taken) => k = l
      /\ \A i \in Taken : \E k \in DOMAIN batch' : batch'[k] = Line[i]
  <2>1. DOMAIN batch' = 1 .. m
    BY <1>7 DEF Picked
  <2>2. batch' \in Seq(QueueEntry)
    BY <1>4, <1>7, PickedEntries
  <2>3. Len(batch') = m
    BY <2>1, <2>2, <1>6
  <2>4. LET p == Picked(Line, Taken)
        IN  /\ \A k \in DOMAIN p : Nth(k, Taken) \in Taken /\ p[k] = Line[Nth(k, Taken)]
            /\ \A k, l \in DOMAIN p : Nth(k, Taken) = Nth(l, Taken) => k = l
            /\ \A i \in Taken : \E k \in DOMAIN p : p[k] = Line[i]
    BY <1>4, PickedEntries
  <2> HIDE DEF m
  <2> QED  BY <2>1, <2>2, <2>3, <2>4, <1>7
<1>9. /\ queue' \in Seq(QueueEntry)
      /\ \A k \in DOMAIN queue' : \E i \in DOMAIN Line : queue'[k] = Line[i]
  <2> DEFINE remaining == DOMAIN Line \ LookedAt
  <2>1. remaining \in SUBSET (DOMAIN Line) /\ queue' = Picked(Line, remaining)
    BY <1>7
  <2> HIDE DEF remaining
  <2>2. /\ Picked(Line, remaining) \in Seq(QueueEntry)
        /\ \A k \in DOMAIN Picked(Line, remaining) :
             Nth(k, remaining) \in remaining /\ Picked(Line, remaining)[k] = Line[Nth(k, remaining)]
    BY <2>1, PickedEntries
  <2> QED  BY <2>1, <2>2
<1>10. \A x \in ToSet(batch') \cup ToSet(queue') : x \in ToSet(Line)
  BY <1>4, <1>8, <1>9 DEF ToSet
<1>11. UrlsOf(batch') = Links
  BY <1>8 DEF UrlsOf, ToSet
<1>12. ASSUME NEW i \in Taken, NEW j \in Taken, Line[i].url = Line[j].url PROVE i = j
  <2>1. /\ i \in DOMAIN Line /\ j \in DOMAIN Line
        /\ \A k \in 1 .. i - 1 : Line[k].url # Line[i].url
        /\ \A k \in 1 .. j - 1 : Line[k].url # Line[j].url
    BY DEF Taken, Eligible
  <2>2. ~(i < j) /\ ~(j < i)
    BY <2>1, <1>1, <1>12
  <2> QED  BY <2>1, <2>2, <1>1
<1>13. Links \subseteq SameHost /\ Links \cap Seen = {}
  BY DEF Taken, Eligible
<1>14. IsFiniteSet(Links) /\ Cardinality(Links) = m
  <2> DEFINE g == [i \in Taken |-> Line[i].url]
  <2>1. g \in [Taken -> Links] /\ \A v \in Links : \E i \in Taken : g[i] = v
    OBVIOUS
  <2>2. \A i, j \in Taken : g[i] = g[j] => i = j
    BY <1>12
  <2>3. IsFiniteSet(Taken)
    BY <1>5
  <2> HIDE DEF g, Links
  <2>4. IsFiniteSet(Links)
    BY <2>1, <2>3, Values
  <2>5. Cardinality(Links) = Cardinality(Taken)
    BY <2>1, <2>2, <2>3, Values
  <2> QED  BY <2>4, <2>5
<1>15. IsFiniteSet(visited') /\ Cardinality(visited') = c + m
  <2>1. /\ IsFiniteSet(Seen \cup Links)
        /\ Cardinality(Seen \cup Links) = Cardinality(Seen) + Cardinality(Links) - Cardinality(Seen \cap Links)
    BY <1>14, FS_Union
  <2>2. Seen \cap Links = {}
    BY <1>13
  <2>3. Cardinality(Seen \cap Links) = 0
    BY <2>2, FS_EmptySet
  <2> QED  BY <2>1, <2>3, <1>7, <1>14, <1>2, <1>6
<1>16. ASSUME NEW u \in Urls
       PROVE  Cardinality({i \in DOMAIN batch' : batch'[i].url = u}) = IF u \in Links THEN 1 ELSE 0
  <2> DEFINE I == {i \in DOMAIN batch' : batch'[i].url = u}
  <2>1. CASE u \in Links
    <3>1. PICK k \in DOMAIN batch' : batch'[k].url = u
      BY <2>1, <1>8
    <3>2. \A l \in I : l = k
      BY <3>1, <1>8, <1>12
    <3>3. I = {k}
      BY <3>1, <3>2
    <3> QED  BY <3>3, <2>1, FS_Singleton
  <2>2. CASE u \notin Links
    <3>1. I = {}
      BY <2>2, <1>8
    <3> QED  BY <3>1, <2>2, FS_EmptySet
  <2> QED  BY <2>1, <2>2
<1>17. ASSUME batch' = <<>>, queue' # <<>> PROVE c = max
  <2>1. m = 0 /\ Taken = {}
    BY <1>17, <1>5, <1>8, FS_EmptySet
  <2>2. 1 \in DOMAIN queue'
    BY <1>9, <1>17
  <2>3. PICK i \in DOMAIN Line : i \notin LookedAt
    <3>1. DOMAIN Line \ LookedAt # {}
      <4>1. \A k \in DOMAIN queue' : Nth(k, DOMAIN Line \ LookedAt) \in DOMAIN Line \ LookedAt
        BY <1>4, <1>7, PickedEntries
      <4> QED  BY <4>1, <2>2
    <3> QED  BY <3>1
  <2>4. CASE Eligible = {}
    <3>1. {j \in Eligible : j < i} = {}
      BY <2>4
    <3>2. TakenBefore(i) = 0
      BY <3>1, FS_EmptySet DEF TakenBefore
    <3>3. ~(0 < max_concurrency /\ c + 0 < max)
      BY <2>3, <3>2 DEF LookedAt
    <3> QED  BY <3>3, <1>2
  <2>5. CASE Eligible # {}
    <3>1. PICK j \in Eligible : \A k \in Eligible : j <= k
      BY <2>5, <1>5, LeastOf
    <3>2. \A k \in Eligible : ~(k < j)
      BY <3>1, <1>5
    <3>3. TakenBefore(j) = 0
      <4>1. {k \in Eligible : k < j} = {}
        BY <3>2
      <4> QED  BY <4>1, FS_EmptySet DEF TakenBefore
    <3>4. j \in DOMAIN Line /\ j \notin LookedAt
      BY <2>1, <1>4 DEF Taken
    <3>5. ~(0 < max_concurrency /\ c + 0 < max)
      BY <3>3, <3>4 DEF LookedAt
    <3> QED  BY <3>5, <1>2
  <2> QED  BY <2>4, <2>5
<1>18. batch' = <<>> => m = 0
  BY <1>8
<1> HIDE DEF m, c, Links, max
<1>19. Cardinality(visited') <= max
  BY <1>15, <1>3, <1>6, <1>2
<1>20. Len(batch') <= max_concurrency
  BY <1>8, <1>3, <1>6, <1>2
<1>21. batch' = <<>> /\ queue' # <<>> => Cardinality(visited') = max
  BY <1>15, <1>17, <1>18, <1>2
<1> QED
  BY <1>7, <1>8, <1>9, <1>10, <1>11, <1>13, <1>15, <1>16, <1>19, <1>20, <1>21 DEF max

-----------------------------------------------------------------------------
(* Accumulating nodes                                                      *)

\* The node of a URL is that of its last object in the batch, or the one it had.
LEMMA NodesOfBatch ==
  ASSUME TypeOK, Accumulate, IsFiniteSet(DOMAIN nodes)
  PROVE  /\ made' \in Seq(BOOLEAN) /\ N' = N + Len(yielded) /\ N \in Nat /\ Len(yielded) \in Nat
         /\ DOMAIN nodes' = Recorded /\ IsFiniteSet(Recorded) /\ Recorded \subseteq Urls
         /\ \A u \in Recorded : nodes'[u] \in 1 .. N'
         /\ \A u \in DOMAIN nodes \ UrlsOf(yielded) : nodes'[u] = nodes[u]
         /\ \A i \in DOMAIN yielded :
              (\A j \in DOMAIN yielded : yielded[j].url = yielded[i].url => j = i)
                => nodes'[yielded[i].url] = N + i
<1> DEFINE n == Len(yielded)
           With(u) == {i \in DOMAIN yielded : yielded[i].url = u}
<1>1. yielded \in Seq(CollectedObject) /\ made \in Seq(BOOLEAN) /\ DOMAIN nodes \subseteq Urls
  BY DEF TypeOK
<1>2. /\ n \in Nat /\ DOMAIN yielded = 1 .. n /\ IsFiniteSet(ToSet(yielded))
      /\ IsFiniteSet(DOMAIN yielded)
      /\ \A i \in DOMAIN yielded : yielded[i] \in CollectedObject /\ yielded[i] \in ToSet(yielded)
      /\ \A o \in ToSet(yielded) : \E i \in DOMAIN yielded : o = yielded[i]
  <2>1. /\ Len(yielded) \in Nat /\ DOMAIN yielded = 1 .. Len(yielded)
        /\ IsFiniteSet(ToSet(yielded)) /\ IsFiniteSet(DOMAIN yielded)
    BY <1>1, ListIndices
  <2>2. \A i \in DOMAIN yielded : yielded[i] \in CollectedObject
    BY <1>1
  <2> QED  BY <2>1, <2>2 DEF ToSet
<1>3. \A i \in DOMAIN yielded : yielded[i].url \in Urls /\ yielded[i].invalid \in BOOLEAN
  BY <1>2 DEF CollectedObject
<1>4. made' \in Seq(BOOLEAN) /\ N' = N + n /\ N \in Nat
  <2> DEFINE news == [i \in DOMAIN yielded |-> yielded[i].invalid]
  <2>1. news \in Seq(BOOLEAN) /\ Len(news) = n
    BY <1>2, <1>3
  <2>2. made' = made \o news
    BY DEF Accumulate
  <2> HIDE DEF news
  <2>3. made' \in Seq(BOOLEAN) /\ Len(made') = Len(made) + Len(news) /\ Len(made) \in Nat
    BY <2>1, <2>2, <1>1
  <2> HIDE DEF n
  <2> QED  BY <2>1, <2>3 DEF N
<1>5. UrlsOf(yielded) = {yielded[i].url : i \in DOMAIN yielded}
  BY <1>2 DEF UrlsOf
<1>6. IsFiniteSet(UrlsOf(yielded)) /\ UrlsOf(yielded) \subseteq Urls
  <2> DEFINE I == DOMAIN yielded
             U == UrlsOf(yielded)
             g == [i \in I |-> yielded[i].url]
  <2>1. \A i \in I : g[i] = yielded[i].url /\ yielded[i].url \in U
    BY <1>5
  <2>2. \A v \in U : \E i \in I : yielded[i].url = v
    BY <1>5
  <2>3. g \in [I -> U] /\ \A v \in U : \E i \in I : g[i] = v
    BY <2>1, <2>2
  <2>4. IsFiniteSet(I)
    BY <1>2
  <2> HIDE DEF g, I, U, n, With
  <2>5. IsFiniteSet(U)
    BY <2>3, <2>4, Values
  <2> QED  BY <2>5, <1>3, <1>5 DEF U
<1>7. DOMAIN nodes' = Recorded
      /\ \A u \in Recorded : nodes'[u] = IF u \in UrlsOf(yielded) THEN N + Max(With(u)) ELSE nodes[u]
  BY DEF Accumulate, BatchNodes, Recorded, UrlsOf
<1>8. IsFiniteSet(Recorded) /\ Recorded \subseteq Urls
  BY <1>1, <1>6, FS_Union DEF Recorded
<1>9. ASSUME NEW u \in UrlsOf(yielded) PROVE Max(With(u)) \in With(u)
  <2>1. With(u) \in SUBSET (DOMAIN yielded) /\ With(u) # {}
    BY <1>5
  <2>2. With(u) \in SUBSET Int /\ IsFiniteSet(With(u))
    BY <2>1, <1>1, Indices
  <2>3. \E i \in With(u) : \A j \in With(u) : i >= j
    <3>1. PICK i \in With(u) : \A j \in With(u) : j <= i
      BY <2>1, <2>2, GreatestOf
    <3>2. \A j \in With(u) : i >= j
      BY <3>1, <2>2
    <3> QED  BY <3>2
  <2> HIDE DEF With
  <2> QED  BY <2>3 DEF Max
<1>10. ASSUME NEW u \in Recorded PROVE nodes'[u] \in 1 .. N'
  <2>1. CASE u \in UrlsOf(yielded)
    <3>1. Max(With(u)) \in 1 .. n
      BY <2>1, <1>2, <1>9
    <3> QED  BY <3>1, <2>1, <1>7, <1>4, <1>2
  <2>2. CASE u \notin UrlsOf(yielded)
    <3>1. u \in DOMAIN nodes /\ nodes'[u] = nodes[u]
      BY <2>2, <1>7 DEF Recorded
    <3>2. nodes[u] \in 1 .. N
      BY <3>1 DEF TypeOK
    <3> QED  BY <3>1, <3>2, <1>4, <1>2
  <2> QED  BY <2>1, <2>2
<1>11. ASSUME NEW i \in DOMAIN yielded,
              \A j \in DOMAIN yielded : yielded[j].url = yielded[i].url => j = i
       PROVE  nodes'[yielded[i].url] = N + i
  <2>1. yielded[i].url \in UrlsOf(yielded) /\ yielded[i].url \in Recorded
    BY <1>5 DEF Recorded
  <2>2. Max(With(yielded[i].url)) = i
    BY <2>1, <1>9, <1>11
  <2> QED  BY <2>1, <2>2, <1>7
<1>12. \A u \in DOMAIN nodes \ UrlsOf(yielded) : nodes'[u] = nodes[u]
  BY <1>7 DEF Recorded
<1> QED  BY <1>2, <1>4, <1>7, <1>8, <1>10, <1>11, <1>12

\* The edges of a batch join nodes; there is one for each object if every parent is a
\* node, and none if no parent is.
LEMMA EdgesOfBatch ==
  ASSUME TypeOK, Accumulate, IsFiniteSet(DOMAIN nodes)
  PROVE  /\ children' \in Seq((1 .. N') \X (1 .. N')) /\ Len(children) \in Nat
         /\ \A e \in ToSet(children) : e \in ToSet(children')
         /\ (\A i \in DOMAIN yielded : yielded[i].parent \in Recorded) =>
              /\ Len(children') = Len(children) + Len(yielded)
              /\ \A i \in DOMAIN yielded :
                   << nodes'[yielded[i].parent], nodes'[yielded[i].url] >> \in ToSet(children')
         /\ (\A i \in DOMAIN yielded : yielded[i].parent \notin Recorded) => children' = children
<1> DEFINE I == {i \in DOMAIN yielded : yielded[i].parent \in DOMAIN nodes'}
           attached == Picked(yielded, I)
           Edge(o) == << nodes'[o.parent], nodes'[o.url] >>
           T == (1 .. N') \X (1 .. N')
<1>0. yielded \in Seq(CollectedObject)
  BY DEF TypeOK
<1>1. children \in Seq((1 .. N) \X (1 .. N))
  BY DEF TypeOK
<1>2. /\ N' = N + Len(yielded) /\ N \in Nat /\ Len(yielded) \in Nat /\ DOMAIN nodes' = Recorded
      /\ \A u \in Recorded : nodes'[u] \in 1 .. N'
  BY NodesOfBatch
<1>3. /\ DOMAIN yielded = 1 .. Len(yielded) /\ Cardinality(DOMAIN yielded) = Len(yielded)
      /\ \A i \in DOMAIN yielded : yielded[i].url \in Recorded
  <2>1. DOMAIN yielded = 1 .. Len(yielded) /\ Cardinality(DOMAIN yielded) = Len(yielded)
    BY <1>0, ListIndices
  <2>2. \A i \in DOMAIN yielded : yielded[i].url \in Recorded
    BY DEF Recorded, UrlsOf, ToSet
  <2> QED  BY <2>1, <2>2
<1>4. I \in SUBSET (DOMAIN yielded)
  OBVIOUS
<1>5. \A i \in I : Edge(yielded[i]) \in T
  BY <1>2, <1>3
<1>6. \A i \in DOMAIN yielded : i \in I <=> yielded[i].parent \in Recorded
  BY <1>2
<1> HIDE DEF I
<1>7. /\ attached \in Seq(CollectedObject)
      /\ \A k \in DOMAIN attached : Nth(k, I) \in I /\ attached[k] = yielded[Nth(k, I)]
      /\ \A i \in I : \E k \in DOMAIN attached : attached[k] = yielded[i]
  BY <1>0, <1>4, PickedEntries
<1>8. DOMAIN attached = 1 .. Cardinality(I) /\ Cardinality(I) \in Nat
  <2>1. IsFiniteSet(I)
    BY <1>0, <1>4, Indices
  <2> QED  BY <2>1, FS_CardinalityType DEF Picked
<1>9. Len(attached) = Cardinality(I)
  BY <1>7, <1>8
<1> DEFINE edges == [k \in DOMAIN attached |-> Edge(attached[k])]
<1>10. children' = children \o edges
  BY DEF Accumulate, Edges, I
<1> HIDE DEF attached, T, Edge
<1>11. edges \in Seq(T) /\ Len(edges) = Cardinality(I)
       /\ \A i \in I : Edge(yielded[i]) \in ToSet(edges)
  <2>1. \A k \in 1 .. Cardinality(I) : Edge(attached[k]) \in T
    BY <1>5, <1>7, <1>8
  <2>2. edges \in Seq(T) /\ Len(edges) = Cardinality(I)
    BY <2>1, <1>8
  <2>3. \A i \in I : Edge(yielded[i]) \in ToSet(edges)
    <3>1. ASSUME NEW i \in I PROVE Edge(yielded[i]) \in ToSet(edges)
      <4>1. PICK k \in DOMAIN attached : attached[k] = yielded[i]
        BY <1>7
      <4>2. k \in DOMAIN edges /\ edges[k] = Edge(yielded[i])
        BY <4>1
      <4> QED  BY <4>2 DEF ToSet
    <3> QED  BY <3>1
  <2> QED  BY <2>2, <2>3
<1> HIDE DEF edges
<1>12. children \in Seq(T)
  <2>1. (1 .. N) \X (1 .. N) \subseteq T
    BY <1>2 DEF T
  <2> HIDE DEF T
  <2>2. Len(children) \in Nat /\ \A k \in 1 .. Len(children) : children[k] \in T
    BY <1>1, <2>1
  <2>3. children = [k \in 1 .. Len(children) |-> children[k]]
    BY <1>1
  <2> QED  BY <2>2, <2>3
<1>13. children' \in Seq(T) /\ ToSet(children') = ToSet(children) \cup ToSet(edges)
  BY <1>10, <1>11, <1>12, Appended
<1>14. Len(children) \in Nat /\ Len(children') = Len(children) + Cardinality(I)
  <2>1. Len(children) \in Nat /\ Len(children \o edges) = Len(children) + Len(edges)
    BY <1>11, <1>12
  <2> QED  BY <2>1, <1>10, <1>11
<1>15. ASSUME \A i \in DOMAIN yielded : yielded[i].parent \in Recorded
       PROVE  /\ Len(children') = Len(children) + Len(yielded)
              /\ \A i \in DOMAIN yielded : Edge(yielded[i]) \in ToSet(children')
  <2>1. I = DOMAIN yielded
    BY <1>4, <1>6, <1>15
  <2> QED  BY <2>1, <1>3, <1>11, <1>13, <1>14
<1>16. ASSUME \A i \in DOMAIN yielded : yielded[i].parent \notin Recorded
       PROVE  children' = children
  <2>1. I = {}
    BY <1>4, <1>6, <1>16
  <2>2. Cardinality(I) = 0
    BY <2>1, FS_EmptySet
  <2>3. edges = <<>>
    BY <2>2, <1>11
  <2> QED  BY <2>3, <1>10, <1>12
<1> QED  BY <1>13, <1>14, <1>15, <1>16 DEF T, Edge

\* The root is the node of the first object of depth 0.
LEMMA RootOfBatch ==
  ASSUME TypeOK, Accumulate, IsFiniteSet(DOMAIN nodes)
  PROVE  /\ root_node' \in 0 .. N'
         /\ (\A o \in ToSet(yielded) : o.depth # 0) => root_node' = root_node
         /\ Len(yielded) = 1 /\ yielded[1].depth = 0 => root_node' = nodes'[yielded[1].url]
<1> DEFINE I == {i \in DOMAIN yielded : yielded[i].depth = 0}
           roots == Picked(yielded, I)
<1>1. yielded \in Seq(CollectedObject) /\ root_node \in 0 .. N
  BY DEF TypeOK
<1>2. /\ N' = N + Len(yielded) /\ N \in Nat /\ Len(yielded) \in Nat /\ DOMAIN nodes' = Recorded
      /\ \A u \in Recorded : nodes'[u] \in 1 .. N'
  BY NodesOfBatch
<1>3. /\ DOMAIN yielded = 1 .. Len(yielded)
      /\ \A i \in DOMAIN yielded : yielded[i] \in ToSet(yielded)
      /\ \A i \in DOMAIN yielded : yielded[i].url \in Recorded
  BY <1>1 DEF Recorded, UrlsOf, ToSet
<1>4. /\ I \in SUBSET (DOMAIN yielded)
      /\ \A i \in I : yielded[i].depth = 0
      /\ \A i \in DOMAIN yielded : yielded[i].depth = 0 => i \in I
  OBVIOUS
<1>5. root_node' = IF roots # <<>> THEN nodes'[roots[1].url] ELSE root_node
  BY DEF Accumulate, Roots
<1> HIDE DEF I
<1>6. /\ roots \in Seq(CollectedObject)
      /\ \A k \in DOMAIN roots : Nth(k, I) \in I /\ roots[k] = yielded[Nth(k, I)]
      /\ \A i \in I : \E k \in DOMAIN roots : roots[k] = yielded[i]
  BY <1>1, <1>4, PickedEntries
<1> HIDE DEF roots
<1>7. ASSUME roots # <<>> PROVE \E i \in I : root_node' = nodes'[yielded[i].url]
  <2>1. 1 \in DOMAIN roots
    BY <1>6, <1>7
  <2> QED  BY <2>1, <1>5, <1>6, <1>7
<1>8. root_node' \in 0 .. N'
  <2>1. CASE roots # <<>>
    <3>1. PICK i \in I : root_node' = nodes'[yielded[i].url]
      BY <2>1, <1>7
    <3>2. nodes'[yielded[i].url] \in 1 .. N'
      BY <1>2, <1>3, <1>4
    <3> QED  BY <3>1, <3>2, <1>2
  <2>2. CASE roots = <<>>
    BY <2>2, <1>1, <1>2, <1>5
  <2> QED  BY <2>1, <2>2
<1>9. (\A o \in ToSet(yielded) : o.depth # 0) => root_node' = root_node
  BY <1>3, <1>4, <1>5, <1>7
<1>10. ASSUME Len(yielded) = 1, yielded[1].depth = 0 PROVE root_node' = nodes'[yielded[1].url]
  <2>0. DOMAIN yielded = {1}
    BY <1>3, <1>10
  <2>1. 1 \in I /\ \A i \in I : i = 1
    BY <2>0, <1>4, <1>10
  <2>2. roots # <<>>
    BY <2>1, <1>6
  <2> QED  BY <2>1, <2>2, <1>7
<1> QED  BY <1>8, <1>9, <1>10

-----------------------------------------------------------------------------
(* The thread's step                                                       *)

\* What the next batch is taken from.
LEMMA SeenTypes ==
  ASSUME Inv, stage = "thread"
  PROVE  /\ Line \in Seq(QueueEntry)
         /\ Seen = visited \cup {Root} /\ IsFiniteSet(Seen) /\ Seen \subseteq SameHost
         /\ Cardinality(Seen) <= request.max_objects
         /\ \A x \in ToSet(Line) : x.depth # 0 /\ x.parent \in Recorded
<1>1. /\ Line \in Seq(QueueEntry)
      /\ N = 0 => /\ Seen = {Root}
                  /\ \A x \in ToSet(Line) : x.depth # 0 /\ x.parent = yielded[1].url
      /\ N # 0 => Line = queue /\ Seen = visited
  BY LineTypes DEF Inv
<1>2. Root \in SameHost /\ request.max_objects \in Nat \ {0} /\ N \in Nat
  BY ConstantsAssumption DEF Inv, TypeOK, N
<1>3. CASE N = 0
  <2>1. visited = {} /\ yielded # <<>>
    BY <1>3 DEF Inv, RootInv
  <2>2. IsFiniteSet({Root}) /\ Cardinality({Root}) = 1
    BY FS_Singleton
  <2>3. yielded[1].url \in Recorded
    <3>1. yielded \in Seq(CollectedObject)
      BY DEF Inv, TypeOK
    <3>2. 1 \in DOMAIN yielded
      BY <2>1, <3>1
    <3> QED  BY <3>2 DEF Recorded, UrlsOf, ToSet
  <2>4. Seen = visited \cup {Root} /\ Seen = {Root}
    BY <2>1, <1>1, <1>3
  <2>5. \A x \in ToSet(Line) : x.depth # 0 /\ x.parent \in Recorded
    BY <2>3, <1>1, <1>3
  <2>6. IsFiniteSet(Seen) /\ Seen \subseteq SameHost /\ Cardinality(Seen) <= request.max_objects
    BY <2>2, <2>4, <1>2
  <2> QED  BY <2>4, <2>5, <2>6, <1>1
<1>4. CASE N # 0
  <2>1. N > 0
    BY <1>2, <1>4
  <2>2. Root \in visited /\ IsFiniteSet(visited) /\ visited \subseteq SameHost
        /\ Cardinality(visited) <= request.max_objects
    BY <2>1 DEF Inv, AskedInv
  <2>3. \A x \in ToSet(queue) : x.depth # 0 /\ x.parent \in Recorded
    BY <2>1 DEF Inv, ParentInv
  <2> QED  BY <2>2, <2>3, <1>1, <1>4
<1> QED  BY <1>3, <1>4

\* The step as a whole: what it fetches next, and what it has made.
LEMMA ValidatedFacts ==
  ASSUME Inv, Validated
  PROVE  /\ web' = web /\ request' = request /\ yielded' = <<>> /\ stage = "thread"
         /\ N' = N + Len(yielded) /\ N \in Nat /\ Len(yielded) \in Nat /\ N' > 0
         /\ DOMAIN nodes' = Recorded /\ IsFiniteSet(Recorded) /\ Recorded \subseteq Urls
         /\ batch' \in Seq(QueueEntry) /\ queue' \in Seq(QueueEntry)
         /\ \A x \in ToSet(batch') \cup ToSet(queue') : x.depth # 0 /\ x.parent \in Recorded
         /\ UrlsOf(batch') \subseteq SameHost /\ UrlsOf(batch') \cap (visited \cup {Root}) = {}
         /\ visited' = visited \cup {Root} \cup UrlsOf(batch')
         /\ IsFiniteSet(visited') /\ Cardinality(visited') <= request.max_objects
         /\ Len(batch') <= max_concurrency
         /\ \A u \in Urls : Cardinality({i \in DOMAIN batch' : batch'[i].url = u})
                            = IF u \in UrlsOf(batch') THEN 1 ELSE 0
         /\ batch' = <<>> /\ queue' # <<>> => Cardinality(visited') = request.max_objects
<1>1. web' = web /\ request' = request /\ yielded' = <<>> /\ stage = "thread" /\ Accumulate /\ Fill
  BY DEF Validated
<1>2. TypeOK /\ IsFiniteSet(DOMAIN nodes)
  BY DEF Inv, NodeInv
<1>3. /\ N' = N + Len(yielded) /\ N \in Nat /\ Len(yielded) \in Nat
      /\ DOMAIN nodes' = Recorded /\ IsFiniteSet(Recorded) /\ Recorded \subseteq Urls
  BY <1>1, <1>2, NodesOfBatch
<1>4. N' > 0
  <2>1. N = 0 => yielded # <<>>
    BY <1>1 DEF Inv, RootInv
  <2>2. yielded \in Seq(CollectedObject)
    BY <1>2 DEF TypeOK
  <2>3. N = 0 => Len(yielded) # 0
    BY <2>1, <2>2
  <2> QED  BY <2>3, <1>3
<1>5. /\ Line \in Seq(QueueEntry)
      /\ Seen = visited \cup {Root} /\ IsFiniteSet(Seen) /\ Seen \subseteq SameHost
      /\ Cardinality(Seen) <= request.max_objects
      /\ \A x \in ToSet(Line) : x.depth # 0 /\ x.parent \in Recorded
  BY <1>1, SeenTypes
<1>6. /\ batch' \in Seq(QueueEntry) /\ queue' \in Seq(QueueEntry)
      /\ \A x \in ToSet(batch') \cup ToSet(queue') : x \in ToSet(Line)
      /\ UrlsOf(batch') \subseteq SameHost /\ UrlsOf(batch') \cap Seen = {}
      /\ visited' = Seen \cup UrlsOf(batch')
      /\ IsFiniteSet(visited') /\ Cardinality(visited') <= request.max_objects
      /\ Len(batch') <= max_concurrency
      /\ \A u \in Urls : Cardinality({i \in DOMAIN batch' : batch'[i].url = u})
                         = IF u \in UrlsOf(batch') THEN 1 ELSE 0
      /\ batch' = <<>> /\ queue' # <<>> => Cardinality(visited') = request.max_objects
  BY <1>1, <1>2, <1>5, Filled
<1> QED  BY <1>1, <1>3, <1>4, <1>5, <1>6

\* The variables keep their types.
LEMMA ValidatedTypes ==
  ASSUME Inv, Validated
  PROVE  TypeOK'
<1>1. TypeOK /\ IsFiniteSet(DOMAIN nodes) /\ Accumulate /\ Fill
  BY DEF Inv, NodeInv, Validated
<1>2. web' \in Webs /\ request' \in Requests /\ yielded' \in Seq(CollectedObject)
  BY <1>1, ValidatedFacts DEF TypeOK
<1>3. stage' \in {"fetch", "thread"} \cup Ended
  BY DEF Validated, Ended
<1>4. queue' \in Seq(QueueEntry) /\ batch' \in Seq(QueueEntry)
  BY ValidatedFacts
<1>5. visited' \subseteq Urls
  BY ValidatedFacts, ConstantsAssumption, <1>1 DEF TypeOK
<1>6. skipped' \subseteq Urls
  <2>1. Line \in Seq(QueueEntry)
    BY SeenTypes DEF Validated
  <2>2. \A i \in DOMAIN Line : Line[i].url \in Urls
    <3>1. \A i \in DOMAIN Line : Line[i] \in QueueEntry
      BY <2>1
    <3> QED  BY <3>1 DEF QueueEntry
  <2>3. LookedAt \subseteq DOMAIN Line
    BY DEF LookedAt
  <2> QED  BY <2>2, <2>3, <1>1 DEF Fill, TypeOK
<1>7. pending' \subseteq {e.url : e \in ToSet(batch')}
  BY DEF Validated
<1>8. made' \in Seq(BOOLEAN) /\ DOMAIN nodes' \subseteq Urls /\ \A u \in DOMAIN nodes' : nodes'[u] \in 1 .. N'
  BY <1>1, NodesOfBatch
<1>9. children' \in Seq((1 .. N') \X (1 .. N')) /\ root_node' \in 0 .. N'
  BY <1>1, EdgesOfBatch, RootOfBatch
<1>10. limited' \in BOOLEAN
  BY DEF Validated
<1>11. asked' \in [Urls -> Nat]
  <2>1. \A u \in Urls : asked[u] \in Nat
    BY <1>1 DEF TypeOK
  <2>2. \A u \in Urls : Cardinality({i \in DOMAIN batch' : batch'[i].url = u}) \in Nat
    BY ValidatedFacts
  <2>3. asked' = [u \in Urls |->
                   asked[u] + Cardinality({i \in DOMAIN batch' : batch'[i].url = u})]
    BY DEF Validated
  <2> QED  BY <2>1, <2>2, <2>3
<1> QED
  BY <1>2, <1>3, <1>4, <1>5, <1>6, <1>7, <1>8, <1>9, <1>10, <1>11 DEF TypeOK

\* The tree grows by a node below an earlier one for each object, as long as no two
\* objects share a URL.
LEMMA ValidatedTree ==
  ASSUME Inv, Validated
  PROVE  TreeInv'
<1> DEFINE D == DOMAIN nodes
           Y == UrlsOf(yielded)
           n == Len(yielded)
<1>1. TypeOK /\ IsFiniteSet(D) /\ Accumulate /\ web' = web
  BY DEF Inv, NodeInv, Validated
<1>2. SUFFICES ASSUME web[Root].kind = "object"
               PROVE  /\ Cardinality(Recorded) <= N'
                      /\ Cardinality(Recorded) = N' =>
                           /\ root_node' = 1 /\ Len(children') = N' - 1
                           /\ \A k \in 2 .. N' : \E e \in ToSet(children') : e[2] = k /\ e[1] < k
  BY <1>1, ValidatedFacts DEF TreeInv
<1>3. yielded \in Seq(CollectedObject)
  BY <1>1 DEF TypeOK
<1>4. /\ DOMAIN yielded = 1 .. n /\ n \in Nat /\ IsFiniteSet(DOMAIN yielded)
      /\ Cardinality(DOMAIN yielded) = n
  BY <1>3, ListIndices
<1>5. /\ IsFiniteSet(Y) /\ Cardinality(Y) \in Nat /\ Cardinality(Y) <= n
      /\ Cardinality(Y) = n => \A i, j \in DOMAIN yielded : yielded[i].url = yielded[j].url => i = j
  <2> DEFINE g == [i \in DOMAIN yielded |-> yielded[i].url]
  <2>1. /\ g \in [DOMAIN yielded -> Y]
        /\ \A v \in Y : \E i \in DOMAIN yielded : g[i] = v
    BY DEF UrlsOf, ToSet
  <2>2. \A i, j \in DOMAIN yielded : g[i] = g[j] <=> yielded[i].url = yielded[j].url
    OBVIOUS
  <2> HIDE DEF g, Y, n
  <2>3. IsFiniteSet(Y) /\ Cardinality(Y) \in Nat /\ Cardinality(Y) <= Cardinality(DOMAIN yielded)
    BY <2>1, <1>4, Values
  <2>4. Cardinality(Y) = Cardinality(DOMAIN yielded) => \A i, j \in DOMAIN yielded : g[i] = g[j] => i = j
    BY <2>1, <1>4, Values
  <2> QED  BY <2>2, <2>3, <2>4, <1>4
<1>6. /\ Cardinality(Recorded) = Cardinality(D) + Cardinality(Y) - Cardinality(D \cap Y)
      /\ IsFiniteSet(D \cap Y)
  BY <1>1, <1>5, FS_Union, FS_Intersection DEF Recorded
<1>7. Cardinality(D) \in Nat /\ Cardinality(D \cap Y) \in Nat
  BY <1>1, <1>6, FS_CardinalityType
<1>8. Cardinality(D) <= N /\ N \in Nat /\ N' = N + n
  BY <1>2, ValidatedFacts DEF Inv, TreeInv
<1>9. Cardinality(Recorded) <= N'
  BY <1>5, <1>6, <1>7, <1>8, <1>4
<1>10. ASSUME Cardinality(Recorded) = N'
       PROVE  /\ root_node' = 1 /\ Len(children') = N' - 1
              /\ \A k \in 2 .. N' : \E e \in ToSet(children') : e[2] = k /\ e[1] < k
  <2>1. Cardinality(D) = N /\ Cardinality(Y) = n /\ Cardinality(D \cap Y) = 0
    BY <1>4, <1>5, <1>6, <1>7, <1>8, <1>10
  <2>2. D \cap Y = {}
    BY <2>1, <1>6, FS_EmptySet
  <2>3. /\ \A u \in D \ Y : nodes'[u] = nodes[u]
        /\ \A i \in DOMAIN yielded :
             (\A j \in DOMAIN yielded : yielded[j].url = yielded[i].url => j = i)
               => nodes'[yielded[i].url] = N + i
    BY <1>1, NodesOfBatch
  <2>4. \A i \in DOMAIN yielded : nodes'[yielded[i].url] = N + i
    BY <2>1, <2>3, <1>5
  <2>5. /\ Len(children) \in Nat
        /\ \A e \in ToSet(children) : e \in ToSet(children')
        /\ (\A i \in DOMAIN yielded : yielded[i].parent \in Recorded) =>
             /\ Len(children') = Len(children) + Len(yielded)
             /\ \A i \in DOMAIN yielded :
                  << nodes'[yielded[i].parent], nodes'[yielded[i].url] >> \in ToSet(children')
        /\ (\A i \in DOMAIN yielded : yielded[i].parent \notin Recorded) => children' = children
    BY <1>1, EdgesOfBatch
  <2>6. CASE N # 0
    <3>1. N > 0
      BY <2>6, <1>8
    <3>2. \A o \in ToSet(yielded) : o.depth # 0 /\ o.parent \in D
      BY <3>1 DEF Inv, ParentInv
    <3>3. \A i \in DOMAIN yielded : yielded[i].parent \in D /\ yielded[i].parent \in Recorded
      BY <3>2 DEF ToSet, Recorded
    <3>4. /\ root_node = 1 /\ Len(children) = N - 1
          /\ \A k \in 2 .. N : \E e \in ToSet(children) : e[2] = k /\ e[1] < k
      BY <3>1, <2>1, <1>2 DEF Inv, TreeInv
    <3>5. root_node' = 1
      BY <3>2, <3>4, <1>1, RootOfBatch
    <3>6. Len(children') = N' - 1
      BY <2>5, <3>3, <3>4, <1>4, <1>8
    <3>7. ASSUME NEW k \in 2 .. N' PROVE \E e \in ToSet(children') : e[2] = k /\ e[1] < k
      <4>1. CASE k \in 2 .. N
        BY <4>1, <3>4, <2>5
      <4>2. CASE k \notin 2 .. N
        <5> DEFINE i == k - N
        <5>1. i \in DOMAIN yielded /\ N + i = k /\ k > N
          BY <4>2, <1>4, <1>8
        <5>2. << nodes'[yielded[i].parent], nodes'[yielded[i].url] >> \in ToSet(children')
          BY <5>1, <3>3, <2>5
        <5>3. nodes'[yielded[i].url] = k
          BY <5>1, <2>4
        <5>4. nodes'[yielded[i].parent] = nodes[yielded[i].parent]
          BY <5>1, <3>3, <2>2, <2>3
        <5>5. nodes[yielded[i].parent] \in 1 .. N
          BY <5>1, <3>3, <1>1 DEF TypeOK
        <5>6. nodes'[yielded[i].parent] < k
          BY <5>1, <5>4, <5>5, <1>8
        <5> HIDE DEF i
        <5> QED  BY <5>2, <5>3, <5>6
      <4> QED  BY <4>1, <4>2
    <3> QED  BY <3>5, <3>6, <3>7
  <2>7. CASE N = 0
    <3>1. RootEntry \in QueueEntry /\ RootEntry.url = Root /\ RootEntry.depth = 0
          /\ RootEntry.parent = None
      BY RootEntryTypes
    <3>2. yielded = Fetched(RootEntry, web[Root]) /\ children = <<>>
      BY <2>7 DEF Inv, RootInv, Validated
    <3>3. n = 1
      BY <3>1, <3>2, <1>1, <1>2, FetchedTypes DEF TypeOK
    <3>4. DOMAIN yielded = {1}
      BY <3>3, <1>4
    <3>5. yielded[1].parent = None /\ yielded[1].depth = 0
      <4>1. yielded[1] \in ToSet(yielded)
        BY <3>4 DEF ToSet
      <4> QED  BY <4>1, <3>1, <3>2, <1>1, FetchedTypes DEF TypeOK
    <3>6. None \notin Recorded
      BY <1>1, NodesOfBatch, ConstantsAssumption
    <3>7. children' = <<>>
      BY <3>2, <3>4, <3>5, <3>6, <2>5
    <3>8. Len(children') = 0 /\ N' = 1
      BY <3>7, <3>3, <2>7, <1>8
    <3>9. root_node' = 1
      BY <3>3, <3>4, <3>5, <2>4, <2>7, <1>1, RootOfBatch
    <3> QED  BY <3>8, <3>9
  <2> QED  BY <2>6, <2>7
<1> QED  BY <1>9, <1>10

\* What is visited was asked for, waits for nothing that is not recorded, and what was
\* asked for before was looked at.
LEMMA ValidatedRest ==
  ASSUME Inv, Validated
  PROVE  RootInv' /\ AskedInv' /\ ParentInv' /\ GateInv' /\ NodeInv'
<1> DEFINE Fresh == UrlsOf(batch')
<1>1. /\ web' = web /\ request' = request /\ yielded' = <<>> /\ stage = "thread"
      /\ N' = N + Len(yielded) /\ N \in Nat /\ Len(yielded) \in Nat /\ N' > 0
      /\ DOMAIN nodes' = Recorded /\ IsFiniteSet(Recorded) /\ Recorded \subseteq Urls
      /\ batch' \in Seq(QueueEntry) /\ queue' \in Seq(QueueEntry)
      /\ \A x \in ToSet(batch') \cup ToSet(queue') : x.depth # 0 /\ x.parent \in Recorded
      /\ Fresh \subseteq SameHost /\ Fresh \cap (visited \cup {Root}) = {}
      /\ visited' = visited \cup {Root} \cup Fresh
      /\ IsFiniteSet(visited') /\ Cardinality(visited') <= request.max_objects
      /\ Len(batch') <= max_concurrency
      /\ \A u \in Urls : Cardinality({i \in DOMAIN batch' : batch'[i].url = u})
                         = IF u \in Fresh THEN 1 ELSE 0
  BY ValidatedFacts
<1>2. Root \in SameHost /\ SameHost \subseteq Urls
  BY ConstantsAssumption
<1>3. \A u \in Urls : asked[u] = IF u \in visited \cup {Root} THEN 1 ELSE 0
  BY DEF Inv, AskedInv
<1>4. visited \subseteq SameHost
  BY DEF Inv, AskedInv
<1>5. stage' = IF batch' # <<>> THEN "fetch" ELSE IF Endless THEN "crashed" ELSE "done"
  BY DEF Validated
<1>6. batch' = <<>> => Fresh = {}
  BY DEF UrlsOf, ToSet
<1>7. Fetching' = Fresh \/ (Fetching' = {} /\ Fresh = {}) \/ stage' = "crashed"
  BY <1>5, <1>6 DEF Fetching
<1>8. RootInv'
  BY <1>1 DEF RootInv
<1>9. AskedInv'
  <2>1. \A u \in Urls : asked'[u] = IF u \in visited' \cup {Root} THEN 1 ELSE 0
    <3>1. ASSUME NEW u \in Urls PROVE asked'[u] = IF u \in visited' \cup {Root} THEN 1 ELSE 0
      <4>1. asked'[u] = asked[u] + IF u \in Fresh THEN 1 ELSE 0
        BY <1>1 DEF Validated
      <4> HIDE DEF Fresh
      <4> QED  BY <4>1, <1>1, <1>3
    <3> QED  BY <3>1
  <2>2. visited' \subseteq SameHost /\ Root \in visited' /\ Fresh \subseteq visited'
    BY <1>1, <1>2, <1>4
  <2> QED  BY <2>1, <2>2, <1>1 DEF AskedInv
<1>10. ParentInv'
  <2>1. ToSet(yielded') = {}
    BY <1>1 DEF ToSet
  <2>2. \A x \in ToSet(queue') : x.depth # 0 /\ x.parent \in Recorded'
    BY <1>1 DEF Recorded
  <2>3. \A x \in ToSet(batch') \cup ToSet(yielded') : x.depth # 0 /\ x.parent \in DOMAIN nodes'
    BY <1>1, <2>1
  <2>4. ~(N' = 0)
    BY <1>1
  <2> QED  BY <2>2, <2>3, <2>4, <1>1 DEF ParentInv
<1>11. GateInv'
  <2>1. ASSUME stage' \notin {"refused", "crashed"}, NEW u \in Urls \ Fetching', asked'[u] > 0,
               NEW o \in ToSet(web[u].objects)
        PROVE  o.latest
    <3>1. u \in visited' \cup {Root}
      BY <2>1, <1>9 DEF AskedInv
    <3>2. u \in visited \cup {Root}
      BY <3>1, <2>1, <1>1, <1>5, <1>7
    <3>3. asked[u] > 0 /\ Fetching = {}
      BY <3>2, <2>1, <1>1, <1>3 DEF Fetching
    <3> QED  BY <3>3, <2>1, <1>1 DEF Inv, GateInv
  <2>2. web[Root].kind # "broken"
    <3>1. CASE N = 0
      <4>1. RootEntry \in QueueEntry /\ RootEntry.url = Root
        BY RootEntryTypes
      <4>2. yielded = Fetched(RootEntry, web[Root]) /\ ~yielded[1].error
        BY <3>1, <1>1 DEF Inv, RootInv
      <4>3. web \in Webs
        BY DEF Inv, TypeOK
      <4> QED  BY <4>1, <4>2, <4>3, FetchedTypes
    <3>2. CASE N # 0
      BY <3>2, <1>1 DEF Inv, GateInv
    <3> QED  BY <3>1, <3>2
  <2> QED  BY <2>1, <2>2, <1>1 DEF GateInv
<1>12. NodeInv'
  <2>1. ASSUME NEW u \in visited' \ Fetching', web[u].kind \in {"object", "broken"}
        PROVE  u \in Recorded
    <3>1. CASE u \in visited
      <4>1. Fetching = {}
        BY <1>1 DEF Fetching
      <4> QED  BY <4>1, <3>1, <2>1 DEF Inv, NodeInv
    <3>2. CASE u = Root /\ N = 0
      <4>1. RootEntry \in QueueEntry /\ RootEntry.url = Root
        BY RootEntryTypes
      <4>2. yielded = Fetched(RootEntry, web[Root])
        BY <3>2, <1>1 DEF Inv, RootInv
      <4>3. web \in Webs
        BY DEF Inv, TypeOK
      <4>4. Len(yielded) = 1 /\ yielded[1].url = Root /\ yielded \in Seq(CollectedObject)
        BY <4>1, <4>2, <4>3, <3>2, <2>1, FetchedTypes
      <4>5. 1 \in DOMAIN yielded
        BY <4>4
      <4> QED  BY <4>4, <4>5, <3>2 DEF Recorded, UrlsOf, ToSet
    <3>3. CASE u = Root /\ N # 0
      <4>1. Root \in visited
        BY <3>3, <1>1 DEF Inv, AskedInv
      <4> QED  BY <4>1, <3>1, <3>3
    <3>4. CASE u \in Fresh
      <4>1. Fetching' = {} /\ stage' = "crashed"
        BY <3>4, <2>1, <1>5, <1>6, <1>7 DEF Fetching
      <4> QED  BY <4>1, <3>4, <1>5, <1>6
    <3> QED  BY <3>1, <3>2, <3>3, <3>4, <2>1, <1>1
  <2> QED  BY <2>1, <1>1 DEF NodeInv, Recorded
<1> QED  BY <1>8, <1>9, <1>10, <1>11, <1>12

\* The run ends with an entry left only when it has visited as many URLs as it may.
LEMMA ValidatedCut ==
  ASSUME Inv, Validated, NodeInv'
  PROVE  CutIsReported'
<1>1. /\ web' = web /\ request' = request /\ yielded' = <<>>
      /\ DOMAIN nodes' = Recorded /\ IsFiniteSet(Recorded)
      /\ IsFiniteSet(visited') /\ queue' \in Seq(QueueEntry)
      /\ batch' = <<>> /\ queue' # <<>> => Cardinality(visited') = request.max_objects
  BY ValidatedFacts
<1>2. SUFFICES ASSUME stage' = "done", Cut',
                      \A u \in visited' : web[u].kind \in {"object", "broken"}
               PROVE  limited'
  BY <1>1 DEF CutIsReported
<1>3. batch' = <<>> /\ limited' = (batch' = <<>> /\ LimitReached)
  BY <1>2 DEF Validated
<1>4. queue' # <<>>
  BY <1>2 DEF Cut, ToSet
<1>5. Fetching' = {} /\ UrlsOf(yielded') = {}
  BY <1>1, <1>2 DEF Fetching, UrlsOf, ToSet
<1>6. visited' \in SUBSET Recorded
  <2>1. Recorded' = Recorded
    BY <1>1, <1>5 DEF Recorded
  <2> QED  BY <2>1, <1>1, <1>2, <1>5 DEF NodeInv
<1>7. /\ Cardinality(visited') <= Cardinality(Recorded)
      /\ Cardinality(visited') \in Nat /\ Cardinality(Recorded) \in Nat
  BY <1>1, <1>6, FS_Subset, FS_CardinalityType
<1>8. LimitReached
  BY <1>1, <1>3, <1>4, <1>7 DEF LimitReached
<1> QED  BY <1>3, <1>8

-----------------------------------------------------------------------------
(* The other steps                                                         *)

\* An answer alone changes nothing that the invariant is about.
LEMMA AnswerStep ==
  ASSUME Inv, NEW u \in Urls, Answer(u)
  PROVE  Inv'
<1>1. /\ UNCHANGED <<web, request, stage, queue, visited, skipped, batch, yielded, made, nodes,
                     children, root_node, limited, asked>>
      /\ pending' \subseteq pending
  BY DEF Answer, traversal, report
<1>2. TypeOK'
  BY <1>1 DEF Inv, TypeOK, N
<1>3. RootInv' /\ AskedInv' /\ ParentInv' /\ GateInv'
  BY <1>1 DEF Inv, RootInv, AskedInv, ParentInv, GateInv, Recorded, Fetching, N
<1>4. NodeInv' /\ TreeInv' /\ CutIsReported'
  BY <1>1 DEF Inv, NodeInv, TreeInv, CutIsReported, Cut, Recorded, Fetching, N
<1> QED  BY <1>2, <1>3, <1>4 DEF Inv

\* A batch that is gathered is recorded before it is validated.
LEMMA YieldStep ==
  ASSUME Inv, Yield
  PROVE  Inv'
<1> DEFINE objs == FlattenSeq([i \in DOMAIN batch |-> Objs(batch[i])])
<1>1. /\ UNCHANGED <<web, request, visited, skipped, batch, pending, made, nodes, children,
                     root_node, limited, asked>>
      /\ yielded' = objs /\ stage' = Gate(objs) /\ queue' = queue \o Discovered /\ stage = "fetch"
  BY DEF Yield, report
<1>2. TypeOK /\ N' = N /\ N \in Nat
  BY <1>1 DEF Inv, TypeOK, N
<1>3. /\ batch \in Seq(QueueEntry) /\ queue \in Seq(QueueEntry) /\ web \in Webs
      /\ \A e \in ToSet(batch) : e \in QueueEntry /\ e.depth \in Nat /\ e.url \in Urls
  <2>1. batch \in Seq(QueueEntry) /\ queue \in Seq(QueueEntry) /\ web \in Webs
    BY <1>2 DEF TypeOK
  <2>2. \A e \in ToSet(batch) : e \in QueueEntry
    BY <2>1, ListIndices
  <2> QED  BY <2>1, <2>2 DEF QueueEntry
<1>4. /\ objs \in Seq(CollectedObject)
      /\ \A o \in ToSet(objs) : \E e \in ToSet(batch) : o \in ToSet(Objs(e))
      /\ \A e \in ToSet(batch) : \A o \in ToSet(Objs(e)) : o \in ToSet(objs)
      /\ Len(batch) = 1 => objs = Objs(batch[1])
  BY <1>2, Gathered
<1> HIDE DEF objs
<1>5. \A e \in ToSet(batch) :
        /\ \A o \in ToSet(Objs(e)) : o.parent = e.parent /\ o.depth = e.depth
        /\ \A o \in ToSet(web[e.url].objects) :
             ~o.latest => \E x \in ToSet(Objs(e)) : ~x.latest
        /\ web[e.url].kind \in {"object", "broken"} =>
             \E o \in ToSet(Objs(e)) : o.url = e.url
  <2>1. ASSUME NEW e \in ToSet(batch), web[e.url].kind \in {"object", "broken"}
        PROVE  \E o \in ToSet(Objs(e)) : o.url = e.url
    <3>1. Objs(e) \in Seq(CollectedObject) /\ Len(Objs(e)) = 1 /\ Objs(e)[1].url = e.url
      BY <2>1, <1>3, FetchedTypes DEF Objs
    <3>2. 1 \in DOMAIN Objs(e)
      BY <3>1
    <3> QED  BY <3>1, <3>2 DEF ToSet
  <2> QED  BY <2>1, <1>3, FetchedTypes DEF Objs
<1>6. /\ Discovered \in Seq(QueueEntry)
      /\ \A x \in ToSet(Discovered) :
           /\ N # 0
           /\ \E e \in ToSet(batch) :
                /\ x.depth >= e.depth
                /\ x.parent = e.parent \/ \E o \in ToSet(Objs(e)) : x.parent = o.url
  BY <1>2, DiscoveredTypes
<1>7. queue' \in Seq(QueueEntry) /\ ToSet(queue') = ToSet(queue) \cup ToSet(Discovered)
  BY <1>1, <1>3, <1>6, Appended
<1>8. stage' \in {"thread", "refused", "crashed"}
  BY <1>1 DEF Gate
<1>9. yielded = <<>> /\ Recorded = DOMAIN nodes /\ DOMAIN nodes \subseteq Recorded'
  <2>1. yielded = <<>>
    BY <1>1 DEF Inv, ParentInv
  <2>2. UrlsOf(yielded) = {}
    BY <2>1 DEF UrlsOf, ToSet
  <2>3. Recorded = DOMAIN nodes
    BY <2>2 DEF Recorded
  <2>4. DOMAIN nodes \subseteq Recorded'
    BY <1>1 DEF Recorded
  <2> QED  BY <2>1, <2>3, <2>4
<1>10. Recorded' = DOMAIN nodes \cup UrlsOf(objs)
  BY <1>1 DEF Recorded
<1>11. TypeOK'
  BY <1>1, <1>2, <1>4, <1>7, <1>8 DEF TypeOK, N, Ended
<1>12. RootInv'
  <2>1. SUFFICES ASSUME N = 0 PROVE RootInv'
    BY <1>2 DEF RootInv
  <2>2. /\ visited = {} /\ queue = <<>> /\ batch = <<RootEntry>>
        /\ DOMAIN nodes = {} /\ children = <<>> /\ root_node = 0
    BY <2>1 DEF Inv, RootInv
  <2>3. objs = Fetched(RootEntry, web[Root])
    <3>1. Len(batch) = 1 /\ batch[1] = RootEntry
      BY <2>2
    <3> QED  BY <3>1, <1>4, RootEntryTypes DEF Objs
  <2>4. Discovered = <<>>
    BY <2>1 DEF Discovered, RootBatch
  <2>5. queue' = <<>>
    BY <2>2, <2>4, <1>1
  <2>6. stage' = "thread" => objs # <<>> /\ ~objs[1].error
    BY <2>1, <1>1 DEF Gate, RootBatch
  <2> QED  BY <2>2, <2>3, <2>5, <2>6, <1>1, <1>8 DEF RootInv
<1>13. AskedInv'
  BY <1>1, <1>2 DEF Inv, AskedInv
<1>14. ParentInv'
  <2>1. ASSUME N = 0, NEW x \in ToSet(objs) PROVE x.depth = 0 /\ x.parent = None
    <3>1. batch = <<RootEntry>>
      BY <2>1 DEF Inv, RootInv
    <3>2. \A e \in ToSet(batch) : e = RootEntry
      BY <3>1 DEF ToSet
    <3> QED  BY <3>2, <2>1, <1>4, <1>5, RootEntryTypes
  <2>2. ASSUME N > 0 PROVE \A e \in ToSet(batch) : e.depth # 0 /\ e.parent \in DOMAIN nodes
    BY <2>2 DEF Inv, ParentInv
  <2>3. ASSUME N > 0, NEW x \in ToSet(objs) PROVE x.depth # 0 /\ x.parent \in DOMAIN nodes
    BY <2>2, <2>3, <1>4, <1>5
  <2>4. ASSUME N > 0, NEW x \in ToSet(queue') PROVE x.depth # 0 /\ x.parent \in Recorded'
    <3>1. CASE x \in ToSet(queue)
      BY <3>1, <2>4, <1>9 DEF Inv, ParentInv
    <3>2. CASE x \in ToSet(Discovered)
      <4>1. PICK e \in ToSet(batch) :
              /\ x.depth >= e.depth
              /\ x.parent = e.parent \/ \E o \in ToSet(Objs(e)) : x.parent = o.url
        BY <3>2, <1>6
      <4>2. e.depth \in Nat /\ e.depth # 0 /\ e.parent \in DOMAIN nodes
        BY <4>1, <2>2, <2>4, <1>3
      <4>3. x.depth # 0
        BY <4>1, <4>2
      <4>4. \A o \in ToSet(Objs(e)) : o.url \in UrlsOf(objs)
        BY <4>1, <1>4 DEF UrlsOf
      <4> QED  BY <4>1, <4>2, <4>3, <4>4, <1>10
    <3> QED  BY <3>1, <3>2, <2>4, <1>7
  <2> QED  BY <2>1, <2>2, <2>3, <2>4, <1>1, <1>2, <1>8 DEF ParentInv
<1>15. GateInv'
  <2>1. ASSUME stage' \notin {"refused", "crashed"}, NEW u \in Urls, asked[u] > 0,
               NEW o \in ToSet(web[u].objects)
        PROVE  o.latest
    <3>1. \A x \in ToSet(objs) : x.latest
      BY <2>1, <1>1 DEF Gate
    <3>2. CASE u \in UrlsOf(batch)
      <4>1. PICK e \in ToSet(batch) : u = e.url
        BY <3>2 DEF UrlsOf
      <4> QED  BY <4>1, <3>1, <2>1, <1>4, <1>5
    <3>3. CASE u \notin UrlsOf(batch)
      <4>1. u \in Urls \ Fetching /\ stage \notin {"refused", "crashed"}
        BY <3>3, <2>1, <1>1 DEF Fetching
      <4> QED  BY <4>1, <2>1 DEF Inv, GateInv
    <3> QED  BY <3>2, <3>3
  <2>2. N > 0 => web[Root].kind # "broken"
    BY DEF Inv, GateInv
  <2> QED  BY <2>1, <2>2, <1>1, <1>2 DEF GateInv
<1>16. NodeInv'
  <2>1. ASSUME NEW u \in visited, web[u].kind \in {"object", "broken"}
        PROVE  u \in Recorded'
    <3>1. CASE u \in UrlsOf(batch)
      <4>1. PICK e \in ToSet(batch) : u = e.url
        BY <3>1 DEF UrlsOf
      <4>2. PICK o \in ToSet(Objs(e)) : o.url = u
        BY <4>1, <2>1, <1>5
      <4> QED  BY <4>1, <4>2, <1>4, <1>10 DEF UrlsOf
    <3>2. CASE u \notin UrlsOf(batch)
      <4>1. u \in visited \ Fetching
        BY <3>2, <1>1 DEF Fetching
      <4> QED  BY <4>1, <2>1, <1>9 DEF Inv, NodeInv
    <3> QED  BY <3>1, <3>2
  <2>2. IsFiniteSet(DOMAIN nodes)
    BY DEF Inv, NodeInv
  <2> QED  BY <2>1, <2>2, <1>1 DEF NodeInv
<1>17. TreeInv'
  BY <1>1, <1>2 DEF Inv, TreeInv
<1>18. CutIsReported'
  BY <1>8 DEF CutIsReported
<1> QED  BY <1>11, <1>12, <1>13, <1>14, <1>15, <1>16, <1>17, <1>18 DEF Inv

-----------------------------------------------------------------------------
(* The report                                                              *)

\* The report's nodes are all that were made, when each hangs below an earlier one.
LEMMA AllReported ==
  ASSUME TypeOK, N > 0, root_node = 1,
         \A k \in 2 .. N : \E e \in ToSet(children) : e[2] = k /\ e[1] < k
  PROVE  Reported = 1 .. N
<1> DEFINE n == N
           E == ToSet(children)
           ChildrenOf(u) == {e[2] : e \in {e \in E : e[1] = u}}
           Joined(f, i) == IF i = 0 THEN {root_node}
                         ELSE f[i - 1] \cup UNION {ChildrenOf(u) : u \in f[i - 1]}
           Right(f, k) == \A i \in 0 .. k : f[i] = Joined(f, i)
           go[i \in 0 .. n] == IF i = 0 THEN {root_node}
                               ELSE LET before == go[i - 1]
                                    IN  before \cup UNION {ChildrenOf(u) : u \in before}
           Bad == {k \in 0 .. n : ~ \E f \in [0 .. k -> SUBSET (1 .. n)] : Right(f, k)}
           Counted(i) == /\ go[i] \in SUBSET (1 .. n)
                         /\ \A j \in 1 .. i : j \in go[i]
           Short == {i \in 0 .. n : ~Counted(i)}
<1>1. Reported = go[n]
  BY DEF Reported, Reachable
<1>2. n \in Nat /\ n > 0 /\ root_node \in 1 .. n
  BY DEF TypeOK, N
<1>3. \A e \in E : e[1] \in 1 .. n /\ e[2] \in 1 .. n
  BY ListIndices DEF TypeOK
<1>4. \A u : ChildrenOf(u) \in SUBSET (1 .. n)
  BY <1>3
<1>5. \A k \in 2 .. n : \E j \in 1 .. k - 1 : k \in ChildrenOf(j)
  <2>1. SUFFICES ASSUME NEW k \in 2 .. n PROVE \E j \in 1 .. k - 1 : k \in ChildrenOf(j)
    OBVIOUS
  <2>2. PICK e \in E : e[2] = k /\ e[1] < k
    OBVIOUS
  <2>3. e[1] \in 1 .. k - 1
    BY <2>1, <2>2, <1>2, <1>3
  <2> QED  BY <2>2, <2>3
<1> HIDE DEF E, ChildrenOf
<1>6. Bad \in SUBSET Int /\ IsFiniteSet(Bad)
  <2>1. IsFiniteSet(0 .. n) /\ Bad \in SUBSET (0 .. n)
    BY <1>2, FS_Interval
  <2>2. IsFiniteSet(Bad)
    BY <2>1, FS_Subset
  <2>3. 0 .. n \subseteq Int
    BY <1>2
  <2> HIDE DEF Bad
  <2> QED  BY <2>1, <2>2, <2>3
<1>7. Bad = {}
  <2>1. SUFFICES ASSUME Bad # {} PROVE FALSE
    OBVIOUS
  <2>2. PICK k \in Bad : \A j \in Bad : k <= j
    BY <1>6, <2>1, LeastOf
  <2>3. k \in 0 .. n
    OBVIOUS
  <2>4. CASE k = 0
    <3> DEFINE f == [i \in 0 .. 0 |-> {root_node}]
    <3>1. f \in [0 .. k -> SUBSET (1 .. n)] /\ Right(f, k)
      BY <2>3, <2>4, <1>2
    <3> QED  BY <3>1, <2>2
  <2>5. CASE k # 0
    <3>0. k - 1 \in 0 .. n /\ ~(k <= k - 1)
      BY <2>3, <2>5, <1>2
    <3>1. k - 1 \in 0 .. n /\ k - 1 \notin Bad
      BY <3>0, <2>2
    <3>2. PICK f \in [0 .. k - 1 -> SUBSET (1 .. n)] : Right(f, k - 1)
      BY <3>1
    <3> DEFINE g == [i \in 0 .. k |-> IF i = k THEN Joined(f, k) ELSE f[i]]
    <3>3. f[k - 1] \in SUBSET (1 .. n)
      BY <3>1, <3>2, <2>3
    <3>4. Joined(f, k) \in SUBSET (1 .. n)
      BY <3>3, <1>4, <2>5
    <3>5. g \in [0 .. k -> SUBSET (1 .. n)]
      BY <3>2, <3>4, <2>3
    <3>6. ASSUME NEW i \in 0 .. k PROVE g[i] = Joined(g, i)
      <4>1. CASE i = k
        <5>1. k - 1 \in 0 .. k /\ k - 1 # k /\ k \in 0 .. k
          BY <2>3, <2>5
        <5>2. g[k] = Joined(f, k) /\ g[k - 1] = f[k - 1]
          BY <5>1
        <5> QED  BY <5>2, <4>1, <2>5
      <4>2. CASE i # k /\ i # 0
        <5>1. i \in 0 .. k - 1 /\ i - 1 \in 0 .. k /\ i - 1 # k
          BY <4>2, <2>3
        <5>2. g[i] = f[i] /\ g[i - 1] = f[i - 1]
          BY <5>1, <4>2
        <5>3. f[i] = Joined(f, i)
          BY <5>1, <3>2
        <5> QED  BY <5>2, <5>3, <4>2
      <4>3. CASE i # k /\ i = 0
        <5>1. g[0] = f[0] /\ 0 \in 0 .. k - 1
          BY <4>3, <2>3
        <5> QED  BY <5>1, <3>2, <4>3
      <4> QED  BY <4>1, <4>2, <4>3
    <3>7. Right(g, k)
      BY <3>6
    <3> QED  BY <3>5, <3>7, <2>2
  <2> QED  BY <2>4, <2>5
<1>8. PICK f \in [0 .. n -> SUBSET (1 .. n)] : Right(f, n)
  <2>1. n \in 0 .. n
    BY <1>2
  <2> QED  BY <2>1, <1>7
<1>9. f = [i \in 0 .. n |-> IF i = 0 THEN {root_node}
                            ELSE LET before == f[i - 1]
                                 IN  before \cup UNION {ChildrenOf(u) : u \in before}]
  BY <1>8
<1>10. go = [i \in 0 .. n |-> IF i = 0 THEN {root_node}
                              ELSE LET before == go[i - 1]
                                   IN  before \cup UNION {ChildrenOf(u) : u \in before}]
  <2> HIDE DEF n
  <2> QED  BY <1>9
<1> HIDE DEF go
<1>11. go[0] = {1}
  BY <1>10, <1>2
<1>12. \A k \in 1 .. n : go[k] = go[k - 1] \cup UNION {ChildrenOf(u) : u \in go[k - 1]}
  BY <1>10, <1>2
<1>13. Short \in SUBSET Int /\ IsFiniteSet(Short)
  <2>1. IsFiniteSet(0 .. n) /\ Short \in SUBSET (0 .. n)
    BY <1>2, FS_Interval
  <2>2. IsFiniteSet(Short)
    BY <2>1, FS_Subset
  <2>3. 0 .. n \subseteq Int
    BY <1>2
  <2> HIDE DEF Short
  <2> QED  BY <2>1, <2>2, <2>3
<1>14. Short = {}
  <2>1. SUFFICES ASSUME Short # {} PROVE FALSE
    OBVIOUS
  <2>2. PICK k \in Short : \A j \in Short : k <= j
    BY <1>13, <2>1, LeastOf
  <2>3. k \in 0 .. n /\ ~Counted(k)
    OBVIOUS
  <2>4. CASE k = 0
    BY <2>3, <2>4, <1>2, <1>11
  <2>5. CASE k # 0
    <3>0. k - 1 \in 0 .. n /\ ~(k <= k - 1) /\ k \in 1 .. n /\ k - 1 < n
      BY <2>3, <2>5, <1>2
    <3>1. Counted(k - 1)
      BY <3>0, <2>2
    <3>2. go[k] = go[k - 1] \cup UNION {ChildrenOf(u) : u \in go[k - 1]}
      BY <3>0, <1>12
    <3>3. go[k] \in SUBSET (1 .. n)
      BY <3>1, <3>2, <1>4
    <3>4. \A j \in 1 .. k - 1 : j \in go[k - 1]
      BY <3>1
    <3>5. k \in go[k]
      <4>1. CASE k = 1
        BY <4>1, <3>2, <1>11
      <4>2. CASE k # 1
        <5>1. k \in 2 .. n
          BY <3>0, <4>2, <1>2
        <5>2. PICK j \in 1 .. k - 1 : k \in ChildrenOf(j)
          BY <5>1, <1>5
        <5> QED  BY <5>2, <3>2, <3>4
      <4> QED  BY <4>1, <4>2
    <3>6. \A j \in 1 .. k : j \in go[k]
      <4>1. \A j \in 1 .. k : j = k \/ j \in 1 .. k - 1
        BY <3>0
      <4> QED  BY <4>1, <3>2, <3>4, <3>5
    <3> QED  BY <3>3, <3>6, <2>3
  <2> QED  BY <2>4, <2>5
<1>15. Counted(n)
  <2>1. n \in 0 .. n
    BY <1>2
  <2> QED  BY <2>1, <1>14
<1> QED  BY <1>1, <1>15

\* A batch that is validated becomes nodes, and the next one is asked for.
LEMMA ValidatedStep ==
  ASSUME Inv, Validated
  PROVE  Inv'
<1>1. TypeOK'
  BY ValidatedTypes
<1>2. RootInv' /\ AskedInv' /\ ParentInv' /\ GateInv' /\ NodeInv'
  BY ValidatedRest
<1>3. TreeInv'
  BY ValidatedTree
<1>4. CutIsReported'
  BY <1>2, ValidatedCut
<1> QED  BY <1>1, <1>2, <1>3, <1>4 DEF Inv

\* The root alone is asked for.
LEMMA InitInv ==
  ASSUME Init
  PROVE  Inv
<1>1. /\ web \in Webs /\ request \in Requests /\ stage = "fetch"
      /\ queue = <<>> /\ visited = {} /\ skipped = {} /\ batch = <<RootEntry>> /\ pending = {Root}
      /\ yielded = <<>> /\ made = <<>> /\ nodes = <<>> /\ children = <<>>
      /\ root_node = 0 /\ limited = FALSE
      /\ asked = [u \in Urls |-> IF u = Root THEN 1 ELSE 0]
  BY DEF Init, RootEntry
<1>2. N = 0
  BY <1>1 DEF N
<1>3. Root \in Urls /\ RootEntry \in QueueEntry /\ RootEntry.url = Root
  BY ConstantsAssumption, RootEntryTypes
<1>4. DOMAIN nodes = {} /\ ToSet(batch) = {RootEntry} /\ ToSet(queue) = {} /\ ToSet(yielded) = {}
  BY <1>1 DEF ToSet
<1>5. TypeOK
  <2>1. queue \in Seq(QueueEntry) /\ batch \in Seq(QueueEntry) /\ yielded \in Seq(CollectedObject)
        /\ made \in Seq(BOOLEAN) /\ children \in Seq((1 .. N) \X (1 .. N))
    BY <1>1, <1>3
  <2>2. pending \subseteq {e.url : e \in ToSet(batch)}
    BY <1>1, <1>3, <1>4
  <2>3. asked \in [Urls -> Nat]
    BY <1>1
  <2>4. DOMAIN nodes \subseteq Urls /\ \A u \in DOMAIN nodes : nodes[u] \in 1 .. N
    BY <1>4
  <2>5. /\ stage \in {"fetch", "thread"} \cup Ended /\ visited \subseteq Urls /\ skipped \subseteq Urls
        /\ limited \in BOOLEAN
    BY <1>1
  <2>6. root_node \in 0 .. N
    BY <1>1, <1>2
  <2>7. web \in Webs /\ request \in Requests
    BY <1>1
  <2> QED  BY <2>1, <2>2, <2>3, <2>4, <2>5, <2>6, <2>7 DEF TypeOK
<1>6. RootInv
  BY <1>1, <1>4 DEF RootInv
<1>7. AskedInv
  <2>1. IsFiniteSet(visited) /\ Cardinality(visited) = 0
    BY <1>1, FS_EmptySet
  <2>2. request.max_objects \in Nat /\ max_concurrency \in Nat \ {0}
    BY <1>1, ConstantsAssumption
  <2>3. \A u \in Urls : asked[u] = IF u \in visited \cup {Root} THEN 1 ELSE 0
    BY <1>1
  <2>4. Len(batch) = 1
    BY <1>1
  <2> QED  BY <2>1, <2>2, <2>3, <2>4, <1>1, <1>2 DEF AskedInv
<1>8. ParentInv
  BY <1>1, <1>2, <1>4 DEF ParentInv
<1>9. GateInv
  <2>1. Fetching = {Root}
    BY <1>1, <1>3, <1>4 DEF Fetching, UrlsOf
  <2>2. \A u \in Urls \ Fetching : asked[u] = 0
    BY <2>1, <1>1
  <2> QED  BY <2>2, <1>2 DEF GateInv
<1>10. NodeInv
  BY <1>1, <1>4, FS_EmptySet DEF NodeInv
<1>11. TreeInv
  BY <1>2, <1>4, FS_EmptySet DEF TreeInv
<1>12. CutIsReported
  BY <1>1 DEF CutIsReported
<1> QED  BY <1>5, <1>6, <1>7, <1>8, <1>9, <1>10, <1>11, <1>12 DEF Inv

\* Every step keeps the invariant.
LEMMA InvStep ==
  ASSUME Inv, [Next]_vars
  PROVE  Inv'
<1>1. ASSUME NEW u \in Urls, Answer(u) PROVE Inv'
  BY <1>1, AnswerStep
<1>2. CASE Yield
  BY <1>2, YieldStep
<1>3. CASE Validated
  BY <1>3, ValidatedStep
<1>4. CASE UNCHANGED vars
  <2>1. /\ UNCHANGED <<web, request, stage, queue, visited, skipped, batch, pending, yielded,
                       made, nodes, children, root_node, limited, asked>>
    BY <1>4 DEF vars, traversal, report
  <2>2. N' = N /\ Recorded' = Recorded /\ Fetching' = Fetching /\ Cut' = Cut
    BY <2>1 DEF N, Recorded, Fetching, Cut, UrlsOf
  <2>3. TypeOK'
    BY <2>1, <2>2 DEF Inv, TypeOK
  <2>4. RootInv' /\ AskedInv' /\ ParentInv' /\ GateInv'
    BY <2>1, <2>2 DEF Inv, RootInv, AskedInv, ParentInv, GateInv, UrlsOf
  <2>5. NodeInv' /\ TreeInv' /\ CutIsReported'
    BY <2>1, <2>2 DEF Inv, NodeInv, TreeInv, CutIsReported
  <2> QED  BY <2>3, <2>4, <2>5 DEF Inv
<1> QED  BY <1>1, <1>2, <1>3, <1>4 DEF Next

\* What was asked for is what was visited, and the limits are kept on that.
LEMMA AskedIsBounded ==
  ASSUME Inv
  PROVE  TraversalIsBounded
<1>1. TypeOK /\ AskedInv /\ RootInv
  BY DEF Inv
<1>2. Root \in SameHost /\ SameHost \subseteq Urls /\ request.max_objects \in Nat \ {0} /\ N \in Nat
  BY <1>1, ConstantsAssumption DEF TypeOK, N
<1>3. \A u \in Urls : asked[u] = IF u \in visited \cup {Root} THEN 1 ELSE 0
  BY <1>1 DEF AskedInv
<1>4. FetchedOnce
  BY <1>3 DEF FetchedOnce
<1>5. SameHostOnly
  BY <1>1, <1>2, <1>3 DEF SameHostOnly, AskedInv
<1>6. Cardinality({u \in Urls : asked[u] > 0}) <= request.max_objects
  <2>1. visited \cup {Root} \subseteq Urls
    BY <1>1, <1>2 DEF TypeOK
  <2>2. {u \in Urls : asked[u] > 0} = visited \cup {Root}
    BY <2>1, <1>3
  <2>3. CASE N = 0
    <3>1. visited \cup {Root} = {Root}
      BY <2>3, <1>1 DEF RootInv
    <3> QED  BY <3>1, <2>2, <1>2, FS_Singleton
  <2>4. CASE N # 0
    <3>1. visited \cup {Root} = visited
      BY <2>4, <1>1, <1>2 DEF AskedInv
    <3> QED  BY <3>1, <2>2, <1>1 DEF AskedInv
  <2> QED  BY <2>3, <2>4
<1>7. Cardinality(pending) <= max_concurrency
  <2>1. batch \in Seq(QueueEntry) /\ pending \subseteq UrlsOf(batch)
    BY <1>1 DEF TypeOK, UrlsOf
  <2>2. /\ Len(batch) \in Nat /\ DOMAIN batch = 1 .. Len(batch)
        /\ IsFiniteSet(DOMAIN batch) /\ Cardinality(DOMAIN batch) = Len(batch)
    BY <2>1, ListIndices
  <2> DEFINE U == UrlsOf(batch)
             g == [i \in DOMAIN batch |-> batch[i].url]
  <2>3. g \in [DOMAIN batch -> U] /\ \A v \in U : \E i \in DOMAIN batch : g[i] = v
    BY <2>2 DEF UrlsOf, ToSet
  <2> HIDE DEF U, g
  <2>4. IsFiniteSet(U) /\ Cardinality(U) \in Nat /\ Cardinality(U) <= Len(batch)
    BY <2>2, <2>3, Values
  <2>5. Cardinality(pending) \in Nat /\ Cardinality(pending) <= Cardinality(U)
    BY <2>1, <2>4, FS_Subset, FS_CardinalityType DEF U
  <2>6. Len(batch) <= max_concurrency /\ max_concurrency \in Nat
    BY <1>1, ConstantsAssumption DEF AskedInv
  <2> QED  BY <2>2, <2>4, <2>5, <2>6
<1> QED  BY <1>4, <1>5, <1>6, <1>7 DEF TraversalIsBounded, WithinLimits

\* The report's conditions, one by one.
LEMMA ReportedIsSound ==
  ASSUME Inv
  PROVE  ReportIsSound
<1>1. TypeOK /\ RootInv /\ AskedInv /\ ParentInv /\ GateInv /\ TreeInv
  BY DEF Inv
<1>2. Root \in Urls /\ N \in Nat
  BY <1>1, ConstantsAssumption DEF TypeOK, N
<1>3. ParentsKnown
  <2>1. SUFFICES ASSUME NEW x \in ToSet(queue) \cup ToSet(batch) \cup ToSet(yielded)
                 PROVE  \/ x.parent = None /\ x.depth = 0
                        \/ x.parent \in Recorded
    BY DEF ParentsKnown, Recorded, UrlsOf
  <2>2. CASE N = 0
    <3>1. queue = <<>> /\ batch = <<RootEntry>>
      BY <2>2, <1>1 DEF RootInv
    <3>2. ToSet(queue) = {} /\ ToSet(batch) = {RootEntry}
      BY <3>1 DEF ToSet
    <3>3. \A y \in ToSet(yielded) : y.depth = 0 /\ y.parent = None
      BY <2>2, <1>1 DEF ParentInv
    <3> QED  BY <2>1, <3>2, <3>3, RootEntryTypes
  <2>3. CASE N # 0
    BY <2>1, <2>3, <1>1, <1>2 DEF ParentInv, Recorded
  <2> QED  BY <2>2, <2>3
<1>4. OnlyCurrentReported
  <2>1. SUFFICES ASSUME stage = "done" PROVE
          \A u \in Urls : asked[u] > 0 =>
            /\ \A o \in ToSet(web[u].objects) : o.latest
            /\ u = Root => web[u].kind # "broken"
    BY DEF OnlyCurrentReported
  <2>2. Fetching = {} /\ stage \notin {"refused", "crashed"}
    BY <2>1 DEF Fetching
  <2>3. N > 0
    BY <2>1, <1>1, <1>2 DEF RootInv
  <2> QED  BY <2>2, <2>3, <1>1 DEF GateInv
<1>5. ReportIsTree
  <2>1. SUFFICES ASSUME stage = "done", web[Root].kind = "object", Cardinality(DOMAIN nodes) = N
                 PROVE  Reported = 1 .. N /\ Len(children) = N - 1
    BY DEF ReportIsTree
  <2>2. N > 0
    BY <2>1, <1>1, <1>2 DEF RootInv
  <2>3. /\ root_node = 1 /\ Len(children) = N - 1
        /\ \A k \in 2 .. N : \E e \in ToSet(children) : e[2] = k /\ e[1] < k
    BY <2>1, <2>2, <1>1 DEF TreeInv
  <2> QED  BY <2>2, <2>3, <1>1, AllReported
<1> QED  BY <1>3, <1>4, <1>5 DEF Inv, ReportIsSound

-----------------------------------------------------------------------------
(* The theorems about the traversal                                        *)

\* The invariant holds in every reachable state.
THEOREM Invariance == Spec => []Inv
<1>1. Init => Inv
  BY InitInv
<1>2. Inv /\ [Next]_vars => Inv'
  BY InvStep
<1> QED  BY <1>1, <1>2, PTL DEF Spec

\* The variables of a traversal keep their types: every node that a URL or an edge
\* names has been made, and whatever is waited for is in the batch (TypeOK).
THEOREM TypeCorrect == Spec => []TypeOK
<1>1. Inv => TypeOK
  BY DEF Inv
<1> QED  BY <1>1, Invariance, PTL

\* Whatever the servers answer and whatever links to what: no URL is requested twice,
\* none of another host, and no more than max_objects (TraversalIsBounded).
THEOREM TraversalStaysBounded == Spec => []TraversalIsBounded
<1>1. Inv => TraversalIsBounded
  BY AskedIsBounded
<1> QED  BY <1>1, Invariance, PTL

\* A report that is given is of the current version throughout, is a tree of all that
\* was validated, and says when the traversal was cut (ReportIsSound).
THEOREM ReportStaysSound == Spec => []ReportIsSound
<1>1. Inv => ReportIsSound
  BY ReportedIsSound
<1> QED  BY <1>1, Invariance, PTL

-----------------------------------------------------------------------------
(* Finding (StacFind): the inductive invariant                            *)

\* The pages of a listing that are there: unless its pages lead to one another for ever,
\* they are the first ones of it.
ListedOf(all, size) ==
  /\ got \in Seq(ToSet(all))
  /\ page \in Nat \cup {Unset}
  /\ turn \in Nat /\ (turn = 0 => page = 1)
  /\ ~site.loops =>
       /\ \A k \in DOMAIN all : k <= turn * size => all[k] \in ToSet(got)
       /\ page = Unset => Len(all) <= turn * size
       /\ page # Unset => page = turn + 1

\* Every call is one that this kind of request makes.
PhaseInv ==
  /\ phase \in {"exact", "retry"} => query.find \in {"items", "scientific"}
  /\ phase = "filter" => query.find = "scientific"
  /\ phase = "resolve" => query.find \in {"items", "scientific", "assets", "properties"}
  /\ phase = "scan" => query.find \in {"assets", "properties"}
  /\ phase = "list" => query.find = "collections"
  /\ phase = "mine" => query.find = "mine"
  /\ phase = "walk" => query.find = "catalogs"

\* What was resolved is meant; what is meant was resolved, or still has to be.
ResolvedOf ==
  /\ hints \in Seq(ToSet(query.collections))
  /\ resolved \in Seq(Names(site.collections) \cup ToSet(query.collections))
  /\ hints = query.collections \/ resolved # <<>>
  /\ query.collections = <<>> => resolved = <<>>
  /\ Known(resolved) \subseteq Meaning(query.collections)
  /\ Resolvable => \A c \in Meaning(query.collections) :
       query.collections = <<>> \/ c \in Known(resolved) \/ \E h \in ToSet(hints) : c \in Named(h)

\* Names are resolved before what they stand for is searched.
HintsInv ==
  /\ phase = "start" => resolved = <<>>
  /\ phase \in {"exact", "filter"} => hints = query.collections
  /\ phase \in {"exact", "filter", "resolve", "retry", "scan"} => ResolvedOf
  /\ phase \in {"retry", "scan"} => hints = <<>>
  /\ phase \in {"resolve", "retry"} => query.collections # <<>>

\* What the listing or the scan is one of.
PagesInv ==
  /\ phase = "start" => page = 1 /\ turn = 0 /\ got = <<>>
  /\ phase = "list" => ListedOf(site.collections, query.limit)
  /\ phase = "resolve" => ListedOf(site.collections, ResolveLimit)
  /\ phase = "scan" => ListedOf(Offered(resolved, {}), query.limit)

\* The names are resolved only if the search by exact ids has nothing to show.
ExactInv ==
  phase \in {"resolve", "retry"} /\ query.find = "items" =>
    LET exact == Search(query.collections, query.limit, 1, {})
    IN  Selected(query, exact.list) = <<>> /\ (phase = "resolve" /\ ~unknown => exact.status = 200)

LinksOf(api) == UNION {ToSet(api[p]) : p \in DOMAIN api}

\* What has been walked before this level.
Before == IF level = 1 THEN {} ELSE Within(site.catalogs, failed)[level - 2]

\* The walk so far, unless it is doomed.
Walked ==
  /\ seen = Below(site.catalogs, failed, Before)
  /\ Within(site.catalogs, failed)[level - 1] = Before \cup ToSet(frontier)
  /\ ToSet(frontier) \cap Before \subseteq {ProjectsRoot}
  /\ Before \subseteq {ProjectsRoot} \cup seen
  /\ IsInjective(frontier)
  /\ failed \subseteq Before \cup {frontier[i] : i \in DOMAIN results}
  /\ \A i \in DOMAIN results : results[i].status = 200 => frontier[i] \notin failed
  /\ IsInjective(Paths(catalogs)) /\ ToSet(Paths(catalogs)) = seen

\* What the fetches of this level returned.
ResultsInv ==
  \A i \in DOMAIN results :
    /\ results[i].status \in {200, 404, Text, Unavailable, 500}
    /\ results[i].status = 200 => /\ Resource[frontier[i]] \in DOMAIN site.catalogs
                                  /\ results[i].list = site.catalogs[Resource[frontier[i]]]
    /\ results[i].status # 200 => results[i].list = <<>> /\ frontier[i] \in failed

\* The walk has met the catalogs within reach, or cannot go on without its root.
LevelInv ==
  phase # "done" =>
    /\ frontier \in Seq({ProjectsRoot} \cup seen)
    /\ catalogs \in Seq(LinksOf(site.catalogs))
    /\ ResultsInv
    /\ ProjectsRoot \in failed => \E i \in DOMAIN results : Fatal(i)
    /\ ProjectsRoot \notin failed => Walked

\* Only a walk still waits for its fetches.
FlightInv == flying \subseteq DOMAIN results \/ phase = "walk"

\* The inductive invariant.
FindInv ==
  /\ site \in Sites /\ query \in Queries
  /\ FindTypeOK /\ PhaseInv /\ HintsInv /\ PagesInv /\ ExactInv /\ FlightInv /\ LevelInv /\ FindIsComplete

-----------------------------------------------------------------------------
(* The paths within a number of links                                     *)

\* What is within n links, by the number of links.
LEMMA WithinDef ==
  ASSUME NEW api, NEW gone
  PROVE  /\ Within(api, gone)[0] = {ProjectsRoot}
         /\ \A n \in 1 .. MaxDepth :
              Within(api, gone)[n] =
                Within(api, gone)[n - 1] \cup Below(api, gone, Within(api, gone)[n - 1])
<1> DEFINE Wider(x) == x \cup Below(api, gone, x)
           Right(f, k) == \A n \in 0 .. k : f[n] = IF n = 0 THEN {ProjectsRoot} ELSE Wider(f[n - 1])
           Reached(k) == \E f : f = [n \in 0 .. k |-> f[n]] /\ Right(f, k)
           Bad == {k \in 0 .. MaxDepth : ~Reached(k)}
<1>1. MaxDepth \in Nat
  BY FindAssumption
<1> HIDE DEF Wider, Reached
<1>2. Bad \in SUBSET Int /\ IsFiniteSet(Bad)
  <2>1. IsFiniteSet(0 .. MaxDepth) /\ Bad \in SUBSET (0 .. MaxDepth)
    BY <1>1, FS_Interval
  <2>2. Bad \in SUBSET Int
    BY <2>1
  <2> HIDE DEF Bad
  <2> QED  BY <2>1, <2>2, FS_Subset
<1>3. Bad = {}
  <2>1. SUFFICES ASSUME Bad # {} PROVE FALSE
    OBVIOUS
  <2>2. PICK k \in Bad : \A j \in Bad : k <= j
    BY <1>2, <2>1, LeastOf
  <2>3. k \in 0 .. MaxDepth
    OBVIOUS
  <2>4. CASE k = 0
    <3> DEFINE f == [n \in 0 .. 0 |-> {ProjectsRoot}]
    <3>1. f = [n \in 0 .. k |-> f[n]] /\ Right(f, k)
      BY <2>4
    <3>2. Reached(k)
      BY <3>1 DEF Reached
    <3> QED  BY <3>2, <2>2
  <2>5. CASE k # 0
    <3>1. k - 1 \in 0 .. MaxDepth /\ k - 1 \notin Bad
      <4>1. k - 1 \in 0 .. MaxDepth /\ ~(k <= k - 1)
        BY <2>3, <2>5, <1>1
      <4> QED  BY <4>1, <2>2
    <3>2. PICK f : f = [n \in 0 .. k - 1 |-> f[n]] /\ Right(f, k - 1)
      <4>1. Reached(k - 1)
        BY <3>1
      <4> QED  BY <4>1 DEF Reached
    <3> DEFINE g == [n \in 0 .. k |-> IF n = k THEN Wider(f[k - 1]) ELSE f[n]]
    <3>3. \A n \in 0 .. k : n = k \/ n \in 0 .. k - 1
      BY <2>3
    <3>4. \A n \in 0 .. k : n # 0 => n - 1 \in 0 .. k - 1 /\ n - 1 \in 0 .. k /\ n - 1 # k
      BY <2>3
    <3>5. k \in 0 .. k
      BY <2>3
    <3>6. ASSUME NEW n \in 0 .. k PROVE g[n] = IF n = 0 THEN {ProjectsRoot} ELSE Wider(g[n - 1])
      <4>1. CASE n = k
        <5>1. g[k] = Wider(f[k - 1]) /\ g[k - 1] = f[k - 1]
          BY <2>5, <3>4, <3>5
        <5> QED  BY <5>1, <4>1, <2>5
      <4>2. CASE n # k
        <5>1. g[n] = f[n] /\ n \in 0 .. k - 1
          BY <4>2, <3>3
        <5>2. n # 0 => g[n - 1] = f[n - 1]
          BY <3>4
        <5> QED  BY <5>1, <5>2, <3>2
      <4> QED  BY <4>1, <4>2
    <3>7. g = [n \in 0 .. k |-> g[n]]
      OBVIOUS
    <3> HIDE DEF g
    <3>8. Right(g, k)
      BY <3>6
    <3>9. Reached(k)
      BY <3>7, <3>8 DEF Reached
    <3> QED  BY <3>9, <2>2
  <2> QED  BY <2>4, <2>5
<1>4. PICK f : f = [n \in 0 .. MaxDepth |-> f[n]] /\ Right(f, MaxDepth)
  <2>1. MaxDepth \in 0 .. MaxDepth
    BY <1>1
  <2>2. Reached(MaxDepth)
    BY <2>1, <1>3
  <2> QED  BY <2>2 DEF Reached
<1> DEFINE within[n \in 0 .. MaxDepth] ==
             IF n = 0 THEN {ProjectsRoot} ELSE within[n - 1] \cup Below(api, gone, within[n - 1])
<1>5. Within(api, gone) = within
  BY DEF Within
<1>6. f = [n \in 0 .. MaxDepth |-> IF n = 0 THEN {ProjectsRoot} ELSE f[n - 1] \cup Below(api, gone, f[n - 1])]
  BY <1>4 DEF Wider
<1>7. within = [n \in 0 .. MaxDepth |->
                  IF n = 0 THEN {ProjectsRoot} ELSE within[n - 1] \cup Below(api, gone, within[n - 1])]
  BY <1>6
<1> HIDE DEF within
<1>8. \A n \in 1 .. MaxDepth : n \in 0 .. MaxDepth /\ n # 0
  OBVIOUS
<1>9. 0 \in 0 .. MaxDepth
  BY <1>1
<1> QED  BY <1>5, <1>7, <1>8, <1>9

\* More links lead no less far.
LEMMA WithinGrows ==
  ASSUME NEW api, NEW gone, NEW m \in 0 .. MaxDepth, NEW n \in 0 .. MaxDepth, m <= n
  PROVE  Within(api, gone)[m] \subseteq Within(api, gone)[n]
<1> DEFINE W == Within(api, gone)
           Bad == {k \in m .. MaxDepth : ~(W[m] \subseteq W[k])}
<1>1. MaxDepth \in Nat
  BY FindAssumption
<1>2. \A k \in 1 .. MaxDepth : W[k - 1] \subseteq W[k]
  BY WithinDef
<1> HIDE DEF W
<1>3. Bad \in SUBSET Int /\ IsFiniteSet(Bad)
  <2>1. IsFiniteSet(m .. MaxDepth) /\ Bad \in SUBSET (m .. MaxDepth)
    BY <1>1, FS_Interval
  <2>2. Bad \in SUBSET Int
    BY <2>1
  <2> HIDE DEF Bad
  <2> QED  BY <2>1, <2>2, FS_Subset
<1>4. Bad = {}
  <2>1. SUFFICES ASSUME Bad # {} PROVE FALSE
    OBVIOUS
  <2>2. PICK k \in Bad : \A j \in Bad : k <= j
    BY <1>3, <2>1, LeastOf
  <2>3. k \in m .. MaxDepth /\ k # m
    OBVIOUS
  <2>4. k - 1 \in m .. MaxDepth /\ k \in 1 .. MaxDepth /\ ~(k <= k - 1)
    BY <2>3, <1>1
  <2>5. W[m] \subseteq W[k - 1] /\ W[k - 1] \subseteq W[k]
    BY <2>2, <2>4, <1>2
  <2> QED  BY <2>5, <2>2
<1>5. n \in m .. MaxDepth
  BY <1>1
<1> QED  BY <1>4, <1>5 DEF W

\* What is gone further away does not change what is within reach.
LEMMA WithinAgrees ==
  ASSUME NEW api, NEW gone, NEW more, NEW top \in 0 .. MaxDepth - 1,
         top > 0 => \A p \in Within(api, gone)[top - 1] : Children(api, more, p) = Children(api, gone, p)
  PROVE  \A n \in 0 .. top : Within(api, more)[n] = Within(api, gone)[n]
<1> DEFINE W == Within(api, gone)
           X == Within(api, more)
           Bad == {k \in 0 .. top : X[k] # W[k]}
<1>1. MaxDepth \in Nat
  BY FindAssumption
<1> HIDE DEF W, X
<1>2. /\ W[0] = {ProjectsRoot}
      /\ \A k \in 1 .. MaxDepth : W[k] = W[k - 1] \cup Below(api, gone, W[k - 1])
  BY WithinDef DEF W
<1>6. /\ X[0] = {ProjectsRoot}
      /\ \A k \in 1 .. MaxDepth : X[k] = X[k - 1] \cup Below(api, more, X[k - 1])
  BY WithinDef DEF X
<1>3. \A k, l \in 0 .. MaxDepth : k <= l => W[k] \subseteq W[l]
  BY WithinGrows DEF W
<1>4. Bad \in SUBSET Int /\ IsFiniteSet(Bad)
  <2>1. IsFiniteSet(0 .. top) /\ Bad \in SUBSET (0 .. top)
    BY <1>1, FS_Interval
  <2>2. Bad \in SUBSET Int
    BY <2>1
  <2> HIDE DEF Bad
  <2> QED  BY <2>1, <2>2, FS_Subset
<1>5. Bad = {}
  <2>1. SUFFICES ASSUME Bad # {} PROVE FALSE
    OBVIOUS
  <2>2. PICK k \in Bad : \A j \in Bad : k <= j
    BY <1>4, <2>1, LeastOf
  <2>3. k \in 0 .. top /\ k # 0
    BY <1>2, <1>6
  <2>4. k - 1 \in 0 .. top /\ k \in 1 .. MaxDepth /\ ~(k <= k - 1)
    BY <2>3, <1>1
  <2>5. X[k - 1] = W[k - 1]
    BY <2>2, <2>4
  <2>6. W[k - 1] \subseteq W[top - 1] /\ top > 0
    BY <2>3, <1>1, <1>3
  <2>7. \A p \in W[k - 1] : Children(api, more, p) = Children(api, gone, p)
    BY <2>6 DEF W
  <2>8. Below(api, more, X[k - 1]) = Below(api, gone, W[k - 1])
    BY <2>5, <2>7 DEF Below
  <2>9. X[k] = W[k]
    BY <2>4, <2>5, <2>8, <1>2, <1>6
  <2> QED  BY <2>2, <2>9
<1> QED  BY <1>5 DEF W, X

\* Once no link leads on, none ever does.
LEMMA WithinIsClosed ==
  ASSUME NEW api, NEW gone, NEW m \in 0 .. MaxDepth,
         Below(api, gone, Within(api, gone)[m]) \subseteq Within(api, gone)[m]
  PROVE  \A n \in m .. MaxDepth : Within(api, gone)[n] = Within(api, gone)[m]
<1> DEFINE W == Within(api, gone)
           Bad == {k \in m .. MaxDepth : W[k] # W[m]}
<1>1. MaxDepth \in Nat
  BY FindAssumption
<1>2. \A k \in 1 .. MaxDepth : W[k] = W[k - 1] \cup Below(api, gone, W[k - 1])
  BY WithinDef
<1>3. Below(api, gone, W[m]) \subseteq W[m]
  OBVIOUS
<1> HIDE DEF W
<1>4. Bad \in SUBSET Int /\ IsFiniteSet(Bad)
  <2>1. IsFiniteSet(m .. MaxDepth) /\ Bad \in SUBSET (m .. MaxDepth)
    BY <1>1, FS_Interval
  <2>2. Bad \in SUBSET Int
    BY <2>1
  <2> HIDE DEF Bad
  <2> QED  BY <2>1, <2>2, FS_Subset
<1>5. Bad = {}
  <2>1. SUFFICES ASSUME Bad # {} PROVE FALSE
    OBVIOUS
  <2>2. PICK k \in Bad : \A j \in Bad : k <= j
    BY <1>4, <2>1, LeastOf
  <2>3. k \in m .. MaxDepth /\ k # m
    OBVIOUS
  <2>4. k - 1 \in m .. MaxDepth /\ k \in 1 .. MaxDepth /\ ~(k <= k - 1)
    BY <2>3, <1>1
  <2>5. W[k - 1] = W[m]
    BY <2>2, <2>4
  <2>6. W[k] = W[m]
    BY <2>4, <2>5, <1>2, <1>3
  <2> QED  BY <2>2, <2>6
<1> QED  BY <1>5 DEF W

-----------------------------------------------------------------------------
(* Pages and searches                                                     *)

\* What is kept of a list are the entries at the indices.
LEMMA Kept ==
  ASSUME NEW T, NEW s \in Seq(T), NEW I \in SUBSET (DOMAIN s)
  PROVE  /\ Picked(s, I) \in Seq(T)
         /\ \A x \in ToSet(Picked(s, I)) : \E i \in I : x = s[i]
         /\ \A i \in I : s[i] \in ToSet(Picked(s, I))
         /\ I = {} => Picked(s, I) = <<>>
<1> DEFINE p == Picked(s, I)
<1>1. /\ p \in Seq(T)
      /\ \A k \in DOMAIN p : Nth(k, I) \in I /\ p[k] = s[Nth(k, I)]
      /\ \A i \in I : \E k \in DOMAIN p : p[k] = s[i]
  BY PickedEntries
<1>2. I = {} => p = <<>>
  <2> HIDE DEF p
  <2>1. DOMAIN p = 1 .. Len(p) /\ Len(p) \in Nat
    BY <1>1
  <2>2. ASSUME p # <<>> PROVE 1 \in DOMAIN p
    BY <1>1, <2>1, <2>2
  <2> QED  BY <1>1, <2>2
<1> HIDE DEF p
<1> QED  BY <1>1, <1>2 DEF p, ToSet

\* A list has its members.
LEMMA Members ==
  ASSUME NEW T, NEW s \in Seq(T)
  PROVE  s \in Seq(ToSet(s)) /\ \A x : x \in ToSet(s) <=> \E i \in DOMAIN s : s[i] = x
BY DEF ToSet

\* Each of a list once.
LEMMA DistinctMembers ==
  ASSUME NEW T, NEW s \in Seq(T)
  PROVE  Distinct(s) \in Seq(T) /\ ToSet(Distinct(s)) = ToSet(s)
<1> DEFINE I == {k \in DOMAIN s : \A j \in 1 .. k - 1 : s[j] # s[k]}
<1>0. DOMAIN s = 1 .. Len(s) /\ Len(s) \in Nat /\ I \in SUBSET (DOMAIN s)
  OBVIOUS
<1>1. /\ Distinct(s) \in Seq(T)
      /\ \A x \in ToSet(Distinct(s)) : \E i \in I : x = s[i]
      /\ \A i \in I : s[i] \in ToSet(Distinct(s))
  <2> HIDE DEF I
  <2>1. Distinct(s) = Picked(s, I)
    BY DEF Distinct, I
  <2> QED  BY <1>0, <2>1, Kept
<1>2. ASSUME NEW i \in DOMAIN s PROVE \E k \in I : s[k] = s[i]
  <2> DEFINE J == {k \in DOMAIN s : s[k] = s[i]}
  <2>1. J \in SUBSET Int /\ IsFiniteSet(J)
    <3>1. J \in SUBSET (DOMAIN s)
      OBVIOUS
    <3> HIDE DEF J
    <3> QED  BY <3>1, Indices
  <2>2. i \in J
    OBVIOUS
  <2>3. PICK k \in J : \A j \in J : k <= j
    <3> HIDE DEF J
    <3> QED  BY <2>1, <2>2, LeastOf
  <2>4. \A j \in 1 .. k - 1 : j \in DOMAIN s /\ ~(k <= j)
    BY <1>0, <2>3
  <2>5. k \in I
    BY <2>3, <2>4
  <2> QED  BY <2>3, <2>5
<1> HIDE DEF I
<1>3. \A x \in ToSet(Distinct(s)) : x \in ToSet(s)
  <2>1. \A i \in I : s[i] \in ToSet(s)
    BY <1>0 DEF ToSet
  <2> QED  BY <1>1, <2>1
<1>4. ASSUME NEW x \in ToSet(s) PROVE x \in ToSet(Distinct(s))
  <2>1. PICK i \in DOMAIN s : s[i] = x
    BY DEF ToSet
  <2> QED  BY <1>1, <1>2, <2>1
<1> QED  BY <1>1, <1>3, <1>4

-----------------------------------------------------------------------------
(* Pages                                                                   *)

Page(all, n, size) == {k \in DOMAIN all : (n - 1) * size < k /\ k <= n * size}

\* A page of a list has the entries of its range, and no others.
LEMMA PageHas ==
  ASSUME NEW T, NEW all \in Seq(T), NEW n \in Nat, NEW size \in Nat
  PROVE  /\ PageOf(all, n, size).list \in Seq(T)
         /\ \A x \in ToSet(PageOf(all, n, size).list) : x \in ToSet(all)
         /\ \A k \in Page(all, n, size) : all[k] \in ToSet(PageOf(all, n, size).list)
         /\ PageOf(all, n, size).status = 200
<1> DEFINE I == Page(all, n, size)
<1>1. PageOf(all, n, size).list = Picked(all, I)
  BY DEF PageOf, Page
<1>2. I \in SUBSET (DOMAIN all)
  BY DEF Page
<1> HIDE DEF I
<1>3. /\ Picked(all, I) \in Seq(T)
      /\ \A x \in ToSet(Picked(all, I)) : \E i \in I : x = all[i]
      /\ \A i \in I : all[i] \in ToSet(Picked(all, I))
  BY <1>2, Kept
<1>4. \A x \in ToSet(Picked(all, I)) : x \in ToSet(all)
  BY <1>2, <1>3 DEF ToSet
<1>5. PageOf(all, n, size).status = 200
  BY DEF PageOf
<1> QED  BY <1>1, <1>3, <1>4, <1>5 DEF I

\* What is offered is there.
LEMMA OfferedItems ==
  ASSUME WellformedSite(site), NEW within, NEW needles
  PROVE  /\ Offered(within, needles) \in Seq(ToSet(site.items))
         /\ \A x \in ToSet(Offered(within, needles)) :
              /\ x \in ToSet(site.items) /\ needles \subseteq x.cited
              /\ within = <<>> \/ x.collection \in Known(within)
         /\ \A x \in ToSet(site.items) :
              needles \subseteq x.cited /\ (within = <<>> \/ x.collection \in Known(within))
                => x \in ToSet(Offered(within, needles))
<1> DEFINE I == {k \in DOMAIN site.items :
                   /\ within = <<>> \/ site.items[k].collection \in Known(within)
                   /\ needles \subseteq site.items[k].cited}
<1>1. site.items \in Seq(ToSet(site.items)) /\ I \in SUBSET (DOMAIN site.items)
  BY DEF WellformedSite
<1>2. /\ Picked(site.items, I) \in Seq(ToSet(site.items))
      /\ \A x \in ToSet(Picked(site.items, I)) : \E i \in I : x = site.items[i]
      /\ \A i \in I : site.items[i] \in ToSet(Picked(site.items, I))
  <2> HIDE DEF I
  <2> QED  BY <1>1, Kept
<1>3. Offered(within, needles) = Picked(site.items, I)
  BY DEF Offered
<1>4. \A x \in ToSet(site.items) : \E k \in DOMAIN site.items : x = site.items[k]
  BY DEF ToSet
<1>5. \A k \in I : site.items[k] \in ToSet(site.items)
  BY DEF ToSet
<1>6. ASSUME NEW x \in ToSet(site.items), needles \subseteq x.cited,
             within = <<>> \/ x.collection \in Known(within)
      PROVE  x \in ToSet(Offered(within, needles))
  <2>1. PICK k \in DOMAIN site.items : x = site.items[k]
    BY <1>4
  <2>2. k \in I
    BY <2>1, <1>6
  <2> HIDE DEF I
  <2> QED  BY <2>1, <2>2, <1>2, <1>3
<1>7. ASSUME NEW x \in ToSet(Offered(within, needles))
      PROVE  /\ x \in ToSet(site.items) /\ needles \subseteq x.cited
             /\ within = <<>> \/ x.collection \in Known(within)
  <2>1. PICK k \in I : x = site.items[k]
    <3> HIDE DEF I
    <3> QED  BY <1>2, <1>3
  <2> QED  BY <2>1, <1>5
<1> HIDE DEF I
<1> QED  BY <1>2, <1>3, <1>6, <1>7

\* What a search returns is what was offered, or nothing.
LEMMA SearchReturns ==
  ASSUME WellformedSite(site), NEW within, NEW size, NEW n, NEW needles, n \in Nat, size \in Nat
  PROVE  /\ Search(within, size, n, needles).status \in {200, 404}
         /\ Search(within, size, n, needles).list \in Seq(ToSet(site.items))
         /\ \A x \in ToSet(Search(within, size, n, needles).list) : x \in ToSet(Offered(within, needles))
         /\ Search(within, size, n, needles).status = 200 =>
              Search(within, size, n, needles) = PageOf(Offered(within, needles), n, size)
         /\ Search(within, size, n, needles).status = 404 =>
              Search(within, size, n, needles).list = <<>> /\ within # <<>>
<1>1. Offered(within, needles) \in Seq(ToSet(site.items))
  BY OfferedItems
<1>2. /\ PageOf(Offered(within, needles), n, size).list \in Seq(ToSet(site.items))
      /\ \A x \in ToSet(PageOf(Offered(within, needles), n, size).list) : x \in ToSet(Offered(within, needles))
      /\ PageOf(Offered(within, needles), n, size).status = 200
  BY <1>1, PageHas
<1>3. Refusal(404).status = 404 /\ Refusal(404).list = <<>>
  BY DEF Refusal
<1>4. ToSet(<<>>) = {}
  BY DEF ToSet
<1> DEFINE s == Search(within, size, n, needles)
           aPage == PageOf(Offered(within, needles), n, size)
<1>5. s = aPage \/ (within # <<>> /\ s = Refusal(404))
  BY DEF Search
<1> HIDE DEF s, aPage
<1>6. \/ s = aPage
      \/ s.status = 404 /\ s.list = <<>> /\ within # <<>>
  BY <1>3, <1>5
<1>7. s.status \in {200, 404} /\ (s.status = 200 => s = aPage)
      /\ (s.status = 404 => s.list = <<>> /\ within # <<>>)
  BY <1>2, <1>6 DEF aPage
<1>8. s.list \in Seq(ToSet(site.items)) /\ \A x \in ToSet(s.list) : x \in ToSet(Offered(within, needles))
  <2>1. CASE s = aPage
    BY <1>2, <2>1 DEF aPage
  <2>2. CASE s.list = <<>>
    BY <1>4, <2>2
  <2> QED  BY <1>6, <2>1, <2>2
<1> QED  BY <1>7, <1>8 DEF s, aPage

\* A listing that begins.
LEMMA ListingBegins ==
  ASSUME NEW all, NEW T, all \in Seq(T), NEW size \in Nat \ {0}, page' = 1, turn' = 0, got' = <<>>
  PROVE  ListedOf(all, size)'
<1>1. turn' * size = 0 /\ page' # Unset /\ page' = turn' + 1 /\ page' \in Nat /\ turn' \in Nat
  BY FindAssumption
<1>2. \A k \in DOMAIN all : ~(k <= 0)
  OBVIOUS
<1>3. got' \in Seq(ToSet(all))
  OBVIOUS
<1> QED  BY <1>1, <1>2, <1>3 DEF ListedOf

\* Every page takes it on.
LEMMA ListingTurns ==
  ASSUME NEW all, NEW T, all \in Seq(T), NEW size \in Nat \ {0}, site' = site, query' = query,
         site.loops \in BOOLEAN,
         ListedOf(all, size), NEW proper, proper = PageOf(all, page, size),
         page # Unset, got' = got \o proper.list, page' = proper.next, turn' = turn + 1
  PROVE  ListedOf(all, size)'
<1> DEFINE more == proper.list
           w == turn * size
<1>1. /\ got \in Seq(ToSet(all)) /\ page \in Nat /\ turn \in Nat
      /\ all \in Seq(ToSet(all))
  BY Members DEF ListedOf
<1>2. /\ more \in Seq(ToSet(all))
      /\ \A k \in Page(all, page, size) : all[k] \in ToSet(more)
      /\ proper.next = IF page * size < Len(all) THEN page + 1 ELSE IF site.loops THEN 1 ELSE Unset
  <2> DEFINE that == PageOf(all, page, size)
  <2>1. that.list \in Seq(ToSet(all)) /\ \A k \in Page(all, page, size) : all[k] \in ToSet(that.list)
    <3>1. size \in Nat /\ all \in Seq(ToSet(all)) /\ page \in Nat
      BY <1>1
    <3> QED  BY <3>1, PageHas
  <2>2. that.next = IF page * size < Len(all) THEN page + 1 ELSE IF site.loops THEN 1 ELSE Unset
    BY DEF PageOf
  <2> HIDE DEF that
  <2>3. proper = that
    BY DEF that
  <2> QED  BY <2>1, <2>2, <2>3
<1> HIDE DEF more
<1>3. got' \in Seq(ToSet(all)) /\ ToSet(got') = ToSet(got) \cup ToSet(more)
  <2>1. got' = got \o more
    BY DEF more
  <2> QED  BY <1>1, <1>2, <2>1, Appended
<1>4. page' \in Nat \cup {Unset} /\ turn' \in Nat /\ turn' # 0
  BY <1>1, <1>2
<1>5. (turn + 1) * size = w + size /\ w \in Nat
  BY <1>1
<1>6. ASSUME ~site.loops
      PROVE  /\ \A k \in DOMAIN all : k <= turn' * size => all[k] \in ToSet(got')
             /\ page' = Unset => Len(all) <= turn' * size
             /\ page' # Unset => page' = turn' + 1
  <2>1. page = turn + 1 /\ \A k \in DOMAIN all : k <= w => all[k] \in ToSet(got)
    BY <1>6 DEF ListedOf
  <2>2. (page - 1) * size = w /\ page * size = w + size
    <3>1. page - 1 = turn
      BY <1>1, <2>1
    <3> QED  BY <1>5, <2>1, <3>1
  <2> HIDE DEF w
  <2>3. \A k \in DOMAIN all : k \in Int
    OBVIOUS
  <2>4. \A k \in DOMAIN all : k <= w + size => all[k] \in ToSet(got')
    <3>1. \A k \in DOMAIN all : w < k /\ k <= w + size => all[k] \in ToSet(more)
      BY <1>2, <2>2 DEF Page
    <3> QED  BY <3>1, <1>3, <1>5, <2>1, <2>3
  <2>5. turn' * size = w + size
    BY <1>5
  <2>6. Len(all) \in Nat
    OBVIOUS
  <2>7. page + 1 # Unset
    BY <1>1, FindAssumption
  <2>8. page' = IF w + size < Len(all) THEN page + 1 ELSE Unset
    BY <1>2, <1>6, <2>2
  <2>9. page' = Unset => Len(all) <= w + size
    BY <2>6, <2>7, <2>8, <1>5
  <2>10. page' # Unset => page' = turn' + 1
    BY <1>1, <2>1, <2>8
  <2> QED  BY <2>4, <2>5, <2>9, <2>10
<1> QED  BY <1>3, <1>4, <1>6 DEF ListedOf

\* As many entries as fit on so many pages.
LEMMA FullPages ==
  ASSUME NEW n \in Nat, NEW size \in Nat \ {0}, PageCount(n, size) <= MaxPages
  PROVE  n <= MaxPages * size
<1> DEFINE q == (n + size - 1) \div size
<1>1. q <= MaxPages
  BY DEF PageCount
<1>2. size \in Nat /\ size > 0 /\ MaxPages \in Nat
  BY FindAssumption
<1>3. q \in Nat /\ n + size - 1 = q * size + ((n + size - 1) % size) /\ (n + size - 1) % size \in 0 .. size - 1
  BY <1>2
<1> HIDE DEF q
<1>4. n <= q * size /\ q * size \in Int
  BY <1>2, <1>3
<1>5. q * size <= MaxPages * size /\ MaxPages * size \in Int
  BY <1>1, <1>2, <1>3
<1>6. n <= MaxPages * size
  BY <1>4, <1>5, <1>2
<1> QED  BY <1>6

\* A listing that ends has it all, if its pages are enough.
LEMMA ListingEnds ==
  ASSUME NEW all, NEW T, all \in Seq(T), NEW size \in Nat \ {0}, ListedOf(all, size), ~Turning,
         turn \in 0 .. MaxPages, ~site.loops, Len(all) <= MaxPages * size
  PROVE  ToSet(got) = ToSet(all)
<1> DEFINE n == Len(all)
<1>1. n \in Nat /\ size \in Nat /\ size > 0 /\ MaxPages \in Nat /\ DOMAIN all = 1 .. n
  BY FindAssumption
<1>2. n <= MaxPages * size
  OBVIOUS
<1>3. n <= turn * size
  <2>1. CASE page = Unset
    BY <2>1 DEF ListedOf
  <2>2. CASE page # Unset
    BY <1>1, <1>2, <2>2 DEF Turning
  <2> QED  BY <2>1, <2>2
<1>4. turn * size \in Nat
  BY <1>1
<1>5. \A k \in DOMAIN all : k <= turn * size
  <2> HIDE DEF n
  <2> QED  BY <1>1, <1>3, <1>4
<1>6. \A k \in DOMAIN all : all[k] \in ToSet(got)
  BY <1>5 DEF ListedOf
<1>7. \A x \in ToSet(got) : x \in ToSet(all)
  BY DEF ListedOf, ToSet
<1> QED  BY <1>6, <1>7 DEF ToSet

ChildPaths(links) == {Relative[l.href] : l \in {k \in ToSet(links) : k.rel = "child"}}

\* New keeps one link to every path that is linked to and has not been seen.
LEMMA NewLinks ==
  ASSUME NEW T, NEW links \in Seq(T)
  PROVE  /\ New(links) \in Seq(T)
         /\ ToSet(Paths(New(links))) = ChildPaths(links) \ seen
         /\ IsInjective(Paths(New(links)))
<1> DEFINE path(k) == Relative[links[k].href]
           Child(k) == links[k].rel = "child"
           I == {k \in DOMAIN links :
                   /\ Child(k) /\ path(k) \notin seen
                   /\ \A j \in 1 .. k - 1 : Child(j) => path(j) # path(k)}
           new == New(links)
<1>0. DOMAIN links = 1 .. Len(links) /\ Len(links) \in Nat /\ I \in SUBSET (DOMAIN links)
  OBVIOUS
<1>1. /\ new \in Seq(T)
      /\ \A k \in DOMAIN new : Nth(k, I) \in I /\ new[k] = links[Nth(k, I)]
      /\ \A k, l \in DOMAIN new : Nth(k, I) = Nth(l, I) => k = l
      /\ \A i \in I : \E k \in DOMAIN new : new[k] = links[i]
  <2>1. new = Picked(links, I)
    BY DEF New
  <2> HIDE DEF I, new
  <2> QED  BY <1>0, <2>1, PickedEntries
<1>2. \A k, l \in I : path(k) = path(l) => k = l
  <2>1. SUFFICES ASSUME NEW k \in I, NEW l \in I, path(k) = path(l), k < l PROVE FALSE
    BY <1>0
  <2>2. k \in 1 .. l - 1 /\ Child(k)
    BY <1>0, <2>1
  <2> QED  BY <2>1, <2>2
<1>3. ASSUME NEW i \in DOMAIN links, Child(i), path(i) \notin seen
      PROVE  \E k \in I : path(k) = path(i)
  <2> DEFINE J == {k \in DOMAIN links : Child(k) /\ path(k) = path(i)}
  <2>1. J \in SUBSET (DOMAIN links) /\ i \in J
    BY <1>3
  <2>2. PICK k \in J : \A j \in J : k <= j
    <3> HIDE DEF J
    <3> QED  BY <2>1, Indices, LeastOf
  <2>3. \A j \in 1 .. k - 1 : j \in DOMAIN links /\ ~(k <= j)
    BY <1>0, <2>2
  <2>4. k \in I
    BY <1>3, <2>2, <2>3
  <2> QED  BY <2>2, <2>4
<1>4. \A i \in I : i \in DOMAIN links /\ Child(i) /\ path(i) \notin seen
  OBVIOUS
<1> HIDE DEF I, new
<1>5. Paths(new) = [k \in DOMAIN new |-> Relative[new[k].href]]
  BY DEF Paths
<1>6. \A k \in DOMAIN new : Paths(new)[k] = path(Nth(k, I))
  BY <1>1, <1>5
<1>7. IsInjective(Paths(new))
  <2>1. SUFFICES ASSUME NEW k \in DOMAIN new, NEW l \in DOMAIN new, Paths(new)[k] = Paths(new)[l]
                 PROVE  k = l
    BY <1>5 DEF IsInjective
  <2>2. Nth(k, I) = Nth(l, I)
    <3> HIDE DEF path
    <3> QED  BY <1>1, <1>2, <1>6, <2>1
  <2> QED  BY <1>1, <2>2
<1>8. ASSUME NEW x \in ToSet(Paths(new)) PROVE x \in ChildPaths(links) \ seen
  <2>1. PICK k \in DOMAIN new : x = Paths(new)[k]
    BY <1>5 DEF ToSet
  <2>2. PICK i \in DOMAIN links : Child(i) /\ path(i) \notin seen /\ x = path(i)
    BY <1>1, <1>4, <1>6, <2>1
  <2>3. links[i] \in ToSet(links)
    BY DEF ToSet
  <2> QED  BY <2>2, <2>3 DEF ChildPaths
<1>9. ASSUME NEW x \in ChildPaths(links), x \notin seen PROVE x \in ToSet(Paths(new))
  <2>1. PICK l \in ToSet(links) : l.rel = "child" /\ x = Relative[l.href]
    BY DEF ChildPaths
  <2>2. PICK i \in DOMAIN links : links[i] = l
    BY DEF ToSet
  <2>3. PICK k \in I : path(k) = x
    BY <1>3, <1>9, <2>1, <2>2
  <2>4. PICK n \in DOMAIN new : new[n] = links[k]
    BY <1>1
  <2>5. Paths(new)[n] = x
    BY <1>5, <2>3, <2>4
  <2> QED  BY <1>5, <2>5 DEF ToSet
<1>10. ToSet(Paths(new)) = ChildPaths(links) \ seen
  BY <1>8, <1>9
<1> QED  BY <1>1, <1>7, <1>10 DEF new

\* Two lists of links, to different paths each.
LEMMA PathsAppended ==
  ASSUME NEW T, NEW a \in Seq(T), NEW b \in Seq(T), IsInjective(Paths(a)), IsInjective(Paths(b)),
         ToSet(Paths(a)) \cap ToSet(Paths(b)) = {}
  PROVE  /\ a \o b \in Seq(T) /\ IsInjective(Paths(a \o b))
         /\ ToSet(Paths(a \o b)) = ToSet(Paths(a)) \cup ToSet(Paths(b))
<1> DEFINE c == a \o b
           path(l) == Relative[l.href]
<1>1. DOMAIN a = 1 .. Len(a) /\ DOMAIN b = 1 .. Len(b) /\ Len(a) \in Nat /\ Len(b) \in Nat
  OBVIOUS
<1>2. c \in Seq(T) /\ DOMAIN c = 1 .. Len(a) + Len(b)
  OBVIOUS
<1>3. \A i \in DOMAIN c : c[i] = IF i <= Len(a) THEN a[i] ELSE b[i - Len(a)]
  OBVIOUS
<1> HIDE DEF c
<1>4. /\ \A i \in DOMAIN a : i \in DOMAIN c /\ c[i] = a[i]
      /\ \A i \in DOMAIN b : i + Len(a) \in DOMAIN c /\ c[i + Len(a)] = b[i]
      /\ \A i \in DOMAIN c : i \in DOMAIN a \/ (i - Len(a) \in DOMAIN b /\ c[i] = b[i - Len(a)])
  <2>1. ASSUME NEW i \in DOMAIN a PROVE i \in DOMAIN c /\ c[i] = a[i]
    BY <1>1, <1>2, <1>3
  <2>2. ASSUME NEW i \in DOMAIN b PROVE i + Len(a) \in DOMAIN c /\ c[i + Len(a)] = b[i]
    <3>1. i + Len(a) \in DOMAIN c /\ ~(i + Len(a) <= Len(a)) /\ (i + Len(a)) - Len(a) = i
      BY <1>1, <1>2
    <3> QED  BY <1>3, <3>1
  <2>3. ASSUME NEW i \in DOMAIN c, i \notin DOMAIN a
        PROVE  i - Len(a) \in DOMAIN b /\ c[i] = b[i - Len(a)]
    BY <1>1, <1>2, <1>3, <2>3
  <2> QED  BY <2>1, <2>2, <2>3
<1>5. /\ \A i, j \in DOMAIN a : path(a[i]) = path(a[j]) => i = j
      /\ \A i, j \in DOMAIN b : path(b[i]) = path(b[j]) => i = j
  BY DEF IsInjective, Paths
<1>6. \A i \in DOMAIN a, j \in DOMAIN b : path(a[i]) # path(b[j])
  BY DEF Paths, ToSet
<1> HIDE DEF path
<1>7. ASSUME NEW i \in DOMAIN c, NEW j \in DOMAIN c, path(c[i]) = path(c[j]) PROVE i = j
  <2>1. CASE i \in DOMAIN a /\ j \in DOMAIN a
    BY <1>4, <1>5, <1>7, <2>1
  <2>2. CASE i \notin DOMAIN a /\ j \notin DOMAIN a
    <3>1. i - Len(a) = j - Len(a)
      BY <1>4, <1>5, <1>7, <2>2
    <3> QED  BY <1>1, <1>2, <3>1
  <2>3. CASE i \in DOMAIN a /\ j \notin DOMAIN a
    BY <1>4, <1>6, <1>7, <2>3
  <2>4. CASE i \notin DOMAIN a /\ j \in DOMAIN a
    BY <1>4, <1>6, <1>7, <2>4
  <2> QED  BY <2>1, <2>2, <2>3, <2>4
<1>8. IsInjective(Paths(c))
  BY <1>7 DEF IsInjective, Paths, path
<1>9. ASSUME NEW s PROVE \A x : x \in ToSet(Paths(s)) <=> \E i \in DOMAIN s : x = path(s[i])
  BY DEF ToSet, Paths, path
<1>10. \A x : x \in ToSet(Paths(c)) <=> x \in ToSet(Paths(a)) \cup ToSet(Paths(b))
  <2>1. ASSUME NEW x \in ToSet(Paths(c)) PROVE x \in ToSet(Paths(a)) \cup ToSet(Paths(b))
    BY <1>4, <1>9, <2>1
  <2>2. ASSUME NEW x \in ToSet(Paths(a)) PROVE x \in ToSet(Paths(c))
    BY <1>4, <1>9, <2>2
  <2>3. ASSUME NEW x \in ToSet(Paths(b)) PROVE x \in ToSet(Paths(c))
    BY <1>4, <1>9, <2>3
  <2> QED  BY <2>1, <2>2, <2>3
<1>11. ToSet(Paths(c)) = ToSet(Paths(a)) \cup ToSet(Paths(b))
  BY <1>10
<1> QED  BY <1>2, <1>8, <1>11 DEF c

-----------------------------------------------------------------------------
(* What is answered                                                        *)

\* What is selected are the items that fit.
LEMMA SelectedItems ==
  ASSUME NEW T, NEW items \in Seq(T), NEW q
  PROVE  /\ q.find # "assets" => \A x \in ToSet(Selected(q, items)) : x \in ToSet(items) /\ Fits(x, q)
         /\ \A x \in ToSet(Selected(q, items)) :
              \E i \in ToSet(items) : Fits(i, q) /\ ("id" \in DOMAIN i => x.id = i.id)
         /\ \A i \in ToSet(items) :
              Fits(i, q) => \E x \in ToSet(Selected(q, items)) : "id" \in DOMAIN i => x.id = i.id
         /\ items = <<>> => Selected(q, items) = <<>>
<1> DEFINE I == {k \in DOMAIN items : Fits(items[k], q)}
           kept == Picked(items, I)
           s == Selected(q, items)
<1>1. I \in SUBSET (DOMAIN items)
  OBVIOUS
<1>2. \A i \in I : Fits(items[i], q) /\ items[i] \in ToSet(items)
  BY DEF ToSet
<1>3. \A x \in ToSet(items) : Fits(x, q) => \E i \in I : x = items[i]
  BY DEF ToSet
<1>4. s = IF q.find = "assets" THEN [k \in DOMAIN kept |-> Shown(kept[k], q.q)] ELSE kept
  BY DEF Selected
<1>5. items = <<>> => I = {}
  OBVIOUS
<1> HIDE DEF I, s
<1>6. /\ kept \in Seq(T)
      /\ \A x \in ToSet(kept) : \E i \in I : x = items[i]
      /\ \A i \in I : items[i] \in ToSet(kept)
      /\ I = {} => kept = <<>>
  BY <1>1, Kept
<1> HIDE DEF kept
<1>7. \A x \in ToSet(kept) : x \in ToSet(items) /\ Fits(x, q)
  BY <1>2, <1>6
<1>8. \A i \in ToSet(items) : Fits(i, q) => i \in ToSet(kept)
  BY <1>3, <1>6
<1>9. CASE q.find # "assets"
  <2>1. s = kept
    BY <1>4, <1>9
  <2> QED  BY <2>1, <1>5, <1>6, <1>7, <1>8, <1>9 DEF s
<1>10. CASE q.find = "assets"
  <2>1. s = [k \in DOMAIN kept |-> Shown(kept[k], q.q)]
    BY <1>4, <1>10
  <2>2. ASSUME NEW i PROVE "id" \in DOMAIN i => Shown(i, q.q).id = i.id
    BY DEF Shown
  <2>3. \A k \in DOMAIN s : k \in DOMAIN kept /\ s[k] = Shown(kept[k], q.q)
    BY <2>1
  <2>4. \A k \in DOMAIN kept : k \in DOMAIN s
    BY <2>1
  <2>5. ASSUME NEW x \in ToSet(s)
        PROVE  \E i \in ToSet(items) : Fits(i, q) /\ ("id" \in DOMAIN i => x.id = i.id)
    <3>1. PICK k \in DOMAIN kept : x = Shown(kept[k], q.q)
      BY <2>3 DEF ToSet
    <3>2. kept[k] \in ToSet(kept)
      BY DEF ToSet
    <3> QED  BY <1>7, <2>2, <3>1, <3>2
  <2>6. ASSUME NEW i \in ToSet(items), Fits(i, q)
        PROVE  \E x \in ToSet(s) : "id" \in DOMAIN i => x.id = i.id
    <3>1. PICK k \in DOMAIN kept : kept[k] = i
      BY <1>8, <2>6 DEF ToSet
    <3>2. s[k] \in ToSet(s) /\ s[k] = Shown(i, q.q)
      BY <2>3, <2>4, <3>1 DEF ToSet
    <3> QED  BY <2>2, <3>2
  <2>7. items = <<>> => s = <<>>
    <3>1. ASSUME items = <<>> PROVE kept = <<>>
      BY <1>5, <1>6, <3>1
    <3>2. kept = <<>> => s = <<>>
      BY <2>1
    <3> QED  BY <3>1, <3>2
  <2> QED  BY <2>5, <2>6, <2>7, <1>10 DEF s
<1> QED  BY <1>9, <1>10

-----------------------------------------------------------------------------
(* What a step leaves alone                                               *)

\* What the invariant takes for granted of the site and the request.
LEMMA Typical ==
  ASSUME site \in Sites, query \in Queries
  PROVE  /\ WellformedSite(site)
         /\ query.limit \in Nat \ {0} /\ query.collections \in Seq(ToSet(query.collections))
         /\ query.find \in {"items", "scientific", "assets", "properties", "collections", "catalogs", "mine"}
         /\ site.collections \in Seq(ToSet(site.collections)) /\ site.items \in Seq(ToSet(site.items))
BY FindAssumption DEF WellformedSite

\* What depends on the API and the request alone.
LEMMA Unaffected ==
  ASSUME site' = site, query' = query
  PROVE  /\ Resolvable' = Resolvable /\ Scannable' = Scannable /\ Wanted' = Wanted
         /\ Meaning(query.collections)' = Meaning(query.collections)
         /\ MeantItems' = MeantItems
         /\ Search(query.collections, query.limit, 1, {})' = Search(query.collections, query.limit, 1, {})
         /\ PageOf(MeantItems, 1, query.limit)' = PageOf(MeantItems, 1, query.limit)
         /\ \A hint : Named(hint)' = Named(hint)
<1>1. Resolvable' = Resolvable /\ Scannable' = Scannable
  BY DEF Resolvable, Scannable, Listable, PageCount
<1>2. \A hint : Named(hint)' = Named(hint)
  BY DEF Named
<1>3. Meaning(query.collections)' = Meaning(query.collections)
  BY DEF Meaning, Names, Named
<1>4. Wanted' = Wanted
  BY DEF Wanted, AskedFor, Meaning, Names, Named
<1>5. MeantItems' = MeantItems
  BY DEF MeantItems, Meaning, Names, Named
<1>6. PageOf(MeantItems, 1, query.limit)' = PageOf(MeantItems, 1, query.limit)
  BY <1>5 DEF PageOf
<1>7. Search(query.collections, query.limit, 1, {})' = Search(query.collections, query.limit, 1, {})
  BY DEF Search, PageOf, Offered, Known, Names
<1> QED  BY <1>1, <1>2, <1>3, <1>4, <1>5, <1>6, <1>7

\* What is found does not change once it is answered.
LEMMA CompleteStays ==
  ASSUME FindIsComplete, UNCHANGED <<site, query, answer, catalogs, failed>>
  PROVE  FindIsComplete'
<1>1. /\ Resolvable' = Resolvable /\ Scannable' = Scannable /\ Wanted' = Wanted
      /\ Search(query.collections, query.limit, 1, {})' = Search(query.collections, query.limit, 1, {})
      /\ PageOf(MeantItems, 1, query.limit)' = PageOf(MeantItems, 1, query.limit)
  BY Unaffected
<1>2. WalkIsComplete'
  BY DEF FindIsComplete, WalkIsComplete, Found
<1>3. ScanIsComplete'
  BY <1>1 DEF FindIsComplete, ScanIsComplete, Found
<1>4. NoFalseEmpty'
  BY <1>1 DEF FindIsComplete, NoFalseEmpty, Found
<1>5. ScientificMatches'
  BY DEF FindIsComplete, ScientificMatches, Found
<1> QED  BY <1>2, <1>3, <1>4, <1>5 DEF FindIsComplete

\* As long as nothing is answered, nothing is missing.
LEMMA CompleteYet ==
  /\ answer.status # 200 => FindIsComplete
  /\ answer'.status # 200 => FindIsComplete'
BY DEF FindIsComplete, WalkIsComplete, ScanIsComplete, NoFalseEmpty, ScientificMatches, Found

\* The names and the pages do not change unless they are worked on.
LEMMA ChainStays ==
  ASSUME HintsInv, PagesInv, ExactInv, PhaseInv,
         UNCHANGED <<site, query, phase, listing, chain>>
  PROVE  HintsInv' /\ PagesInv' /\ ExactInv' /\ PhaseInv'
<1>1. UNCHANGED <<page, turn, got, hints, resolved, unknown>>
  BY DEF listing, chain
<1>2. /\ Resolvable' = Resolvable
      /\ Meaning(query.collections)' = Meaning(query.collections)
      /\ Search(query.collections, query.limit, 1, {})' = Search(query.collections, query.limit, 1, {})
      /\ \A hint : Named(hint)' = Named(hint)
  BY Unaffected
<1>3. PhaseInv'
  BY DEF PhaseInv
<1>4. ExactInv'
  BY <1>1, <1>2 DEF ExactInv
<1>5. PagesInv'
  <2>1. Offered(resolved, {})' = Offered(resolved, {})
    BY <1>1 DEF Offered, Known, Names
  <2> QED  BY <1>1, <2>1 DEF PagesInv, ListedOf
<1>6. HintsInv'
  <2>1. Known(resolved)' = Known(resolved) /\ Names(site.collections)' = Names(site.collections)
    BY <1>1 DEF Known, Names
  <2>2. ResolvedOf => ResolvedOf'
    BY <1>1, <1>2, <2>1 DEF ResolvedOf
  <2> QED  BY <1>1, <2>2 DEF HintsInv
<1> QED  BY <1>3, <1>4, <1>5, <1>6

\* Nor does the walk.
LEMMA WalkStays ==
  ASSUME LevelInv, phase # "done", UNCHANGED <<site, walk>>
  PROVE  LevelInv'
<1>1. UNCHANGED <<level, frontier, flying, results, seen, catalogs, failed>>
  BY DEF walk
<1>2. Walked => Walked'
  BY <1>1 DEF Walked, Before
<1>3. ResultsInv => ResultsInv'
  BY <1>1 DEF ResultsInv
<1> QED  BY <1>1, <1>2, <1>3 DEF LevelInv, Fatal

\* A request that has ended has nothing left to do.
LEMMA EndKeeps ==
  ASSUME phase' = "done"
  PROVE  HintsInv' /\ PagesInv' /\ ExactInv' /\ PhaseInv' /\ LevelInv'
BY DEF HintsInv, PagesInv, ExactInv, PhaseInv, LevelInv

-----------------------------------------------------------------------------
(* Names and what they stand for                                          *)

\* What a name is resolved to is what it stands for.
LEMMA MeantIsNamed ==
  ASSUME WellformedSite(site), got \in Seq(ToSet(site.collections)), NEW hint
  PROVE  /\ Meant(hint) \in Seq(Names(site.collections) \cup {hint}) /\ Meant(hint) # <<>>
         /\ \A c \in ToSet(Meant(hint)) : c \in Names(site.collections) => c \in Named(hint)
         /\ ToSet(got) = ToSet(site.collections) =>
              \A c \in Named(hint) : c \in Names(site.collections) => c \in ToSet(Meant(hint))
<1> DEFINE I == {k \in DOMAIN got : Matches(hint, got[k].words)}
           l == Listed(hint)
           matching == {c \in ToSet(site.collections) : Matches(hint, c.words)}
<1>1. /\ l \in Seq(ToSet(site.collections))
      /\ \A x \in ToSet(l) : \E i \in I : x = got[i]
      /\ \A i \in I : got[i] \in ToSet(l)
  <2>1. I \in SUBSET (DOMAIN got) /\ l = Picked(got, I)
    BY DEF Listed
  <2> HIDE DEF I, l
  <2> QED  BY <2>1, Kept
<1>2. \A x \in ToSet(l) : x \in matching /\ x \in ToSet(got)
  <2>1. \A i \in I : got[i] \in matching /\ got[i] \in ToSet(got)
    BY DEF ToSet
  <2> HIDE DEF I, matching, l
  <2> QED  BY <1>1, <2>1
<1>3. \A x \in ToSet(got) : Matches(hint, x.words) => x \in ToSet(l)
  <2>1. \A x \in ToSet(got) : Matches(hint, x.words) => \E i \in I : x = got[i]
    BY DEF ToSet
  <2> HIDE DEF I, l
  <2> QED  BY <1>1, <2>1
<1>4. Named(hint) = IF matching = {} THEN {hint} ELSE {c.id : c \in matching}
  BY DEF Named
<1>5. \A c \in ToSet(site.collections) : c.id \in c.words /\ c.id \in Names(site.collections)
  BY DEF WellformedSite, Names, ToSet
<1>6. \A n \in Names(site.collections) : \E c \in ToSet(site.collections) : c.id = n
  BY DEF Names, ToSet
<1> HIDE DEF I, l
<1>7. l = <<>> => ToSet(l) = {}
  BY DEF ToSet
<1>8. l # <<>> => \E x : x \in ToSet(l)
  <2>1. l # <<>> => 1 \in DOMAIN l
    BY <1>1
  <2> QED  BY <2>1 DEF ToSet
<1>9. CASE l = <<>>
  <2>1. Meant(hint) = <<hint>>
    BY <1>9 DEF Meant, l
  <2>2. ToSet(<<hint>>) = {hint}
    BY DEF ToSet
  <2>3. hint \in Names(site.collections) => hint \in Named(hint)
    <3>1. SUFFICES ASSUME hint \in Names(site.collections) PROVE hint \in Named(hint)
      OBVIOUS
    <3>2. PICK c \in ToSet(site.collections) : c.id = hint
      BY <1>6, <3>1
    <3>3. c \in matching
      BY <1>5, <3>2 DEF Matches
    <3>4. hint \in {x.id : x \in matching} /\ matching # {}
      BY <3>2, <3>3
    <3> QED  BY <1>4, <3>4
  <2>4. ToSet(got) = ToSet(site.collections) => matching = {}
    BY <1>3, <1>7, <1>9
  <2>5. matching = {} => Named(hint) = {hint}
    BY <1>4
  <2> QED  BY <2>1, <2>2, <2>3, <2>4, <2>5
<1>10. CASE l # <<>>
  <2>1. Meant(hint) = Ids(l)
    BY <1>10 DEF Meant, l
  <2>2. Ids(l) = [i \in DOMAIN l |-> l[i].id]
    BY DEF Ids
  <2>3. PICK x : x \in ToSet(l)
    BY <1>8, <1>10
  <2>4. matching # {} /\ Named(hint) = {c.id : c \in matching}
    BY <1>2, <1>4, <2>3
  <2>5. \A i \in DOMAIN l : l[i] \in ToSet(l) /\ l[i] \in ToSet(site.collections)
    BY <1>1 DEF ToSet
  <2>6. Ids(l) \in Seq(Names(site.collections))
    <3>1. DOMAIN l = 1 .. Len(l) /\ Len(l) \in Nat
      BY <1>1
    <3>2. \A i \in 1 .. Len(l) : l[i].id \in Names(site.collections)
      BY <1>5, <2>5, <3>1
    <3> QED  BY <2>2, <3>1, <3>2
  <2>7. Ids(l) # <<>>
    <3>1. DOMAIN Ids(l) = DOMAIN l /\ DOMAIN l # {}
      BY <2>2, <2>3 DEF ToSet
    <3> QED  BY <3>1
  <2>8. \A c \in ToSet(Ids(l)) : \E i \in DOMAIN l : c = l[i].id
    BY <2>2 DEF ToSet
  <2>9. \A c \in ToSet(Ids(l)) : c \in Named(hint)
    BY <1>2, <2>4, <2>5, <2>8
  <2>10. ASSUME ToSet(got) = ToSet(site.collections), NEW c \in Named(hint) PROVE c \in ToSet(Ids(l))
    <3>1. PICK d \in matching : c = d.id
      BY <2>4
    <3>2. d \in ToSet(l)
      BY <1>3, <2>10
    <3>3. PICK i \in DOMAIN l : l[i] = d
      BY <3>2 DEF ToSet
    <3>4. Ids(l)[i] = c /\ i \in DOMAIN Ids(l)
      BY <2>2, <3>1, <3>3
    <3> QED  BY <3>4 DEF ToSet
  <2>11. Ids(l) \in Seq(Names(site.collections) \cup {hint})
    BY <2>6
  <2> QED  BY <2>1, <2>7, <2>9, <2>10, <2>11
<1> QED  BY <1>9, <1>10

\* A name more is resolved.
LEMMA ResolvesOn ==
  ASSUME FindInv, EndResolve
  PROVE  /\ ResolvedOf' /\ resolved' # <<>>
         /\ Len(hints) > 1 => hints' # <<>>
         /\ ~(Len(hints) > 1) => hints' = <<>>
<1> DEFINE names == query.collections
           h == Head(hints)
           m == Meant(h)
           Given == Names(site.collections)
<1>1. /\ phase = "resolve" /\ ~Turning /\ hints' = Tail(hints) /\ resolved' = Distinct(resolved \o m)
      /\ UNCHANGED <<site, query>>
  BY DEF EndResolve
<1>2. /\ WellformedSite(site) /\ query.limit \in Nat \ {0}
      /\ site.collections \in Seq(ToSet(site.collections))
      /\ ResolvedOf /\ names # <<>> /\ hints # <<>> /\ ListedOf(site.collections, ResolveLimit) /\ turn \in 0 .. MaxPages
  BY <1>1, Typical DEF FindInv, HintsInv, PagesInv, FindTypeOK
<1>3. hints \in Seq(ToSet(names)) /\ resolved \in Seq(Given \cup ToSet(names))
  BY <1>2 DEF ResolvedOf
<1>4. /\ Tail(hints) \in Seq(ToSet(names)) /\ h \in ToSet(names)
      /\ ToSet(hints) = {h} \cup ToSet(Tail(hints))
      /\ Len(hints) > 1 => Tail(hints) # <<>>
      /\ ~(Len(hints) > 1) => Tail(hints) = <<>>
  <2>1. DOMAIN hints = 1 .. Len(hints) /\ Len(hints) \in Nat /\ Len(hints) # 0
    BY <1>2, <1>3
  <2>2. /\ Tail(hints) \in Seq(ToSet(names)) /\ Len(Tail(hints)) = Len(hints) - 1
        /\ \A i \in 1 .. Len(hints) - 1 : Tail(hints)[i] = hints[i + 1]
        /\ h = hints[1]
    BY <1>2, <1>3
  <2>3. DOMAIN Tail(hints) = 1 .. Len(hints) - 1
    BY <2>2
  <2>4. h \in ToSet(hints) /\ h \in ToSet(names)
    BY <1>3, <2>1, <2>2 DEF ToSet
  <2>5. ASSUME NEW x \in ToSet(Tail(hints)) PROVE x \in ToSet(hints)
    <3>1. PICK i \in 1 .. Len(hints) - 1 : x = Tail(hints)[i]
      BY <2>3 DEF ToSet
    <3>2. i + 1 \in DOMAIN hints /\ hints[i + 1] = x
      BY <2>1, <2>2, <3>1
    <3> QED  BY <3>2 DEF ToSet
  <2>6. ASSUME NEW x \in ToSet(hints), x # h PROVE x \in ToSet(Tail(hints))
    <3>1. PICK i \in DOMAIN hints : x = hints[i]
      BY DEF ToSet
    <3>2. i - 1 \in 1 .. Len(hints) - 1 /\ Tail(hints)[i - 1] = hints[i]
      <4>1. i # 1
        BY <2>2, <2>6, <3>1
      <4>2. i - 1 \in 1 .. Len(hints) - 1 /\ (i - 1) + 1 = i
        BY <2>1, <4>1
      <4> QED  BY <2>2, <4>2
    <3> QED  BY <2>3, <3>1, <3>2 DEF ToSet
  <2>7. Len(hints) > 1 => Tail(hints) # <<>>
    BY <2>1, <2>2
  <2>8. ~(Len(hints) > 1) => Tail(hints) = <<>>
    BY <2>1, <2>2
  <2> QED  BY <2>2, <2>4, <2>5, <2>6, <2>7, <2>8
<1>5. /\ m \in Seq(Given \cup {h}) /\ m # <<>>
      /\ \A c \in ToSet(m) : c \in Given => c \in Named(h)
      /\ ToSet(got) = ToSet(site.collections) => \A c \in Named(h) : c \in Given => c \in ToSet(m)
  <2>1. got \in Seq(ToSet(site.collections))
    BY <1>2 DEF ListedOf
  <2> QED  BY <1>2, <2>1, MeantIsNamed
<1> HIDE DEF h, m
<1>6. resolved' \in Seq(Given \cup ToSet(names)) /\ ToSet(resolved') = ToSet(resolved) \cup ToSet(m)
  <2>1. m \in Seq(Given \cup ToSet(names))
    <3>1. Given \cup {h} \subseteq Given \cup ToSet(names)
      BY <1>4
    <3> QED  BY <1>5, <3>1
  <2>2. resolved \o m \in Seq(Given \cup ToSet(names)) /\ ToSet(resolved \o m) = ToSet(resolved) \cup ToSet(m)
    BY <1>3, <2>1, Appended
  <2> QED  BY <1>1, <2>2, DistinctMembers DEF m
<1>7. resolved' # <<>>
  <2>1. 1 \in DOMAIN m
    BY <1>5
  <2>2. m[1] \in ToSet(resolved')
    BY <1>6, <2>1 DEF ToSet
  <2> QED  BY <2>2 DEF ToSet
<1>8. Resolvable => ToSet(got) = ToSet(site.collections)
  <2>1. SUFFICES ASSUME Resolvable PROVE ToSet(got) = ToSet(site.collections)
    OBVIOUS
  <2>2. Len(site.collections) \in Nat
    BY <1>2
  <2>3. Listable(Len(site.collections), ResolveLimit)
    BY <1>2, <2>1 DEF Resolvable
  <2>4. ResolveLimit \in Nat \ {0}
    BY FindAssumption
  <2>5. Len(site.collections) <= MaxPages * ResolveLimit /\ ~site.loops
    BY <2>2, <2>3, <2>4, FullPages DEF Listable
  <2> QED  BY <1>1, <1>2, <2>4, <2>5, ListingEnds
<1>9. \A x \in ToSet(names), c \in Given : c \in Named(x) => c \in Meaning(names)
  BY DEF Meaning
<1>10. Known(resolved)' \subseteq Meaning(names)
  <2>1. SUFFICES ASSUME NEW c \in ToSet(resolved'), c \in Given PROVE c \in Meaning(names)
    BY <1>1 DEF Known
  <2>2. c \in ToSet(resolved) => c \in Known(resolved)
    BY <2>1 DEF Known
  <2> QED  BY <1>2, <1>4, <1>5, <1>6, <1>9, <2>1, <2>2 DEF ResolvedOf
<1>11. ASSUME Resolvable, NEW c \in Meaning(names)
       PROVE  c \in ToSet(resolved') \cap Given \/ \E x \in ToSet(Tail(hints)) : c \in Named(x)
  <2>0. c \in Given
    BY DEF Meaning
  <2>1. c \in Known(resolved) \/ \E x \in ToSet(hints) : c \in Named(x)
    BY <1>2, <1>11 DEF ResolvedOf
  <2>2. CASE c \in Known(resolved)
    BY <1>6, <2>0, <2>2 DEF Known
  <2>3. CASE \E x \in ToSet(hints) : c \in Named(x)
    BY <1>4, <1>5, <1>6, <1>8, <1>11, <2>0, <2>3
  <2> QED  BY <2>1, <2>2, <2>3
<1>12. /\ Resolvable' = Resolvable /\ Meaning(names)' = Meaning(names) /\ \A hint : Named(hint)' = Named(hint)
       /\ Known(resolved)' = ToSet(resolved') \cap Given
  BY <1>1, Unaffected DEF Known
<1>13. ResolvedOf'
  BY <1>1, <1>2, <1>4, <1>6, <1>7, <1>10, <1>11, <1>12 DEF ResolvedOf
<1> QED  BY <1>1, <1>4, <1>7, <1>13

\* What is offered for the resolved names are the items that are meant.
LEMMA OfferedIsMeant ==
  ASSUME WellformedSite(site), NEW within,
         \/ within = <<>> /\ query.collections = <<>>
         \/ within # <<>> /\ query.collections # <<>> /\ Known(within) = Meaning(query.collections)
  PROVE  Offered(within, {}) = MeantItems
<1> DEFINE I == {k \in DOMAIN site.items :
                   /\ within = <<>> \/ site.items[k].collection \in Known(within)
                   /\ {} \subseteq site.items[k].cited}
           J == {k \in DOMAIN site.items : site.items[k].collection \in Meaning(query.collections)}
<1>1. \A k \in DOMAIN site.items : site.items[k].collection \in Names(site.collections)
  BY DEF WellformedSite, ToSet
<1>2. query.collections = <<>> => Meaning(query.collections) = Names(site.collections)
  BY DEF Meaning
<1>3. I = J
  BY <1>1, <1>2
<1>4. Offered(within, {}) = Picked(site.items, I) /\ MeantItems = Picked(site.items, J)
  BY DEF Offered, MeantItems
<1> QED  BY <1>3, <1>4

-----------------------------------------------------------------------------
(* Answers                                                                *)

\* What a GET may end with.
LEMMA OutcomeIs ==
  ASSUME faults \in 0 .. MaxFaults, NEW proper, NEW outcome \in Outcomes(proper), Charge(outcome, proper)
  PROVE  /\ faults' \in 0 .. MaxFaults
         /\ \/ outcome = proper
            \/ outcome.status \in {Text, Unavailable, 500} /\ outcome.list = <<>>
<1>1. MaxFaults \in Nat
  BY FindAssumption
<1>2. outcome = proper \/ (faults < MaxFaults /\ outcome \in {Refusal(Text), Refusal(Unavailable), Refusal(500)})
  BY DEF Outcomes
<1>3. faults' \in 0 .. MaxFaults
  BY <1>1, <1>2 DEF Charge
<1>4. ASSUME NEW s PROVE Refusal(s).status = s /\ Refusal(s).list = <<>>
  BY DEF Refusal
<1> QED  BY <1>2, <1>3, <1>4

\* An answer ends the request.
LEMMA Answers ==
  ASSUME FindInv, UNCHANGED <<site, query>>, turn' = turn \/ turn' = 0,
         phase' = "done", answer'.status \in {200, 400, 404, 500, 502},
         faults' \in 0 .. MaxFaults, answer'.status = 200 => FindIsComplete',
         level' = level, Cardinality(flying') <= MaxFetches,
         flying' \subseteq DOMAIN results', DOMAIN results' \subseteq DOMAIN frontier'
  PROVE  FindInv'
<1>1. turn' \in 0 .. MaxPages /\ level' \in 1 .. MaxDepth
  BY FindAssumption DEF FindInv, FindTypeOK
<1>2. answer'.status # Unset
  BY FindAssumption
<1>3. FindTypeOK' /\ FlightInv'
  BY <1>1, <1>2 DEF FindTypeOK, FlightInv, Phases
<1>4. FindIsComplete'
  BY CompleteYet
<1> QED  BY <1>3, <1>4, EndKeeps DEF FindInv

\* So it does when no walk is under way.
LEMMA Ends ==
  ASSUME FindInv, phase \notin {"done", "walk"}, UNCHANGED <<site, query, walk>>, turn' = turn \/ turn' = 0,
         phase' = "done", answer'.status \in {200, 400, 404, 500, 502},
         faults' \in 0 .. MaxFaults, answer'.status = 200 => FindIsComplete'
  PROVE  FindInv'
<1>1. UNCHANGED <<level, frontier, flying, results>>
  BY DEF walk
<1> QED  BY <1>1, Answers DEF FindInv, FindTypeOK, FlightInv

\* An answer that reports an error finds nothing.
LEMMA Raises ==
  ASSUME FindInv, phase \notin {"done", "walk"}, UNCHANGED <<site, query, listing, walk>>,
         faults' \in 0 .. MaxFaults,
         NEW outcome, outcome.status \in {Text, Unavailable, 400, 404, 500}, Raise(outcome)
  PROVE  FindInv'
<1>1. phase' = "done" /\ answer'.status \in {400, 404, 500, 502}
  BY DEF Raise, Respond, Text, Unavailable
<1> QED  BY <1>1, Ends DEF listing

\* A request goes on to its next call.
LEMMA Goes ==
  ASSUME FindInv, phase \notin {"done", "walk"}, UNCHANGED <<site, query, answer, walk>>,
         phase' \in Phases \ {"done"}, turn' \in 0 .. MaxPages, faults' \in 0 .. MaxFaults,
         phase' = "resolve" => hints' # <<>>,
         PhaseInv', HintsInv', PagesInv', ExactInv'
  PROVE  FindInv'
<1>1. UNCHANGED <<level, frontier, flying, results, seen, catalogs, failed>>
  BY DEF walk
<1>2. answer.status = Unset
  BY DEF FindInv, FindTypeOK
<1>3. FindTypeOK' /\ FlightInv'
  BY <1>1, <1>2 DEF FindInv, FindTypeOK, FlightInv
<1>4. answer'.status # 200
  BY <1>2, FindAssumption
<1>5. FindIsComplete'
  BY <1>4, CompleteYet
<1>6. LevelInv'
  BY WalkStays DEF FindInv
<1> QED  BY <1>3, <1>5, <1>6 DEF FindInv

-----------------------------------------------------------------------------
(* The chain of calls                                                      *)

\* The route makes its first call.
LEMMA StartStep == FindInv /\ Start => FindInv'
<1> SUFFICES ASSUME FindInv, Start PROVE FindInv'
  OBVIOUS
<1> DEFINE names == query.collections
<1>1. /\ phase = "start" /\ hints' = names
      /\ UNCHANGED <<site, query, page, turn, got, resolved, unknown, walk, faults, answer>>
  BY DEF Start, Ask, listing
<1>2. \/ phase' = "exact" /\ query.find = "items"
      \/ phase' = "filter" /\ query.find = "scientific"
      \/ phase' = "resolve" /\ query.find \in {"assets", "properties"} /\ names # <<>>
      \/ phase' = "scan" /\ query.find \in {"assets", "properties"} /\ names = <<>>
      \/ phase' = "list" /\ query.find = "collections"
      \/ phase' = "walk" /\ query.find = "catalogs"
      \/ phase' = "mine" /\ query.find = "mine"
  BY Typical DEF Start, Ask, FindInv
<1>3. page = 1 /\ turn = 0 /\ got = <<>> /\ resolved = <<>>
  BY <1>1 DEF FindInv, PagesInv, HintsInv
<1>4. /\ names \in Seq(ToSet(names)) /\ query.limit \in Nat \ {0}
      /\ site.collections \in Seq(ToSet(site.collections))
      /\ Offered(resolved, {}) \in Seq(ToSet(site.items))
  BY Typical, OfferedItems DEF FindInv
<1>5. PhaseInv'
  BY <1>1, <1>2 DEF PhaseInv
<1>6. ResolvedOf'
  <2>1. Known(resolved)' = {}
    BY <1>1, <1>3 DEF Known, ToSet
  <2>2. resolved' \in Seq(Names(site'.collections) \cup ToSet(query'.collections))
    BY <1>1, <1>3
  <2>3. \A c \in Meaning(query.collections)' :
          query'.collections = <<>> \/ \E h \in ToSet(hints') : c \in Named(h)'
    BY <1>1 DEF Meaning
  <2> QED  BY <1>1, <1>3, <1>4, <2>1, <2>2, <2>3 DEF ResolvedOf
<1>7. HintsInv'
  BY <1>1, <1>2, <1>3, <1>6 DEF HintsInv
<1>8. PagesInv'
  <2>1. page' = 1 /\ turn' = 0 /\ got' = <<>> /\ query'.limit \in Nat \ {0}
    BY <1>1, <1>3, <1>4
  <2>2. ListedOf(site.collections, query.limit)' /\ ListedOf(site.collections, ResolveLimit)'
    BY <1>1, <1>4, <2>1, ListingBegins, FindAssumption DEF ListedOf
  <2>3. ListedOf(Offered(resolved, {}), query.limit)'
    <3>1. Offered(resolved, {})' = Offered(resolved, {})
      BY <1>1 DEF Offered, Known, Names
    <3> QED  BY <1>4, <2>1, <3>1, ListingBegins DEF ListedOf
  <2> QED  BY <1>2, <2>1, <2>2, <2>3 DEF PagesInv
<1>9. ExactInv'
  BY <1>1, <1>2 DEF ExactInv
<1>10. phase' \in Phases \ {"done"} /\ turn' \in 0 .. MaxPages /\ faults' \in 0 .. MaxFaults
  BY <1>1, <1>2 DEF FindInv, FindTypeOK, Phases
<1> QED  BY <1>1, <1>2, <1>5, <1>7, <1>8, <1>9, <1>10, Goes

\* The search by exact ids.
LEMMA ExactStep == FindInv /\ Exact => FindInv'
<1> SUFFICES ASSUME FindInv, Exact PROVE FindInv'
  OBVIOUS
<1> DEFINE proper == Search(query.collections, query.limit, 1, {})
           features(o) == Narrowed(query, o.list)
<1>1. PICK outcome \in Outcomes(proper) :
        /\ Charge(outcome, proper)
        /\ CASE /\ outcome.status \in {200, 404} /\ features(outcome) = <<>>
                /\ query.collections # <<>> ->
                  /\ Ask("resolve") /\ BeginListing
                  /\ unknown' = (outcome.status = 404)
             [] outcome.status = 200 /\ (features(outcome) # <<>> \/ query.collections = <<>>) ->
                  Respond(200, Selected(query, outcome.list)) /\ UNCHANGED <<listing, unknown>>
             [] outcome.status # 200 /\ (outcome.status # 404 \/ query.collections = <<>>) ->
                  Raise(outcome) /\ UNCHANGED <<listing, unknown>>
  BY DEF Exact
<1>2. /\ phase = "exact" /\ UNCHANGED <<site, query, hints, resolved, walk>>
  BY DEF Exact
<1>3. /\ WellformedSite(site) /\ query.limit \in Nat \ {0} /\ faults \in 0 .. MaxFaults
      /\ query.find \in {"items", "scientific"} /\ ResolvedOf /\ hints = query.collections
      /\ turn \in 0 .. MaxPages
  BY <1>2, Typical DEF FindInv, FindTypeOK, PhaseInv, HintsInv
<1>4. /\ faults' \in 0 .. MaxFaults
      /\ \/ outcome = proper
         \/ outcome.status \in {Text, Unavailable, 500} /\ outcome.list = <<>>
  <2> HIDE DEF proper
  <2> QED  BY <1>1, <1>3, OutcomeIs
<1>5. /\ proper.status \in {200, 404} /\ proper.list \in Seq(ToSet(site.items))
      /\ proper.status = 200 => proper = PageOf(Offered(query.collections, {}), 1, query.limit)
      /\ proper.status = 404 => proper.list = <<>> /\ query.collections # <<>>
  <2>1. 1 \in Nat /\ query.limit \in Nat
    BY <1>3
  <2> QED  BY <1>3, <2>1, SearchReturns
<1> HIDE DEF proper
<1>6. /\ outcome.status \in {200, 404, Text, Unavailable, 500} /\ outcome.list \in Seq(ToSet(site.items))
      /\ outcome.status \in {200, 404} => outcome = proper
  <2>1. CASE outcome = proper
    BY <1>5, <2>1
  <2>2. CASE outcome.status \in {Text, Unavailable, 500} /\ outcome.list = <<>>
    <3>1. Text # 200 /\ Text # 404 /\ Unavailable # 200 /\ Unavailable # 404
      BY DEF Text, Unavailable
    <3> QED  BY <2>2, <3>1
  <2> QED  BY <1>4, <2>1, <2>2
<1>7. CASE outcome.status \in {200, 404} /\ features(outcome) = <<>> /\ query.collections # <<>>
  <2>1. /\ phase' = "resolve" /\ UNCHANGED answer /\ page' = 1 /\ turn' = 0 /\ got' = <<>>
        /\ unknown' = (outcome.status = 404)
    BY <1>1, <1>7 DEF Ask, BeginListing
  <2>2. PhaseInv'
    BY <1>2, <1>3, <2>1 DEF PhaseInv
  <2>3. ResolvedOf'
    <3>1. Known(resolved)' = Known(resolved) /\ Names(site.collections)' = Names(site.collections)
      BY <1>2 DEF Known, Names
    <3> QED  BY <1>2, <1>3, <3>1, Unaffected DEF ResolvedOf
  <2>4. HintsInv'
    BY <1>2, <1>7, <2>1, <2>3 DEF HintsInv
  <2>5. PagesInv'
    <3>1. site.collections \in Seq(ToSet(site.collections)) /\ query'.limit \in Nat \ {0}
      BY <1>2, <1>3 DEF WellformedSite
    <3>2. ListedOf(site.collections, ResolveLimit)'
      BY <1>2, <2>1, <3>1, ListingBegins, FindAssumption DEF ListedOf
    <3> QED  BY <2>1, <3>2 DEF PagesInv
  <2>6. ExactInv'
    <3>1. query.find = "items" => Selected(query, proper.list) = <<>>
      BY <1>6, <1>7 DEF Narrowed
    <3>2. ~unknown' => proper.status = 200
      <4>1. ~unknown' => outcome.status # 404
        BY <2>1
      <4> QED  BY <1>6, <1>7, <4>1
    <3>3. Search(query.collections, query.limit, 1, {})' = proper
      BY <1>2, Unaffected DEF proper
    <3> QED  BY <1>2, <2>1, <3>1, <3>2, <3>3 DEF ExactInv
  <2>7. turn' \in 0 .. MaxPages /\ phase' \in Phases \ {"done"} /\ phase # "done" /\ hints' # <<>>
    BY <1>2, <1>3, <1>7, <2>1, FindAssumption DEF Phases
  <2> QED  BY <1>2, <1>4, <2>1, <2>2, <2>4, <2>5, <2>6, <2>7, Goes
<1>8. CASE outcome.status = 200 /\ (features(outcome) # <<>> \/ query.collections = <<>>)
  <2>1. Respond(200, Selected(query, outcome.list)) /\ UNCHANGED <<listing, unknown>>
    BY <1>1, <1>8
  <2>2. phase' = "done" /\ answer'.status = 200 /\ answer'.found = Selected(query, outcome.list)
    BY <2>1 DEF Respond
  <2>3. WalkIsComplete' /\ ScanIsComplete'
    BY <1>2, <1>3 DEF WalkIsComplete, ScanIsComplete, Found
  <2>4. NoFalseEmpty'
    <3>1. SUFFICES ASSUME query.find = "items", Selected(query, outcome.list) = <<>>
                   PROVE  /\ Selected(query, proper.list) = <<>>
                          /\ Selected(query, PageOf(MeantItems, 1, query.limit).list) = <<>>
      BY <1>2, <2>2, Unaffected DEF NoFalseEmpty, Found, proper
    <3>2. query.collections = <<>>
      BY <1>8, <3>1 DEF Narrowed
    <3>3. outcome = proper /\ proper = PageOf(Offered(query.collections, {}), 1, query.limit)
      BY <1>5, <1>6, <1>8
    <3>4. Offered(query.collections, {}) = MeantItems
      BY <1>3, <3>2, OfferedIsMeant
    <3> QED  BY <3>1, <3>3, <3>4
  <2>5. ScientificMatches'
    <3>1. SUFFICES ASSUME query.find = "scientific"
                   PROVE  \A i \in ToSet(Selected(query, outcome.list)) : IsScientific(i, query)
      BY <1>2, <2>2 DEF ScientificMatches, Found
    <3>2. \A x \in ToSet(Selected(query, outcome.list)) : Fits(x, query)
      BY <1>6, <3>1, SelectedItems
    <3> QED  BY <3>1, <3>2 DEF Fits
  <2>6. FindIsComplete'
    BY <2>3, <2>4, <2>5 DEF FindIsComplete
  <2> QED  BY <1>2, <1>4, <2>1, <2>2, <2>6, Ends DEF listing
<1>9. CASE outcome.status # 200 /\ (outcome.status # 404 \/ query.collections = <<>>)
  <2>1. Raise(outcome) /\ UNCHANGED <<listing, unknown>>
    BY <1>1, <1>6, <1>9
  <2> QED  BY <1>2, <1>4, <1>6, <1>9, <2>1, Raises
<1>10. outcome.status = 404 => features(outcome) = <<>>
  BY <1>5, <1>6, SelectedItems DEF Narrowed
<1> QED  BY <1>6, <1>7, <1>8, <1>9, <1>10

\* What the names were resolved to does not change between two calls.
LEMMA ResolvedStays ==
  ASSUME ResolvedOf, UNCHANGED <<site, query, hints, resolved>>
  PROVE  ResolvedOf'
<1>1. Known(resolved)' = Known(resolved) /\ Names(site.collections)' = Names(site.collections)
  BY DEF Known, Names
<1> QED  BY <1>1, Unaffected DEF ResolvedOf

\* The search with a filter.
LEMMA FilterStep == FindInv /\ Filter => FindInv'
<1> SUFFICES ASSUME FindInv, Filter PROVE FindInv'
  OBVIOUS
<1> DEFINE proper == Filtered(query)
<1>1. PICK outcome \in Outcomes(proper) :
        /\ Charge(outcome, proper)
        /\ CASE outcome.status = 200 -> Respond(200, outcome.list)
             [] outcome.status \in {Text, Unavailable} -> Raise(outcome)
             [] OTHER -> Ask("exact")
  BY DEF Filter
<1>2. phase = "filter" /\ UNCHANGED <<site, query, page, turn, got, hints, resolved, unknown, walk, listing>>
  BY DEF Filter, listing, chain
<1>3. /\ WellformedSite(site) /\ query.limit \in Nat \ {0} /\ faults \in 0 .. MaxFaults
      /\ query.find = "scientific" /\ ResolvedOf /\ hints = query.collections
      /\ turn \in 0 .. MaxPages
  BY <1>2, Typical DEF FindInv, FindTypeOK, PhaseInv, HintsInv
<1>4. /\ proper.status \in {200, 400, 404}
      /\ \A x \in ToSet(proper.list) : IsScientific(x, query)
  <2>1. CASE site.filters
    <3> DEFINE found == Search(query.collections, query.limit, 1, Needles(query))
    <3>1. 1 \in Nat /\ query.limit \in Nat
      BY <1>3
    <3>2. /\ found.status \in {200, 404}
          /\ \A x \in ToSet(found.list) : x \in ToSet(Offered(query.collections, Needles(query)))
      BY <1>3, <3>1, SearchReturns
    <3>3. \A x \in ToSet(Offered(query.collections, Needles(query))) : Needles(query) \subseteq x.cited
      BY <1>3, OfferedItems
    <3> QED  BY <2>1, <3>2, <3>3 DEF Filtered, IsScientific
  <2>2. CASE ~site.filters
    BY <2>2 DEF Filtered, Refusal, ToSet
  <2> QED  BY <2>1, <2>2
<1> HIDE DEF proper
<1>5. /\ faults' \in 0 .. MaxFaults
      /\ \/ outcome = proper
         \/ outcome.status \in {Text, Unavailable, 500} /\ outcome.list = <<>>
  BY <1>1, <1>3, OutcomeIs
<1>6. Text # 200 /\ Unavailable # 200
  BY DEF Text, Unavailable
<1>7. CASE outcome.status = 200
  <2>1. Respond(200, outcome.list) /\ outcome = proper
    BY <1>1, <1>5, <1>6, <1>7
  <2>2. phase' = "done" /\ answer'.status = 200 /\ answer'.found = proper.list
    BY <2>1 DEF Respond
  <2>3. FindIsComplete'
    BY <1>2, <1>3, <1>4, <2>2
       DEF FindIsComplete, WalkIsComplete, ScanIsComplete, NoFalseEmpty, ScientificMatches, Found
  <2> QED  BY <1>2, <1>5, <2>2, <2>3, Ends
<1>8. CASE outcome.status \in {Text, Unavailable}
  <2>1. Raise(outcome)
    BY <1>1, <1>6, <1>8
  <2> QED  BY <1>2, <1>5, <1>8, <2>1, Raises
<1>9. CASE outcome.status \notin {200, Text, Unavailable}
  <2>1. phase' = "exact" /\ UNCHANGED answer
    BY <1>1, <1>9 DEF Ask
  <2>2. PhaseInv' /\ PagesInv' /\ ExactInv'
    BY <1>2, <1>3, <2>1 DEF PhaseInv, PagesInv, ExactInv
  <2>3. HintsInv'
    BY <1>2, <1>3, <2>1, ResolvedStays DEF HintsInv
  <2>4. turn' \in 0 .. MaxPages /\ phase' \in Phases \ {"done"} /\ phase # "done"
    BY <1>2, <1>3, <2>1 DEF Phases
  <2> QED  BY <1>2, <1>5, <2>1, <2>2, <2>3, <2>4, Goes
<1> QED  BY <1>7, <1>8, <1>9

-----------------------------------------------------------------------------
(* Listings                                                                *)

\* One page of a listing.
LEMMA TurnStep ==
  ASSUME FindInv, phase \in {"list", "resolve", "scan"}, UNCHANGED <<site, query, chain, walk>>,
         NEW all, NEW T, all \in Seq(T), NEW size \in Nat \ {0}, ListedOf(all, size), page # Unset,
         NEW proper, proper.status \in {200, 404}, proper.status = 200 => proper = PageOf(all, page, size),
         Turn(proper), phase' = phase => (ListedOf(all, size)' => PagesInv')
  PROVE  FindInv'
<1>1. PICK outcome \in Outcomes(proper) :
        /\ Charge(outcome, proper)
        /\ IF outcome.status = 200
           THEN /\ got' = got \o outcome.list
                /\ page' = outcome.next
                /\ turn' = turn + 1
                /\ UNCHANGED <<phase, answer>>
           ELSE Raise(outcome) /\ UNCHANGED listing
  BY DEF Turn
<1>2. turn < MaxPages /\ UNCHANGED <<hints, resolved, unknown>>
  BY DEF Turn, Turning, chain
<1>3. /\ query.limit \in Nat \ {0} /\ faults \in 0 .. MaxFaults /\ turn \in 0 .. MaxPages
      /\ HintsInv /\ PhaseInv /\ ExactInv /\ (phase = "resolve" => hints # <<>>)
  BY Typical DEF FindInv, FindTypeOK
<1>4. /\ faults' \in 0 .. MaxFaults
      /\ \/ outcome = proper
         \/ outcome.status \in {Text, Unavailable, 500} /\ outcome.list = <<>>
  BY <1>1, <1>3, OutcomeIs
<1>5. Text # 200 /\ Unavailable # 200
  BY DEF Text, Unavailable
<1>6. CASE outcome.status = 200
  <2>1. /\ got' = got \o outcome.list /\ page' = outcome.next /\ turn' = turn + 1
        /\ UNCHANGED <<phase, answer>>
    BY <1>1, <1>6
  <2>2. outcome = proper /\ proper = PageOf(all, page, size)
    BY <1>4, <1>5, <1>6
  <2>3. got' = got \o proper.list /\ page' = proper.next
    BY <2>1, <2>2
  <2>4. site.loops \in BOOLEAN
    <3>1. WellformedSite(site)
      BY Typical DEF FindInv
    <3> QED  BY <3>1 DEF WellformedSite
  <2>5. ListedOf(all, size)'
    <3>1. /\ site' = site /\ query' = query /\ turn' = turn + 1
          /\ got' = got \o proper.list /\ page' = proper.next /\ proper = PageOf(all, page, size)
      BY <1>3, <2>1, <2>2, <2>3
    <3> QED  BY <2>4, <3>1, ListingTurns
  <2>6. PagesInv'
    BY <2>1, <2>5
  <2>7. PhaseInv'
    BY <1>3, <2>1 DEF PhaseInv
  <2>8. ExactInv'
    BY <1>2, <1>3, <2>1, Unaffected DEF ExactInv
  <2>9. HintsInv'
    BY <1>2, <1>3, <2>1, ResolvedStays DEF HintsInv
  <2>10. turn' \in 0 .. MaxPages
    BY <1>2, <1>3, <2>1, FindAssumption
  <2>11. phase' \in Phases \ {"done"} /\ phase # "done" /\ (phase' = "resolve" => hints' # <<>>)
    BY <1>2, <1>3, <2>1 DEF Phases
  <2> QED  BY <1>4, <2>1, <2>6, <2>7, <2>8, <2>9, <2>10, <2>11, Goes
<1>7. CASE outcome.status # 200
  <2>1. Raise(outcome) /\ UNCHANGED listing
    BY <1>1, <1>7
  <2>2. outcome.status \in {Text, Unavailable, 400, 404, 500}
    BY <1>4, <1>7
  <2> QED  BY <1>4, <2>1, <2>2, Raises
<1> QED  BY <1>6, <1>7

\* A page of the listing of collections.
LEMMA ListStep == FindInv /\ List => FindInv'
<1> SUFFICES ASSUME FindInv, List PROVE FindInv'
  OBVIOUS
<1>1. PICK all : all = site.collections
  OBVIOUS
<1>2. PICK proper : proper = CollectionPage
  OBVIOUS
<1>3. phase \in {"list", "resolve"} /\ UNCHANGED <<site, query, chain, walk>> /\ Turn(proper)
  BY <1>2 DEF List
<1>4. PICK size \in Nat \ {0} : size = CollectionLimit
  BY Typical, FindAssumption DEF FindInv, CollectionLimit
<1>5. ListedOf(all, size) /\ page # Unset /\ \E T : all \in Seq(T)
  BY <1>1, <1>3, <1>4, Typical DEF FindInv, PagesInv, Turn, Turning, CollectionLimit
<1>6. proper = PageOf(all, page, size) /\ proper.status = 200
  BY <1>1, <1>2, <1>4, <1>5 DEF CollectionPage, PageOf
<1>7. phase' = phase => (ListedOf(all, size)' => PagesInv')
  BY <1>1, <1>3, <1>4 DEF ListedOf, PagesInv, CollectionLimit
<1> QED  BY <1>3, <1>4, <1>5, <1>6, <1>7, TurnStep

\* A page of the scan of items.
LEMMA ScanStep == FindInv /\ Scan => FindInv'
<1> SUFFICES ASSUME FindInv, Scan PROVE FindInv'
  OBVIOUS
<1>1. PICK all : all = Offered(resolved, {})
  OBVIOUS
<1>2. PICK proper : proper = ItemPage
  OBVIOUS
<1>3. phase = "scan" /\ UNCHANGED <<site, query, chain, walk, resolved>> /\ Turn(proper)
  BY <1>2 DEF Scan, chain
<1>4. /\ ListedOf(all, query.limit) /\ page # Unset /\ page \in Nat /\ query.limit \in Nat \ {0} /\ WellformedSite(site)
      /\ all \in Seq(ToSet(site.items))
  BY <1>1, <1>3, Typical, OfferedItems DEF FindInv, PagesInv, Turn, Turning, ListedOf
<1>5. proper = Search(resolved, query.limit, page, {})
  BY <1>2, <1>4 DEF ItemPage
<1>6. proper.status \in {200, 404} /\ (proper.status = 200 => proper = PageOf(all, page, query.limit))
  BY <1>1, <1>4, <1>5, SearchReturns
<1>7. PICK size : size = query.limit
  OBVIOUS
<1>8. phase' = phase => (ListedOf(all, size)' => PagesInv')
  <2>1. Offered(resolved, {})' = all
    BY <1>1, <1>3 DEF Offered, Known, Names
  <2> QED  BY <1>3, <1>7, <2>1 DEF ListedOf, PagesInv
<1> QED  BY <1>3, <1>4, <1>6, <1>7, <1>8, TurnStep

\* The collections that were listed are the answer.
LEMMA EndListStep == FindInv /\ EndList => FindInv'
<1> SUFFICES ASSUME FindInv, EndList PROVE FindInv'
  OBVIOUS
<1>1. /\ phase = "list" /\ phase' = "done" /\ answer'.status = 200
      /\ UNCHANGED <<site, query, listing, walk, faults>>
  BY DEF EndList, Respond
<1>2. query.find = "collections" /\ faults \in 0 .. MaxFaults
  BY <1>1 DEF FindInv, PhaseInv, FindTypeOK
<1>3. FindIsComplete'
  BY <1>1, <1>2 DEF FindIsComplete, WalkIsComplete, ScanIsComplete, NoFalseEmpty, ScientificMatches, Found
<1> QED  BY <1>1, <1>2, <1>3, Ends DEF listing

\* The catalogs that one owns.
LEMMA MineStep == FindInv /\ Mine => FindInv'
<1> SUFFICES ASSUME FindInv, Mine PROVE FindInv'
  OBVIOUS
<1> DEFINE proper == [Refusal(200) EXCEPT !.list = site.owned]
           kept(o) == Picked(o.list, {k \in DOMAIN o.list : o.list[k].project})
<1>1. PICK outcome \in Outcomes(proper) :
        /\ Charge(outcome, proper)
        /\ CASE outcome.status = 200 -> Respond(200, kept(outcome))
             [] outcome.status = Text -> Respond(502, <<>>)
             [] OTHER -> Raise(outcome)
  BY DEF Mine
<1> HIDE DEF kept
<1>2. /\ phase = "mine" /\ UNCHANGED <<site, query, listing, walk>>
      /\ query.find = "mine" /\ faults \in 0 .. MaxFaults
  BY DEF Mine, FindInv, PhaseInv, FindTypeOK
<1>3. proper.status = 200
  BY DEF Refusal
<1> HIDE DEF proper
<1>4. faults' \in 0 .. MaxFaults /\ outcome.status \in {200, Text, Unavailable, 500}
  BY <1>1, <1>2, <1>3, OutcomeIs
<1>5. Text # 200 /\ Unavailable # 200 /\ Text # Unavailable /\ Text # 500
  BY DEF Text, Unavailable
<1>6. CASE outcome.status \in {200, Text}
  <2>1. phase' = "done" /\ answer'.status \in {200, 502}
    BY <1>1, <1>5, <1>6 DEF Respond
  <2>2. FindIsComplete'
    BY <1>2 DEF FindIsComplete, WalkIsComplete, ScanIsComplete, NoFalseEmpty, ScientificMatches, Found
  <2> QED  BY <1>2, <1>4, <2>1, <2>2, Ends DEF listing
<1>7. CASE outcome.status \in {Unavailable, 500}
  <2>1. Raise(outcome)
    BY <1>1, <1>5, <1>7
  <2> QED  BY <1>2, <1>4, <1>7, <2>1, Raises
<1> QED  BY <1>4, <1>6, <1>7

\* The names have been resolved: the search is repeated with what they stand for.
LEMMA RetryStep == FindInv /\ Retry => FindInv'
<1> SUFFICES ASSUME FindInv, Retry PROVE FindInv'
  OBVIOUS
<1> DEFINE proper == Search(resolved, query.limit, 1, {})
           exact == Search(query.collections, query.limit, 1, {})
<1>1. PICK outcome \in Outcomes(proper) :
        /\ Charge(outcome, proper)
        /\ IF outcome.status = 200 THEN Respond(200, Selected(query, outcome.list)) ELSE Raise(outcome)
  BY DEF Retry
<1>2. phase = "retry" /\ UNCHANGED <<site, query, listing, walk>>
  BY DEF Retry
<1>3. /\ WellformedSite(site) /\ query.limit \in Nat \ {0} /\ faults \in 0 .. MaxFaults
      /\ query.find \in {"items", "scientific"} /\ ResolvedOf /\ hints = <<>> /\ query.collections # <<>>
      /\ query.find = "items" => Selected(query, exact.list) = <<>>
  BY <1>2, Typical DEF FindInv, FindTypeOK, PhaseInv, HintsInv, ExactInv
<1>4. /\ proper.status \in {200, 404} /\ proper.list \in Seq(ToSet(site.items))
      /\ proper.status = 200 => proper = PageOf(Offered(resolved, {}), 1, query.limit)
  <2>1. 1 \in Nat /\ query.limit \in Nat
    BY <1>3
  <2> QED  BY <1>3, <2>1, SearchReturns
<1>5. Resolvable => Offered(resolved, {}) = MeantItems
  <2>1. SUFFICES ASSUME Resolvable PROVE Offered(resolved, {}) = MeantItems
    OBVIOUS
  <2>2. resolved # <<>>
    BY <1>3 DEF ResolvedOf
  <2>3. ToSet(hints) = {}
    BY <1>3 DEF ToSet
  <2>4. Known(resolved) = Meaning(query.collections)
    BY <1>3, <2>1, <2>3 DEF ResolvedOf
  <2> QED  BY <1>3, <2>2, <2>4, OfferedIsMeant
<1> HIDE DEF proper
<1>6. /\ faults' \in 0 .. MaxFaults
      /\ \/ outcome = proper
         \/ outcome.status \in {Text, Unavailable, 500} /\ outcome.list = <<>>
  BY <1>1, <1>3, OutcomeIs
<1>7. Text # 200 /\ Unavailable # 200
  BY DEF Text, Unavailable
<1>8. CASE outcome.status = 200
  <2>1. phase' = "done" /\ answer'.status = 200 /\ answer'.found = Selected(query, outcome.list)
    BY <1>1, <1>8 DEF Respond
  <2>2. outcome = proper
    BY <1>6, <1>7, <1>8
  <2>3. WalkIsComplete' /\ ScanIsComplete'
    BY <1>2, <1>3 DEF WalkIsComplete, ScanIsComplete, Found
  <2>4. NoFalseEmpty'
    <3>1. SUFFICES ASSUME query.find = "items", Selected(query, outcome.list) = <<>>, Resolvable
                   PROVE  /\ Selected(query, exact.list) = <<>>
                          /\ Selected(query, PageOf(MeantItems, 1, query.limit).list) = <<>>
      BY <1>2, <2>1, Unaffected DEF NoFalseEmpty, Found
    <3>2. proper = PageOf(MeantItems, 1, query.limit)
      BY <1>4, <1>5, <1>8, <2>2, <3>1
    <3> QED  BY <1>3, <2>2, <3>1, <3>2
  <2>5. ScientificMatches'
    <3>1. SUFFICES ASSUME query.find = "scientific"
                   PROVE  \A i \in ToSet(Selected(query, outcome.list)) : IsScientific(i, query)
      BY <1>2, <2>1 DEF ScientificMatches, Found
    <3>2. \A x \in ToSet(Selected(query, outcome.list)) : Fits(x, query)
      BY <1>4, <2>2, <3>1, SelectedItems
    <3> QED  BY <3>1, <3>2 DEF Fits
  <2>6. FindIsComplete'
    BY <2>3, <2>4, <2>5 DEF FindIsComplete
  <2> QED  BY <1>2, <1>6, <2>1, <2>6, Ends DEF listing
<1>9. CASE outcome.status # 200
  <2>1. Raise(outcome)
    BY <1>1, <1>9
  <2>2. outcome.status \in {Text, Unavailable, 400, 404, 500}
    BY <1>4, <1>6, <1>9
  <2> QED  BY <1>2, <1>6, <2>1, <2>2, Raises
<1> QED  BY <1>8, <1>9

\* All pages were listed, so the next name is resolved, or what follows on the last one.
LEMMA EndResolveStep == FindInv /\ EndResolve => FindInv'
<1> SUFFICES ASSUME FindInv, EndResolve PROVE FindInv'
  OBVIOUS
<1> DEFINE exact == Search(query.collections, query.limit, 1, {})
           same == Len(resolved') = Len(query.collections) /\ ToSet(resolved') = ToSet(query.collections)
<1>1. /\ phase = "resolve" /\ UNCHANGED <<site, query, unknown, walk, faults>>
      /\ page' = 1 /\ turn' = 0 /\ got' = <<>>
      /\ IF Len(hints) > 1 THEN UNCHANGED <<phase, answer>> ELSE Proceed(resolved')
  BY DEF EndResolve, BeginListing
<1>2. /\ WellformedSite(site) /\ query.limit \in Nat \ {0} /\ faults \in 0 .. MaxFaults
      /\ query.find \in {"items", "scientific", "assets", "properties"} /\ query.collections # <<>>
      /\ query.find = "items" => Selected(query, exact.list) = <<>> /\ (~unknown => exact.status = 200)
      /\ unknown = unknown' /\ site.collections \in Seq(ToSet(site.collections))
  BY <1>1, Typical DEF FindInv, FindTypeOK, PhaseInv, HintsInv, ExactInv
<1>3. /\ ResolvedOf' /\ resolved' # <<>>
      /\ Len(hints) > 1 => hints' # <<>>
      /\ ~(Len(hints) > 1) => hints' = <<>>
  BY ResolvesOn
<1>4. exact' = exact
  BY <1>1, Unaffected
<1> HIDE DEF exact
<1>5. turn' \in 0 .. MaxPages /\ faults' \in 0 .. MaxFaults
  BY <1>1, <1>2, FindAssumption
<1>6. CASE Len(hints) > 1
  <2>1. phase' = "resolve" /\ UNCHANGED answer
    BY <1>1, <1>6
  <2>2. PhaseInv'
    BY <1>1, <1>2, <2>1 DEF PhaseInv
  <2>3. HintsInv'
    BY <1>1, <1>2, <1>3, <2>1 DEF HintsInv
  <2>4. PagesInv'
    <3>1. ListedOf(site.collections, ResolveLimit)'
      BY <1>1, <1>2, ListingBegins, FindAssumption DEF ListedOf
    <3> QED  BY <2>1, <3>1 DEF PagesInv
  <2>5. ExactInv'
    BY <1>1, <1>2, <1>4, <2>1 DEF ExactInv, exact
  <2>6. phase' \in Phases \ {"done"} /\ phase # "done" /\ hints' # <<>>
    BY <1>1, <1>3, <1>6, <2>1 DEF Phases
  <2> QED  BY <1>1, <1>5, <2>1, <2>2, <2>3, <2>4, <2>5, <2>6, Goes
<1>7. CASE ~(Len(hints) > 1) /\ query.find \in {"assets", "properties"}
  <2>1. phase' = "scan" /\ UNCHANGED answer
    BY <1>1, <1>7 DEF Proceed, Ask
  <2>2. PhaseInv' /\ ExactInv'
    BY <1>1, <1>7, <2>1 DEF PhaseInv, ExactInv
  <2>3. HintsInv'
    BY <1>1, <1>2, <1>3, <1>7, <2>1 DEF HintsInv
  <2>4. PagesInv'
    <3>1. PICK all : all = Offered(resolved, {})'
      OBVIOUS
    <3>2. PICK within : within = resolved'
      OBVIOUS
    <3>3. all = Offered(within, {})
      BY <1>1, <3>1, <3>2 DEF Offered, Known, Names
    <3>4. all \in Seq(ToSet(site.items))
      BY <1>2, <3>3, OfferedItems
    <3>5. ListedOf(all, query.limit)'
      BY <1>1, <1>2, <3>4, ListingBegins
    <3> QED  BY <2>1, <3>1, <3>5 DEF PagesInv, ListedOf
  <2>5. phase' \in Phases \ {"done"} /\ phase # "done" /\ phase' # "resolve"
    BY <1>1, <2>1 DEF Phases
  <2> QED  BY <1>1, <1>5, <2>1, <2>2, <2>3, <2>4, <2>5, Goes
<1>8. CASE ~(Len(hints) > 1) /\ query.find \in {"items", "scientific"} /\ ~same
  <2>1. phase' = "retry" /\ UNCHANGED answer
    BY <1>1, <1>8 DEF Proceed, Ask
  <2>2. PhaseInv' /\ PagesInv'
    BY <1>1, <1>8, <2>1 DEF PhaseInv, PagesInv
  <2>3. HintsInv'
    BY <1>1, <1>2, <1>3, <1>8, <2>1 DEF HintsInv
  <2>4. ExactInv'
    BY <1>1, <1>2, <1>4, <2>1 DEF ExactInv, exact
  <2>5. phase' \in Phases \ {"done"} /\ phase # "done" /\ phase' # "resolve"
    BY <1>1, <2>1 DEF Phases
  <2> QED  BY <1>1, <1>5, <2>1, <2>2, <2>3, <2>4, <2>5, Goes
<1>9. CASE ~(Len(hints) > 1) /\ query.find \in {"items", "scientific"} /\ same
  <2>1. Respond(IF unknown THEN 404 ELSE 200, <<>>)
    BY <1>1, <1>9 DEF Proceed
  <2>2. phase' = "done" /\ answer' = [status |-> IF unknown THEN 404 ELSE 200, found |-> <<>>]
    BY <2>1 DEF Respond
  <2>3. ASSUME answer'.status = 200 PROVE FindIsComplete'
    <3>1. ~unknown
      BY <2>2, <2>3
    <3>2. WalkIsComplete' /\ ScanIsComplete' /\ ScientificMatches'
      BY <1>1, <1>9, <2>2 DEF WalkIsComplete, ScanIsComplete, ScientificMatches, Found, ToSet
    <3>3. ASSUME query.find = "items", Resolvable
          PROVE  Selected(query, PageOf(MeantItems, 1, query.limit).list) = <<>>
      <4>1. ToSet(hints') = {}
        BY <1>3, <1>9 DEF ToSet
      <4>2. Meaning(query.collections)' = Meaning(query.collections) /\ Resolvable' = Resolvable
        BY <1>1, Unaffected
      <4>3. ToSet(resolved') \cap Names(site.collections) = Meaning(query.collections)
        BY <1>1, <1>2, <1>3, <3>3, <4>1, <4>2 DEF ResolvedOf, Known
      <4>4. Known(query.collections) = Meaning(query.collections)
        BY <1>9, <4>3 DEF Known
      <4>5. Offered(query.collections, {}) = MeantItems
        BY <1>2, <4>4, OfferedIsMeant
      <4>6. exact.status = 200 /\ Selected(query, exact.list) = <<>>
        BY <1>2, <3>1, <3>3
      <4>7. 1 \in Nat /\ query.limit \in Nat
        BY <1>2
      <4>8. exact = PageOf(Offered(query.collections, {}), 1, query.limit)
        BY <1>2, <4>6, <4>7, SearchReturns DEF exact
      <4> QED  BY <4>5, <4>6, <4>8
    <3>4. NoFalseEmpty'
      BY <1>1, <1>2, <3>3, Unaffected DEF NoFalseEmpty, Found, exact
    <3> QED  BY <3>2, <3>4 DEF FindIsComplete
  <2>4. answer'.status \in {200, 404}
    BY <2>2
  <2> QED  BY <1>1, <1>5, <2>2, <2>3, <2>4, Ends
<1> QED  BY <1>2, <1>6, <1>7, <1>8, <1>9

\* What is kept of a list is no longer than the list.
LEMMA KeptLength ==
  ASSUME NEW T, NEW s \in Seq(T), NEW I \in SUBSET (DOMAIN s)
  PROVE  Len(Picked(s, I)) <= Len(s)
<1>1. IsFiniteSet(DOMAIN s) /\ Cardinality(DOMAIN s) = Len(s)
  BY ListIndices
<1>2. Cardinality(I) \in Nat /\ Cardinality(I) <= Len(s)
  BY <1>1, FS_Subset, FS_CardinalityType
<1>3. Len(Picked(s, I)) = Cardinality(I)
  BY <1>2 DEF Picked
<1> QED  BY <1>2, <1>3

\* What is asked for in lower case is compared as it stands.
LEMMA FitsExactly ==
  ASSUME query \in Queries, query.find = "properties", InLowerCase(query.match), NEW i
  PROVE  Fits(i, query) <=> HasExactly(i, query.match)
<1> DEFINE match == query.match
<1>1. /\ DOMAIN match \subseteq Int
      /\ \A j, k \in DOMAIN match : match[j].key = match[k].key => j = k
  BY FindAssumption
<1>2. \A k \in DOMAIN match : Lower[match[k].key] = match[k].key
  BY DEF InLowerCase
<1>3. \A k \in DOMAIN match : ~Overwritten(match, k)
  <2>1. SUFFICES ASSUME NEW j \in DOMAIN match, NEW k \in DOMAIN match, j > k,
                        Lower[match[j].key] = Lower[match[k].key]
                 PROVE  FALSE
    BY DEF Overwritten
  <2>2. j = k
    BY <1>1, <1>2, <2>1
  <2> HIDE DEF match
  <2> QED  BY <1>1, <2>1, <2>2
<1>4. Fits(i, query) <=> HasProperties(i, match)
  BY DEF Fits
<1> HIDE DEF match
<1>5. HasProperties(i, match) <=> HasExactly(i, match)
  BY <1>2, <1>3 DEF HasProperties, HasExactly
<1> QED  BY <1>4, <1>5 DEF match

\* All pages of the scan are there: the items that fit are the answer.
LEMMA EndScanStep == FindInv /\ EndScan => FindInv'
<1> SUFFICES ASSUME FindInv, EndScan PROVE FindInv'
  OBVIOUS
<1> DEFINE offered == Offered(resolved, {})
           found == Selected(query, got)
<1>1. /\ phase = "scan" /\ ~Turning /\ phase' = "done" /\ answer'.status = 200 /\ answer'.found = found
      /\ UNCHANGED <<site, query, listing, walk, faults>>
  BY DEF EndScan, Respond
<1>2. /\ WellformedSite(site) /\ query.limit \in Nat \ {0} /\ faults \in 0 .. MaxFaults /\ turn \in 0 .. MaxPages
      /\ query.find \in {"assets", "properties"} /\ ResolvedOf /\ hints = <<>> /\ ListedOf(offered, query.limit) /\ query \in Queries
  BY <1>1, Typical DEF FindInv, FindTypeOK, PhaseInv, HintsInv, PagesInv
<1>3. ToSet(hints) = {} /\ (resolved = <<>> <=> query.collections = <<>>)
  BY <1>2 DEF ToSet, ResolvedOf
<1>4. /\ offered \in Seq(ToSet(site.items))
      /\ \A x \in ToSet(offered) : x \in ToSet(site.items) /\ (resolved = <<>> \/ x.collection \in Known(resolved))
      /\ \A x \in ToSet(site.items) : resolved = <<>> \/ x.collection \in Known(resolved) => x \in ToSet(offered)
  <2>1. \A x : {} \subseteq x.cited
    OBVIOUS
  <2> QED  BY <1>2, <2>1, OfferedItems
<1>5. got \in Seq(ToSet(offered)) /\ \A x \in ToSet(got) : x \in ToSet(offered)
  BY <1>2, Members DEF ListedOf, ToSet
<1> HIDE DEF offered, found
<1>6. \A x \in ToSet(site.items) : x.collection \in Names(site.collections) /\ "id" \in DOMAIN x
  BY <1>2 DEF WellformedSite
<1>7. \A x \in ToSet(offered) : AskedFor(x)
  <2>1. CASE query.collections = <<>>
    BY <1>4, <1>6, <2>1 DEF AskedFor, Meaning
  <2>2. CASE query.collections # <<>>
    BY <1>2, <1>3, <1>4, <2>2 DEF AskedFor, ResolvedOf
  <2> QED  BY <2>1, <2>2
<1> DEFINE Plain == query.find = "properties" => InLowerCase(query.match)
<1>8. ASSUME Plain
      PROVE  \A i : i \in Wanted <=> i \in ToSet(site.items) /\ AskedFor(i) /\ Fits(i, query)
  <2>1. CASE query.find = "properties"
    <3>1. \A i : Fits(i, query) <=> HasExactly(i, query.match)
      BY <1>2, <1>8, <2>1, FitsExactly
    <3> QED  BY <2>1, <3>1 DEF Wanted
  <2>2. CASE query.find # "properties"
    BY <2>2 DEF Wanted
  <2> QED  BY <2>1, <2>2
<1>9. ASSUME Plain PROVE ById(ToSet(found)) \subseteq ById(Wanted)
  <2>1. SUFFICES ASSUME NEW x \in ToSet(found) PROVE \E i \in Wanted : x.id = i.id
    BY DEF ById
  <2>2. PICK i \in ToSet(got) : Fits(i, query) /\ ("id" \in DOMAIN i => x.id = i.id)
    BY <1>5, <2>1, SelectedItems DEF found
  <2>3. i \in Wanted /\ "id" \in DOMAIN i
    BY <1>4, <1>5, <1>6, <1>7, <1>8, <1>9, <2>2
  <2> QED  BY <2>2, <2>3
<1>10. ASSUME Plain, Scannable PROVE ById(Wanted) \subseteq ById(ToSet(found))
  <2>1. Len(offered) <= MaxPages * query.limit
    <3>1. site.items \in Seq(ToSet(site.items)) /\ Len(site.items) \in Nat
      BY <1>2 DEF WellformedSite
    <3>2. Len(site.items) <= MaxPages * query.limit
      BY <1>2, <1>10, <3>1, FullPages DEF Scannable, Listable
    <3> DEFINE I == {k \in DOMAIN site.items :
                       /\ resolved = <<>> \/ site.items[k].collection \in Known(resolved)
                       /\ {} \subseteq site.items[k].cited}
    <3>3. I \in SUBSET (DOMAIN site.items) /\ offered = Picked(site.items, I)
      BY DEF offered, Offered
    <3> HIDE DEF I
    <3>4. Len(offered) <= Len(site.items)
      BY <3>1, <3>3, KeptLength
    <3>5. Len(offered) \in Nat /\ MaxPages * query.limit \in Nat
      BY <1>2, <1>4, FindAssumption
    <3> QED  BY <3>1, <3>2, <3>4, <3>5
  <2>2. ToSet(got) = ToSet(offered)
    <3>1. ~site.loops
      BY <1>10 DEF Scannable, Listable
    <3> QED  BY <1>1, <1>2, <1>4, <2>1, <3>1, ListingEnds
  <2>3. SUFFICES ASSUME NEW i \in Wanted PROVE \E x \in ToSet(found) : x.id = i.id
    BY DEF ById
  <2>4. i \in ToSet(site.items) /\ Fits(i, query) /\ i.collection \in Meaning(query.collections)
    BY <1>8, <1>10, <2>3 DEF AskedFor
  <2>5. i \in ToSet(got)
    BY <1>2, <1>3, <1>4, <1>10, <2>2, <2>4 DEF ResolvedOf, Scannable
  <2> QED  BY <1>5, <1>6, <2>4, <2>5, SelectedItems DEF found
<1>11. FindIsComplete'
  <2>1. ScanIsComplete'
    BY <1>1, <1>9, <1>10, Unaffected DEF ScanIsComplete, ById
  <2> QED  BY <1>1, <1>2, <2>1 DEF FindIsComplete, WalkIsComplete, NoFalseEmpty, ScientificMatches, Found
<1> QED  BY <1>1, <1>2, <1>11, Ends DEF listing

-----------------------------------------------------------------------------
(* The walk over the catalogs                                             *)

\* A step of the walk, which answers nothing.
LEMMA WalksOn ==
  ASSUME FindInv, phase = "walk", UNCHANGED <<site, query, phase, listing, chain, answer>>,
         faults' \in 0 .. MaxFaults, level' \in 1 .. MaxDepth,
         flying' \subseteq DOMAIN frontier', Cardinality(flying') <= MaxFetches,
         DOMAIN results' \subseteq DOMAIN frontier', LevelInv'
  PROVE  FindInv'
<1>1. HintsInv' /\ PagesInv' /\ ExactInv' /\ PhaseInv'
  BY ChainStays DEF FindInv
<1>2. FindTypeOK' /\ FlightInv'
  BY DEF FindInv, FindTypeOK, FlightInv, listing, chain, Phases
<1>3. answer'.status # 200
  BY FindAssumption DEF FindInv, FindTypeOK
<1>4. FindIsComplete'
  BY <1>3, CompleteYet
<1> QED  BY <1>1, <1>2, <1>4 DEF FindInv

\* A fetch begins.
LEMMA FetchStep == ASSUME FindInv, NEW i, Fetch(i) PROVE FindInv'
<1>1. /\ phase = "walk" /\ i \in DOMAIN frontier /\ i \notin flying /\ Cardinality(flying) < MaxFetches
      /\ flying' = flying \cup {i}
      /\ UNCHANGED <<site, query, phase, listing, chain, level, frontier, results, seen, catalogs, failed,
                     answer, faults>>
  BY DEF Fetch
<1>2. FindTypeOK /\ LevelInv /\ frontier \in Seq({ProjectsRoot} \cup seen)
  BY <1>1 DEF FindInv, LevelInv
<1>3. IsFiniteSet(flying)
  BY <1>2, ListIndices, FS_Subset DEF FindTypeOK
<1>4. Cardinality(flying') = Cardinality(flying) + 1 /\ Cardinality(flying) \in Nat
  BY <1>1, <1>3, FS_AddElement, FS_CardinalityType
<1>5. Cardinality(flying') <= MaxFetches
  BY <1>1, <1>4, FindAssumption
<1>6. LevelInv'
  <2>1. Walked => Walked'
    BY <1>1 DEF Walked, Before
  <2>2. ResultsInv => ResultsInv'
    BY <1>1 DEF ResultsInv
  <2> QED  BY <1>1, <1>2, <2>1, <2>2 DEF LevelInv, Fatal
<1> QED  BY <1>1, <1>2, <1>5, <1>6, WalksOn DEF FindTypeOK

\* A fetch is answered.
LEMMA ArriveStep == ASSUME FindInv, NEW i, Arrive(i) PROVE FindInv'
<1> DEFINE proper == Catalog(frontier[i])
           api == site.catalogs
           path == frontier[i]
           W == Within(api, failed)
           V == Within(api, failed')
<1>1. PICK outcome \in Outcomes(proper) :
        /\ Charge(outcome, proper)
        /\ results' = [k \in DOMAIN results \cup {i} |-> IF k = i THEN outcome ELSE results[k]]
        /\ failed' = IF outcome.status = 200 THEN failed ELSE failed \cup {path}
        /\ flying' = flying \ {i}
  BY DEF Arrive, Released
<1>2. /\ i \in flying /\ i \notin DOMAIN results
      /\ UNCHANGED <<site, query, phase, listing, chain, level, frontier, seen, catalogs, answer>>
  BY DEF Arrive
<1>3. phase = "walk"
  BY <1>2 DEF FindInv, FlightInv
<1>4. /\ FindTypeOK /\ frontier \in Seq({ProjectsRoot} \cup seen) /\ catalogs \in Seq(LinksOf(api)) /\ ResultsInv
      /\ ProjectsRoot \in failed => \E k \in DOMAIN results : Fatal(k)
      /\ ProjectsRoot \notin failed => Walked
  BY <1>3 DEF FindInv, LevelInv
<1>5. /\ i \in DOMAIN frontier /\ faults \in 0 .. MaxFaults /\ level \in 1 .. MaxDepth
      /\ DOMAIN results \subseteq DOMAIN frontier
  BY <1>2, <1>4 DEF FindTypeOK
<1>6. proper = IF Resource[path] \in DOMAIN api
               THEN [status |-> 200, list |-> api[Resource[path]]]
               ELSE Refusal(404)
  BY DEF Catalog
<1> HIDE DEF proper
<1>7. /\ faults' \in 0 .. MaxFaults
      /\ \/ outcome = proper
         \/ outcome.status \in {Text, Unavailable, 500} /\ outcome.list = <<>>
  BY <1>1, <1>5, OutcomeIs
<1>8. /\ outcome.status \in {200, 404, Text, Unavailable, 500}
      /\ outcome.status = 200 => Resource[path] \in DOMAIN api /\ outcome.list = api[Resource[path]]
      /\ outcome.status # 200 => outcome.list = <<>>
  <2>1. Text # 200 /\ Unavailable # 200
    BY DEF Text, Unavailable
  <2>2. CASE outcome = proper
    BY <1>6, <2>2 DEF Refusal
  <2>3. CASE outcome.status \in {Text, Unavailable, 500} /\ outcome.list = <<>>
    BY <2>1, <2>3
  <2> QED  BY <1>7, <2>2, <2>3
<1>9. /\ DOMAIN results' = DOMAIN results \cup {i} /\ results'[i] = outcome
      /\ \A k \in DOMAIN results : k # i /\ results'[k] = results[k]
  BY <1>1, <1>2
<1>10. failed \subseteq failed' /\ failed' \subseteq failed \cup {path}
  BY <1>1
<1>11. ResultsInv'
  <2>1. SUFFICES ASSUME NEW k \in DOMAIN results'
                 PROVE  /\ results'[k].status \in {200, 404, Text, Unavailable, 500}
                        /\ results'[k].status = 200 => /\ Resource[frontier[k]] \in DOMAIN api
                                                      /\ results'[k].list = api[Resource[frontier[k]]]
                        /\ results'[k].status # 200 => results'[k].list = <<>> /\ frontier[k] \in failed'
    BY <1>2 DEF ResultsInv
  <2>2. CASE k = i
    BY <1>1, <1>8, <1>9, <2>2
  <2>3. CASE k \in DOMAIN results
    BY <1>4, <1>9, <1>10, <2>3 DEF ResultsInv
  <2> QED  BY <1>9, <2>1, <2>2, <2>3
<1>12. ProjectsRoot \in failed' => \E k \in DOMAIN results' : Fatal(k)'
  <2>1. SUFFICES ASSUME ProjectsRoot \in failed' PROVE \E k \in DOMAIN results' : Fatal(k)'
    OBVIOUS
  <2>2. CASE ProjectsRoot \in failed
    <3>1. PICK k \in DOMAIN results : Fatal(k)
      BY <1>4, <2>2
    <3>2. k \in DOMAIN results' /\ Fatal(k)'
      BY <1>2, <1>9, <3>1 DEF Fatal
    <3> QED  BY <3>2
  <2>3. CASE ProjectsRoot \notin failed
    <3>1. outcome.status # 200 /\ path = ProjectsRoot
      BY <1>1, <2>1, <2>3
    <3>2. Fatal(i)' /\ i \in DOMAIN results'
      BY <1>2, <1>9, <3>1 DEF Fatal
    <3> QED  BY <3>2
  <2> QED  BY <2>2, <2>3
<1>13. ASSUME ProjectsRoot \notin failed' PROVE Walked'
  <2>1. ProjectsRoot \notin failed /\ Walked
    BY <1>4, <1>10, <1>13
  <2>2. path \notin {frontier[k] : k \in DOMAIN results} /\ \A k \in DOMAIN results : frontier[k] # path
    BY <1>2, <1>5, <2>1 DEF Walked, IsInjective
  <2>3. path \in ToSet(frontier)
    BY <1>5 DEF ToSet
  <2>4. outcome.status = 200 => path \notin failed'
    <3>1. SUFFICES ASSUME outcome.status = 200, path \in failed PROVE FALSE
      BY <1>1
    <3>2. path \in Before
      BY <2>1, <2>2, <3>1 DEF Walked
    <3> QED  BY <2>1, <2>3, <3>1, <3>2 DEF Walked
  <2>5. path \in Before => failed' = failed
    <3>1. path \in Before => path = ProjectsRoot
      BY <2>1, <2>3 DEF Walked
    <3> QED  BY <1>1, <1>13, <3>1
  <2>6. \A p \in Before : Children(api, failed', p) = Children(api, failed, p)
    <3>1. \A p : p # path => (p \in failed' <=> p \in failed)
      BY <1>10
    <3> QED  BY <2>5, <3>1 DEF Children
  <2>7. \A n \in 0 .. level - 1 : V[n] = W[n]
    <3>1. level - 1 \in 0 .. MaxDepth - 1
      BY <1>5, FindAssumption
    <3>2. level - 1 > 0 => \A p \in W[(level - 1) - 1] : Children(api, failed', p) = Children(api, failed, p)
      <4>1. SUFFICES ASSUME level - 1 > 0
                     PROVE  \A p \in W[(level - 1) - 1] : Children(api, failed', p) = Children(api, failed, p)
        OBVIOUS
      <4>2. level # 1 /\ (level - 1) - 1 = level - 2
        BY <1>5, <4>1
      <4>3. Before = W[(level - 1) - 1]
        BY <4>2 DEF Before
      <4> QED  BY <2>6, <4>3
    <3> QED  BY <3>1, <3>2, WithinAgrees
  <2>8. Before' = Before
    <3>1. CASE level = 1
      BY <1>2, <3>1 DEF Before
    <3>2. CASE level # 1
      <4>1. level - 2 \in 0 .. level - 1
        BY <1>5, <3>2
      <4> QED  BY <1>2, <2>7, <3>2, <4>1 DEF Before
    <3> QED  BY <3>1, <3>2
  <2>9. seen = Below(api, failed', Before)
    BY <2>1, <2>6 DEF Walked, Below
  <2>10. V[level - 1] = Before \cup ToSet(frontier)
    <3>1. level - 1 \in 0 .. level - 1
      BY <1>5
    <3> QED  BY <2>1, <2>7, <3>1 DEF Walked
  <2>11. failed' \subseteq Before \cup {frontier[k] : k \in DOMAIN results'}
    BY <1>9, <1>10, <2>1 DEF Walked
  <2>12. \A k \in DOMAIN results' : results'[k].status = 200 => frontier[k] \notin failed'
    <3>1. SUFFICES ASSUME NEW k \in DOMAIN results', results'[k].status = 200 PROVE frontier[k] \notin failed'
      OBVIOUS
    <3>2. CASE k = i
      BY <1>9, <2>4, <3>1, <3>2
    <3>3. CASE k \in DOMAIN results
      <4>1. frontier[k] \notin failed /\ frontier[k] # path
        BY <1>9, <2>1, <2>2, <3>1, <3>3 DEF Walked
      <4> QED  BY <1>10, <4>1
    <3> QED  BY <1>9, <3>1, <3>2, <3>3
  <2> HIDE DEF W, V
  <2> QED  BY <1>2, <2>1, <2>8, <2>9, <2>10, <2>11, <2>12 DEF Walked, V
<1>14. LevelInv'
  BY <1>2, <1>4, <1>11, <1>12, <1>13 DEF LevelInv
<1>15. flying' \subseteq DOMAIN frontier' /\ Cardinality(flying') <= MaxFetches
  <2>1. IsFiniteSet(flying) /\ Cardinality(flying) <= MaxFetches /\ flying \subseteq DOMAIN frontier
    BY <1>4, ListIndices, FS_Subset DEF FindTypeOK
  <2>2. Cardinality(flying') <= Cardinality(flying) /\ Cardinality(flying') \in Nat /\ Cardinality(flying) \in Nat
    <3>1. flying' \subseteq flying
      BY <1>1
    <3> QED  BY <2>1, <3>1, FS_Subset, FS_CardinalityType
  <2> QED  BY <1>1, <1>2, <2>1, <2>2, FindAssumption
<1>16. DOMAIN results' \subseteq DOMAIN frontier'
  BY <1>2, <1>5, <1>9
<1> QED  BY <1>2, <1>3, <1>5, <1>7, <1>14, <1>15, <1>16, WalksOn

\* What a level of catalogs that were all fetched leads to.
LEMMA LevelLeadsTo ==
  ASSUME \A w \in Sites : WellformedSite(w), site \in Sites,
         frontier \in Seq({ProjectsRoot} \cup seen), ResultsInv, Walked, DOMAIN results = DOMAIN frontier
  PROVE  /\ LevelLinks \in Seq(LinksOf(site.catalogs))
         /\ ChildPaths(LevelLinks) = Below(site.catalogs, failed, ToSet(frontier))
<1> DEFINE api == site.catalogs
           T == LinksOf(api)
           lists == [i \in DOMAIN frontier |-> results[i].list]
           Leads(i) == Children(api, failed, frontier[i])
<1>1. ASSUME NEW i \in DOMAIN frontier
      PROVE  results[i].list \in Seq(T) /\ ChildPaths(results[i].list) = Leads(i)
  <2>1. CASE results[i].status = 200
    <3>1. /\ Resource[frontier[i]] \in DOMAIN api /\ results[i].list = api[Resource[frontier[i]]]
          /\ frontier[i] \notin failed
      BY <2>1 DEF ResultsInv, Walked
    <3>2. ChildPaths(results[i].list) = Leads(i)
      BY <3>1 DEF ChildPaths, Children
    <3>3. api[Resource[frontier[i]]] \in Seq(ToSet(api[Resource[frontier[i]]]))
      BY <3>1 DEF WellformedSite
    <3>4. ToSet(api[Resource[frontier[i]]]) \subseteq T
      BY <3>1 DEF LinksOf
    <3>5. \A S : S \subseteq T => Seq(S) \subseteq Seq(T)
      OBVIOUS
    <3> QED  BY <3>1, <3>2, <3>3, <3>4, <3>5
  <2>2. CASE results[i].status # 200
    <3>1. results[i].list = <<>> /\ frontier[i] \in failed
      BY <2>2 DEF ResultsInv
    <3> QED  BY <3>1 DEF ChildPaths, Children, ToSet
  <2> QED  BY <2>1, <2>2
<1>2. lists \in Seq(Seq(T)) /\ DOMAIN lists = DOMAIN frontier /\ \A i \in DOMAIN lists : lists[i] = results[i].list
  <2>1. DOMAIN frontier = 1 .. Len(frontier) /\ Len(frontier) \in Nat
    OBVIOUS
  <2> QED  BY <1>1, <2>1
<1>3. LevelLinks = FlattenSeq(lists)
  BY DEF LevelLinks
<1> HIDE DEF lists, T, Leads
<1>4. /\ LevelLinks \in Seq(T)
      /\ \A x \in ToSet(LevelLinks) : \E i \in DOMAIN lists : x \in ToSet(lists[i])
      /\ \A i \in DOMAIN lists : \A x \in ToSet(lists[i]) : x \in ToSet(LevelLinks)
  BY <1>2, <1>3, Flattened
<1>5. ASSUME NEW p \in ChildPaths(LevelLinks) PROVE p \in Below(api, failed, ToSet(frontier))
  <2>1. PICK l \in ToSet(LevelLinks) : l.rel = "child" /\ p = Relative[l.href]
    BY <1>5 DEF ChildPaths
  <2>2. PICK i \in DOMAIN lists : l \in ToSet(lists[i])
    BY <1>4
  <2>3. p \in ChildPaths(results[i].list)
    BY <1>2, <2>1, <2>2 DEF ChildPaths
  <2>4. p \in Children(api, failed, frontier[i]) /\ frontier[i] \in ToSet(frontier)
    BY <1>1, <1>2, <2>2, <2>3 DEF Leads, ToSet
  <2> QED  BY <2>4 DEF Below
<1>6. ASSUME NEW p \in Below(api, failed, ToSet(frontier)) PROVE p \in ChildPaths(LevelLinks)
  <2>1. PICK f \in ToSet(frontier) : p \in Children(api, failed, f)
    BY <1>6 DEF Below
  <2>2. PICK i \in DOMAIN frontier : frontier[i] = f
    BY DEF ToSet
  <2>3. p \in ChildPaths(results[i].list)
    BY <1>1, <2>1, <2>2 DEF Leads
  <2>4. PICK l \in ToSet(lists[i]) : l.rel = "child" /\ p = Relative[l.href]
    BY <1>2, <2>2, <2>3 DEF ChildPaths
  <2>5. l \in ToSet(LevelLinks)
    BY <1>2, <1>4, <2>2, <2>4
  <2> QED  BY <2>4, <2>5 DEF ChildPaths
<1> QED  BY <1>4, <1>5, <1>6 DEF T

\* All of a level is there: the next one begins, or the walk ends.
LEMMA EndLevelStep == FindInv /\ EndLevel => FindInv'
<1> SUFFICES ASSUME FindInv, EndLevel PROVE FindInv'
  OBVIOUS
<1> DEFINE new == New(LevelLinks)
           fatal == {i \in DOMAIN frontier : Fatal(i)}
           first == CHOOSE i \in fatal : \A j \in fatal : i <= j
           all == catalogs \o new
           api == site.catalogs
           T == LinksOf(api)
           W == Within(api, failed)
           shown == Picked(all, {k \in DOMAIN all : Matches(query.q, all[k].words)})
<1>1. /\ phase = "walk" /\ DOMAIN results = DOMAIN frontier
      /\ UNCHANGED <<site, query, page, turn, got, listing, chain, faults>>
      /\ IF fatal # {} THEN Raise(results[first]) /\ UNCHANGED <<walk>>
         ELSE /\ catalogs' = all
              /\ seen' = seen \cup ToSet(Paths(new))
              /\ flying' = {}
              /\ UNCHANGED failed
              /\ IF new = <<>> \/ level = MaxDepth
                 THEN Respond(200, shown) /\ UNCHANGED <<level, frontier, results>>
                 ELSE /\ level' = level + 1 /\ frontier' = Paths(new) /\ results' = <<>>
                      /\ UNCHANGED <<phase, answer>>
  BY DEF EndLevel, listing
<1>2. /\ FindTypeOK /\ frontier \in Seq({ProjectsRoot} \cup seen) /\ catalogs \in Seq(T) /\ ResultsInv
      /\ ProjectsRoot \in failed => \E k \in DOMAIN results : Fatal(k)
      /\ ProjectsRoot \notin failed => Walked
      /\ site \in Sites /\ query \in Queries /\ query.find = "catalogs"
      /\ MaxDepth \in Nat \ {0} /\ \A w \in Sites : WellformedSite(w)
  BY <1>1, FindAssumption DEF FindInv, LevelInv, PhaseInv
<1>3. /\ faults \in 0 .. MaxFaults /\ level \in 1 .. MaxDepth
      /\ flying \subseteq DOMAIN frontier /\ Cardinality(flying) <= MaxFetches
      /\ Cardinality({}) <= MaxFetches
  BY <1>2, FS_EmptySet, FindAssumption DEF FindTypeOK
<1> HIDE DEF new, all, shown, T
<1>4. CASE fatal # {}
  <2>1. fatal \in SUBSET Int /\ IsFiniteSet(fatal)
    <3>1. DOMAIN frontier = 1 .. Len(frontier) /\ Len(frontier) \in Nat /\ IsFiniteSet(DOMAIN frontier)
      BY <1>2, ListIndices
    <3> QED  BY <3>1, FS_Subset
  <2> HIDE DEF fatal
  <2>2. \E i \in fatal : \A j \in fatal : i <= j
    BY <1>4, <2>1, LeastOf
  <2>3. first \in fatal
    BY <2>2
  <2> HIDE DEF first
  <2>4. results[first].status \in {404, Text, Unavailable, 500}
    <3>1. Text # 200
      BY DEF Text
    <3> QED  BY <1>1, <1>2, <2>3, <3>1 DEF fatal, Fatal, ResultsInv
  <2>5. phase' = "done" /\ answer'.status \in {404, 500, 502}
    BY <1>1, <1>4, <2>4 DEF Raise, Respond, Text, Unavailable
  <2>6. UNCHANGED <<level, frontier, flying, results>>
    BY <1>1, <1>4 DEF walk
  <2> QED  BY <1>1, <1>3, <2>5, <2>6, Answers
<1>5. CASE fatal = {}
  <2>1. ProjectsRoot \notin failed /\ Walked
    BY <1>1, <1>2, <1>5
  <2>2. LevelLinks \in Seq(T) /\ ChildPaths(LevelLinks) = Below(api, failed, ToSet(frontier))
    BY <1>1, <1>2, <2>1, LevelLeadsTo DEF T
  <2> DEFINE C == Below(api, failed, ToSet(frontier))
  <2>3. new \in Seq(T) /\ ToSet(Paths(new)) = C \ seen /\ IsInjective(Paths(new))
    BY <2>2, NewLinks DEF new
  <2> HIDE DEF C
  <2>4. /\ all \in Seq(T) /\ IsInjective(Paths(all))
        /\ ToSet(Paths(all)) = ToSet(Paths(catalogs)) \cup ToSet(Paths(new))
    <3>1. ToSet(Paths(catalogs)) \cap ToSet(Paths(new)) = {} /\ IsInjective(Paths(catalogs))
      BY <2>1, <2>3 DEF Walked
    <3> QED  BY <1>2, <2>3, <3>1, PathsAppended DEF all
  <2>5. W[level - 1] = Before \cup ToSet(frontier)
    BY <2>1 DEF Walked
  <2>6. seen' = Below(api, failed, W[level - 1]) /\ seen' = seen \cup C
    <3>1. seen' = seen \cup C
      BY <1>1, <1>5, <2>3
    <3>2. Below(api, failed, Before \cup ToSet(frontier)) = Below(api, failed, Before) \cup C
      BY DEF Below, C
    <3> QED  BY <2>1, <2>5, <3>1, <3>2 DEF Walked
  <2>7. seen \subseteq W[level - 1]
    <3>1. CASE level = 1
      <4>1. seen = {}
        BY <2>1, <3>1 DEF Walked, Before, Below
      <4> QED  BY <4>1
    <3>2. CASE level # 1
      <4>1. level - 1 \in 1 .. MaxDepth /\ (level - 1) - 1 = level - 2
        BY <1>2, <1>3, <3>2
      <4>2. W[level - 1] = W[(level - 1) - 1] \cup Below(api, failed, W[(level - 1) - 1])
        BY <4>1, WithinDef
      <4>3. Before = W[(level - 1) - 1]
        BY <3>2, <4>1 DEF Before
      <4> QED  BY <2>1, <4>2, <4>3 DEF Walked
    <3> QED  BY <3>1, <3>2
  <2> HIDE DEF W
  <2>8. CASE new = <<>> \/ level = MaxDepth
    <3>1. /\ Respond(200, shown) /\ UNCHANGED <<level, frontier, results>>
          /\ catalogs' = all /\ failed' = failed /\ flying' = {}
      BY <1>1, <1>5, <2>8
    <3>2. phase' = "done" /\ answer'.status = 200
      BY <3>1 DEF Respond
    <3>3. seen' = Below(api, failed, W[MaxDepth - 1])
      <4>1. CASE level = MaxDepth
        BY <2>6, <4>1
      <4>2. CASE new = <<>>
        <5>1. ToSet(Paths(new)) = {}
          BY <4>2 DEF Paths, ToSet
        <5>2. C \subseteq seen
          BY <2>3, <5>1
        <5>3. seen' = seen
          BY <2>6, <5>2
        <5>4. Below(api, failed, W[level - 1]) \subseteq W[level - 1]
          BY <2>6, <2>7, <5>3
        <5>5. level - 1 \in 0 .. MaxDepth /\ MaxDepth - 1 \in level - 1 .. MaxDepth
          BY <1>2, <1>3
        <5>6. W[MaxDepth - 1] = W[level - 1]
          BY <5>4, <5>5, WithinIsClosed DEF W
        <5> QED  BY <2>6, <5>6
      <4> QED  BY <2>8, <4>1, <4>2
    <3>4. ToSet(Paths(all)) = seen'
      BY <1>1, <1>5, <2>1, <2>4 DEF Walked
    <3>5. WalkIsComplete'
      <4>1. IsInjective(Paths(catalogs))' /\ ToSet(Paths(catalogs))' = Below(api, failed, W[MaxDepth - 1])
        BY <2>4, <3>1, <3>3, <3>4 DEF Paths
      <4> QED  BY <1>1, <3>1, <4>1 DEF WalkIsComplete, W
    <3>6. FindIsComplete'
      BY <1>1, <1>2, <3>5 DEF FindIsComplete, ScanIsComplete, NoFalseEmpty, ScientificMatches, Found
    <3> QED  BY <1>1, <1>3, <3>1, <3>2, <3>6, Answers
  <2>9. CASE new # <<>> /\ level # MaxDepth
    <3>1. /\ level' = level + 1 /\ frontier' = Paths(new) /\ results' = <<>> /\ catalogs' = all /\ failed' = failed
          /\ flying' = {} /\ UNCHANGED <<phase, answer>>
      BY <1>1, <1>5, <2>9
    <3>2. /\ level' \in 1 .. MaxDepth /\ level' # 1 /\ level' - 2 = level - 1 /\ level' - 1 = level
          /\ level \in 1 .. MaxDepth
      BY <1>2, <1>3, <2>9, <3>1
    <3>3. Before' = W[level - 1]
      BY <1>1, <3>1, <3>2 DEF Before, W
    <3>4. W[level] = W[level - 1] \cup seen'
      <4>1. W[level] = W[level - 1] \cup Below(api, failed, W[level - 1])
        BY <1>3, WithinDef DEF W
      <4> QED  BY <2>6, <4>1
    <3>5. frontier' \in Seq({ProjectsRoot} \cup seen')
      <4>1. DOMAIN Paths(new) = 1 .. Len(new) /\ Len(new) \in Nat
        BY <2>3 DEF Paths
      <4>2. \A k \in DOMAIN Paths(new) : Paths(new)[k] \in seen'
        BY <2>3, <2>6 DEF ToSet
      <4>3. Paths(new) = [k \in 1 .. Len(new) |-> Paths(new)[k]]
        BY <4>1 DEF Paths
      <4> QED  BY <3>1, <4>1, <4>2, <4>3
    <3>6. ToSet(frontier') = C \ seen /\ IsInjective(frontier')
      BY <2>3, <3>1
    <3>7. Before' \subseteq {ProjectsRoot} \cup seen
      <4>1. ToSet(frontier) \subseteq {ProjectsRoot} \cup seen
        BY <1>2 DEF ToSet
      <4> QED  BY <2>1, <2>5, <3>3, <4>1 DEF Walked
    <3>8. DOMAIN results' = {}
      BY <3>1
    <3>9. Walked'
      <4>1. seen' = Below(api, failed, Before')
        BY <2>6, <3>3
      <4>2. W[level' - 1] = Before' \cup ToSet(frontier')
        BY <2>6, <2>7, <3>2, <3>3, <3>4, <3>6
      <4>3. ToSet(frontier') \cap Before' \subseteq {ProjectsRoot}
        BY <3>6, <3>7
      <4>4. Before' \subseteq {ProjectsRoot} \cup seen'
        BY <2>6, <3>7
      <4>5. failed' \subseteq Before'
        <5>1. \A i \in DOMAIN results : frontier[i] \in ToSet(frontier)
          BY <1>1 DEF ToSet
        <5> QED  BY <2>1, <2>5, <3>1, <3>3, <5>1 DEF Walked
      <4>6. IsInjective(Paths(catalogs))' /\ ToSet(Paths(catalogs))' = seen'
        <5>1. ToSet(Paths(all)) = seen'
          BY <1>1, <1>5, <2>1, <2>4 DEF Walked
        <5> QED  BY <2>4, <3>1, <5>1 DEF Paths
      <4>7. Within(site.catalogs, failed)' = W
        BY <1>1, <3>1 DEF W
      <4> QED  BY <1>1, <3>1, <3>6, <3>8, <4>1, <4>2, <4>3, <4>4, <4>5, <4>6, <4>7 DEF Walked
    <3>10. LevelInv'
      <4>1. ResultsInv'
        BY <3>8 DEF ResultsInv
      <4>2. catalogs' \in Seq(LinksOf(site.catalogs))'
        BY <1>1, <2>4, <3>1 DEF T
      <4> QED  BY <2>1, <3>1, <3>5, <3>9, <4>1, <4>2 DEF LevelInv
    <3> QED  BY <1>1, <1>3, <3>1, <3>2, <3>8, <3>10, WalksOn
  <2> QED  BY <2>8, <2>9
<1> QED  BY <1>4, <1>5


-----------------------------------------------------------------------------
(* The theorems                                                            *)

\* The invariant holds before the first call.
LEMMA FindBegins == FindInit => FindInv
<1> SUFFICES ASSUME FindInit PROVE FindInv
  OBVIOUS
<1>1. /\ site \in Sites /\ query \in Queries /\ phase = "start" /\ page = 1 /\ turn = 0 /\ got = <<>>
      /\ hints = <<>> /\ resolved = <<>> /\ unknown = FALSE /\ level = 1 /\ frontier = <<ProjectsRoot>>
      /\ flying = {} /\ results = <<>> /\ seen = {} /\ catalogs = <<>> /\ failed = {}
      /\ answer.status = Unset /\ faults = 0
  BY DEF FindInit
<1>2. /\ {MaxPages, MaxDepth, MaxFetches} \subseteq Nat \ {0} /\ MaxFaults \in Nat /\ answer.status # 200
  BY <1>1, FindAssumption
<1>3. FindTypeOK
  BY <1>1, <1>2, FS_EmptySet DEF FindTypeOK, Phases
<1>4. PhaseInv /\ HintsInv /\ PagesInv /\ ExactInv /\ FlightInv
  BY <1>1 DEF PhaseInv, HintsInv, PagesInv, ExactInv, FlightInv
<1>5. LevelInv
  <2>1. frontier \in Seq({ProjectsRoot} \cup seen) /\ catalogs \in Seq(LinksOf(site.catalogs)) /\ ResultsInv
    BY <1>1 DEF ResultsInv
  <2>2. ToSet(frontier) = {ProjectsRoot} /\ IsInjective(frontier)
    BY <1>1 DEF ToSet, IsInjective
  <2>3. Paths(catalogs) = <<>> /\ IsInjective(Paths(catalogs)) /\ ToSet(Paths(catalogs)) = {}
    BY <1>1 DEF Paths, ToSet, IsInjective
  <2>4. Before = {} /\ Below(site.catalogs, failed, {}) = {}
    BY <1>1 DEF Before, Below
  <2>5. Within(site.catalogs, failed)[level - 1] = {ProjectsRoot}
    <3>1. level - 1 = 0
      BY <1>1
    <3> QED  BY <3>1, WithinDef
  <2>6. Walked
    BY <1>1, <2>2, <2>3, <2>4, <2>5 DEF Walked
  <2> QED  BY <1>1, <2>1, <2>6 DEF LevelInv
<1>6. FindIsComplete
  BY <1>2, CompleteYet
<1> QED  BY <1>1, <1>3, <1>4, <1>5, <1>6 DEF FindInv

\* And every step keeps it.
LEMMA FindSteps == FindInv /\ [FindNext]_findVars => FindInv'
<1> SUFFICES ASSUME FindInv, [FindNext]_findVars PROVE FindInv'
  OBVIOUS
<1>1. CASE Start
  BY <1>1, StartStep
<1>2. CASE Exact
  BY <1>2, ExactStep
<1>3. CASE Filter
  BY <1>3, FilterStep
<1>4. CASE List
  BY <1>4, ListStep
<1>5. CASE EndList
  BY <1>5, EndListStep
<1>6. CASE EndResolve
  BY <1>6, EndResolveStep
<1>7. CASE Retry
  BY <1>7, RetryStep
<1>8. CASE Scan
  BY <1>8, ScanStep
<1>9. CASE EndScan
  BY <1>9, EndScanStep
<1>10. CASE Mine
  BY <1>10, MineStep
<1>11. ASSUME NEW i \in DOMAIN frontier, Fetch(i) PROVE FindInv'
  BY <1>11, FetchStep
<1>12. ASSUME NEW i \in DOMAIN frontier, Arrive(i) PROVE FindInv'
  BY <1>12, ArriveStep
<1>13. CASE EndLevel
  BY <1>13, EndLevelStep
<1>14. CASE UNCHANGED findVars
  <2>1. /\ UNCHANGED <<site, query, phase, listing, chain, walk, answer, faults>>
        /\ UNCHANGED <<turn, hints, level, frontier, flying, results, catalogs, failed>>
    BY <1>14 DEF findVars, listing, chain, walk
  <2>2. HintsInv' /\ PagesInv' /\ ExactInv' /\ PhaseInv'
    BY <2>1, ChainStays DEF FindInv
  <2>3. FindIsComplete'
    BY <2>1, CompleteStays DEF FindInv
  <2>4. LevelInv'
    <3>1. CASE phase # "done"
      BY <2>1, <3>1, WalkStays DEF FindInv
    <3>2. CASE phase = "done"
      BY <2>1, <3>2 DEF LevelInv
    <3> QED  BY <3>1, <3>2
  <2>5. FindTypeOK' /\ FlightInv'
    BY <2>1 DEF FindInv, FindTypeOK, FlightInv
  <2> QED  BY <2>1, <2>2, <2>3, <2>4, <2>5 DEF FindInv
<1> QED  BY <1>1, <1>2, <1>3, <1>4, <1>5, <1>6, <1>7, <1>8, <1>9, <1>10, <1>11, <1>12, <1>13, <1>14 DEF FindNext

\* The inductive invariant holds throughout (stac_find/service.py): the pages that were
\* listed are the first ones of the listing, the names that were resolved and the ones that
\* are left stand for the collections that are meant, and the walk has linked to exactly
\* what is within reach of the root over the catalogs that could be fetched.
THEOREM FindInvariance == FindSpec => []FindInv
<1>1. FindInit => FindInv
  BY FindBegins
<1>2. FindInv /\ [FindNext]_findVars => FindInv'
  BY FindSteps
<1> QED  BY <1>1, <1>2, PTL DEF FindSpec

\* No more fetches of a level are under way than the semaphore lets in, no loop over pages
\* and no walk goes beyond its limit, and a request has ended when it has an answer.
THEOREM FindTypeCorrect == FindSpec => []FindTypeOK
<1>1. FindInv => FindTypeOK
  BY DEF FindInv
<1> QED  BY <1>1, FindInvariance, PTL

\* find_catalog, find_asset, find_properties, find_item and find_item_scientific leave out
\* nothing they were asked for and add nothing else, whatever the API holds, however it
\* pages, which of its answers go wrong and in whatever order fetches are answered.
THEOREM FindStaysComplete == FindSpec => []FindIsComplete
<1>1. FindInv => FindIsComplete
  BY DEF FindInv
<1> QED  BY <1>1, FindInvariance, PTL

=============================================================================
