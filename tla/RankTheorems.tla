----------------------------- MODULE RankTheorems -----------------------------
(***************************************************************************)
(* What every component that counts the members of a set relies on: places *)
(* in a strict order, which _prune of the job runner and the pages of a    *)
(* search of the log store are cut by, and lists picked by their indices,  *)
(* such as the assets of an Item and the layers of a conversion.           *)
(***************************************************************************)
EXTENDS Lists, FiniteSetTheorems, TLAPS

\* B is a strict order in which any two members of S differ.
StrictOrder(S, B) ==
  /\ \A r \in S : <<r, r>> \notin B
  /\ \A r, s, t \in S : <<r, s>> \in B /\ <<s, t>> \in B => <<r, t>> \in B
  /\ \A r, s \in S : r # s => <<r, s>> \in B \/ <<s, r>> \in B

\* How many members are ahead of each.
Ahead(r, S, B) == {s \in S : <<r, s>> \in B}
Place(S, B) == [r \in S |-> Cardinality(Ahead(r, S, B))]

\* A place is a number below the size of the set.
LEMMA PlaceType ==
  ASSUME NEW S, IsFiniteSet(S), NEW B, StrictOrder(S, B), NEW r \in S
  PROVE  Place(S, B)[r] \in 0 .. Cardinality(S) - 1
<1>1. Ahead(r, S, B) \in SUBSET S /\ r \notin Ahead(r, S, B)
  BY DEF Ahead, StrictOrder
<1>2. /\ IsFiniteSet(Ahead(r, S, B))
      /\ Cardinality(Ahead(r, S, B)) <= Cardinality(S)
      /\ Cardinality(S) = Cardinality(Ahead(r, S, B)) => S = Ahead(r, S, B)
  BY <1>1, FS_Subset
<1>3. Cardinality(Ahead(r, S, B)) # Cardinality(S)
  BY <1>1, <1>2
<1>4. Cardinality(Ahead(r, S, B)) \in Nat /\ Cardinality(S) \in Nat
  BY <1>2, FS_CardinalityType
<1> QED  BY <1>2, <1>3, <1>4 DEF Place

\* Who is ahead of another has fewer ahead of itself.
LEMMA PlaceMonotonic ==
  ASSUME NEW S, IsFiniteSet(S), NEW B, StrictOrder(S, B), NEW r \in S, NEW s \in S,
         <<r, s>> \in B
  PROVE  Place(S, B)[s] < Place(S, B)[r]
<1>1. Ahead(s, S, B) \in SUBSET Ahead(r, S, B)
  BY DEF Ahead, StrictOrder
<1>2. s \in Ahead(r, S, B) /\ s \notin Ahead(s, S, B)
  BY DEF Ahead, StrictOrder
<1>3. Ahead(r, S, B) \in SUBSET S
  BY DEF Ahead
<1>4. IsFiniteSet(Ahead(r, S, B))
  BY <1>3, FS_Subset
<1>5. /\ IsFiniteSet(Ahead(s, S, B))
      /\ Cardinality(Ahead(s, S, B)) <= Cardinality(Ahead(r, S, B))
      /\ Cardinality(Ahead(r, S, B)) = Cardinality(Ahead(s, S, B)) => Ahead(r, S, B) = Ahead(s, S, B)
  BY <1>1, <1>4, FS_Subset
<1>6. Cardinality(Ahead(r, S, B)) \in Nat /\ Cardinality(Ahead(s, S, B)) \in Nat
  BY <1>4, <1>5, FS_CardinalityType
<1> QED  BY <1>2, <1>5, <1>6 DEF Place

\* Every place below the size of the set is taken once.
LEMMA PlaceBijection ==
  ASSUME NEW S, IsFiniteSet(S), NEW B, StrictOrder(S, B)
  PROVE  Place(S, B) \in Bijection(S, 0 .. Cardinality(S) - 1)
<1> DEFINE T == 0 .. Cardinality(S) - 1
           f == Place(S, B)
<1>1. Cardinality(S) \in Nat
  BY FS_CardinalityType
<1>2. IsFiniteSet(T) /\ Cardinality(T) = Cardinality(S)
  BY <1>1, FS_Interval
<1>3. f \in [S -> T]
  BY PlaceType DEF Place
<1>4. ASSUME NEW r \in S, NEW s \in S, f[r] = f[s] PROVE r = s
  <2>1. f[r] \in Int /\ f[s] \in Int
    BY <1>3
  <2>2. CASE <<r, s>> \in B
    BY <1>4, <2>1, <2>2, PlaceMonotonic
  <2>3. CASE <<s, r>> \in B
    BY <1>4, <2>1, <2>3, PlaceMonotonic
  <2> QED  BY <2>2, <2>3 DEF StrictOrder
<1>5. f \in Injection(S, T)
  BY <1>3, <1>4 DEF Injection, IsInjective
<1>6. f \in Surjection(S, T)
  BY <1>2, <1>5, FS_Injection
<1> QED  BY <1>5, <1>6 DEF Bijection

\* The first k places are k, or all of them.
LEMMA FirstPlaces ==
  ASSUME NEW S, IsFiniteSet(S), NEW B, StrictOrder(S, B), NEW k \in Nat
  PROVE  LET F == {r \in S : Place(S, B)[r] < k}
         IN  /\ IsFiniteSet(F)
             /\ Cardinality(F) = IF k < Cardinality(S) THEN k ELSE Cardinality(S)
<1> DEFINE T == 0 .. Cardinality(S) - 1
           f == Place(S, B)
           F == {r \in S : f[r] < k}
<1>1. Cardinality(S) \in Nat /\ f \in Bijection(S, T)
  BY FS_CardinalityType, PlaceBijection
<1>2. f \in [S -> T]
  BY <1>1 DEF Bijection, Injection
<1>3. CASE k >= Cardinality(S)
  <2>1. F = S
    BY <1>1, <1>2, <1>3
  <2>2. IsFiniteSet(F) /\ Cardinality(F) = Cardinality(S)
    BY <2>1
  <2> HIDE DEF F
  <2> QED  BY <1>1, <1>3, <2>2 DEF F
<1>4. CASE k < Cardinality(S)
  <2> DEFINE g == [r \in F |-> f[r]]
  <2>1. IsFiniteSet(F)
    <3>1. F \in SUBSET S
      OBVIOUS
    <3> HIDE DEF F
    <3> QED  BY <3>1, FS_Subset
  <2>2. g \in [F -> 0 .. k - 1]
    <3>1. ASSUME NEW r \in F PROVE f[r] \in 0 .. k - 1
      <4>1. f[r] \in T /\ f[r] < k
        BY <1>2
      <4> QED  BY <4>1
    <3> HIDE DEF F, f
    <3> QED  BY <3>1
  <2>3. \A r, s \in F : g[r] = g[s] => r = s
    BY <1>1 DEF Bijection, Injection, IsInjective
  <2>4. \A i \in 0 .. k - 1 : \E r \in F : g[r] = i
    <3>1. TAKE i \in 0 .. k - 1
    <3>2. i \in T /\ i < k
      BY <1>1, <1>4
    <3>3. PICK r \in S : f[r] = i
      BY <1>1, <3>2 DEF Bijection, Surjection
    <3>4. r \in F /\ g[r] = i
      BY <3>2, <3>3
    <3> QED  BY <3>4
  <2>5. g \in Bijection(F, 0 .. k - 1)
    <3> HIDE DEF F, g
    <3> QED  BY <2>2, <2>3, <2>4 DEF Bijection, Injection, Surjection, IsInjective
  <2>6. Cardinality(0 .. k - 1) = Cardinality(F)
    <3>1. ExistsBijection(F, 0 .. k - 1)
      BY <2>5 DEF ExistsBijection
    <3> HIDE DEF F
    <3> QED  BY <2>1, <3>1, FS_Bijection
  <2>7. Cardinality(0 .. k - 1) = k
    BY FS_Interval
  <2> QED  BY <1>4, <2>1, <2>6, <2>7
<1> QED  BY <1>1, <1>3, <1>4

-----------------------------------------------------------------------------
(* The k-th of a set of numbers                                            *)

Downwards == {p \in Int \X Int : p[2] < p[1]}

\* There is a k-th one, and a later one is larger.
LEMMA NthOf ==
  ASSUME NEW I \in SUBSET Int, IsFiniteSet(I)
  PROVE  /\ Cardinality(I) \in Nat
         /\ \A k \in 1 .. Cardinality(I) : Nth(k, I) \in I
         /\ \A k, l \in 1 .. Cardinality(I) : Nth(k, I) = Nth(l, I) => k = l
         /\ \A i \in I : \E k \in 1 .. Cardinality(I) : Nth(k, I) = i
<1> DEFINE m == Cardinality(I)
           f == Place(I, Downwards)
<1>1. m \in Nat
  BY FS_CardinalityType
<1>2. \A i, j \in I : <<i, j>> \in Downwards <=> j < i
  BY DEF Downwards
<1>3. StrictOrder(I, Downwards)
  BY <1>2 DEF StrictOrder
<1>4. f \in Bijection(I, 0 .. m - 1)
  <2> HIDE DEF m
  <2> QED  BY <1>3, PlaceBijection DEF m
<1>5. \A i \in I : f[i] = Cardinality({j \in I : j < i})
  <2>1. \A i \in I : Ahead(i, I, Downwards) = {j \in I : j < i}
    BY <1>2 DEF Ahead
  <2> QED  BY <2>1 DEF Place
<1> HIDE DEF m, f
<1>6. ASSUME NEW k \in 1 .. m PROVE Nth(k, I) \in I /\ f[Nth(k, I)] = k - 1
  <2>1. k - 1 \in 0 .. m - 1
    BY <1>1
  <2>2. PICK i \in I : f[i] = k - 1
    BY <1>4, <2>1 DEF Bijection, Surjection
  <2>3. \E j \in I : Cardinality({x \in I : x < j}) = k - 1
    BY <1>5, <2>2
  <2>4. Nth(k, I) \in I /\ Cardinality({x \in I : x < Nth(k, I)}) = k - 1
    BY <2>3 DEF Nth
  <2> QED  BY <1>5, <2>4
<1>7. ASSUME NEW k \in 1 .. m, NEW l \in 1 .. m, Nth(k, I) = Nth(l, I) PROVE k = l
  <2>1. k - 1 = l - 1 /\ k \in Int /\ l \in Int
    BY <1>1, <1>6, <1>7
  <2> QED  BY <2>1
<1>8. ASSUME NEW i \in I PROVE \E k \in 1 .. m : Nth(k, I) = i
  <2>1. f[i] \in 0 .. m - 1
    BY <1>4 DEF Bijection, Injection
  <2> DEFINE k == f[i] + 1
  <2>2. k \in 1 .. m /\ k - 1 = f[i]
    BY <1>1, <2>1
  <2> HIDE DEF k
  <2>3. f[Nth(k, I)] = f[i] /\ Nth(k, I) \in I
    BY <1>6, <2>2
  <2>4. Nth(k, I) = i
    BY <1>4, <2>3 DEF Bijection, Injection, IsInjective
  <2> QED  BY <2>2, <2>4
<1> QED  BY <1>1, <1>6, <1>7, <1>8 DEF m

\* The indices of a sequence.
LEMMA Indices ==
  ASSUME NEW T, NEW s \in Seq(T), NEW I \in SUBSET (DOMAIN s)
  PROVE  I \in SUBSET Int /\ IsFiniteSet(I)
<1> DEFINE n == Len(s)
<1>1. n \in Nat /\ DOMAIN s = 1 .. n
  OBVIOUS
<1> HIDE DEF n
<1>2. IsFiniteSet(1 .. n)
  BY <1>1, FS_Interval
<1>3. I \in SUBSET (1 .. n)
  BY <1>1
<1>4. IsFiniteSet(I)
  BY <1>2, <1>3, FS_Subset
<1>5. I \in SUBSET Int
  BY <1>1, <1>3
<1> QED  BY <1>4, <1>5

\* What is kept of a sequence are the entries at the indices, each once.
LEMMA PickedEntries ==
  ASSUME NEW T, NEW s \in Seq(T), NEW I \in SUBSET (DOMAIN s)
  PROVE  /\ Picked(s, I) \in Seq(T)
         /\ \A k \in DOMAIN Picked(s, I) : Nth(k, I) \in I /\ Picked(s, I)[k] = s[Nth(k, I)]
         /\ \A k, l \in DOMAIN Picked(s, I) : Nth(k, I) = Nth(l, I) => k = l
         /\ \A i \in I : \E k \in DOMAIN Picked(s, I) : Picked(s, I)[k] = s[i]
<1> DEFINE m == Cardinality(I)
           kept == Picked(s, I)
<1>1. /\ m \in Nat
      /\ \A k \in 1 .. m : Nth(k, I) \in I
      /\ \A k, l \in 1 .. m : Nth(k, I) = Nth(l, I) => k = l
      /\ \A i \in I : \E k \in 1 .. m : Nth(k, I) = i
  BY Indices, NthOf
<1>2. kept = [k \in 1 .. m |-> s[Nth(k, I)]]
  BY DEF Picked
<1> HIDE DEF m, kept
<1>3. \A i \in DOMAIN s : s[i] \in T
  OBVIOUS
<1>4. \A k \in 1 .. m : s[Nth(k, I)] \in T
  BY <1>1, <1>3
<1>5. kept \in Seq(T) /\ DOMAIN kept = 1 .. m
  BY <1>1, <1>2, <1>4
<1>6. \A k \in 1 .. m : kept[k] = s[Nth(k, I)]
  BY <1>2
<1> QED  BY <1>1, <1>5, <1>6 DEF kept

\* A sorted list has what there was to sort.
LEMMA InOrderEntries ==
  ASSUME NEW T, NEW I \in SUBSET T, I \in SUBSET Int, IsFiniteSet(I)
  PROVE  InOrder(I) \in Seq(T)
<1> DEFINE m == Cardinality(I)
<1>1. m \in Nat /\ \A k \in 1 .. m : Nth(k, I) \in I
  BY NthOf
<1>2. InOrder(I) = [k \in 1 .. m |-> Nth(k, I)]
  BY DEF InOrder
<1> HIDE DEF m
<1>3. \A k \in 1 .. m : Nth(k, I) \in T
  BY <1>1
<1> QED  BY <1>1, <1>2, <1>3
\* A list has a first and a last index of any kind it has at all.
LEMMA LeastOf ==
  ASSUME NEW I \in SUBSET Int, IsFiniteSet(I), I # {}
  PROVE  \E i \in I : \A j \in I : i <= j
<1> DEFINE m == Cardinality(I)
           f == Place(I, Downwards)
<1>1. \A i, j \in I : <<i, j>> \in Downwards <=> j < i
  BY DEF Downwards
<1>2. StrictOrder(I, Downwards)
  BY <1>1 DEF StrictOrder
<1>3. f \in Bijection(I, 0 .. m - 1) /\ m \in Nat /\ m # 0
  BY <1>2, PlaceBijection, FS_CardinalityType, FS_EmptySet
<1>4. PICK i \in I : f[i] = 0
  BY <1>3 DEF Bijection, Surjection
<1>5. Cardinality(Ahead(i, I, Downwards)) = 0
  BY <1>4 DEF Place
<1>6. Ahead(i, I, Downwards) \in SUBSET I
  BY DEF Ahead
<1>7. Ahead(i, I, Downwards) = {}
  BY <1>5, <1>6, FS_Subset, FS_EmptySet
<1>8. \A j \in I : ~(j < i)
  BY <1>1, <1>7 DEF Ahead
<1> QED  BY <1>8

LEMMA GreatestOf ==
  ASSUME NEW I \in SUBSET Int, IsFiniteSet(I), I # {}
  PROVE  \E i \in I : \A j \in I : j <= i
<1> DEFINE m == Cardinality(I)
           f == Place(I, Downwards)
<1>1. \A i, j \in I : <<i, j>> \in Downwards <=> j < i
  BY DEF Downwards
<1>2. StrictOrder(I, Downwards)
  BY <1>1 DEF StrictOrder
<1>3. f \in Bijection(I, 0 .. m - 1) /\ m \in Nat /\ m # 0
  BY <1>2, PlaceBijection, FS_CardinalityType, FS_EmptySet
<1>4. PICK i \in I : f[i] = m - 1
  BY <1>3 DEF Bijection, Surjection
<1>5. ASSUME NEW j \in I, i < j PROVE FALSE
  <2>1. f[i] < f[j]
    BY <1>1, <1>2, <1>5, PlaceMonotonic
  <2>2. f[j] \in 0 .. m - 1
    BY <1>3 DEF Bijection, Injection
  <2> QED  BY <2>1, <2>2, <1>3, <1>4
<1> QED  BY <1>5

===============================================================================
