-------------------------------- MODULE Lists --------------------------------
(***************************************************************************)
(* Python's list comprehensions and sorted lists, said by index: the k-th  *)
(* of a set of numbers is the one with k - 1 smaller ones.                 *)
(***************************************************************************)
EXTENDS Integers, Sequences, FiniteSets

\* The k-th of a set of numbers.
Nth(k, I) == CHOOSE i \in I : Cardinality({j \in I : j < i}) = k - 1

\* [s[i] for i in I], and sorted(I).
Picked(s, I) == [k \in 1 .. Cardinality(I) |-> s[Nth(k, I)]]
InOrder(I) == [k \in 1 .. Cardinality(I) |-> Nth(k, I)]

=============================================================================
