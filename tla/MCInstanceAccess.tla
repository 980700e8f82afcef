-------------------------- MODULE MCInstanceAccess --------------------------
(* Two users and two requests at a time, for TLC.                           *)
EXTENDS InstanceAccess, TLC

CONSTANTS ann, bob, r1, r2

Symmetry == Permutations({ann, bob}) \cup Permutations({r1, r2})

=============================================================================
