---- MODULE MCMpmcRing ----
(***************************************************************************)
(* Small instances of MpmcRing.  Threads are model values; those of one    *)
(* side are interchangeable, and so are the items.                         *)
(***************************************************************************)
EXTENDS MpmcRing, TLC

CONSTANTS p1, p2, c1, c2, v1, v2

Symmetry == Permutations(Producers) \cup Permutations(Consumers) \cup Permutations(Values)

====
