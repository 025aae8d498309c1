---- MODULE MCMemPool ----
(***************************************************************************)
(* Small instances of MemPool.  Threads are interchangeable; objects are   *)
(* addresses and are not.                                                  *)
(***************************************************************************)
EXTENDS MemPool, TLC

CONSTANTS t1, t2, t3

Symmetry == Permutations(Threads)

====
