---- MODULE RingIndex ----
(***************************************************************************)
(* The indices of the ring buffers in structure/: free-running unsigned    *)
(* 32-bit counters, of which the low bits, counter & (capacity - 1), are   *)
(* the slot.  Shared by mpmc.c, ringbuf.h and objpool.h.                   *)
(***************************************************************************)
EXTENDS Integers, Sequences

CONSTANTS
  Cap,       \* capacity of the ring, mask + 1
  Modulus    \* 2^32, the modulus of a counter

(* The code wants a power of two (mpmc.c:34, ringbuf.h:59, objpool.h:30);   *)
(* what the rings need of it is that the capacity divides 2^32.             *)
ASSUME IndexAssumption ==
  /\ Cap \in Nat \ {0}
  /\ Modulus \in Nat
  /\ Modulus > Cap
  /\ Modulus % Cap = 0

Counter == 0 .. Modulus - 1
Slots == 0 .. Cap - 1

(* uint32_t arithmetic: a + 1 and a - b.  IncWide is the same on a type     *)
(* wider than the counters.                                                 *)
IncWide(a) == a + 1
Inc(a) == IF a + 1 = Modulus THEN 0 ELSE a + 1
Sub(a, b) == IF a >= b THEN a - b ELSE a + Modulus - b

(* The k-th counter value after a, for k of at most a lap. *)
Add(a, k) == IF a + k < Modulus THEN a + k ELSE a + k - Modulus

(* i & mask; the mask of SlotShort is one bit too short. *)
SlotShort(i) == i % ((Cap + 1) \div 2)
Slot(i) == i % Cap

(* The n slots of b from index o on, in the order of their indices. *)
Window(b, o, n) == [i \in 1 .. n |-> b[Slot(Add(o, i - 1))]]

====
