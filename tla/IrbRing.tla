---- MODULE IrbRing ----
(***************************************************************************)
(* coding/ringbuffer.c: a ring of pointers to nodes.  Both indices run     *)
(* over the slots, and a mirror bit per index is flipped at every wrap, so *)
(* that a full ring differs from an empty one without a spare slot.        *)
(***************************************************************************)
EXTENDS Integers, Sequences

CONSTANTS IrbSize, IrbItems, IrbNone

ASSUME IrbAssumption == IrbSize \in Nat \ {0} /\ IrbNone \notin IrbItems

VARIABLES
  irb,      \* the IntrusiveRingBuffer_t
  irbHeld   \* history: what was pushed and not popped, oldest first

irbVars == <<irb, irbHeld>>

IrbInit ==
  /\ irb = [buffer |-> [i \in 0 .. IrbSize - 1 |-> IrbNone],
            write_idx |-> 0, read_idx |-> 0, write_mirror |-> 0, read_mirror |-> 0]
  /\ irbHeld = <<>>

IrbEmpty == irb.write_idx = irb.read_idx /\ irb.write_mirror = irb.read_mirror
IrbFull == irb.write_idx = irb.read_idx /\ irb.write_mirror # irb.read_mirror

Wraps(i) == i + 1 = IrbSize
IrbIncOn(i) == i + 1   \* without the wrap
IrbInc(i) == IF Wraps(i) THEN 0 ELSE i + 1
FlipNever(i, mirror) == mirror
Flip(i, mirror) == IF Wraps(i) THEN 1 - mirror ELSE mirror

IrbPush(v) ==
  /\ ~IrbFull
  /\ irb' = [irb EXCEPT !.buffer[irb.write_idx] = v, !.write_idx = IrbInc(@),
                        !.write_mirror = Flip(irb.write_idx, @)]
  /\ irbHeld' = Append(irbHeld, v)

(* The caller gets buffer[read_idx]; the slot keeps its pointer. *)
IrbPop ==
  /\ ~IrbEmpty
  /\ irb' = [irb EXCEPT !.read_idx = IrbInc(@), !.read_mirror = Flip(irb.read_idx, @)]
  /\ irbHeld' = Tail(irbHeld)

(* Both return false and change nothing. *)
IrbRefused == (IrbFull \/ IrbEmpty) /\ UNCHANGED irbVars

IrbNext == (\E v \in IrbItems : IrbPush(v)) \/ IrbPop \/ IrbRefused

IrbSpec == IrbInit /\ [][IrbNext]_irbVars

(* --- properties -------------------------------------------------------- *)

IrbTypeOK ==
  /\ irb \in [buffer : [0 .. IrbSize - 1 -> IrbItems \cup {IrbNone}],
              write_idx : 0 .. IrbSize - 1, read_idx : 0 .. IrbSize - 1,
              write_mirror : 0 .. 1, read_mirror : 0 .. 1]
  /\ irbHeld \in Seq(IrbItems)

(* The i-th slot after the read index. *)
IrbSlot(i) == IF irb.read_idx + i < IrbSize THEN irb.read_idx + i
              ELSE irb.read_idx + i - IrbSize

(* The slots from read_idx on hold what was pushed and not popped, in      *)
(* order; the ring reports full exactly when it holds IrbSize items and    *)
(* empty exactly when it holds none, whatever the size and however often   *)
(* the indices wrapped (ringbuffer.c:54-100).                              *)
IrbExact ==
  /\ \A i \in 1 .. Len(irbHeld) : irb.buffer[IrbSlot(i - 1)] = irbHeld[i]
  /\ IrbFull <=> Len(irbHeld) = IrbSize
  /\ IrbEmpty <=> Len(irbHeld) = 0

====
