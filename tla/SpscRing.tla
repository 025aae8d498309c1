---- MODULE SpscRing ----
(***************************************************************************)
(* structure/ringbuf.h: a ring between one writer and one reader, which    *)
(* each own one counter and read the other's.  objpool.h is the same ring  *)
(* filled with free objects at the start: its acquire is pop, its release  *)
(* is push.                                                                *)
(*                                                                         *)
(* One action is one access to what the other side may touch.  writer.at   *)
(* and reader.at name the next one:                                        *)
(*   out       outside push, outside pop                                   *)
(*   store     the store to the slot (ringbuf.h:101)                       *)
(*   publish   in++ (103)                                                  *)
(*   load      the load of the slot (114)                                  *)
(*   advance   out++ (115)                                                 *)
(*   late      out++ is visible, the load of the slot is still to come     *)
(*   have      pop is about to return its item                             *)
(***************************************************************************)
EXTENDS RingIndex

CONSTANTS
  Items, None,
  LateLoad    \* whether the CPU may make out++ visible before it has loaded
              \* the slot: no barrier lies between lines 114 and 115

ASSUME SpscAssumption == None \notin Items /\ LateLoad \in BOOLEAN

VARIABLES in, out, buf, writer, reader

vars == <<in, out, buf, writer, reader>>

Nowhere == [at |-> "out", item |-> None]

(* ringbuf_init with an empty ring, objpool_init with a full one. *)
InitWith(content) ==
  /\ in = Len(content)
  /\ out = 0
  /\ buf = [s \in Slots |-> IF s < Len(content) THEN content[s + 1] ELSE None]
  /\ writer = Nowhere
  /\ reader = Nowhere

Init == InitWith(<<>>)

Count == Sub(in, out)
Empty == in = out
Full == Count >= Cap

(* ringbuf_push.  Without a free slot it returns 0 and changes nothing. *)
PushTestLate(v) ==
  /\ writer.at = "out"
  /\ Count <= Cap
  /\ writer' = [at |-> "store", item |-> v]
  /\ UNCHANGED <<in, out, buf, reader>>

PushTest(v) ==
  /\ writer.at = "out"
  /\ ~Full
  /\ writer' = [at |-> "store", item |-> v]
  /\ UNCHANGED <<in, out, buf, reader>>

PushStore ==
  /\ writer.at = "store"
  /\ buf' = [buf EXCEPT ![Slot(in)] = writer.item]
  /\ writer' = [writer EXCEPT !.at = "publish"]
  /\ UNCHANGED <<in, out, reader>>

PushPublish ==
  /\ writer.at = "publish"
  /\ in' = Inc(in)
  /\ writer' = Nowhere
  /\ UNCHANGED <<out, buf, reader>>

(* ringbuf_pop.  On an empty ring it returns NULL and changes nothing. *)
PopTest ==
  /\ reader.at = "out"
  /\ ~Empty
  /\ reader' = [reader EXCEPT !.at = "load"]
  /\ UNCHANGED <<in, out, buf, writer>>

PopLoadNow ==
  /\ reader.at = "load"
  /\ reader' = [at |-> "advance", item |-> buf[Slot(out)]]

(* With out++ ahead of it the load is of the slot out has just left. *)
Leaving == Slot(Sub(out, 1))
PopLoadLate ==
  /\ reader.at = "late"
  /\ reader' = [at |-> "have", item |-> buf[Leaving]]

PopLoad ==
  /\ PopLoadNow \/ PopLoadLate
  /\ UNCHANGED <<in, out, buf, writer>>

(* The slot is not given back. *)
PopAdvanceNot ==
  /\ reader.at = "advance"
  /\ out' = out
  /\ reader' = [reader EXCEPT !.at = "have"]
  /\ UNCHANGED <<in, buf, writer>>

PopAdvance ==
  /\ \/ /\ reader.at = "advance"
        /\ reader' = [reader EXCEPT !.at = "have"]
     \/ /\ LateLoad
        /\ reader.at = "load"
        /\ reader' = [reader EXCEPT !.at = "late"]
  /\ out' = Inc(out)
  /\ UNCHANGED <<in, buf, writer>>

PopReturn ==
  /\ reader.at = "have"
  /\ reader' = Nowhere
  /\ UNCHANGED <<in, out, buf, writer>>

Push == (\E v \in Items : PushTest(v)) \/ PushStore \/ PushPublish
Pop == PopTest \/ PopLoad \/ PopAdvance \/ PopReturn

Next == Push \/ Pop

Spec == Init /\ [][Next]_vars

(***************************************************************************)
(* Properties                                                              *)
(***************************************************************************)
TypeOK ==
  /\ in \in Counter /\ out \in Counter
  /\ buf \in [Slots -> Items \cup {None}]
  /\ writer \in [at : {"out", "store", "publish"}, item : Items \cup {None}]
  /\ reader \in [at : {"out", "load", "advance", "late", "have"},
                 item : Items \cup {None}]

Contents == Window(buf, out, Count)

(* The writer and the reader are never at the same slot. *)
SlotExclusion ==
  writer.at = "store" =>
    /\ reader.at = "load" => Slot(in) # Slot(out)
    /\ reader.at = "late" => Slot(in) # Leaving

(* The inductive invariant when loads are not late: the counters are at most *)
(* Cap apart, each side's test still holds while it uses its slot, and the   *)
(* items in transit are those of the slots.                                  *)
CountInv ==
  /\ Count <= Cap
  /\ writer.at # "out" => Count < Cap
  /\ reader.at \in {"load", "advance"} => Count > 0
ItemInv ==
  /\ writer.at = "out" <=> writer.item = None
  /\ writer.at = "publish" => buf[Slot(in)] = writer.item
  /\ reader.at # "late"
  /\ reader.at = "advance" => reader.item = buf[Slot(out)]
  /\ reader.at = "have" => reader.item # None
  /\ \A i \in Counter : Sub(i, out) < Count => buf[Slot(i)] # None
IndInv == TypeOK /\ CountInv /\ ItemInv

(* A FIFO queue: push takes effect with in++, pop with out++. *)
Queue ==
  INSTANCE BoundedQueue WITH
    Producers <- {"writer"}, Consumers <- {"reader"}, Values <- Items,
    queue <- Contents,
    offer <- [p \in {"writer"} |-> writer.item],
    got <- [c \in {"reader"} |->
              IF reader.at = "have" THEN reader.item
              ELSE IF reader.at = "late" THEN buf[Leaving] ELSE None]
ImplementsQueue == Queue!Spec

====
