---- MODULE SpscRing_proofs ----
(***************************************************************************)
(* Proofs about SpscRing on a CPU that keeps a pop's load before its       *)
(* out++, for any items, capacity and width of the counters.               *)
(***************************************************************************)
EXTENDS SpscRing, RingIndex_proofs

(* A new ring satisfies the invariant. *)
LEMMA SpscInit == Init => IndInv
<1> SUFFICES ASSUME Init PROVE IndInv
  OBVIOUS
<1>1. /\ in = 0 /\ out = 0 /\ buf = [s \in Slots |-> None]
      /\ writer = Nowhere /\ reader = Nowhere
  BY IndexAssumption, SMT DEF Init, InitWith, Slots
<1>2. 0 \in Counter /\ Sub(0, 0) = 0 /\ \A i \in Counter : ~(Sub(i, 0) < 0)
  BY IndexAssumption, SMT DEF Counter, Sub
<1>3. TypeOK
  BY <1>1, <1>2 DEF TypeOK, Nowhere
<1>4. CountInv
  BY <1>1, <1>2, IndexAssumption DEF CountInv, Count, Nowhere
<1>5. ItemInv
  BY <1>1, <1>2 DEF ItemInv, Count, Nowhere
<1> QED
  BY <1>3, <1>4, <1>5 DEF IndInv

(* Every step of either side preserves it. *)
LEMMA SpscStep ==
  ASSUME LateLoad = FALSE
  PROVE  IndInv /\ [Next]_vars => IndInv'
<1> SUFFICES ASSUME IndInv, [Next]_vars PROVE IndInv'
  OBVIOUS
<1>1. /\ in \in Counter /\ out \in Counter /\ Inc(in) \in Counter /\ Inc(out) \in Counter
      /\ Slot(in) \in Slots /\ Slot(out) \in Slots /\ Count \in Nat
      /\ buf \in [Slots -> Items \cup {None}]
      /\ writer \in [at : {"out", "store", "publish"}, item : Items \cup {None}]
      /\ reader \in [at : {"out", "load", "advance", "late", "have"},
                     item : Items \cup {None}]
  BY CounterType, SlotType DEF IndInv, TypeOK, Count
<1>2. CountInv /\ ItemInv
  BY DEF IndInv
<1>3. ASSUME NEW v \in Items, PushTest(v) PROVE IndInv'
  <2>1. Count < Cap
    BY <1>1, <1>3, IndexAssumption, SMT DEF PushTest, Full
  <2>2. writer' = [at |-> "store", item |-> v] /\ UNCHANGED <<in, out, buf, reader>>
    BY <1>3 DEF PushTest
  <2>3. TypeOK' /\ CountInv'
    BY <1>1, <1>2, <2>1, <2>2 DEF TypeOK, CountInv, Count
  <2>4. ItemInv'
    BY <1>1, <1>2, <2>2, SpscAssumption DEF ItemInv, Count
  <2> QED
    BY <2>3, <2>4 DEF IndInv
<1>4. CASE PushStore
  <2>1. /\ writer.at = "store" /\ writer.item \in Items /\ Count < Cap
        /\ buf' = [buf EXCEPT ![Slot(in)] = writer.item]
        /\ writer' = [writer EXCEPT !.at = "publish"] /\ UNCHANGED <<in, out, reader>>
    BY <1>1, <1>2, <1>4, IndexAssumption, SMT DEF PushStore, CountInv, ItemInv
  <2>2. TypeOK' /\ CountInv'
    BY <1>1, <1>2, <2>1 DEF TypeOK, CountInv, Count
  <2>3. ASSUME NEW i \in Counter, Sub(i, out) < Count
        PROVE  buf'[Slot(i)] # None /\ buf'[Slot(i)] = buf[Slot(i)]
    <3>1. Sub(i, out) \in Nat /\ Slot(i) \in Slots
      BY <1>1, CounterType, SlotType
    <3>2. i # in /\ Sub(i, out) < Cap /\ Sub(in, out) < Cap
      BY <1>1, <2>1, <2>3, <3>1, IndexAssumption, SMT DEF Count
    <3>3. Slot(i) # Slot(in)
      BY <1>1, <3>2, SlotsDiffer
    <3> QED
      BY <1>1, <1>2, <2>1, <2>3, <3>1, <3>3 DEF ItemInv
  <2>4. reader.at = "advance" => buf'[Slot(out)] = buf[Slot(out)]
    <3>1. Sub(out, out) = 0
      BY <1>1, SMT DEF Sub, Counter
    <3> QED
      BY <1>1, <1>2, <2>3, <3>1 DEF CountInv
  <2>5. ItemInv'
    BY <1>1, <1>2, <2>1, <2>3, <2>4, SpscAssumption DEF ItemInv, Count
  <2> QED
    BY <2>2, <2>5 DEF IndInv
<1>5. CASE PushPublish
  <2>1. /\ writer.at = "publish" /\ buf[Slot(in)] # None /\ Count < Cap
        /\ in' = Inc(in) /\ writer' = Nowhere /\ UNCHANGED <<out, buf, reader>>
    BY <1>2, <1>5 DEF PushPublish, CountInv, ItemInv
  <2>2. Sub(Inc(in), out) = Count + 1
    <3>1. Sub(in, out) + 1 < Modulus
      BY <1>1, <2>1, IndexAssumption, SMT DEF Count
    <3> QED
      BY <1>1, <3>1, SubInc DEF Count
  <2>3. TypeOK'
    BY <1>1, <2>1 DEF TypeOK, Nowhere
  <2>4. CountInv'
    BY <1>1, <1>2, <2>1, <2>2, IndexAssumption, SMT DEF CountInv, Count, Nowhere
  <2>5. ASSUME NEW i \in Counter, Sub(i, out) < Count + 1 PROVE buf[Slot(i)] # None
    <3>1. Sub(i, out) \in Nat
      BY <1>1, CounterType
    <3>2. Sub(i, out) < Count \/ Sub(i, out) = Sub(in, out)
      BY <1>1, <2>5, <3>1, SMT DEF Count
    <3> QED
      BY <1>1, <1>2, <2>1, <3>2, SubInjective DEF ItemInv
  <2>6. ItemInv'
    BY <1>1, <1>2, <2>1, <2>2, <2>5 DEF ItemInv, Count, Nowhere
  <2> QED
    BY <2>3, <2>4, <2>6 DEF IndInv
<1>6. CASE PopTest
  <2>1. Count > 0
    <3>1. Sub(out, out) = 0 /\ in # out
      BY <1>1, <1>6, SMT DEF Sub, Counter, PopTest, Empty
    <3>2. Sub(in, out) # 0
      BY <1>1, <3>1, SubInjective
    <3> QED
      BY <1>1, <3>2, SMT DEF Count
  <2> QED
    BY <1>1, <1>2, <1>6, <2>1 DEF PopTest, IndInv, TypeOK, CountInv, ItemInv, Count
<1>7. CASE PopLoad
  <2>1. PopLoadNow /\ UNCHANGED <<in, out, buf, writer>>
    BY <1>2, <1>7 DEF PopLoad, PopLoadLate, ItemInv
  <2> QED
    BY <1>1, <1>2, <2>1 DEF PopLoadNow, IndInv, TypeOK, CountInv, ItemInv, Count
<1>8. CASE PopAdvance
  <2>1. /\ reader.at = "advance" /\ reader.item = buf[Slot(out)] /\ Count > 0
        /\ out' = Inc(out) /\ reader' = [reader EXCEPT !.at = "have"]
        /\ UNCHANGED <<in, buf, writer>>
    BY <1>2, <1>8 DEF PopAdvance, CountInv, ItemInv
  <2>2. Sub(out, out) = 0
    BY <1>1, SMT DEF Sub, Counter
  <2>3. in # out
    BY <2>1, <2>2 DEF Count
  <2>4. Sub(in, Inc(out)) = Count - 1
    BY <1>1, <2>3, SubDec DEF Count
  <2>5. TypeOK'
    BY <1>1, <2>1 DEF TypeOK
  <2>6. CountInv'
    BY <1>1, <1>2, <2>1, <2>4, IndexAssumption, SMT DEF CountInv, Count
  <2>7. reader.item # None
    BY <1>1, <1>2, <2>1, <2>2 DEF ItemInv
  <2>8. ASSUME NEW i \in Counter, Sub(i, Inc(out)) < Count - 1 PROVE buf[Slot(i)] # None
    <3>1. Sub(i, out) \in Nat
      BY <1>1, CounterType
    <3>2. CASE i = out
      BY <1>1, <1>2, <2>1, <2>2, <3>2 DEF ItemInv
    <3>3. CASE i # out
      <4>1. Sub(i, Inc(out)) = Sub(i, out) - 1
        BY <1>1, <3>3, SubDec
      <4>2. Sub(i, out) < Count
        BY <1>1, <2>8, <3>1, <4>1, SMT
      <4> QED
        BY <1>2, <4>2 DEF ItemInv
    <3> QED
      BY <3>2, <3>3
  <2>9. ItemInv'
    BY <1>1, <1>2, <2>1, <2>4, <2>7, <2>8 DEF ItemInv, Count
  <2> QED
    BY <2>5, <2>6, <2>9 DEF IndInv
<1>9. CASE PopReturn
  BY <1>1, <1>2, <1>9 DEF PopReturn, IndInv, TypeOK, CountInv, ItemInv, Count, Nowhere
<1>10. CASE UNCHANGED vars
  BY <1>10 DEF vars, IndInv, TypeOK, CountInv, ItemInv, Count
<1> QED
  BY <1>3, <1>4, <1>5, <1>6, <1>7, <1>8, <1>9, <1>10 DEF Next, Push, Pop

(* The counters, the tests and the items in transit fit together always. *)
THEOREM SpscInvariant ==
  ASSUME LateLoad = FALSE
  PROVE  Spec => []IndInv
<1>1. Init => IndInv
  BY SpscInit
<1>2. IndInv /\ [Next]_vars => IndInv'
  BY SpscStep
<1> QED
  BY <1>1, <1>2, PTL DEF Spec

(* The writer never stores into the slot the reader is loading from.         *)
THEOREM SpscSlotsAreExclusive ==
  ASSUME LateLoad = FALSE
  PROVE  Spec => []SlotExclusion
<1>1. IndInv => SlotExclusion
  <2> SUFFICES ASSUME IndInv, writer.at = "store"
               PROVE  reader.at = "load" => Slot(in) # Slot(out)
    BY DEF SlotExclusion, IndInv, ItemInv
  <2>1. in \in Counter /\ out \in Counter /\ Sub(out, out) = 0
    BY SMT DEF IndInv, TypeOK, Sub, Counter
  <2>2. Sub(in, out) < Cap /\ (reader.at = "load" => Sub(in, out) > 0)
    BY DEF IndInv, CountInv, Count
  <2>3. 0 < Cap
    BY IndexAssumption
  <2> QED
    BY <2>1, <2>2, <2>3, SlotsDiffer
<1> QED
  BY <1>1, SpscInvariant, PTL

(***************************************************************************)
(* The ring implements the queue                                           *)
(***************************************************************************)

(* What the queue sees of a state. *)
offerBar == [p \in {"writer"} |-> writer.item]
gotBar ==
  [c \in {"reader"} |->
     IF reader.at = "have" THEN reader.item
     ELSE IF reader.at = "late" THEN buf[Leaving] ELSE None]

(* A new ring is an empty queue. *)
LEMMA QueueInit == Init => Queue!Init
<1> SUFFICES ASSUME Init PROVE Queue!Init
  OBVIOUS
<1>1. in = 0 /\ out = 0 /\ writer = Nowhere /\ reader = Nowhere
  BY DEF Init, InitWith
<1>2. Contents = <<>>
  <2>1. Count = 0
    BY <1>1, SMT DEF Count, Sub
  <2> QED
    BY <2>1, SMT DEF Contents, Window
<1> QED
  BY <1>1, <1>2 DEF Queue!Init, Nowhere

(* Every step of the ring is a step of the queue or invisible to it: in++    *)
(* appends the pushed item, out++ removes the oldest one.                    *)
LEMMA QueueStep ==
  ASSUME LateLoad = FALSE, IndInv, [Next]_vars
  PROVE  [Queue!Next]_Queue!vars
<1>1. /\ in \in Counter /\ out \in Counter /\ Count \in Nat /\ Count <= Cap
      /\ buf \in Buffers(Items \cup {None})
      /\ writer \in [at : {"out", "store", "publish"}, item : Items \cup {None}]
      /\ reader \in [at : {"out", "load", "advance", "late", "have"},
                     item : Items \cup {None}]
  BY CounterType DEF IndInv, TypeOK, CountInv, Count, Buffers
<1>2. CountInv /\ ItemInv
  BY DEF IndInv
<1>3. Count \in 0 .. Cap /\ Len(Contents) = Count /\ Add(out, Count) = in
  <2>1. Count \in 0 .. Cap
    BY <1>1, IndexAssumption, SMT
  <2>2. Len(Window(buf, out, Count)) = Count
    BY <1>1, <2>1, WindowType
  <2>3. Add(out, Sub(in, out)) = in
    BY <1>1, SubAdd
  <2> QED
    BY <2>1, <2>2, <2>3 DEF Contents, Count
<1> USE DEF Queue!vars, Queue!Next
<1>4. ASSUME NEW v \in Items, PushTest(v) PROVE Queue!Next
  <2>1. writer.item = None /\ writer' = [at |-> "store", item |-> v]
        /\ UNCHANGED <<in, out, buf, reader>>
    BY <1>2, <1>4 DEF PushTest, ItemInv
  <2>2. offerBar["writer"] = None /\ offerBar' = [offerBar EXCEPT !["writer"] = v]
    BY <2>1 DEF offerBar
  <2>3. Contents' = Contents /\ gotBar' = gotBar
    BY <2>1 DEF Contents, Count, gotBar, Leaving
  <2>4. Queue!Offer("writer", v)
    BY <2>2, <2>3 DEF Queue!Offer, offerBar, gotBar
  <2> QED
    BY <2>4
<1>5. ASSUME PushStore PROVE UNCHANGED Queue!vars
  <2>1. /\ writer.at = "store" /\ writer.item \in Items \cup {None} /\ Count < Cap
        /\ buf' = [buf EXCEPT ![Slot(in)] = writer.item]
        /\ writer'.item = writer.item /\ UNCHANGED <<in, out, reader>>
    BY <1>1, <1>2, <1>5 DEF PushStore, CountInv
  <2>2. Window([buf EXCEPT ![Slot(in)] = writer.item], out, Count) = Window(buf, out, Count)
    <3>1. Count <= Sub(in, out) /\ Sub(in, out) < Cap
      BY <1>1, <2>1, SMT DEF Count
    <3> DEFINE n == Count
               x == writer.item
    <3>2. n \in 0 .. Cap /\ n <= Sub(in, out) /\ x \in Items \cup {None}
      BY <1>3, <2>1, <3>1
    <3> HIDE DEF n, x
    <3>3. Window([buf EXCEPT ![Slot(in)] = x], out, n) = Window(buf, out, n)
      BY <1>1, <3>1, <3>2, WindowStore
    <3> QED
      BY <3>3 DEF n, x
  <2>3. Contents' = Contents
    BY <2>1, <2>2 DEF Contents, Count
  <2>4. offerBar' = offerBar /\ gotBar' = gotBar
    BY <1>2, <2>1 DEF offerBar, gotBar, ItemInv
  <2> QED
    BY <2>3, <2>4 DEF offerBar, gotBar
<1>6. ASSUME PushPublish PROVE Queue!Next
  <2>1. /\ writer.item # None /\ buf[Slot(in)] = writer.item /\ Count < Cap
        /\ in' = Inc(in) /\ writer' = Nowhere /\ UNCHANGED <<out, buf, reader>>
    BY <1>2, <1>6 DEF PushPublish, CountInv, ItemInv
  <2>2. Count' = Count + 1 /\ Count \in 0 .. Cap - 1
    <3>1. Sub(in, out) + 1 < Modulus
      BY <1>1, <2>1, IndexAssumption, SMT DEF Count
    <3>2. Sub(Inc(in), out) = Count + 1
      BY <1>1, <3>1, SubInc DEF Count
    <3> QED
      BY <1>1, <2>1, <3>2, IndexAssumption, SMT DEF Count
  <2>3. Contents' = Append(Contents, writer.item)
    BY <1>1, <1>3, <2>1, <2>2, WindowAppend DEF Contents
  <2>4. /\ offerBar["writer"] = writer.item
        /\ offerBar' = [offerBar EXCEPT !["writer"] = None] /\ gotBar' = gotBar
    BY <2>1 DEF offerBar, gotBar, Nowhere, Leaving
  <2>5. Queue!Enqueue("writer")
    BY <1>3, <2>1, <2>3, <2>4 DEF Queue!Enqueue, offerBar, gotBar
  <2> QED
    BY <2>5
<1>7. ASSUME PopTest \/ PopLoad PROVE UNCHANGED Queue!vars
  <2>1. /\ UNCHANGED <<in, out, buf, writer>>
        /\ reader.at \notin {"have", "late"} /\ reader'.at \notin {"have", "late"}
    BY <1>1, <1>2, <1>7 DEF PopTest, PopLoad, PopLoadNow, PopLoadLate, ItemInv
  <2> QED
    BY <2>1 DEF Contents, Count
<1>8. ASSUME PopAdvance PROVE Queue!Next
  <2>1. /\ reader.at = "advance" /\ reader.item = buf[Slot(out)] /\ Count > 0
        /\ out' = Inc(out) /\ reader' = [reader EXCEPT !.at = "have"]
        /\ UNCHANGED <<in, buf, writer>>
    BY <1>2, <1>8 DEF PopAdvance, CountInv, ItemInv
  <2>2. Count' = Count - 1 /\ Count \in 1 .. Cap
    <3>1. Sub(out, out) = 0
      BY <1>1, SMT DEF Sub, Counter
    <3>2. in # out
      BY <2>1, <3>1 DEF Count
    <3>3. Sub(in, Inc(out)) = Count - 1
      BY <1>1, <3>2, SubDec DEF Count
    <3> QED
      BY <1>1, <2>1, <3>3, IndexAssumption, SMT DEF Count
  <2>3. Contents # <<>> /\ Head(Contents) = reader.item /\ Contents' = Tail(Contents)
    BY <1>1, <2>1, <2>2, WindowTail DEF Contents
  <2>4. /\ gotBar["reader"] = None /\ offerBar' = offerBar
        /\ gotBar' = [gotBar EXCEPT !["reader"] = reader.item]
    BY <1>1, <2>1 DEF offerBar, gotBar
  <2>5. Queue!Dequeue("reader")
    BY <2>3, <2>4 DEF Queue!Dequeue, offerBar, gotBar
  <2> QED
    BY <2>5
<1>9. ASSUME PopReturn PROVE Queue!Next
  <2>1. /\ reader.at = "have" /\ reader.item # None /\ reader' = Nowhere
        /\ UNCHANGED <<in, out, buf, writer>>
    BY <1>2, <1>9 DEF PopReturn, ItemInv
  <2>2. /\ gotBar["reader"] # None /\ gotBar' = [gotBar EXCEPT !["reader"] = None]
        /\ offerBar' = offerBar /\ Contents' = Contents
    BY <2>1 DEF gotBar, offerBar, Contents, Count, Nowhere
  <2>3. Queue!Deliver("reader")
    BY <2>2 DEF Queue!Deliver, offerBar, gotBar
  <2> QED
    BY <2>3
<1>10. CASE UNCHANGED vars
  BY <1>10 DEF vars, Contents, Count, Leaving
<1> QED
  BY <1>4, <1>5, <1>6, <1>7, <1>8, <1>9, <1>10 DEF Next, Push, Pop

(* What is pushed is popped exactly once and in order, for every capacity    *)
(* and across every wrap of the counters.                                    *)
THEOREM SpscIsQueue ==
  ASSUME LateLoad = FALSE
  PROVE  Spec => ImplementsQueue
<1>1. Init => Queue!Init
  BY QueueInit
<1>2. IndInv /\ [Next]_vars => [Queue!Next]_Queue!vars
  BY QueueStep
<1> QED
  BY <1>1, <1>2, SpscInvariant, PTL DEF Spec, ImplementsQueue, Queue!Spec

(***************************************************************************)
(* Late loads                                                              *)
(***************************************************************************)

(* With late loads the ring alone is not safe: the writer may reuse the slot *)
(* a pop has left and not yet loaded.  It is safe as long as the ring has    *)
(* room for the item in the reader's hands besides the one of the writer;    *)
(* who uses the ring must see to that.                                       *)
Taken ==
  IF reader.at = "have" THEN reader.item
  ELSE IF reader.at = "late" THEN buf[Leaving] ELSE None

Room == writer.at # "out" => Count + (IF Taken = None THEN 0 ELSE 1) < Cap

LateInv ==
  /\ TypeOK
  /\ Count <= Cap
  /\ writer.at # "out" => writer.item # None
  /\ writer.at = "publish" => buf[Slot(in)] = writer.item
  /\ reader.at \in {"load", "advance"} => Count > 0
  /\ reader.at = "advance" => reader.item = buf[Slot(out)]
  /\ reader.at = "have" => reader.item # None
  /\ reader.at = "late" => buf[Leaving] # None
  /\ \A i \in Counter : Sub(i, out) < Count => buf[Slot(i)] # None

(* What the lemmas below keep taking from it. *)
LEMMA LateFacts ==
  ASSUME LateInv
  PROVE  /\ in \in Counter /\ out \in Counter /\ Inc(in) \in Counter /\ Inc(out) \in Counter
         /\ Slot(in) \in Slots /\ Slot(out) \in Slots /\ Count \in 0 .. Cap
         /\ buf \in Buffers(Items \cup {None})
         /\ writer \in [at : {"out", "store", "publish"}, item : Items \cup {None}]
         /\ reader \in [at : {"out", "load", "advance", "late", "have"},
                        item : Items \cup {None}]
         /\ Contents \in Seq(Items \cup {None}) /\ Len(Contents) = Count
         /\ Sub(out, 1) \in Counter /\ Leaving \in Slots
         /\ \A i \in Counter : Sub(i, i) = 0
         /\ Taken # None <=> reader.at \in {"have", "late"}
<1>1. /\ in \in Counter /\ out \in Counter /\ Inc(in) \in Counter /\ Inc(out) \in Counter
      /\ Slot(in) \in Slots /\ Slot(out) \in Slots /\ Count \in Nat
      /\ buf \in [Slots -> Items \cup {None}]
      /\ writer \in [at : {"out", "store", "publish"}, item : Items \cup {None}]
      /\ reader \in [at : {"out", "load", "advance", "late", "have"},
                     item : Items \cup {None}]
  BY CounterType, SlotType DEF LateInv, TypeOK, Count
<1>2. Count \in 0 .. Cap
  BY <1>1, IndexAssumption, SMT DEF LateInv
<1>3. Contents \in Seq(Items \cup {None}) /\ Len(Contents) = Count
  BY <1>1, <1>2, WindowType DEF Contents, Buffers
<1>5. 1 \in Counter
  BY IndexAssumption, SMT DEF Counter
<1>6. Sub(out, 1) \in Counter /\ Leaving \in Slots
  BY <1>1, <1>5, CounterType, SlotType DEF Leaving
<1>7. \A i \in Counter : Sub(i, i) = 0
  BY SMT DEF Sub, Counter
<1>8. Taken # None <=> reader.at \in {"have", "late"}
  BY DEF Taken, LateInv
<1> QED
  BY <1>1, <1>2, <1>3, <1>6, <1>7, <1>8 DEF Buffers

(* Storing into the writer's slot disturbs neither what is published nor     *)
(* what the reader has yet to load.                                          *)
LEMMA LateStore ==
  ASSUME LateInv, Room, PushStore
  PROVE  LateInv' /\ Contents' = Contents /\ Taken' = Taken
<1>1. /\ writer.at = "store" /\ writer.item # None
      /\ buf' = [buf EXCEPT ![Slot(in)] = writer.item]
      /\ writer' = [writer EXCEPT !.at = "publish"] /\ UNCHANGED <<in, out, reader>>
      /\ writer.item \in Items \cup {None}
  BY LateFacts DEF PushStore, LateInv
<1>2. /\ Count \in 0 .. Cap /\ Count < Cap
      /\ reader.at \in {"have", "late"} => Count + 1 < Cap
  BY <1>1, LateFacts, IndexAssumption, SMT DEF Room
<1>3. ASSUME NEW i \in Counter, Sub(i, out) < Count
      PROVE  buf'[Slot(i)] # None /\ buf'[Slot(i)] = buf[Slot(i)]
  <2>1. in \in Counter /\ out \in Counter /\ Sub(i, out) \in Nat /\ Slot(i) \in Slots
    BY LateFacts, CounterType, SlotType
  <2>2. i # in /\ Sub(i, out) < Cap /\ Sub(in, out) < Cap
    BY <1>2, <1>3, <2>1, IndexAssumption, SMT DEF Count
  <2>3. Slot(i) # Slot(in)
    BY <2>1, <2>2, SlotsDiffer
  <2>4. buf'[Slot(i)] = buf[Slot(i)]
    BY <1>1, <2>1, <2>3, LateFacts DEF Buffers
  <2> QED
    BY <1>3, <2>4 DEF LateInv
<1>4. reader.at = "advance" => buf'[Slot(out)] = buf[Slot(out)]
  BY <1>3, LateFacts DEF LateInv
<1>5. reader.at = "late" => buf'[Leaving] = buf[Leaving]
  <2> SUFFICES ASSUME reader.at = "late" PROVE buf'[Leaving] = buf[Leaving]
    OBVIOUS
  <2> DEFINE l == Sub(out, 1)
  <2>1. in \in Counter /\ out \in Counter /\ l \in Counter /\ Sub(l, l) = 0
    BY LateFacts
  <2>2. Sub(in, out) + 1 < Cap
    BY <1>2 DEF Count
  <2>3. Sub(in, l) = Sub(in, out) + 1
    BY <2>1, <2>2, IndexAssumption, SMT DEF Sub, Counter
  <2>4. in # l /\ Sub(in, l) < Cap /\ Sub(l, l) < Cap
    BY <2>1, <2>2, <2>3, CounterType, IndexAssumption
  <2> HIDE DEF l
  <2>5. Slot(in) # Slot(l)
    BY <2>1, <2>4, SlotsDiffer
  <2> QED
    BY <1>1, <2>5, LateFacts DEF l, Leaving, Buffers
<1>6. Contents' = Contents
  <2> DEFINE n == Count
             x == writer.item
  <2>1. n \in 0 .. Cap /\ n <= Sub(in, out) /\ Sub(in, out) < Cap /\ x \in Items \cup {None}
    BY <1>1, <1>2 DEF Count
  <2>2. in \in Counter /\ out \in Counter /\ buf \in Buffers(Items \cup {None})
    BY LateFacts
  <2> HIDE DEF n, x
  <2>3. Window([buf EXCEPT ![Slot(in)] = x], out, n) = Window(buf, out, n)
    BY <2>1, <2>2, WindowStore
  <2> QED
    BY <1>1, <2>3 DEF n, x, Contents, Count
<1>7. Taken' = Taken
  BY <1>1, <1>5 DEF Taken, Leaving
<1>8. TypeOK'
  BY <1>1, LateFacts DEF LateInv, TypeOK
<1>9. writer'.at = "publish" => buf'[Slot(in')] = writer'.item
  BY <1>1, LateFacts DEF Buffers
<1>10. LateInv'
  BY <1>1, <1>3, <1>4, <1>5, <1>8, <1>9, LateFacts DEF LateInv, Count, Leaving
<1> QED
  BY <1>6, <1>7, <1>10

(* in++ appends the writer's item. *)
LEMMA LatePublish ==
  ASSUME LateInv, Room, PushPublish
  PROVE  LateInv' /\ Contents' = Append(Contents, writer.item) /\ Taken' = Taken
<1>1. /\ writer.at = "publish" /\ writer.item # None /\ buf[Slot(in)] = writer.item
      /\ in' = Inc(in) /\ writer' = Nowhere /\ UNCHANGED <<out, buf, reader>>
  BY DEF PushPublish, LateInv
<1>2. /\ Count \in 0 .. Cap - 1 /\ in \in Counter /\ out \in Counter
      /\ buf \in Buffers(Items \cup {None}) /\ Inc(in) \in Counter
  <2>1. Count \in 0 .. Cap /\ Count < Cap
    BY <1>1, LateFacts, IndexAssumption, SMT DEF Room
  <2> QED
    BY <2>1, LateFacts, IndexAssumption
<1>3. Sub(Inc(in), out) = Count + 1
  <2>1. Sub(in, out) + 1 < Modulus
    BY <1>2, IndexAssumption, SMT DEF Count
  <2> QED
    BY <1>2, <2>1, SubInc DEF Count
<1>4. Add(out, Count) = in
  BY <1>2, SubAdd DEF Count
<1>5. Contents' = Append(Contents, writer.item)
  <2>1. Count' = Count + 1
    BY <1>1, <1>3 DEF Count
  <2> QED
    BY <1>1, <1>2, <1>4, <2>1, WindowAppend DEF Contents
<1>6. Taken' = Taken
  BY <1>1 DEF Taken, Leaving
<1>7. ASSUME NEW i \in Counter, Sub(i, out) < Count + 1 PROVE buf[Slot(i)] # None
  <2>1. Sub(i, out) \in Nat
    BY <1>2, CounterType
  <2>2. Sub(i, out) < Count \/ Sub(i, out) = Sub(in, out)
    BY <1>2, <1>7, <2>1, SMT DEF Count
  <2> QED
    BY <1>1, <1>2, <2>2, SubInjective DEF LateInv
<1>8. TypeOK'
  BY <1>1, <1>2 DEF LateInv, TypeOK, Nowhere
<1>9. Count' = Count + 1 /\ Count + 1 <= Cap /\ (Count > 0 => Count + 1 > 0)
  BY <1>1, <1>2, <1>3, IndexAssumption DEF Count
<1>10. LateInv'
  BY <1>1, <1>7, <1>8, <1>9 DEF LateInv, Leaving, Nowhere
<1> QED
  BY <1>5, <1>6, <1>10

(* out++ takes the oldest item, whether it has been loaded or not. *)
LEMMA LateAdvance ==
  ASSUME LateInv, PopAdvance
  PROVE  /\ LateInv' /\ Taken = None /\ Contents # <<>>
         /\ Taken' = Head(Contents) /\ Contents' = Tail(Contents)
<1>1. /\ reader.at \in {"load", "advance"} /\ out' = Inc(out) /\ UNCHANGED <<in, buf, writer>>
      /\ Count > 0 /\ Taken = None
      /\ \/ reader.at = "advance" /\ reader' = [reader EXCEPT !.at = "have"]
         \/ reader.at = "load" /\ reader' = [reader EXCEPT !.at = "late"]
  BY DEF PopAdvance, LateInv, Taken
<1>2. /\ Count \in 1 .. Cap /\ in \in Counter /\ out \in Counter /\ Inc(out) \in Counter
      /\ buf \in Buffers(Items \cup {None}) /\ Sub(out, out) = 0
  BY <1>1, LateFacts, IndexAssumption, SMT
<1>3. in # out
  BY <1>1, <1>2 DEF Count
<1>4. Sub(in, Inc(out)) = Count - 1
  BY <1>2, <1>3, SubDec DEF Count
<1>5. Contents # <<>> /\ Head(Contents) = buf[Slot(out)] /\ Contents' = Tail(Contents)
  <2>1. Count' = Count - 1
    BY <1>1, <1>4 DEF Count
  <2> QED
    BY <1>1, <1>2, <2>1, WindowTail DEF Contents
<1>6. Leaving' = Slot(out)
  <2>1. Sub(Inc(out), 1) = out
    BY <1>2, IndexAssumption, SMT DEF Sub, Inc, Counter
  <2> QED
    BY <1>1, <2>1 DEF Leaving
<1>7. buf[Slot(out)] # None
  BY <1>1, <1>2 DEF LateInv
<1>8. Taken' = buf[Slot(out)]
  BY <1>1, <1>6, LateFacts DEF Taken, LateInv
<1>9. ASSUME NEW i \in Counter, Sub(i, Inc(out)) < Count - 1 PROVE buf[Slot(i)] # None
  <2>1. Sub(i, out) \in Nat
    BY <1>2, CounterType
  <2>2. CASE i = out
    BY <1>7, <2>2
  <2>3. CASE i # out
    <3>1. Sub(i, Inc(out)) = Sub(i, out) - 1
      BY <1>2, <2>3, SubDec
    <3>2. Sub(i, out) < Count
      BY <1>2, <1>9, <2>1, <3>1, SMT
    <3> QED
      BY <3>2 DEF LateInv
  <2> QED
    BY <2>2, <2>3
<1>10. TypeOK'
  BY <1>1, <1>2, LateFacts DEF LateInv, TypeOK
<1>11. Count' = Count - 1 /\ Count - 1 <= Cap
  BY <1>1, <1>2, <1>4, IndexAssumption DEF Count
<1>12. /\ reader'.at \in {"have", "late"}
       /\ reader'.at = "have" => reader'.item = buf[Slot(out)]
       /\ reader'.at = "late" => buf'[Leaving'] # None
  BY <1>1, <1>6, <1>7, LateFacts DEF LateInv
<1>13. LateInv'
  BY <1>1, <1>7, <1>9, <1>10, <1>11, <1>12 DEF LateInv
<1> QED
  BY <1>1, <1>5, <1>8, <1>13

(* The other steps change neither what the ring holds nor what is taken. *)
LEMMA LateTests ==
  ASSUME LateInv, (\E v \in Items : PushTest(v)) \/ PopTest \/ PopLoad
  PROVE  LateInv' /\ Contents' = Contents /\ Taken' = Taken
<1>1. UNCHANGED <<in, out, buf>>
  BY DEF PushTest, PopTest, PopLoad
<1>2. Contents' = Contents /\ Count' = Count
  BY <1>1 DEF Contents, Count
<1>3. ASSUME NEW v \in Items, PushTest(v) PROVE LateInv' /\ Taken' = Taken
  <2>1. writer' = [at |-> "store", item |-> v] /\ reader' = reader
    BY <1>3 DEF PushTest
  <2>2. TypeOK'
    BY <1>1, <2>1 DEF LateInv, TypeOK
  <2> QED
    BY <1>1, <1>2, <2>1, <2>2, SpscAssumption DEF LateInv, Taken, Leaving
<1>4. CASE PopTest
  <2>1. reader.at = "out" /\ reader' = [reader EXCEPT !.at = "load"] /\ writer' = writer
    BY <1>4 DEF PopTest
  <2>2. Count > 0
    <3>1. in \in Counter /\ out \in Counter /\ Sub(out, out) = 0 /\ in # out /\ Count \in Nat
      BY <1>4, LateFacts DEF PopTest, Empty
    <3>2. Sub(in, out) # 0
      BY <3>1, SubInjective
    <3> QED
      BY <3>1, <3>2, SMT DEF Count
  <2>3. TypeOK'
    BY <1>1, <2>1, LateFacts DEF LateInv, TypeOK
  <2>4. reader'.at = "load"
    BY <2>1, LateFacts
  <2> QED
    BY <1>1, <1>2, <2>1, <2>2, <2>3, <2>4 DEF LateInv, Taken, Leaving
<1>5. CASE PopLoad
  <2>1. /\ writer' = writer
        /\ \/ reader.at = "load" /\ reader' = [at |-> "advance", item |-> buf[Slot(out)]]
           \/ reader.at = "late" /\ reader' = [at |-> "have", item |-> buf[Leaving]]
    BY <1>5 DEF PopLoad, PopLoadNow, PopLoadLate
  <2>2. buf[Slot(out)] \in Items \cup {None} /\ buf[Leaving] \in Items \cup {None}
    BY LateFacts DEF Buffers
  <2>3. TypeOK'
    BY <1>1, <2>1, <2>2 DEF LateInv, TypeOK
  <2> QED
    BY <1>1, <1>2, <2>1, <2>3 DEF LateInv, Taken, Leaving
<1> QED
  BY <1>2, <1>3, <1>4, <1>5

(* A pop returns what it has taken. *)
LEMMA LateReturn ==
  ASSUME LateInv, PopReturn
  PROVE  /\ LateInv' /\ Contents' = Contents
         /\ Taken = reader.item /\ Taken # None /\ Taken' = None
<1>1. reader.at = "have" /\ reader' = Nowhere /\ UNCHANGED <<in, out, buf, writer>>
  BY DEF PopReturn
<1>2. TypeOK'
  BY <1>1 DEF LateInv, TypeOK, Nowhere
<1> QED
  BY <1>1, <1>2 DEF LateInv, Taken, Contents, Count, Leaving, Nowhere

(* A ring that starts with given items. *)
LEMMA LateInit ==
  ASSUME NEW c \in Seq(Items), Len(c) <= Cap, InitWith(c)
  PROVE  LateInv /\ Contents = c /\ Taken = None
<1>1. /\ in = Len(c) /\ out = 0 /\ writer = Nowhere /\ reader = Nowhere
      /\ buf = [s \in Slots |-> IF s < Len(c) THEN c[s + 1] ELSE None]
  BY DEF InitWith
<1>2. PICK n \in 0 .. Cap : n = Len(c)
  BY IndexAssumption
<1>3. c \in [1 .. n -> Items]
  BY <1>2
<1>4. 0 \in Counter /\ n \in Counter /\ Sub(n, 0) = n /\ Count = n
  BY <1>1, <1>2, IndexAssumption, SMT DEF Counter, Sub, Count
<1>5. ASSUME NEW s \in Slots, s < n PROVE buf[s] = c[s + 1] /\ c[s + 1] \in Items
  <2>1. s + 1 \in 1 .. n
    BY <1>2, <1>5, IndexAssumption DEF Slots
  <2> QED
    BY <1>1, <1>2, <1>3, <1>5, <2>1
<1>6. ASSUME NEW s \in Slots PROVE buf[s] \in Items \cup {None}
  <2>1. CASE s < n
    BY <1>5, <2>1
  <2>2. CASE ~(s < n)
    BY <1>1, <1>2, <2>2
  <2> QED
    BY <2>1, <2>2
<1>7. ASSUME NEW i \in 1 .. n PROVE Slot(Add(0, i - 1)) \in Slots /\ buf[Slot(Add(0, i - 1))] = c[i]
  <2>1. Add(0, i - 1) = i - 1 /\ i - 1 \in 0 .. Cap - 1
    BY <1>2, IndexAssumption, SMT DEF Add
  <2>2. Slot(i - 1) = i - 1 /\ i - 1 \in Slots /\ i - 1 < n /\ (i - 1) + 1 = i
    BY <1>2, <2>1, IndexAssumption, SMT DEF Slot, Slots
  <2> QED
    BY <1>5, <2>1, <2>2
<1>8. Contents = c
  <2>1. Contents = [i \in 1 .. n |-> buf[Slot(Add(0, i - 1))]]
    BY <1>1, <1>4 DEF Contents, Window
  <2>2. c = [i \in 1 .. n |-> c[i]]
    BY <1>3
  <2> QED
    BY <1>7, <2>1, <2>2, Zenon
<1>9. TypeOK
  <2>1. buf \in [Slots -> Items \cup {None}]
    BY <1>1, <1>6
  <2> QED
    BY <1>1, <1>2, <1>4, <2>1 DEF TypeOK, Nowhere
<1>10. ASSUME NEW i \in Counter, Sub(i, out) < Count PROVE buf[Slot(i)] # None
  <2>a. Sub(i, 0) = i
    BY SMT DEF Sub, Counter
  <2>b. i \in 0 .. Modulus - 1 /\ i < n /\ n \in 0 .. Cap
    BY <1>1, <1>2, <1>4, <1>10, <2>a DEF Counter
  <2>1. i < n /\ Slot(i) = i /\ i \in Slots
    BY <2>b, IndexAssumption, SMT DEF Slot, Slots
  <2> QED
    BY <1>5, <2>1, SpscAssumption
<1>11. LateInv
  BY <1>1, <1>2, <1>4, <1>9, <1>10 DEF LateInv, Nowhere
<1> QED
  BY <1>1, <1>8, <1>11 DEF Taken, Nowhere

(* What a pop does before it returns, and what the writer does before in++.  *)
Taking ==
  \/ Contents' = Contents /\ Taken' = Taken
  \/ /\ Taken = None /\ Contents # <<>>
     /\ Taken' = Head(Contents) /\ Contents' = Tail(Contents)

LEMMA LatePop ==
  ASSUME LateInv, PopTest \/ PopLoad \/ PopAdvance
  PROVE  LateInv' /\ Taking /\ writer' = writer
BY LateTests, LateAdvance DEF Taking, PopTest, PopLoad, PopAdvance

LEMMA LateSend ==
  ASSUME LateInv, Room, NEW v \in Items, PushTest(v) \/ PushStore
  PROVE  /\ LateInv' /\ Contents' = Contents /\ Taken' = Taken /\ reader' = reader
         /\ writer'.at # "out"
         /\ writer'.item = IF writer.at = "out" THEN v ELSE writer.item
<1>1. CASE PushTest(v)
  BY <1>1, LateTests DEF PushTest
<1>2. CASE PushStore
  BY <1>2, LateStore, LateFacts DEF PushStore
<1> QED
  BY <1>1, <1>2

LEMMA LateSame ==
  ASSUME LateInv, UNCHANGED vars
  PROVE  LateInv' /\ Contents' = Contents /\ Taken' = Taken
BY DEF LateInv, TypeOK, Contents, Count, Taken, Leaving, vars

(* What the tests for room and for items say. *)
LEMMA LateBounds ==
  ASSUME LateInv
  PROVE  (Empty <=> Contents = <<>>) /\ (Full <=> Len(Contents) >= Cap)
<1>1. in \in Counter /\ out \in Counter /\ Sub(out, out) = 0 /\ Len(Contents) = Count
      /\ Contents \in Seq(Items \cup {None})
  BY LateFacts
<1>2. in = out <=> Sub(in, out) = Sub(out, out)
  BY <1>1, SubInjective
<1>3. Contents = <<>> <=> Len(Contents) = 0
  BY <1>1
<1> QED
  BY <1>1, <1>2, <1>3 DEF Empty, Full, Count

====
