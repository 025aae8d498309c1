---- MODULE SpscPipeline_proofs ----
(***************************************************************************)
(* Proofs about SpscPipeline for every capacity, width of the counters and *)
(* number of packets, with loads that may be late.                         *)
(***************************************************************************)
EXTENDS SpscPipeline, Places_proofs, FiniteSetTheorems

(* The facts about a ring, for each of the two. *)
R == INSTANCE SpscRing_proofs WITH Items <- Objects,
       in <- rIn, out <- rOut, buf <- rBuf, writer <- rWriter, reader <- rReader
P == INSTANCE SpscRing_proofs WITH Items <- Objects,
       in <- pIn, out <- pOut, buf <- pBuf, writer <- pWriter, reader <- pReader

LEMMA RingConstants ==
  /\ Cap \in Nat \ {0} /\ Modulus \in Nat /\ Modulus > Cap /\ Modulus % Cap = 0
  /\ None \notin Objects /\ LateLoad \in BOOLEAN
BY PipelineAssumption DEF None, Objects

(***************************************************************************)
(* The steps of the rings                                                  *)
(***************************************************************************)

(* The ring does what the lemmas about one ring say. *)
LEMMA RingMoves ==
  ASSUME R!LateInv
  PROVE  /\ RingPop => R!LateInv' /\ R!Taking /\ rWriter' = rWriter
         /\ Ring!PopReturn =>
              /\ R!LateInv' /\ R!Contents' = R!Contents /\ rWriter' = rWriter
              /\ R!Taken = rReader.item /\ R!Taken # None /\ R!Taken' = None
              /\ rReader'.at = "out"
         /\ R!Room => \A v \in Objects : Ring!PushTest(v) \/ Ring!PushStore =>
              /\ R!LateInv' /\ R!Contents' = R!Contents /\ R!Taken' = R!Taken
              /\ rReader' = rReader /\ rWriter'.at # "out"
              /\ rWriter'.item = IF rWriter.at = "out" THEN v ELSE rWriter.item
         /\ R!Room /\ Ring!PushPublish =>
              /\ R!LateInv' /\ R!Contents' = Append(R!Contents, rWriter.item)
              /\ R!Taken' = R!Taken /\ rReader' = rReader
              /\ rWriter.at # "out" /\ rWriter'.at = "out"
         /\ UNCHANGED ringVars =>
              /\ R!LateInv' /\ R!Contents' = R!Contents /\ R!Taken' = R!Taken
              /\ rReader' = rReader /\ rWriter' = rWriter
<1>1. ASSUME RingPop PROVE R!LateInv' /\ R!Taking /\ rWriter' = rWriter
  <2>1. R!PopTest \/ R!PopLoad \/ R!PopAdvance
    BY <1>1 DEF RingPop, Ring!PopTest, R!PopTest, Ring!Empty, R!Empty,
                Ring!PopLoad, R!PopLoad, Ring!PopLoadNow, R!PopLoadNow, Ring!PopLoadLate, R!PopLoadLate,
                Ring!Leaving, R!Leaving, Ring!Slot, R!Slot, Ring!Sub, R!Sub,
                Ring!PopAdvance, R!PopAdvance, Ring!Inc, R!Inc
  <2> QED
    BY <2>1, RingConstants, R!LatePop
<1>2. ASSUME Ring!PopReturn
      PROVE  /\ R!LateInv' /\ R!Contents' = R!Contents /\ rWriter' = rWriter
             /\ R!Taken = rReader.item /\ R!Taken # None /\ R!Taken' = None
             /\ rReader'.at = "out"
  <2>1. R!PopReturn /\ rWriter' = rWriter /\ rReader'.at = "out"
    BY <1>2 DEF Ring!PopReturn, R!PopReturn, Ring!Nowhere, R!Nowhere
  <2> QED
    BY <2>1, RingConstants, R!LateReturn
<1>3. ASSUME R!Room, NEW v \in Objects, Ring!PushTest(v) \/ Ring!PushStore
      PROVE  /\ R!LateInv' /\ R!Contents' = R!Contents /\ R!Taken' = R!Taken
             /\ rReader' = rReader /\ rWriter'.at # "out"
             /\ rWriter'.item = IF rWriter.at = "out" THEN v ELSE rWriter.item
  <2>1. R!PushTest(v) \/ R!PushStore
    BY <1>3 DEF Ring!PushTest, R!PushTest, Ring!Full, R!Full, Ring!Count, R!Count,
                Ring!Sub, R!Sub, Ring!PushStore, R!PushStore, Ring!Slot, R!Slot
  <2> QED
    BY <1>3, <2>1, RingConstants, R!LateSend
<1>4. ASSUME R!Room, Ring!PushPublish
      PROVE  /\ R!LateInv' /\ R!Contents' = Append(R!Contents, rWriter.item)
             /\ R!Taken' = R!Taken /\ rReader' = rReader
             /\ rWriter.at # "out" /\ rWriter'.at = "out"
  <2>1. /\ R!PushPublish /\ rReader' = rReader
        /\ rWriter.at # "out" /\ rWriter'.at = "out"
    BY <1>4 DEF Ring!PushPublish, R!PushPublish, Ring!Inc, R!Inc, Ring!Nowhere, R!Nowhere
  <2> QED
    BY <1>4, <2>1, RingConstants, R!LatePublish
<1>5. ASSUME UNCHANGED ringVars
      PROVE  /\ R!LateInv' /\ R!Contents' = R!Contents /\ R!Taken' = R!Taken
             /\ rReader' = rReader /\ rWriter' = rWriter
  <2>1. UNCHANGED R!vars
    BY <1>5 DEF ringVars, R!vars
  <2> QED
    BY <1>5, <2>1, RingConstants, R!LateSame DEF ringVars
<1> QED
  BY <1>1, <1>2, <1>3, <1>4, <1>5

(* So does the pool. *)
LEMMA PoolMoves ==
  ASSUME P!LateInv
  PROVE  /\ PoolPop => P!LateInv' /\ P!Taking /\ pWriter' = pWriter
         /\ Pool!PopReturn =>
              /\ P!LateInv' /\ P!Contents' = P!Contents /\ pWriter' = pWriter
              /\ P!Taken = pReader.item /\ P!Taken # None /\ P!Taken' = None
              /\ pReader'.at = "out"
         /\ P!Room => \A v \in Objects : Pool!PushTest(v) \/ Pool!PushStore =>
              /\ P!LateInv' /\ P!Contents' = P!Contents /\ P!Taken' = P!Taken
              /\ pReader' = pReader /\ pWriter'.at # "out"
              /\ pWriter'.item = IF pWriter.at = "out" THEN v ELSE pWriter.item
         /\ P!Room /\ Pool!PushPublish =>
              /\ P!LateInv' /\ P!Contents' = Append(P!Contents, pWriter.item)
              /\ P!Taken' = P!Taken /\ pReader' = pReader
              /\ pWriter.at # "out" /\ pWriter'.at = "out"
         /\ UNCHANGED poolVars =>
              /\ P!LateInv' /\ P!Contents' = P!Contents /\ P!Taken' = P!Taken
              /\ pReader' = pReader /\ pWriter' = pWriter
<1>1. ASSUME PoolPop PROVE P!LateInv' /\ P!Taking /\ pWriter' = pWriter
  <2>1. P!PopTest \/ P!PopLoad \/ P!PopAdvance
    BY <1>1 DEF PoolPop, Pool!PopTest, P!PopTest, Pool!Empty, P!Empty,
                Pool!PopLoad, P!PopLoad, Pool!PopLoadNow, P!PopLoadNow, Pool!PopLoadLate, P!PopLoadLate,
                Pool!Leaving, P!Leaving, Pool!Slot, P!Slot, Pool!Sub, P!Sub,
                Pool!PopAdvance, P!PopAdvance, Pool!Inc, P!Inc
  <2> QED
    BY <2>1, RingConstants, P!LatePop
<1>2. ASSUME Pool!PopReturn
      PROVE  /\ P!LateInv' /\ P!Contents' = P!Contents /\ pWriter' = pWriter
             /\ P!Taken = pReader.item /\ P!Taken # None /\ P!Taken' = None
             /\ pReader'.at = "out"
  <2>1. P!PopReturn /\ pWriter' = pWriter /\ pReader'.at = "out"
    BY <1>2 DEF Pool!PopReturn, P!PopReturn, Pool!Nowhere, P!Nowhere
  <2> QED
    BY <2>1, RingConstants, P!LateReturn
<1>3. ASSUME P!Room, NEW v \in Objects, Pool!PushTest(v) \/ Pool!PushStore
      PROVE  /\ P!LateInv' /\ P!Contents' = P!Contents /\ P!Taken' = P!Taken
             /\ pReader' = pReader /\ pWriter'.at # "out"
             /\ pWriter'.item = IF pWriter.at = "out" THEN v ELSE pWriter.item
  <2>1. P!PushTest(v) \/ P!PushStore
    BY <1>3 DEF Pool!PushTest, P!PushTest, Pool!Full, P!Full, Pool!Count, P!Count,
                Pool!Sub, P!Sub, Pool!PushStore, P!PushStore, Pool!Slot, P!Slot
  <2> QED
    BY <1>3, <2>1, RingConstants, P!LateSend
<1>4. ASSUME P!Room, Pool!PushPublish
      PROVE  /\ P!LateInv' /\ P!Contents' = Append(P!Contents, pWriter.item)
             /\ P!Taken' = P!Taken /\ pReader' = pReader
             /\ pWriter.at # "out" /\ pWriter'.at = "out"
  <2>1. /\ P!PushPublish /\ pReader' = pReader
        /\ pWriter.at # "out" /\ pWriter'.at = "out"
    BY <1>4 DEF Pool!PushPublish, P!PushPublish, Pool!Inc, P!Inc, Pool!Nowhere, P!Nowhere
  <2> QED
    BY <1>4, <2>1, RingConstants, P!LatePublish
<1>5. ASSUME UNCHANGED poolVars
      PROVE  /\ P!LateInv' /\ P!Contents' = P!Contents /\ P!Taken' = P!Taken
             /\ pReader' = pReader /\ pWriter' = pWriter
  <2>1. UNCHANGED P!vars
    BY <1>5 DEF poolVars, P!vars
  <2> QED
    BY <1>5, <2>1, RingConstants, P!LateSame DEF poolVars
<1> QED
  BY <1>1, <1>2, <1>3, <1>4, <1>5

(***************************************************************************)
(* Four places for the packets                                             *)
(***************************************************************************)

Of(x) == {x} \ {None}
Number(x) == IF x = None THEN 0 ELSE 1

(* The packets are shared out between two rings, a and b, and two hands, x   *)
(* and y, none of them twice.                                                *)
Shared(a, x, b, y) ==
  /\ a \in Seq(Objects) /\ Distinct(a)
  /\ b \in Seq(Objects) /\ Distinct(b)
  /\ x \in Objects \cup {None} /\ y \in Objects \cup {None}
  /\ Members(a) \cap Members(b) = {}
  /\ Of(x) \cap Members(a) = {} /\ Of(x) \cap Members(b) = {}
  /\ Of(y) \cap Members(a) = {} /\ Of(y) \cap Members(b) = {}
  /\ Of(x) \cap Of(y) = {}
  /\ Members(a) \cup Members(b) \cup Of(x) \cup Of(y) = Objects
  /\ Len(a) + Len(b) + Number(x) + Number(y) = Cap

LEMMA SharedSwap ==
  ASSUME NEW a, NEW x, NEW b, NEW y, Shared(a, x, b, y)
  PROVE  Shared(b, y, a, x)
<1>1. Len(a) \in Nat /\ Len(b) \in Nat /\ Number(x) \in Nat /\ Number(y) \in Nat
  BY DEF Shared, Number
<1>2. Len(b) + Len(a) + Number(y) + Number(x) = Cap
  BY <1>1 DEF Shared
<1> QED
  BY <1>2, Zenon DEF Shared

(* A hand takes the oldest packet of a ring. *)
LEMMA SharedTake ==
  ASSUME NEW a, NEW b, NEW y, Shared(a, None, b, y), a # <<>>
  PROVE  Shared(Tail(a), Head(a), b, y)
<1> DEFINE t == Tail(a)
           h == Head(a)
<1>1. a \in Seq(Objects) /\ Distinct(a)
  BY DEF Shared
<1>2. /\ t \in Seq(Objects) /\ Len(t) = Len(a) - 1 /\ Distinct(t)
      /\ h \in Objects /\ h \notin Members(t) /\ Members(t) \cup {h} = Members(a)
  BY <1>1, Shift
<1> HIDE DEF t, h
<1>3. Of(h) = {h} /\ Of(None) = {} /\ Number(h) = 1 /\ Number(None) = 0
  BY <1>2, RingConstants DEF Of, Number
<1>4. Len(a) \in Nat /\ Len(b) \in Nat /\ Number(y) \in Nat
  BY DEF Shared, Number
<1>5. Len(t) + Len(b) + Number(h) + Number(y) = Cap
  BY <1>2, <1>3, <1>4 DEF Shared
<1>6. /\ Members(a) \cap Members(b) = {} /\ Of(y) \cap Members(a) = {} /\ Of(y) \cap Members(b) = {}
      /\ Members(a) \cup Members(b) \cup Of(y) = Objects
  BY <1>3 DEF Shared
<1>7. /\ Members(t) \cap Members(b) = {}
      /\ Of(h) \cap Members(t) = {} /\ Of(h) \cap Members(b) = {}
      /\ Of(y) \cap Members(t) = {} /\ Of(h) \cap Of(y) = {}
      /\ Members(t) \cup Members(b) \cup Of(h) \cup Of(y) = Objects
  BY <1>2, <1>3, <1>6
<1>8. Shared(t, h, b, y)
  BY <1>2, <1>5, <1>6, <1>7 DEF Shared
<1> QED
  BY <1>8 DEF t, h

(* A hand puts its packet behind those of a ring. *)
LEMMA SharedGive ==
  ASSUME NEW a, NEW x, NEW b, NEW y, Shared(a, x, b, y), x # None
  PROVE  Shared(a, None, Append(b, x), y)
<1> DEFINE t == Append(b, x)
<1>1. x \in Objects /\ Of(x) = {x} /\ Number(x) = 1 /\ Of(None) = {} /\ Number(None) = 0
  BY DEF Shared, Of, Number
<1>2. b \in Seq(Objects) /\ Distinct(b) /\ x \notin Members(b)
  BY <1>1 DEF Shared
<1>3. /\ t \in Seq(Objects) /\ Len(t) = Len(b) + 1 /\ Distinct(t)
      /\ Members(t) = Members(b) \cup {x}
  BY <1>1, <1>2, Push
<1> HIDE DEF t
<1>4. Len(a) \in Nat /\ Len(b) \in Nat /\ Number(y) \in Nat
  BY DEF Shared, Number
<1>5. Len(a) + Len(t) + Number(None) + Number(y) = Cap
  BY <1>1, <1>3, <1>4 DEF Shared
<1>6. /\ Members(a) \cap Members(b) = {} /\ x \notin Members(a) /\ x \notin Of(y)
      /\ Of(y) \cap Members(a) = {} /\ Of(y) \cap Members(b) = {}
      /\ Members(a) \cup Members(b) \cup {x} \cup Of(y) = Objects
  BY <1>1 DEF Shared
<1>7. /\ Members(a) \cap Members(t) = {} /\ Of(y) \cap Members(t) = {}
      /\ Members(a) \cup Members(t) \cup Of(None) \cup Of(y) = Objects
  BY <1>1, <1>3, <1>6
<1>8. /\ Of(None) \cap Members(a) = {} /\ Of(None) \cap Members(t) = {} /\ Of(None) \cap Of(y) = {}
  BY <1>1
<1>9. a \in Seq(Objects) /\ Distinct(a) /\ y \in Objects \cup {None}
  BY DEF Shared
<1>10. Shared(a, None, t, y)
  BY <1>3, <1>5, <1>6, <1>7, <1>8, <1>9 DEF Shared
<1> QED
  BY <1>10 DEF t

(***************************************************************************)
(* The invariant                                                           *)
(***************************************************************************)

(* The packet in the producer's hands and the one in the consumer's. *)
Producers == IF filled # None THEN filled ELSE P!Taken
Consumers == IF popped # None THEN popped ELSE R!Taken

(* Where each thread is, and which ring it is using there. *)
Control ==
  /\ producer \in {"acquire", "push", "stop", "done"}
  /\ consumer \in {"pop", "running", "empty", "release", "done"}
  /\ filled \in Objects \cup {None} /\ (filled # None <=> producer = "push")
  /\ popped \in Objects \cup {None} /\ (popped # None <=> consumer = "release")
  /\ pReader.at # "out" => producer = "acquire"
  /\ rReader.at # "out" => consumer = "pop"
  /\ rWriter.at # "out" => producer = "push" /\ rWriter.item = filled
  /\ pWriter.at # "out" => consumer = "release" /\ pWriter.item = popped
  /\ running \in BOOLEAN /\ (running <=> producer # "done")
  /\ made \in 0 .. Total
  /\ made < Total <=> producer \in {"acquire", "push"}
  /\ consumer \in {"empty", "done"} => ~running
  /\ consumer = "done" => R!Contents = <<>>

(* What is on its way to the consumer is numbered from received to made. *)
Order ==
  /\ seq \in [Objects -> 0 .. Total - 1]
  /\ received \in Nat /\ expected = received /\ reorder = 0
  /\ received + Number(R!Taken) + Len(R!Contents) = made
  /\ R!Taken # None => seq[R!Taken] = received
  /\ \A i \in 1 .. Len(R!Contents) : seq[R!Contents[i]] = received + Number(R!Taken) + i - 1
  /\ filled # None => seq[filled] = made

PipeInv ==
  /\ R!LateInv /\ P!LateInv
  /\ Shared(P!Contents, Producers, R!Contents, Consumers)
  /\ Control /\ Order

(* A ring has room for the packet that is being put on it, besides the one   *)
(* its reader has taken, because both are missing from it.                   *)
LEMMA RoomForAll ==
  ASSUME PipeInv
  PROVE  R!Room /\ P!Room
<1>1. /\ R!Count = Len(R!Contents) /\ P!Count = Len(P!Contents)
  BY RingConstants, R!LateFacts, P!LateFacts DEF PipeInv
<1>2. /\ Len(P!Contents) \in Nat /\ Len(R!Contents) \in Nat
      /\ Len(P!Contents) + Len(R!Contents) + Number(Producers) + Number(Consumers) = Cap
  BY DEF PipeInv, Shared
<1>3. /\ P!Taken # None => Producers # None
      /\ R!Taken # None => Consumers # None
  BY DEF Producers, Consumers
<1>4. /\ rWriter.at # "out" => Producers # None
      /\ pWriter.at # "out" => Consumers # None
  BY DEF PipeInv, Control, Producers, Consumers
<1>5. R!Room
  BY <1>1, <1>2, <1>3, <1>4, RingConstants DEF R!Room, Number
<1>6. P!Room
  BY <1>1, <1>2, <1>3, <1>4, RingConstants DEF P!Room, Number
<1> QED
  BY <1>5, <1>6

(* The pool starts with all packets. *)
LEMMA PipeInit == Init => PipeInv
<1> SUFFICES ASSUME Init PROVE PipeInv
  OBVIOUS
<1> DEFINE all == [o \in Objects |-> o]
<1>1. /\ Ring!InitWith(<<>>) /\ Pool!InitWith(all) /\ running = TRUE
      /\ seq = [o \in Objects |-> 0] /\ producer = "acquire" /\ made = 0 /\ filled = None
      /\ consumer = "pop" /\ received = 0 /\ expected = 0 /\ reorder = 0 /\ popped = None
  BY DEF Init
<1>2. all \in Seq(Objects) /\ Len(all) = Cap /\ Distinct(all) /\ Members(all) = Objects
  <2>1. all \in [1 .. Cap -> Objects] /\ Cap \in Nat
    BY RingConstants DEF Objects
  <2>2. all \in Seq(Objects) /\ Len(all) = Cap
    BY <2>1
  <2> QED
    BY <2>2 DEF Distinct, Members
<1> HIDE DEF all
<1>3. R!LateInv /\ R!Contents = <<>> /\ R!Taken = None /\ rWriter.at = "out" /\ rReader.at = "out"
  <2>1. R!InitWith(<<>>) /\ rWriter.at = "out" /\ rReader.at = "out"
    BY <1>1 DEF Ring!InitWith, R!InitWith, Ring!Slots, R!Slots, Ring!Nowhere, R!Nowhere
  <2>2. <<>> \in Seq(Objects) /\ Len(<<>>) <= Cap
    BY RingConstants
  <2> QED
    BY <2>1, <2>2, RingConstants, R!LateInit
<1>4. P!LateInv /\ P!Contents = all /\ P!Taken = None /\ pWriter.at = "out" /\ pReader.at = "out"
  <2>1. P!InitWith(all) /\ pWriter.at = "out" /\ pReader.at = "out"
    BY <1>1 DEF Pool!InitWith, P!InitWith, Pool!Slots, P!Slots, Pool!Nowhere, P!Nowhere
  <2>2. Len(all) <= Cap
    BY <1>2, RingConstants
  <2> QED
    BY <1>2, <2>1, <2>2, RingConstants, P!LateInit
<1>5. Shared(all, None, <<>>, None)
  <2>1. Of(None) = {} /\ Number(None) = 0 /\ Members(<<>>) = {} /\ Distinct(<<>>)
    BY DEF Of, Number, Members, Distinct
  <2>2. <<>> \in Seq(Objects) /\ Len(all) + Len(<<>>) + Number(None) + Number(None) = Cap
    BY <1>2, <2>1, RingConstants
  <2> QED
    BY <1>2, <2>1, <2>2 DEF Shared
<1>6. Shared(P!Contents, Producers, R!Contents, Consumers)
  BY <1>1, <1>3, <1>4, <1>5 DEF Producers, Consumers
<1>7. Control
  BY <1>1, <1>3, <1>4, PipelineAssumption DEF Control
<1>8. Order
  <2>1. 0 \in 0 .. Total - 1 /\ Len(<<>>) = 0
    BY PipelineAssumption
  <2> QED
    BY <1>1, <1>3, <2>1 DEF Order, Number
<1> QED
  BY <1>3, <1>4, <1>6, <1>7, <1>8 DEF PipeInv

(* What a thread takes from a ring: the oldest packet, or nothing yet. *)
LEMMA ProducerTakes ==
  ASSUME PipeInv, Acquire
  PROVE  PipeInv'
<1>1. /\ R!LateInv /\ P!LateInv /\ Control /\ Order
      /\ Shared(P!Contents, Producers, R!Contents, Consumers)
  BY DEF PipeInv
<1>2. /\ PoolPop /\ producer = "acquire"
      /\ UNCHANGED <<ringVars, running, seq, producer, made, filled,
                     consumer, received, expected, reorder, popped>>
  BY DEF Acquire, producerVars, consumerVars
<1>3. P!LateInv' /\ P!Taking /\ pWriter' = pWriter
  BY <1>1, <1>2, PoolMoves
<1>4. /\ R!LateInv' /\ R!Contents' = R!Contents /\ R!Taken' = R!Taken
      /\ rReader' = rReader /\ rWriter' = rWriter
  BY <1>1, <1>2, RingMoves
<1>5. filled = None /\ Producers = P!Taken /\ Producers' = P!Taken' /\ Consumers' = Consumers
  BY <1>1, <1>2, <1>4 DEF Control, Producers, Consumers
<1>6. Shared(P!Contents, Producers, R!Contents, Consumers)'
  <2>1. CASE P!Contents' = P!Contents /\ P!Taken' = P!Taken
    BY <1>1, <1>4, <1>5, <2>1
  <2>2. CASE /\ P!Taken = None /\ P!Contents # <<>>
             /\ P!Taken' = Head(P!Contents) /\ P!Contents' = Tail(P!Contents)
    <3>1. Shared(P!Contents, None, R!Contents, Consumers)
      BY <1>1, <1>5, <2>2
    <3>2. Shared(Tail(P!Contents), Head(P!Contents), R!Contents, Consumers)
      BY <2>2, <3>1, SharedTake
    <3> QED
      BY <1>4, <1>5, <2>2, <3>2
  <2> QED
    BY <1>3, <2>1, <2>2 DEF P!Taking
<1>7. Control'
  BY <1>1, <1>2, <1>3, <1>4 DEF Control
<1>8. Order'
  BY <1>1, <1>2, <1>4 DEF Order, Number
<1> QED
  BY <1>3, <1>4, <1>6, <1>7, <1>8 DEF PipeInv

LEMMA ConsumerTakes ==
  ASSUME PipeInv, Receive
  PROVE  PipeInv'
<1>1. /\ R!LateInv /\ P!LateInv /\ Control /\ Order
      /\ Shared(P!Contents, Producers, R!Contents, Consumers)
  BY DEF PipeInv
<1>2. /\ RingPop /\ consumer = "pop"
      /\ UNCHANGED <<poolVars, running, seq, producer, made, filled,
                     consumer, received, expected, reorder, popped>>
  BY DEF Receive, producerVars, consumerVars
<1>3. R!LateInv' /\ R!Taking /\ rWriter' = rWriter
  BY <1>1, <1>2, RingMoves
<1>4. /\ P!LateInv' /\ P!Contents' = P!Contents /\ P!Taken' = P!Taken
      /\ pReader' = pReader /\ pWriter' = pWriter
  BY <1>1, <1>2, PoolMoves
<1>5. popped = None /\ Consumers = R!Taken /\ Consumers' = R!Taken' /\ Producers' = Producers
  BY <1>1, <1>2, <1>4 DEF Control, Producers, Consumers
<1>6. Control'
  BY <1>1, <1>2, <1>3, <1>4 DEF Control
<1>7. CASE R!Contents' = R!Contents /\ R!Taken' = R!Taken
  <2>1. Shared(P!Contents, Producers, R!Contents, Consumers)'
    BY <1>1, <1>4, <1>5, <1>7
  <2>2. Order'
    BY <1>1, <1>2, <1>7 DEF Order, Number
  <2> QED
    BY <1>3, <1>4, <1>6, <2>1, <2>2 DEF PipeInv
<1>8. CASE /\ R!Taken = None /\ R!Contents # <<>>
           /\ R!Taken' = Head(R!Contents) /\ R!Contents' = Tail(R!Contents)
  <2>1. Shared(R!Contents, None, P!Contents, Producers)
    BY <1>1, <1>5, <1>8, SharedSwap
  <2>2. Shared(Tail(R!Contents), Head(R!Contents), P!Contents, Producers)
    BY <1>8, <2>1, SharedTake
  <2>3. Shared(P!Contents, Producers, Tail(R!Contents), Head(R!Contents))
    BY <2>2, SharedSwap
  <2>4. Shared(P!Contents, Producers, R!Contents, Consumers)'
    BY <1>4, <1>5, <1>8, <2>3
  <2>5. PICK c \in Seq(Objects) : c = R!Contents /\ Distinct(c) /\ c # <<>>
    BY <1>1, <1>8 DEF Shared
  <2>6. /\ Len(c) \in Nat /\ Len(c) > 0 /\ Head(c) = c[1] /\ Head(c) \in Objects
        /\ Len(Tail(c)) = Len(c) - 1
        /\ \A i \in 1 .. Len(c) - 1 : Tail(c)[i] = c[i + 1]
    BY <2>5
  <2>7. Number(R!Taken) = 0 /\ Number(R!Taken') = 1
    BY <1>8, <2>5, <2>6, RingConstants DEF Number
  <2>8. /\ received \in Nat /\ received + Len(c) = made
        /\ \A i \in 1 .. Len(c) : seq[c[i]] = received + i - 1
    BY <1>1, <2>5, <2>6, <2>7 DEF Order
  <2>9. seq[Head(c)] = received
    BY <2>6, <2>8
  <2>10. received + 1 + (Len(c) - 1) = made
    BY <2>6, <2>8
  <2>11. ASSUME NEW i \in 1 .. Len(c) - 1 PROVE seq[Tail(c)[i]] = received + 1 + i - 1
    <3>1. i + 1 \in 1 .. Len(c) /\ Tail(c)[i] = c[i + 1]
      BY <2>6
    <3>2. seq[c[i + 1]] = received + (i + 1) - 1
      BY <2>8, <3>1
    <3> QED
      BY <2>8, <3>1, <3>2
  <2>12. R!Contents' = Tail(c) /\ R!Taken' = Head(c)
    BY <1>8, <2>5
  <2>13. Number(R!Taken)' = 1
    BY <2>7 DEF Number
  <2>14. Order'
    BY <1>1, <1>2, <2>6, <2>9, <2>10, <2>11, <2>12, <2>13 DEF Order
  <2> QED
    BY <1>3, <1>4, <1>6, <2>4, <2>14 DEF PipeInv
<1> QED
  BY <1>3, <1>7, <1>8 DEF R!Taking

(* The producer numbers a packet that nobody else has. *)
LEMMA ProducerFills ==
  ASSUME PipeInv, Fill
  PROVE  PipeInv'
<1>1. /\ R!LateInv /\ P!LateInv /\ Control /\ Order
      /\ Shared(P!Contents, Producers, R!Contents, Consumers)
  BY DEF PipeInv
<1>2. /\ Pool!PopReturn /\ producer = "acquire" /\ filled' = pReader.item
      /\ seq' = [seq EXCEPT ![pReader.item] = made] /\ producer' = "push"
      /\ UNCHANGED <<ringVars, running, made, consumer, received, expected, reorder, popped>>
  BY DEF Fill, consumerVars
<1>3. /\ P!LateInv' /\ P!Contents' = P!Contents /\ pWriter' = pWriter
      /\ P!Taken = pReader.item /\ P!Taken # None /\ P!Taken' = None
      /\ pReader'.at = "out"
  BY <1>1, <1>2, PoolMoves
<1>4. /\ R!LateInv' /\ R!Contents' = R!Contents /\ R!Taken' = R!Taken
      /\ rReader' = rReader /\ rWriter' = rWriter
  BY <1>1, <1>2, RingMoves
<1>5. /\ filled = None /\ Producers = P!Taken /\ Producers' = P!Taken
      /\ Consumers' = Consumers
  BY <1>1, <1>2, <1>3, <1>4 DEF Control, Producers, Consumers
<1>6. Shared(P!Contents, Producers, R!Contents, Consumers)'
  BY <1>1, <1>3, <1>4, <1>5
<1>7. P!Taken \in Objects
  BY <1>1, <1>3, <1>5 DEF Shared
<1>8. Control'
  BY <1>1, <1>2, <1>3, <1>4, <1>7 DEF Control
<1>9. PICK o \in Objects : o = P!Taken /\ o \notin Members(R!Contents) /\ o # R!Taken
  <2>1. Of(P!Taken) \cap Members(R!Contents) = {} /\ Of(P!Taken) \cap Of(Consumers) = {}
    BY <1>1, <1>5 DEF Shared
  <2>2. R!Taken # None => Consumers = R!Taken
    <3>1. R!Taken # None => rReader.at # "out"
      BY RingConstants, <1>1, R!LateFacts
    <3> QED
      BY <1>1, <3>1 DEF Control, Consumers
  <2> QED
    BY <1>3, <1>7, <2>1, <2>2 DEF Of
<1>10. made \in 0 .. Total - 1
  BY <1>1, <1>2, PipelineAssumption DEF Control
<1>11. /\ seq' = [seq EXCEPT ![o] = made] /\ seq' \in [Objects -> 0 .. Total - 1]
       /\ seq'[o] = made /\ \A q \in Objects : q # o => seq'[q] = seq[q]
  BY <1>1, <1>2, <1>3, <1>9, <1>10 DEF Order
<1>12. Order'
  <2>1. ASSUME NEW i \in 1 .. Len(R!Contents)
        PROVE  seq'[R!Contents[i]] = received + Number(R!Taken) + i - 1
    <3>1. R!Contents[i] \in Objects /\ R!Contents[i] \in Members(R!Contents)
      BY <1>1 DEF Shared, Members
    <3>2. seq'[R!Contents[i]] = seq[R!Contents[i]]
      BY <1>9, <1>11, <3>1
    <3> QED
      BY <1>1, <3>2 DEF Order
  <2>2. R!Taken # None => seq'[R!Taken] = received
    <3> SUFFICES ASSUME R!Taken # None PROVE seq'[R!Taken] = received
      OBVIOUS
    <3>1. rReader.at # "out"
      BY RingConstants, <1>1, R!LateFacts
    <3>2. Consumers = R!Taken
      BY <1>1, <3>1 DEF Control, Consumers
    <3>3. R!Taken \in Objects
      BY <1>1, <3>2 DEF Shared
    <3> QED
      BY <1>1, <1>9, <1>11, <3>3 DEF Order
  <2>3. filled' # None => seq'[filled'] = made'
    BY <1>2, <1>3, <1>9, <1>11
  <2> QED
    BY <1>1, <1>2, <1>4, <1>11, <2>1, <2>2, <2>3 DEF Order, Number
<1> QED
  BY <1>3, <1>4, <1>6, <1>8, <1>12 DEF PipeInv

LEMMA ProducerSends ==
  ASSUME PipeInv, Send \/ Sent
  PROVE  PipeInv'
<1>1. /\ R!LateInv /\ P!LateInv /\ Control /\ Order /\ R!Room
      /\ Shared(P!Contents, Producers, R!Contents, Consumers)
  BY RoomForAll DEF PipeInv
<1>2. /\ producer = "push" /\ filled # None /\ filled \in Objects /\ pReader.at = "out"
      /\ UNCHANGED <<poolVars, running, seq, consumer, received, expected, reorder, popped>>
  BY <1>1 DEF Send, Sent, Control, consumerVars
<1>3. /\ P!LateInv' /\ P!Contents' = P!Contents /\ P!Taken' = P!Taken
      /\ pReader' = pReader /\ pWriter' = pWriter
  BY <1>1, <1>2, PoolMoves
<1>4. Producers = filled
  BY <1>2 DEF Producers
<1>5. CASE Send
  <2>1. /\ Ring!PushTest(filled) \/ Ring!PushStore
        /\ UNCHANGED <<producer, made, filled>>
    BY <1>5 DEF Send, producerVars
  <2>2. /\ R!LateInv' /\ R!Contents' = R!Contents /\ R!Taken' = R!Taken
        /\ rReader' = rReader /\ rWriter'.at # "out"
        /\ rWriter'.item = IF rWriter.at = "out" THEN filled ELSE rWriter.item
    BY <1>1, <1>2, <2>1, RingMoves
  <2>3. Control'
    BY <1>1, <1>2, <1>3, <2>1, <2>2 DEF Control
  <2>4. Order'
    BY <1>1, <1>2, <2>1, <2>2 DEF Order, Number
  <2>5. Shared(P!Contents, Producers, R!Contents, Consumers)'
    BY <1>1, <1>2, <1>3, <2>1, <2>2 DEF Producers, Consumers
  <2> QED
    BY <1>3, <2>2, <2>3, <2>4, <2>5 DEF PipeInv
<1>6. CASE Sent
  <2>1. /\ Ring!PushPublish /\ filled' = None /\ made' = made + 1
        /\ producer' = IF made + 1 < Total THEN "acquire" ELSE "stop"
    BY <1>6 DEF Sent
  <2>2. /\ R!LateInv' /\ R!Contents' = Append(R!Contents, filled)
        /\ R!Taken' = R!Taken /\ rReader' = rReader /\ rWriter'.at = "out"
    BY <1>1, <2>1, RingMoves DEF Control
  <2>3. made \in 0 .. Total /\ made < Total /\ Total \in Nat
    BY <1>1, <1>2, PipelineAssumption DEF Control
  <2>4. made' \in 0 .. Total /\ (made' < Total <=> producer' = "acquire") /\ producer' \in {"acquire", "stop"}
    BY <2>1, <2>3
  <2>5. running /\ consumer # "done"
    BY <1>1, <1>2 DEF Control
  <2>6. Control'
    BY <1>1, <1>2, <1>3, <2>1, <2>2, <2>4, <2>5 DEF Control
  <2>7. P!Taken = None
    <3>1. pReader.at \notin {"have", "late"}
      BY <1>2
    <3> QED
      BY <1>1, <3>1, RingConstants, P!LateFacts
  <2>8. Producers' = None /\ Consumers' = Consumers
    BY <1>2, <1>3, <2>1, <2>2, <2>7 DEF Producers, Consumers
  <2>9. Shared(P!Contents, None, Append(R!Contents, filled), Consumers)
    BY <1>1, <1>2, <1>4, SharedGive
  <2>10. Shared(P!Contents, Producers, R!Contents, Consumers)'
    BY <1>3, <2>2, <2>8, <2>9
  <2>11. PICK c \in Seq(Objects) : c = R!Contents
    BY <1>1 DEF Shared
  <2>12. /\ Len(c) \in Nat /\ Len(Append(c, filled)) = Len(c) + 1
         /\ Append(c, filled)[Len(c) + 1] = filled
         /\ \A i \in 1 .. Len(c) : Append(c, filled)[i] = c[i]
    BY <1>2
  <2>13. /\ received \in Nat /\ Number(R!Taken) \in {0, 1}
         /\ received + Number(R!Taken) + Len(c) = made /\ seq[filled] = made
         /\ \A i \in 1 .. Len(c) : seq[c[i]] = received + Number(R!Taken) + i - 1
    BY <1>1, <1>2, <2>11 DEF Order, Number
  <2>14. ASSUME NEW i \in 1 .. Len(c) + 1
         PROVE  seq[Append(c, filled)[i]] = received + Number(R!Taken) + i - 1
    <3>1. CASE i = Len(c) + 1
      <4>1. received + Number(R!Taken) + i - 1 = made
        BY <2>12, <2>13, <3>1
      <4> QED
        BY <2>12, <2>13, <3>1, <4>1
    <3>2. CASE i # Len(c) + 1
      <4>1. i \in 1 .. Len(c)
        BY <2>12, <3>2
      <4> QED
        BY <2>12, <2>13, <4>1
    <3> QED
      BY <3>1, <3>2
  <2>15. received + Number(R!Taken) + (Len(c) + 1) = made + 1
    <3> DEFINE n == Number(R!Taken)
    <3>1. n \in {0, 1} /\ received + n + Len(c) = made
      BY <2>13
    <3> HIDE DEF n
    <3>2. received + n + (Len(c) + 1) = made + 1
      BY <2>3, <2>12, <2>13, <3>1
    <3> QED
      BY <3>2 DEF n
  <2>16. Number(R!Taken)' = Number(R!Taken) /\ R!Contents' = Append(c, filled)
    BY <2>2, <2>11 DEF Number
  <2>17. Order'
    BY <1>1, <1>2, <2>1, <2>2, <2>12, <2>14, <2>15, <2>16 DEF Order
  <2> QED
    BY <1>3, <2>2, <2>6, <2>10, <2>17 DEF PipeInv
<1> QED
  BY <1>5, <1>6

(* Steps that move no packet. *)
LEMMA NothingMoves ==
  ASSUME PipeInv, UNCHANGED <<ringVars, poolVars, seq, made, filled, received, expected, reorder, popped>>
  PROVE  /\ R!LateInv' /\ P!LateInv' /\ Order'
         /\ Shared(P!Contents, Producers, R!Contents, Consumers)'
         /\ R!Contents' = R!Contents
         /\ UNCHANGED <<rReader, rWriter, pReader, pWriter>>
<1>1. /\ R!LateInv /\ P!LateInv /\ Order
      /\ Shared(P!Contents, Producers, R!Contents, Consumers)
  BY DEF PipeInv
<1>2. /\ P!LateInv' /\ P!Contents' = P!Contents /\ P!Taken' = P!Taken
      /\ pReader' = pReader /\ pWriter' = pWriter
  BY <1>1, PoolMoves
<1>3. /\ R!LateInv' /\ R!Contents' = R!Contents /\ R!Taken' = R!Taken
      /\ rReader' = rReader /\ rWriter' = rWriter
  BY <1>1, RingMoves
<1>4. Order'
  BY <1>1, <1>3 DEF Order, Number
<1>5. Shared(P!Contents, Producers, R!Contents, Consumers)'
  BY <1>1, <1>2, <1>3 DEF Producers, Consumers
<1> QED
  BY <1>2, <1>3, <1>4, <1>5

LEMMA ThreadsMove ==
  ASSUME PipeInv,
         \/ Stop \/ Nothing \/ StillRunning \/ Stopped \/ NotEmpty \/ Finish
         \/ UNCHANGED vars
  PROVE  PipeInv'
<1>1. Control /\ R!LateInv
  BY DEF PipeInv
<1>2. UNCHANGED <<ringVars, poolVars, seq, made, filled, received, expected, reorder, popped>>
  BY DEF Stop, Nothing, StillRunning, Stopped, NotEmpty, Finish, Goto, vars, producerVars, consumerVars
<1>3. /\ R!LateInv' /\ P!LateInv' /\ Order' /\ R!Contents' = R!Contents
      /\ Shared(P!Contents, Producers, R!Contents, Consumers)'
      /\ UNCHANGED <<rReader, rWriter, pReader, pWriter>>
  BY <1>2, NothingMoves
<1>4. Control'
  <2>1. CASE Stop
    BY <1>1, <1>2, <1>3, <2>1 DEF Control, Stop, consumerVars
  <2>2. CASE Nothing \/ StillRunning \/ NotEmpty
    <3>1. /\ consumer' \in {"running", "pop"} /\ (rReader.at = "out" \/ consumer' = "pop")
          /\ popped = None /\ UNCHANGED <<producer, running>> /\ consumer \notin {"release", "done"}
      BY <1>1, <2>2 DEF Control, Nothing, StillRunning, NotEmpty, Goto, producerVars
    <3> QED
      BY <1>1, <1>2, <1>3, <3>1 DEF Control
  <2>3. CASE Stopped
    BY <1>1, <1>2, <1>3, <2>3 DEF Control, Stopped, Goto, producerVars
  <2>4. CASE Finish
    <3>1. R!Contents = <<>>
      <4>1. R!Empty
        BY <2>4 DEF Finish, Ring!Empty, R!Empty
      <4> QED
        BY <1>1, <4>1, RingConstants, R!LateBounds
    <3> QED
      BY <1>1, <1>2, <1>3, <2>4, <3>1 DEF Control, Finish, Goto, producerVars
  <2>5. CASE UNCHANGED vars
    BY <1>1, <1>2, <1>3, <2>5 DEF Control, vars, producerVars, consumerVars
  <2> QED
    BY <2>1, <2>2, <2>3, <2>4, <2>5
<1> QED
  BY <1>3, <1>4 DEF PipeInv

(* The packet popped carries the number that is expected. *)
LEMMA ConsumerVerifies ==
  ASSUME PipeInv, Verify
  PROVE  PipeInv'
<1>1. /\ R!LateInv /\ P!LateInv /\ Control /\ Order
      /\ Shared(P!Contents, Producers, R!Contents, Consumers)
  BY DEF PipeInv
<1>2. /\ consumer = "pop" /\ Ring!PopReturn /\ popped' = rReader.item
      /\ expected' = seq[rReader.item] + 1
      /\ reorder' = IF seq[rReader.item] = expected THEN reorder ELSE reorder + 1
      /\ received' = received + 1 /\ consumer' = "release"
      /\ UNCHANGED <<poolVars, running, seq, producer, made, filled>>
  BY DEF Verify, producerVars
<1>3. /\ R!LateInv' /\ R!Contents' = R!Contents /\ rWriter' = rWriter
      /\ R!Taken = rReader.item /\ R!Taken # None /\ R!Taken' = None
      /\ rReader'.at = "out"
  BY <1>1, <1>2, RingMoves
<1>4. /\ P!LateInv' /\ P!Contents' = P!Contents /\ P!Taken' = P!Taken
      /\ pReader' = pReader /\ pWriter' = pWriter
  BY <1>1, <1>2, PoolMoves
<1>5. /\ popped = None /\ Consumers = R!Taken /\ Consumers' = R!Taken /\ Producers' = Producers
  BY <1>1, <1>2, <1>3, <1>4 DEF Control, Producers, Consumers
<1>6. R!Taken \in Objects
  BY <1>1, <1>3, <1>5 DEF Shared
<1>7. Shared(P!Contents, Producers, R!Contents, Consumers)'
  BY <1>1, <1>3, <1>4, <1>5
<1>8. Control'
  BY <1>1, <1>2, <1>3, <1>4, <1>6 DEF Control
<1>9. Number(R!Taken) = 1 /\ Number(R!Taken)' = 0
  BY <1>3 DEF Number
<1>10. /\ received \in Nat /\ expected = received /\ reorder = 0
       /\ received + 1 + Len(R!Contents) = made /\ seq[rReader.item] = received
       /\ \A i \in 1 .. Len(R!Contents) : seq[R!Contents[i]] = received + 1 + i - 1
  BY <1>1, <1>3, <1>9 DEF Order
<1>11. /\ received' \in Nat /\ expected' = received' /\ reorder' = 0
       /\ received' + 0 + Len(R!Contents) = made
  <2>1. Len(R!Contents) \in Nat
    BY <1>1 DEF Shared
  <2> QED
    BY <1>2, <1>10, <2>1
<1>12. \A i \in 1 .. Len(R!Contents) : seq[R!Contents[i]] = received' + 0 + i - 1
  BY <1>2, <1>10
<1>13. Order'
  BY <1>1, <1>2, <1>3, <1>9, <1>11, <1>12 DEF Order
<1> QED
  BY <1>3, <1>4, <1>7, <1>8, <1>13 DEF PipeInv

LEMMA ConsumerReleases ==
  ASSUME PipeInv, Release \/ Released
  PROVE  PipeInv'
<1>1. /\ R!LateInv /\ P!LateInv /\ Control /\ Order /\ P!Room
      /\ Shared(P!Contents, Producers, R!Contents, Consumers)
  BY RoomForAll DEF PipeInv
<1>2. /\ consumer = "release" /\ popped # None /\ popped \in Objects /\ rReader.at = "out"
      /\ UNCHANGED <<ringVars, running, seq, producer, made, filled, received, expected, reorder>>
  BY <1>1 DEF Release, Released, Control, producerVars, consumerVars
<1>3. /\ R!LateInv' /\ R!Contents' = R!Contents /\ R!Taken' = R!Taken
      /\ rReader' = rReader /\ rWriter' = rWriter
  BY <1>1, <1>2, RingMoves
<1>4. Consumers = popped
  BY <1>2 DEF Consumers
<1>5. Order'
  BY <1>1, <1>2, <1>3 DEF Order, Number
<1>6. CASE Release
  <2>1. /\ Pool!PushTest(popped) \/ Pool!PushStore
        /\ UNCHANGED <<consumer, popped>>
    BY <1>6 DEF Release, consumerVars
  <2>2. /\ P!LateInv' /\ P!Contents' = P!Contents /\ P!Taken' = P!Taken
        /\ pReader' = pReader /\ pWriter'.at # "out"
        /\ pWriter'.item = IF pWriter.at = "out" THEN popped ELSE pWriter.item
    BY <1>1, <1>2, <2>1, PoolMoves
  <2>3. Control'
    BY <1>1, <1>2, <1>3, <2>1, <2>2 DEF Control
  <2>4. Shared(P!Contents, Producers, R!Contents, Consumers)'
    BY <1>1, <1>2, <1>3, <2>1, <2>2 DEF Producers, Consumers
  <2> QED
    BY <1>3, <1>5, <2>2, <2>3, <2>4 DEF PipeInv
<1>7. CASE Released
  <2>1. Pool!PushPublish /\ popped' = None /\ consumer' = "pop"
    BY <1>7 DEF Released
  <2>2. /\ P!LateInv' /\ P!Contents' = Append(P!Contents, popped)
        /\ P!Taken' = P!Taken /\ pReader' = pReader /\ pWriter'.at = "out"
    BY <1>1, <2>1, PoolMoves DEF Control
  <2>3. Control'
    BY <1>1, <1>2, <1>3, <2>1, <2>2 DEF Control
  <2>4. R!Taken = None
    <3>1. rReader.at \notin {"have", "late"}
      BY <1>2
    <3> QED
      BY <1>1, <3>1, RingConstants, R!LateFacts
  <2>5. Producers' = Producers /\ Consumers' = None
    BY <1>2, <1>3, <2>1, <2>2, <2>4 DEF Producers, Consumers
  <2>6. Shared(R!Contents, popped, P!Contents, Producers)
    BY <1>1, <1>4, SharedSwap
  <2>7. Shared(R!Contents, None, Append(P!Contents, popped), Producers)
    BY <1>2, <2>6, SharedGive
  <2>8. Shared(Append(P!Contents, popped), Producers, R!Contents, None)
    BY <2>7, SharedSwap
  <2>9. Shared(P!Contents, Producers, R!Contents, Consumers)'
    BY <1>3, <2>2, <2>5, <2>8
  <2> QED
    BY <1>3, <1>5, <2>2, <2>3, <2>9 DEF PipeInv
<1> QED
  BY <1>6, <1>7

LEMMA PipeStep == PipeInv /\ [Next]_vars => PipeInv'
BY ProducerTakes, ProducerFills, ProducerSends, ConsumerTakes, ConsumerVerifies, ConsumerReleases, ThreadsMove
   DEF Next, Producer, Consumer, Joined

LEMMA PipeAlways == Spec => []PipeInv
BY PipeInit, PipeStep, PTL DEF Spec

(***************************************************************************)
(* The properties                                                          *)
(***************************************************************************)

(* No packet is ever lost, in two places, or overwritten while it is still   *)
(* being read, although out++ may overtake the load (ringbuf.h:114-115):     *)
(* whoever could reuse the slot has a packet that the ring is missing too.   *)
THEOREM PacketsAreConserved == Spec => []PacketsConserved
<1>1. PipeInv => PacketsConserved
  <2> SUFFICES ASSUME PipeInv PROVE PacketsConserved
    OBVIOUS
  <2>1. /\ R!LateInv /\ P!LateInv /\ Control
        /\ Shared(P!Contents, Producers, R!Contents, Consumers)
    BY DEF PipeInv
  <2>2. Pool!Contents = P!Contents /\ Ring!Contents = R!Contents /\ Pool!Count = Len(P!Contents) /\ Ring!Count = Len(R!Contents)
    <3>1. Pool!Contents = P!Contents /\ Pool!Count = P!Count
      BY DEF Pool!Contents, P!Contents, Pool!Count, P!Count, Pool!Window, P!Window,
             Pool!Slot, P!Slot, Pool!Add, P!Add, Pool!Sub, P!Sub
    <3>2. Ring!Contents = R!Contents /\ Ring!Count = R!Count
      BY DEF Ring!Contents, R!Contents, Ring!Count, R!Count, Ring!Window, R!Window,
             Ring!Slot, R!Slot, Ring!Add, R!Add, Ring!Sub, R!Sub
    <3> QED
      BY <2>1, <3>1, <3>2, RingConstants, R!LateFacts, P!LateFacts
  <2>3. Pool!Leaving = P!Leaving /\ Ring!Leaving = R!Leaving
    BY DEF Pool!Leaving, P!Leaving, Ring!Leaving, R!Leaving, Pool!Slot, P!Slot, Ring!Slot, R!Slot,
           Pool!Sub, P!Sub, Ring!Sub, R!Sub
  <2>4. InHand(pReader, filled, pBuf[P!Leaving]) = Of(Producers)
    BY <2>1 DEF InHand, Of, Producers, P!Taken, P!LateInv, Control
  <2>5. InHand(rReader, popped, rBuf[R!Leaving]) = Of(Consumers)
    BY <2>1 DEF InHand, Of, Consumers, R!Taken, R!LateInv, Control
  <2>6. ASSUME NEW x PROVE Cardinality(Of(x)) = Number(x)
    <3>1. CASE x = None
      <4>1. Of(x) = {}
        BY <3>1 DEF Of
      <4> QED
        BY <3>1, <4>1, FS_EmptySet DEF Number
    <3>2. CASE x # None
      <4>1. Of(x) = {x}
        BY <3>2 DEF Of
      <4> QED
        BY <3>2, <4>1, FS_Singleton DEF Number
    <3> QED
      BY <3>1, <3>2
  <2> DEFINE places == << Members(P!Contents), Members(R!Contents), Of(Producers), Of(Consumers) >>
  <2>7. UNION {places[k] : k \in DOMAIN places}
          = Members(P!Contents) \cup Members(R!Contents) \cup Of(Producers) \cup Of(Consumers)
    OBVIOUS
  <2>8. \A j, k \in DOMAIN places : j # k => places[j] \cap places[k] = {}
    BY <2>1 DEF Shared
  <2>9. UNION {places[k] : k \in DOMAIN places} = Objects
    BY <2>1, <2>7 DEF Shared
  <2>10. Len(P!Contents) + Len(R!Contents) + Cardinality(Of(Producers)) + Cardinality(Of(Consumers)) = Cap
    BY <2>1, <2>6 DEF Shared
  <2> QED
    BY <2>2, <2>3, <2>4, <2>5, <2>8, <2>9, <2>10 DEF PacketsConserved, Members
<1> QED
  BY <1>1, PipeAlways, PTL

(* The consumer receives the packets in the order of their numbers and       *)
(* misses none (ringbuf_example.c:102-108, 121-126).                           *)
THEOREM PacketsStayInOrder == Spec => []AllInOrder
<1>1. PipeInv => AllInOrder
  BY DEF PipeInv, Order, AllInOrder
<1> QED
  BY <1>1, PipeAlways, PTL

(* A release never meets a full pool, a push never a full ring.              *)
THEOREM RingsHaveRoom == Spec => []AlwaysRoom
<1>1. PipeInv => AlwaysRoom
  <2> SUFFICES ASSUME PipeInv PROVE AlwaysRoom
    OBVIOUS
  <2>1. /\ R!LateInv /\ P!LateInv /\ Control
        /\ Len(P!Contents) \in Nat /\ Len(R!Contents) \in Nat
        /\ Len(P!Contents) + Len(R!Contents) + Number(Producers) + Number(Consumers) = Cap
    BY DEF PipeInv, Shared
  <2>2. (Pool!Full <=> Len(P!Contents) >= Cap) /\ (Ring!Full <=> Len(R!Contents) >= Cap)
    <3>1. (Pool!Full <=> P!Full) /\ (Ring!Full <=> R!Full)
      BY DEF Pool!Full, P!Full, Pool!Count, P!Count, Pool!Sub, P!Sub,
             Ring!Full, R!Full, Ring!Count, R!Count, Ring!Sub, R!Sub
    <3> QED
      BY <2>1, <3>1, RingConstants, P!LateBounds, R!LateBounds
  <2>3. Number(Producers) \in {0, 1} /\ Number(Consumers) \in {0, 1}
    BY DEF Number
  <2>4. consumer = "release" => Number(Consumers) = 1
    BY <2>1 DEF Control, Consumers, Number
  <2>5. producer = "push" => Number(Producers) = 1
    BY <2>1 DEF Control, Producers, Number
  <2>6. /\ consumer = "release" => ~(Len(P!Contents) >= Cap)
        /\ producer = "push" => ~(Len(R!Contents) >= Cap)
    BY <2>1, <2>3, <2>4, <2>5, RingConstants
  <2> QED
    BY <2>2, <2>6 DEF AlwaysRoom
<1> QED
  BY <1>1, PipeAlways, PTL

(* When the consumer ends it has received everything and every packet is     *)
(* back in the pool, because it looks at the ring once more after it has     *)
(* seen that running is cleared (ringbuf_example.c:95-98).                 *)
THEOREM NothingIsLost == Spec => []NothingLost
<1>1. PipeInv => NothingLost
  <2> SUFFICES ASSUME PipeInv, consumer = "done"
               PROVE  received = Total /\ Pool!Count = Cap /\ Ring!Empty
    BY DEF NothingLost
  <2>1. /\ R!LateInv /\ P!LateInv /\ Control /\ Order
        /\ Shared(P!Contents, Producers, R!Contents, Consumers)
    BY DEF PipeInv
  <2>2. /\ R!Contents = <<>> /\ producer = "done" /\ made = Total
        /\ filled = None /\ popped = None /\ pReader.at = "out" /\ rReader.at = "out"
    BY <2>1, PipelineAssumption DEF Control
  <2>3. R!Taken = None /\ P!Taken = None
    BY <2>1, <2>2, RingConstants, R!LateFacts, P!LateFacts
  <2>4. Number(Producers) = 0 /\ Number(Consumers) = 0 /\ Number(R!Taken) = 0 /\ Len(R!Contents) = 0
    BY <2>2, <2>3 DEF Producers, Consumers, Number
  <2>5. received = Total
    BY <2>1, <2>2, <2>4 DEF Order
  <2>6. Len(P!Contents) = Cap
    <3>1. Len(P!Contents) \in Nat
      BY <2>1 DEF Shared
    <3> QED
      BY <2>1, <2>4, <3>1 DEF Shared
  <2>7. Pool!Count = P!Count /\ (Ring!Empty <=> R!Empty)
    BY DEF Pool!Count, P!Count, Pool!Sub, P!Sub, Ring!Empty, R!Empty
  <2>8. P!Count = Len(P!Contents) /\ R!Empty
    BY <2>1, <2>2, RingConstants, P!LateFacts, R!LateBounds
  <2> QED
    BY <2>5, <2>6, <2>7, <2>8
<1> QED
  BY <1>1, PipeAlways, PTL

====
