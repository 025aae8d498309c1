---- MODULE SpscPipeline ----
(***************************************************************************)
(* structure/ringbuf_example.c: a producer takes packets from an object    *)
(* pool, numbers them and pushes them on a ring; a consumer pops them,     *)
(* checks the numbers and gives the packets back to the pool.  The pool    *)
(* and the ring are two SpscRings that run in opposite directions, so each *)
(* thread is the writer of one and the reader of the other.                *)
(***************************************************************************)
EXTENDS Integers, Sequences, FiniteSets

CONSTANTS
  Cap,       \* POOL_CAPACITY, the capacity of the pool and of the ring
  Modulus,   \* 2^32
  LateLoad,  \* see SpscRing
  Total      \* TOTAL_ITEMS

(* What SpscRing assumes of the first three, and a benchmark that sends.    *)
ASSUME PipelineAssumption ==
  /\ Cap \in Nat \ {0}
  /\ Modulus \in Nat
  /\ Modulus > Cap
  /\ Modulus % Cap = 0
  /\ LateLoad \in BOOLEAN
  /\ Total \in Nat \ {0}

Objects == 1 .. Cap
None == 0

VARIABLES
  rIn, rOut, rBuf, rWriter, rReader,    \* ctx->rb
  pIn, pOut, pBuf, pWriter, pReader,    \* ctx->pool
  running,                              \* ctx->running
  seq,                                  \* seq of every packet of the slab
  producer, made, filled,               \* its place, its i, its pkt
  consumer, received, expected, reorder, popped

ringVars == <<rIn, rOut, rBuf, rWriter, rReader>>
poolVars == <<pIn, pOut, pBuf, pWriter, pReader>>
producerVars == <<producer, made, filled>>
consumerVars == <<consumer, received, expected, reorder, popped>>
vars == <<ringVars, poolVars, running, seq, producerVars, consumerVars>>

Ring == INSTANCE SpscRing WITH Items <- Objects,
          in <- rIn, out <- rOut, buf <- rBuf, writer <- rWriter, reader <- rReader
Pool == INSTANCE SpscRing WITH Items <- Objects,
          in <- pIn, out <- pOut, buf <- pBuf, writer <- pWriter, reader <- pReader

Init ==
  /\ Ring!InitWith(<<>>)
  /\ Pool!InitWith([o \in Objects |-> o])
  /\ running = TRUE
  /\ seq = [o \in Objects |-> 0]
  /\ producer = "acquire" /\ made = 0 /\ filled = None
  /\ consumer = "pop" /\ received = 0 /\ expected = 0 /\ reorder = 0 /\ popped = None

(* What a pop does before it returns. *)
PoolPop == Pool!PopTest \/ Pool!PopLoad \/ Pool!PopAdvance
RingPop == Ring!PopTest \/ Ring!PopLoad \/ Ring!PopAdvance

(***************************************************************************)
(* producer_thread.  A loop that repeats a failing acquire or push waits.  *)
(***************************************************************************)
Acquire ==
  /\ producer = "acquire"
  /\ PoolPop
  /\ UNCHANGED <<ringVars, running, seq, producerVars, consumerVars>>

Fill ==
  /\ producer = "acquire"
  /\ Pool!PopReturn
  /\ filled' = pReader.item
  /\ seq' = [seq EXCEPT ![pReader.item] = made]
  /\ producer' = "push"
  /\ UNCHANGED <<ringVars, running, made, consumerVars>>

Send ==
  /\ producer = "push"
  /\ Ring!PushTest(filled) \/ Ring!PushStore
  /\ UNCHANGED <<poolVars, running, seq, producerVars, consumerVars>>

Sent ==
  /\ producer = "push"
  /\ Ring!PushPublish
  /\ filled' = None
  /\ made' = made + 1
  /\ producer' = IF made + 1 < Total THEN "acquire" ELSE "stop"
  /\ UNCHANGED <<poolVars, running, seq, consumerVars>>

(* running is left as it is. *)
StopUntold ==
  /\ producer = "stop"
  /\ producer' = "done"
  /\ UNCHANGED <<ringVars, poolVars, running, seq, made, filled, consumerVars>>

Stop ==
  /\ producer = "stop"
  /\ running' = FALSE
  /\ producer' = "done"
  /\ UNCHANGED <<ringVars, poolVars, seq, made, filled, consumerVars>>

(***************************************************************************)
(* consumer_thread                                                         *)
(***************************************************************************)
Receive ==
  /\ consumer = "pop"
  /\ RingPop
  /\ UNCHANGED <<poolVars, running, seq, producerVars, consumerVars>>

Goto(label) ==
  /\ consumer' = label
  /\ UNCHANGED <<ringVars, poolVars, running, seq, producerVars,
                 received, expected, reorder, popped>>

(* ringbuf_pop has returned NULL; next running is read. *)
Nothing == consumer = "pop" /\ rReader.at = "out" /\ Ring!Empty /\ Goto("running")

StillRunning == consumer = "running" /\ running /\ Goto("pop")
(* The ring is not looked at again. *)
StoppedAtOnce == consumer = "running" /\ ~running /\ Goto("done")
Stopped == consumer = "running" /\ ~running /\ Goto("empty")

(* running is read first, then ringbuf_is_empty. *)
NotEmpty == consumer = "empty" /\ ~Ring!Empty /\ Goto("pop")
Finish == consumer = "empty" /\ Ring!Empty /\ Goto("done")

Verify ==
  /\ consumer = "pop"
  /\ Ring!PopReturn
  /\ popped' = rReader.item
  /\ expected' = seq[rReader.item] + 1
  /\ reorder' = IF seq[rReader.item] = expected THEN reorder ELSE reorder + 1
  /\ received' = received + 1
  /\ consumer' = "release"
  /\ UNCHANGED <<poolVars, running, seq, producerVars>>

Release ==
  /\ consumer = "release"
  /\ Pool!PushTest(popped) \/ Pool!PushStore
  /\ UNCHANGED <<ringVars, running, seq, producerVars, consumerVars>>

(* The packet goes back to the pool twice. *)
ReleasedTwice ==
  /\ consumer = "release"
  /\ Pool!PushPublish
  /\ \E again \in BOOLEAN :
       /\ consumer' = IF again THEN "release" ELSE "pop"
       /\ popped' = IF again THEN popped ELSE None
  /\ UNCHANGED <<ringVars, running, seq, producerVars, received, expected, reorder>>

Released ==
  /\ consumer = "release"
  /\ Pool!PushPublish
  /\ popped' = None
  /\ consumer' = "pop"
  /\ UNCHANGED <<ringVars, running, seq, producerVars, received, expected, reorder>>

(***************************************************************************)
(* The program                                                             *)
(***************************************************************************)
Producer == Acquire \/ Fill \/ Send \/ Sent \/ Stop
Consumer ==
  \/ Receive \/ Nothing \/ StillRunning \/ Stopped \/ NotEmpty \/ Finish
  \/ Verify \/ Release \/ Released

(* main joins both. *)
Joined ==
  /\ producer = "done" /\ consumer = "done"
  /\ UNCHANGED vars

Next == Producer \/ Consumer \/ Joined

Spec == Init /\ [][Next]_vars

(* Each thread is pinned to a core of its own. *)
FairSpec == Spec /\ WF_vars(Producer) /\ WF_vars(Consumer)

(***************************************************************************)
(* Properties                                                              *)
(***************************************************************************)

(* Numbers, rings and places are what they should be. *)
TypeOK ==
  /\ Ring!TypeOK /\ Pool!TypeOK
  /\ running \in BOOLEAN
  /\ seq \in [Objects -> 0 .. Total - 1]
  /\ producer \in {"acquire", "push", "stop", "done"}
  /\ consumer \in {"pop", "running", "empty", "release", "done"}
  /\ made \in 0 .. Total /\ received \in 0 .. Total /\ expected \in 0 .. Total
  /\ reorder \in 0 .. Total
  /\ filled \in Objects \cup {None} /\ popped \in Objects \cup {None}

InHand(reader, carried, leaving) ==
  (IF reader.at = "have" THEN {reader.item} ELSE {})
  \cup (IF reader.at = "late" THEN {leaving} ELSE {})
  \cup ({carried} \ {None})

(* Every packet of the slab is in exactly one place: the pool, the ring, or  *)
(* the hands of one thread.  No packet is lost, duplicated or overwritten    *)
(* while the other side still reads its slot.                                *)
PacketsConserved ==
  LET places == << {Pool!Contents[k] : k \in DOMAIN Pool!Contents},
                   {Ring!Contents[k] : k \in DOMAIN Ring!Contents},
                   InHand(pReader, filled, pBuf[Pool!Leaving]),
                   InHand(rReader, popped, rBuf[Ring!Leaving]) >>
  IN  /\ UNION {places[k] : k \in DOMAIN places} = Objects
      /\ \A j, k \in DOMAIN places : j # k => places[j] \cap places[k] = {}
      /\ Pool!Count + Ring!Count + Cardinality(places[3]) + Cardinality(places[4]) = Cap

(* "sequence: all in order" (lines 121-124). *)
AllInOrder == reorder = 0 /\ expected = received

(* When the consumer stops nothing is left in the ring, every item has been  *)
(* received (line 126) and the pool is whole again (line 167), although      *)
(* running may change at any moment of its last look at the ring.            *)
NothingLost ==
  consumer = "done" => received = Total /\ Pool!Count = Cap /\ Ring!Empty

(* The assert(0) of objpool_release (objpool.h:85) and the retry of a failed *)
(* push (line 67) are never reached: the rings have room for every packet.   *)
AlwaysRoom ==
  /\ consumer = "release" /\ pWriter.at = "out" => ~Pool!Full
  /\ producer = "push" /\ rWriter.at = "out" => ~Ring!Full

(* Both threads end, and main's joins return (lines 155-156). *)
BothEnd == <>(producer = "done" /\ consumer = "done")

====
