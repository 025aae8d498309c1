---- MODULE MpmcRing ----
(***************************************************************************)
(* structure/mpmc.c: a ring shared by several producers and several        *)
(* consumers, after DPDK's rte_ring.  Four unsigned 32-bit counters never  *)
(* stop growing and wrap at 2^32; a counter masked by capacity - 1 is a    *)
(* slot of buf.  An operation claims an index by a CAS on a head, uses the *)
(* slot, waits for its turn and publishes the index by a store to a tail.  *)
(*                                                                         *)
(* One action is one access to shared memory.  The wait loop is an action  *)
(* enabled when the loop would end.  pc names the access a thread is about *)
(* to make:                                                                *)
(*   idle     outside enqueue and dequeue                                  *)
(*   head     the load of the own head (lines 88, 131)                     *)
(*   tail     the load of the other side's tail, and the test on it        *)
(*   late     as head, the other side's tail being loaded already          *)
(*   cas      the compare-and-exchange of the own head                     *)
(*   casLate  as cas, the tail for the next round being loaded already     *)
(*   slot     the access to buf                                            *)
(*   wait     the loop until the own tail reaches the claimed index        *)
(*   publish  the store to the own tail                                    *)
(***************************************************************************)
EXTENDS RingIndex

CONSTANTS
  Producers, Consumers,   \* threads that enqueue, threads that dequeue
  Values, None,           \* items, and the null pointer
  Reordering              \* threads on a CPU that may satisfy the relaxed load
                          \* of a head after the acquire load that follows it

ASSUME RingAssumption ==
  /\ Producers \cap Consumers = {}
  /\ None \notin Values
  /\ Reordering \subseteq Producers \cup Consumers

VARIABLES
  prodHead, prodTail, consHead, consTail,
  buf,
  pc,
  head,    \* the local variable head of each call
  tail,    \* the local variable tail, while the call still needs it
  item     \* ptr of an enqueue, *ptr_out of a dequeue

vars == <<prodHead, prodTail, consHead, consTail, buf, pc, head, tail, item>>
counters == <<prodHead, prodTail, consHead, consTail>>

Threads == Producers \cup Consumers

Init ==
  /\ prodHead = 0 /\ prodTail = 0
  /\ consHead = 0 /\ consTail = 0
  /\ buf = [s \in Slots |-> None]
  /\ pc = [t \in Threads |-> "idle"]
  /\ head = [t \in Threads |-> 0]
  /\ tail = [t \in Threads |-> 0]
  /\ item = [t \in Threads |-> None]

Goto(t, label) == pc' = [pc EXCEPT ![t] = label]

(* The call of t returns, and its locals are gone. *)
Return(t) ==
  /\ Goto(t, "idle")
  /\ head' = [head EXCEPT ![t] = 0]
  /\ tail' = [tail EXCEPT ![t] = 0]
  /\ item' = [item EXCEPT ![t] = None]

(***************************************************************************)
(* BOUND.  No thread is overtaken by 2^32 - Cap operations between two of  *)
(* its own steps: a counter does not advance so far that it comes within a *)
(* ring's length of a value that some thread has loaded and still uses.    *)
(***************************************************************************)
NearlyLapped(counter, loaded) == Sub(counter, loaded) + 1 + Cap >= Modulus
NoHeadLap(side, t, counter) ==
  \A u \in side \ {t} :
    pc[u] \in {"tail", "cas", "casLate"} => ~NearlyLapped(counter, head[u])
NoTailLap(side, counter) ==
  \A u \in side : pc[u] \in {"late", "casLate"} => ~NearlyLapped(counter, tail[u])

(***************************************************************************)
(* mpmc_ring_enqueue                                                       *)
(***************************************************************************)
EnqCall(p, v) ==
  /\ pc[p] = "idle"
  /\ Goto(p, "head")
  /\ item' = [item EXCEPT ![p] = v]
  /\ UNCHANGED <<counters, buf, head, tail>>

EnqLoadHead(p) ==
  /\ pc[p] = "head"
  /\ head' = [head EXCEPT ![p] = prodHead]
  /\ Goto(p, "tail")
  /\ UNCHANGED <<counters, buf, tail, item>>

(* The test of line 95 on a head h and a tail t; LooksFullLate is off by one. *)
LooksFullLate(h, t) == Sub(h, t) > Cap
LooksFull(h, t) == Sub(h, t) > Cap - 1

EnqAdmit(p) ==
  /\ pc[p] = "tail"
  /\ ~LooksFull(head[p], consTail)
  /\ Goto(p, "cas")
  /\ UNCHANGED <<counters, buf, head, tail, item>>

EnqRefuse(p) ==
  /\ pc[p] = "tail"
  /\ LooksFull(head[p], consTail)
  /\ Return(p)
  /\ UNCHANGED <<counters, buf>>

(* The CAS may fail even when it need not (compare_exchange_weak); a failed *)
(* CAS has reloaded head.                                                   *)
EnqCasFail(p) ==
  /\ pc[p] = "cas"
  /\ head' = [head EXCEPT ![p] = prodHead]
  /\ Goto(p, "tail")
  /\ UNCHANGED <<counters, buf, tail, item>>

EnqCas(p) ==
  /\ pc[p] \in {"cas", "casLate"}
  /\ head[p] = prodHead
  /\ NoHeadLap(Producers, p, prodHead)
  /\ prodHead' = Inc(prodHead)
  /\ tail' = [tail EXCEPT ![p] = 0]
  /\ Goto(p, "slot")
  /\ UNCHANGED <<prodTail, consHead, consTail, buf, head, item>>

(* The acquire load of cons.tail does not wait for the relaxed load of      *)
(* prod.head before it, which is line 88's or that of a failing CAS.        *)
EnqTailEarly(p) ==
  /\ p \in Reordering
  /\ \/ pc[p] = "head" /\ Goto(p, "late")
     \/ pc[p] = "cas" /\ Goto(p, "casLate")
  /\ tail' = [tail EXCEPT ![p] = consTail]
  /\ UNCHANGED <<counters, buf, head, item>>

EnqHeadLate(p) ==
  /\ pc[p] \in {"late", "casLate"}
  /\ \/ /\ LooksFull(prodHead, tail[p])
        /\ Return(p)
     \/ /\ ~LooksFull(prodHead, tail[p])
        /\ head' = [head EXCEPT ![p] = prodHead]
        /\ tail' = [tail EXCEPT ![p] = 0]
        /\ Goto(p, "cas")
        /\ UNCHANGED item
  /\ UNCHANGED <<counters, buf>>

EnqStore(p) ==
  /\ pc[p] = "slot"
  /\ buf' = [buf EXCEPT ![Slot(head[p])] = item[p]]
  /\ Goto(p, "wait")
  /\ UNCHANGED <<counters, head, tail, item>>

(* Out of turn: no wait for the producers before. *)
EnqTurnAtOnce(p) ==
  /\ pc[p] = "wait"
  /\ Goto(p, "publish")
  /\ UNCHANGED <<counters, buf, head, tail, item>>

EnqTurn(p) ==
  /\ pc[p] = "wait"
  /\ prodTail = head[p]
  /\ Goto(p, "publish")
  /\ UNCHANGED <<counters, buf, head, tail, item>>

(* The old head is published in place of next_head. *)
EnqPublishHead(p) ==
  /\ pc[p] = "publish"
  /\ prodTail' = head[p]
  /\ Return(p)
  /\ UNCHANGED <<prodHead, consHead, consTail, buf>>

EnqPublish(p) ==
  /\ pc[p] = "publish"
  /\ NoTailLap(Consumers, prodTail)
  /\ prodTail' = Inc(head[p])
  /\ Return(p)
  /\ UNCHANGED <<prodHead, consHead, consTail, buf>>

(***************************************************************************)
(* mpmc_ring_dequeue                                                       *)
(***************************************************************************)
DeqCall(c) ==
  /\ pc[c] = "idle"
  /\ Goto(c, "head")
  /\ UNCHANGED <<counters, buf, head, tail, item>>

DeqLoadHead(c) ==
  /\ pc[c] = "head"
  /\ head' = [head EXCEPT ![c] = consHead]
  /\ Goto(c, "tail")
  /\ UNCHANGED <<counters, buf, tail, item>>

(* The test takes what is claimed by producers for what is published. *)
DeqAdmitClaimed(c) ==
  /\ pc[c] = "tail"
  /\ head[c] # prodHead
  /\ Goto(c, "cas")
  /\ UNCHANGED <<counters, buf, head, tail, item>>

DeqAdmit(c) ==
  /\ pc[c] = "tail"
  /\ head[c] # prodTail
  /\ Goto(c, "cas")
  /\ UNCHANGED <<counters, buf, head, tail, item>>

(* The last item is left in the ring. *)
DeqRefuseLast(c) ==
  /\ pc[c] = "tail"
  /\ Inc(head[c]) = prodTail
  /\ Return(c)
  /\ UNCHANGED <<counters, buf>>

DeqRefuse(c) ==
  /\ pc[c] = "tail"
  /\ head[c] = prodTail
  /\ Return(c)
  /\ UNCHANGED <<counters, buf>>

DeqCasFail(c) ==
  /\ pc[c] = "cas"
  /\ head' = [head EXCEPT ![c] = consHead]
  /\ Goto(c, "tail")
  /\ UNCHANGED <<counters, buf, tail, item>>

DeqCas(c) ==
  /\ pc[c] \in {"cas", "casLate"}
  /\ head[c] = consHead
  /\ NoHeadLap(Consumers, c, consHead)
  /\ consHead' = Inc(consHead)
  /\ tail' = [tail EXCEPT ![c] = 0]
  /\ Goto(c, "slot")
  /\ UNCHANGED <<prodHead, prodTail, consTail, buf, head, item>>

DeqTailEarly(c) ==
  /\ c \in Reordering
  /\ \/ pc[c] = "head" /\ Goto(c, "late")
     \/ pc[c] = "cas" /\ Goto(c, "casLate")
  /\ tail' = [tail EXCEPT ![c] = prodTail]
  /\ UNCHANGED <<counters, buf, head, item>>

DeqHeadLate(c) ==
  /\ pc[c] \in {"late", "casLate"}
  /\ \/ /\ consHead = tail[c]
        /\ Return(c)
     \/ /\ consHead # tail[c]
        /\ head' = [head EXCEPT ![c] = consHead]
        /\ tail' = [tail EXCEPT ![c] = 0]
        /\ Goto(c, "cas")
        /\ UNCHANGED item
  /\ UNCHANGED <<counters, buf>>

(* The slot keeps its pointer: a dequeue does not clear it. *)
DeqLoad(c) ==
  /\ pc[c] = "slot"
  /\ item' = [item EXCEPT ![c] = buf[Slot(head[c])]]
  /\ Goto(c, "wait")
  /\ UNCHANGED <<counters, buf, head, tail>>

DeqTurn(c) ==
  /\ pc[c] = "wait"
  /\ consTail = head[c]
  /\ Goto(c, "publish")
  /\ UNCHANGED <<counters, buf, head, tail, item>>

DeqPublish(c) ==
  /\ pc[c] = "publish"
  /\ NoTailLap(Producers, consTail)
  /\ consTail' = Inc(head[c])
  /\ Return(c)
  /\ UNCHANGED <<prodHead, prodTail, consHead, buf>>

(***************************************************************************)
(* The system                                                              *)
(***************************************************************************)
Enqueue(p) ==
  \/ EnqLoadHead(p) \/ EnqAdmit(p) \/ EnqRefuse(p) \/ EnqCasFail(p) \/ EnqCas(p)
  \/ EnqTailEarly(p) \/ EnqHeadLate(p)
  \/ EnqStore(p) \/ EnqTurn(p) \/ EnqPublish(p)

Dequeue(c) ==
  \/ DeqLoadHead(c) \/ DeqAdmit(c) \/ DeqRefuse(c) \/ DeqCasFail(c) \/ DeqCas(c)
  \/ DeqTailEarly(c) \/ DeqHeadLate(c)
  \/ DeqLoad(c) \/ DeqTurn(c) \/ DeqPublish(c)

Next ==
  \/ \E p \in Producers : (\E v \in Values : EnqCall(p, v)) \/ Enqueue(p)
  \/ \E c \in Consumers : DeqCall(c) \/ Dequeue(c)

Spec == Init /\ [][Next]_vars

(* A thread inside a call is never descheduled for ever; whether it calls   *)
(* again is its own affair.                                                 *)
FairSpec ==
  /\ Spec
  /\ \A p \in Producers : WF_vars(Enqueue(p))
  /\ \A c \in Consumers : WF_vars(Dequeue(c))

(***************************************************************************)
(* Properties                                                              *)
(***************************************************************************)
Labels == {"idle", "head", "tail", "late", "cas", "casLate", "slot", "wait", "publish"}

(* Every counter is a 32-bit value, every slot holds an item or NULL. *)
TypeOK ==
  /\ prodHead \in Counter /\ prodTail \in Counter
  /\ consHead \in Counter /\ consTail \in Counter
  /\ buf \in [Slots -> Values \cup {None}]
  /\ pc \in [Threads -> Labels]
  /\ head \in [Threads -> Counter]
  /\ tail \in [Threads -> Counter]
  /\ item \in [Threads -> Values \cup {None}]

(* A thread owns the index it has claimed until it publishes it. *)
Owners(side) == {t \in side : pc[t] \in {"slot", "wait", "publish"}}

(* Across any number of wraps the counters keep their order: consumers       *)
(* never pass what is published, and producers never lap a consumer that is  *)
(* still reading (the tests of lines 95 and 137 hold when the CAS succeeds). *)
CountersOrdered ==
  /\ Sub(consHead, consTail) <= Sub(prodTail, consTail)
  /\ Sub(prodTail, consTail) <= Sub(prodHead, consTail)
  /\ Sub(prodHead, consTail) <= Cap

(* No slot is used by two threads at once: neither two producers, nor two    *)
(* consumers, nor a producer and a consumer one lap apart (lines 108, 148).  *)
SlotExclusion ==
  \A t, u \in Owners(Threads) : t # u => Slot(head[t]) # Slot(head[u])

(***************************************************************************)
(* The inductive invariant behind these three, for a ring none of whose    *)
(* consumers reorders its loads.  Positions are measured from consTail,    *)
(* the oldest counter.                                                     *)
(***************************************************************************)
Pos(i) == Sub(i, consTail)

(* A producer owns an index in prodTail .. prodHead - 1, a consumer one in   *)
(* consTail .. consHead - 1, nobody else has it, and the one that may        *)
(* publish is the one whose turn it is.                                      *)
ClaimsInv ==
  /\ \A p \in Owners(Producers) :
       /\ Pos(prodTail) <= Pos(head[p]) /\ Pos(head[p]) < Pos(prodHead)
       /\ pc[p] = "publish" => head[p] = prodTail
       /\ \A q \in Owners(Producers) \ {p} : head[q] # head[p]
  /\ \A c \in Owners(Consumers) :
       /\ Pos(head[c]) < Pos(consHead)
       /\ pc[c] = "publish" => head[c] = consTail
       /\ \A d \in Owners(Consumers) \ {c} : head[d] # head[c]

(* A test passed earlier still holds if the CAS that follows it succeeds. *)
TestsInv ==
  /\ \A p \in Producers :
       pc[p] \in {"cas", "casLate"} /\ head[p] = prodHead => Pos(prodHead) < Cap
  /\ \A c \in Consumers :
       pc[c] = "cas" /\ head[c] = consHead => consHead # prodTail

(* What a thread has loaded is less than a lap old. *)
StaleInv ==
  /\ \A p \in Producers :
       pc[p] \in {"late", "casLate"} => Sub(consTail, tail[p]) + Cap < Modulus
  /\ \A c \in Consumers :
       /\ pc[c] \in {"tail", "cas"} => Sub(consHead, head[c]) + Cap < Modulus
       /\ pc[c] \notin {"late", "casLate"}

IndInv == TypeOK /\ CountersOrdered /\ ClaimsInv /\ TestsInv /\ StaleInv

(* The items: an enqueue in progress has one, a slot that is written and not *)
(* yet published holds its owner's, and every index from the oldest one a    *)
(* consumer still uses up to prodTail names a slot with an item in it.       *)
DataInv ==
  /\ \A p \in Producers :
       /\ pc[p] = "idle" <=> item[p] = None
       /\ pc[p] \in {"wait", "publish"} => buf[Slot(head[p])] = item[p]
  /\ \A c \in Consumers : pc[c] \in {"wait", "publish"} <=> item[c] # None
  /\ \A i \in Counter : Pos(i) < Pos(prodTail) => buf[Slot(i)] # None

(* dequeue returns false only if at that moment no published item is left    *)
(* unclaimed, although the head it tests may be stale (line 137).            *)
EmptyMeansEmpty ==
  [][\A c \in Consumers : DeqRefuse(c) => consHead = prodTail]_vars

(* enqueue returns false only if at that moment every slot is taken; the     *)
(* comment at line 94 says the difference is the number of elements.         *)
FullMeansFull ==
  [][\A p \in Producers : EnqRefuse(p) => Sub(prodHead, consTail) = Cap]_vars

(* What a dequeue has claimed was published: "multi-consumer safe", line 125. *)
ClaimsArePublished ==
  \A c \in Owners(Consumers) :
    Sub(head[c], consTail) < Sub(prodTail, consTail)

(* Once an index is claimed the call returns: the wait loops of lines 111    *)
(* and 151 end, in whatever order the claims are served.                     *)
ClaimCompletes ==
  \A t \in Threads : pc[t] = "slot" ~> pc[t] = "idle"

(* The ring is a FIFO queue.  An enqueue takes effect when it publishes, a   *)
(* dequeue when it claims.                                                   *)
Queue ==
  INSTANCE BoundedQueue WITH
    queue <- Window(buf, consHead, Sub(prodTail, consHead)),
    offer <- [p \in Producers |-> item[p]],
    got <- [c \in Consumers |->
              IF pc[c] = "slot" THEN buf[Slot(head[c])] ELSE item[c]]
ImplementsQueue == Queue!Spec

====
