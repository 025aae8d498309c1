---- MODULE MpmcRing_proofs ----
(***************************************************************************)
(* Proofs about MpmcRing, for any threads, items, capacity and width of    *)
(* the counters: its safety, and that it implements BoundedQueue.          *)
(***************************************************************************)
EXTENDS MpmcRing, RingIndex_proofs

(***************************************************************************)
(* Type correctness                                                        *)
(***************************************************************************)

(* A new ring is well typed. *)
LEMMA TypeInit == Init => TypeOK
BY RingAssumption, IndexAssumption, SMT DEF Init, TypeOK, Counter, Slots, Threads, Labels

(* Every step keeps the types. *)
LEMMA TypeStep == TypeOK /\ [Next]_vars => TypeOK'
<1> SUFFICES ASSUME TypeOK, [Next]_vars PROVE TypeOK'
  OBVIOUS
<1> USE DEF TypeOK, counters, Goto
<1>1. 0 \in Counter
  BY RingAssumption, IndexAssumption DEF Counter
<1>2. \A i \in Counter : Inc(i) \in Counter
  BY CounterType
<1>3. \A t \in Threads : Slot(head[t]) \in Slots
  BY SlotType
<1>4. ASSUME NEW t \in Threads, Return(t) 
      PROVE  /\ pc' \in [Threads -> Labels] /\ head' \in [Threads -> Counter]
             /\ tail' \in [Threads -> Counter]
             /\ item' \in [Threads -> Values \cup {None}]
  BY <1>1, <1>4 DEF Return, Labels
<1>5. ASSUME NEW p \in Producers, NEW v \in Values, EnqCall(p, v) PROVE TypeOK'
  BY <1>5 DEF EnqCall, Threads, Labels
<1>6. ASSUME NEW p \in Producers, Enqueue(p) PROVE TypeOK'
  <2> p \in Threads
    BY DEF Threads
  <2>1. CASE EnqLoadHead(p)
    BY <2>1 DEF EnqLoadHead, Labels
  <2>2. CASE EnqAdmit(p)
    BY <2>2 DEF EnqAdmit, Labels
  <2>3. CASE EnqRefuse(p)
    BY <2>3, <1>4 DEF EnqRefuse
  <2>4. CASE EnqCasFail(p)
    BY <2>4 DEF EnqCasFail, Labels
  <2>5. CASE EnqCas(p)
    BY <2>5, <1>1, <1>2 DEF EnqCas, Labels
  <2>6. CASE EnqTailEarly(p)
    BY <2>6 DEF EnqTailEarly, Labels
  <2>7. CASE EnqHeadLate(p)
    BY <2>7, <1>1, <1>4 DEF EnqHeadLate, Labels
  <2>8. CASE EnqStore(p)
    BY <2>8 DEF EnqStore, Labels
  <2>9. CASE EnqTurn(p)
    BY <2>9 DEF EnqTurn, Labels
  <2>10. CASE EnqPublish(p)
    BY <2>10, <1>2, <1>4 DEF EnqPublish
  <2> QED
    BY <1>6, <2>1, <2>2, <2>3, <2>4, <2>5, <2>6, <2>7, <2>8, <2>9, <2>10 DEF Enqueue
<1>7. ASSUME NEW c \in Consumers, DeqCall(c) PROVE TypeOK'
  BY <1>7 DEF DeqCall, Threads, Labels
<1>8. ASSUME NEW c \in Consumers, Dequeue(c) PROVE TypeOK'
  <2> c \in Threads
    BY DEF Threads
  <2>1. CASE DeqLoadHead(c)
    BY <2>1 DEF DeqLoadHead, Labels
  <2>2. CASE DeqAdmit(c)
    BY <2>2 DEF DeqAdmit, Labels
  <2>3. CASE DeqRefuse(c)
    BY <2>3, <1>4 DEF DeqRefuse
  <2>4. CASE DeqCasFail(c)
    BY <2>4 DEF DeqCasFail, Labels
  <2>5. CASE DeqCas(c)
    BY <2>5, <1>1, <1>2 DEF DeqCas, Labels
  <2>6. CASE DeqTailEarly(c)
    BY <2>6 DEF DeqTailEarly, Labels
  <2>7. CASE DeqHeadLate(c)
    BY <2>7, <1>1, <1>4 DEF DeqHeadLate, Labels
  <2>8. CASE DeqLoad(c)
    BY <2>8, <1>3 DEF DeqLoad, Labels
  <2>9. CASE DeqTurn(c)
    BY <2>9 DEF DeqTurn, Labels
  <2>10. CASE DeqPublish(c)
    BY <2>10, <1>2, <1>4 DEF DeqPublish
  <2> QED
    BY <1>8, <2>1, <2>2, <2>3, <2>4, <2>5, <2>6, <2>7, <2>8, <2>9, <2>10 DEF Dequeue
<1>9. CASE UNCHANGED vars
  BY <1>9 DEF vars
<1> QED
  BY <1>5, <1>6, <1>7, <1>8, <1>9 DEF Next

(* Every counter stays a 32-bit value through every wrap, every index stays  *)
(* inside buf, whatever the interleaving and however loads are reordered.    *)
THEOREM TypeCorrect == Spec => []TypeOK
  BY TypeInit, TypeStep, PTL DEF Spec

(***************************************************************************)
(* The inductive invariant, when no consumer reorders its loads            *)
(***************************************************************************)
(* A new ring: nothing is claimed. *)
LEMMA InvInit == Init => IndInv
<1> SUFFICES ASSUME Init PROVE IndInv
  OBVIOUS
<1>1. TypeOK
  BY TypeInit
<1>2. Sub(0, 0) = 0
  BY DEF Sub
<1>3. \A t \in Threads : pc[t] = "idle"
  BY DEF Init
<1>4. CountersOrdered
  BY <1>2, RingAssumption, IndexAssumption DEF Init, CountersOrdered
<1>5. ClaimsInv /\ TestsInv /\ StaleInv
  BY <1>3 DEF ClaimsInv, TestsInv, StaleInv, Owners, Threads
<1> QED
  BY <1>1, <1>4, <1>5 DEF IndInv

(* A step of one thread that touches no counter, keeps its hold on what it   *)
(* has claimed and loads nothing leaves the whole invariant alone.           *)
LEMMA QuietStep ==
  ASSUME IndInv, TypeOK', NEW t \in Threads, UNCHANGED counters,
         \A u \in Threads \ {t} :
           pc'[u] = pc[u] /\ head'[u] = head[u] /\ tail'[u] = tail[u],
         \/ pc'[t] \in {"idle", "head"}
         \/ /\ head'[t] = head[t] /\ t \in Owners(Threads)
            /\ pc'[t] \in {"wait", "publish"}
            /\ pc'[t] = "publish" =>
                 head[t] = (IF t \in Producers THEN prodTail ELSE consTail)
  PROVE  IndInv'
<1> USE DEF IndInv, Threads, Owners
<1>1. /\ Producers \subseteq Threads /\ Consumers \subseteq Threads
      /\ t \in Producers => t \notin Consumers
  BY RingAssumption, IndexAssumption
<1>2. CountersOrdered'
  BY DEF CountersOrdered, counters
<1>3. ClaimsInv'
  BY <1>1 DEF ClaimsInv, counters, Pos
<1>4. TestsInv'
  BY <1>1 DEF TestsInv, counters, Pos
<1>5. StaleInv'
  BY <1>1 DEF StaleInv, counters
<1> QED
  BY <1>2, <1>3, <1>4, <1>5

(* The steps of an enqueue preserve the invariant. *)
LEMMA EnqueueStep ==
  ASSUME IndInv, TypeOK', NEW p \in Producers, Enqueue(p)
  PROVE  IndInv'
<1> USE DEF counters, Goto
<1>1. /\ p \in Threads /\ p \notin Consumers
      /\ Consumers \subseteq Threads /\ Producers \subseteq Threads
  BY RingAssumption, IndexAssumption DEF Threads
<1>2. TypeOK /\ CountersOrdered /\ ClaimsInv /\ TestsInv /\ StaleInv
  BY DEF IndInv
<1> USE DEF Owners, Pos
<1>3. CASE EnqRefuse(p)
  BY <1>1, <1>2, <1>3, QuietStep DEF EnqRefuse, Return, TypeOK
<1>4. CASE EnqStore(p)
  BY <1>1, <1>2, <1>4, QuietStep DEF EnqStore, TypeOK
<1>5. CASE EnqTurn(p)
  BY <1>1, <1>2, <1>5, QuietStep DEF EnqTurn, TypeOK
<1>6. CASE EnqLoadHead(p) \/ EnqCasFail(p)
  <2>1. CountersOrdered'
    BY <1>2, <1>6 DEF CountersOrdered, EnqLoadHead, EnqCasFail
  <2>2. ClaimsInv' /\ TestsInv' /\ StaleInv'
    BY <1>1, <1>2, <1>6
       DEF ClaimsInv, TestsInv, StaleInv, EnqLoadHead, EnqCasFail, TypeOK
  <2> QED
    BY <2>1, <2>2 DEF IndInv
<1>7. CASE EnqAdmit(p)
  <2>1. CountersOrdered'
    BY <1>2, <1>7 DEF CountersOrdered, EnqAdmit
  <2>2. ClaimsInv' /\ StaleInv'
    BY <1>1, <1>2, <1>7 DEF ClaimsInv, StaleInv, EnqAdmit, TypeOK
  <2>3. head[p] = prodHead => Sub(prodHead, consTail) < Cap
    BY <1>2, <1>7, CounterType, RingAssumption, IndexAssumption, SMT
       DEF EnqAdmit, LooksFull, TypeOK, Counter
  <2>4. TestsInv'
    BY <1>1, <1>2, <1>7, <2>3 DEF TestsInv, EnqAdmit, TypeOK
  <2> QED
    BY <2>1, <2>2, <2>4 DEF IndInv
<1>8. CASE EnqTailEarly(p)
  <2>1. CountersOrdered'
    BY <1>2, <1>8 DEF CountersOrdered, EnqTailEarly
  <2>2. ClaimsInv' /\ TestsInv'
    BY <1>1, <1>2, <1>8 DEF ClaimsInv, TestsInv, EnqTailEarly, TypeOK
  <2>3. Sub(consTail, consTail) + Cap < Modulus
    BY <1>2, RingAssumption, IndexAssumption, SMT DEF TypeOK, Counter, Sub
  <2>4. StaleInv'
    BY <1>1, <1>2, <1>8, <2>3 DEF StaleInv, EnqTailEarly, TypeOK
  <2> QED
    BY <2>1, <2>2, <2>4 DEF IndInv
<1>9. CASE EnqHeadLate(p)
  <2>1. CASE Return(p)
    BY <1>1, <1>2, <1>9, <2>1, QuietStep DEF EnqHeadLate, Return, TypeOK
  <2>2. CASE ~Return(p)
    <3>1. CountersOrdered'
      BY <1>2, <1>9 DEF CountersOrdered, EnqHeadLate
    <3>2. ClaimsInv' /\ StaleInv'
      BY <1>1, <1>2, <1>9, <2>2 DEF ClaimsInv, StaleInv, EnqHeadLate, TypeOK
    <3>3. Sub(prodHead, tail[p]) <= Cap - 1 /\ Sub(consTail, tail[p]) + Cap < Modulus
      <4>1. ~(Sub(prodHead, tail[p]) > Cap - 1)
        BY <1>9, <2>2 DEF EnqHeadLate, LooksFull
      <4>2. Sub(consTail, tail[p]) + Cap < Modulus
        BY <1>2, <1>9 DEF EnqHeadLate, StaleInv
      <4>3. Sub(prodHead, tail[p]) \in Counter
        BY <1>1, <1>2, CounterType DEF TypeOK
      <4> QED
        BY <4>1, <4>2, <4>3, RingAssumption, IndexAssumption, SMT DEF Counter
    <3>4. Sub(prodHead, consTail) < Cap
      BY <1>1, <1>2, <3>3, RingAssumption, IndexAssumption, SMT DEF CountersOrdered, Sub, TypeOK, Counter
    <3>5. TestsInv'
      BY <1>1, <1>2, <1>9, <2>2, <3>4 DEF TestsInv, EnqHeadLate, TypeOK
    <3> QED
      BY <3>1, <3>2, <3>5 DEF IndInv
  <2> QED
    BY <2>1, <2>2
<1>10. CASE EnqCas(p)
  <2> DEFINE i == prodHead
  <2>1. /\ pc[p] \in {"cas", "casLate"} /\ head[p] = i /\ prodHead' = Inc(i)
        /\ UNCHANGED <<prodTail, consHead, consTail, head>>
        /\ pc' = [pc EXCEPT ![p] = "slot"] /\ tail' = [tail EXCEPT ![p] = 0]
    BY <1>10 DEF EnqCas
  <2>2. Pos(i) < Cap /\ Pos(Inc(i)) = Pos(i) + 1 /\ Pos(i) \in Nat
    <3>1. Pos(i) < Cap
      BY <1>1, <1>2, <2>1 DEF TestsInv
    <3>2. Pos(i) \in Counter
      BY <1>2, CounterType DEF TypeOK
    <3> QED
      BY <1>2, <3>1, <3>2, SubInc, RingAssumption, IndexAssumption, SMT DEF TypeOK, Counter
  <2>3. CountersOrdered'
    <3>1. Pos(consHead) \in Nat /\ Pos(prodTail) \in Nat
      BY <1>2, CounterType DEF TypeOK, Counter
    <3> QED
      BY <1>2, <2>1, <2>2, <3>1, RingAssumption, IndexAssumption, SMT DEF CountersOrdered
  <2>4. ClaimsInv'
    <3>1. \A q \in Owners(Producers) :
             Pos(head[q]) \in Nat /\ Pos(head[q]) < Pos(i) /\ head[q] # i
      <4>1. ASSUME NEW q \in Owners(Producers)
            PROVE  Pos(head[q]) \in Nat /\ Pos(head[q]) < Pos(i)
        <5>1. head[q] \in Counter /\ consTail \in Counter
          BY <1>1, <1>2 DEF TypeOK
        <5> QED
          BY <1>2, <5>1, CounterType DEF ClaimsInv
      <4> QED
        BY <2>2, <4>1, SMT
    <3>2. Pos(prodTail) <= Pos(i)
      BY <1>2 DEF CountersOrdered
    <3>3. Owners(Producers)' = Owners(Producers) \cup {p} /\ p \notin Owners(Producers)
      BY <1>1, <1>2, <2>1 DEF TypeOK
    <3>4. \A q \in Owners(Producers) \cup {p} :
             /\ Pos(prodTail) <= Pos(head[q]) /\ Pos(head[q]) < Pos(i) + 1
             /\ \A r \in Owners(Producers) \cup {p} : r # q => head[q] # head[r]
      BY <1>2, <2>1, <2>2, <3>1, <3>2, SMT DEF ClaimsInv
    <3>5. Owners(Consumers)' = Owners(Consumers) /\ p \notin Owners(Consumers)
      BY <1>1, <1>2, <2>1 DEF TypeOK
    <3> HIDE DEF Owners
    <3> QED
      BY <1>1, <1>2, <2>1, <2>2, <3>3, <3>4, <3>5 DEF ClaimsInv, TypeOK
  <2>5. TestsInv'
    <3>1. ASSUME NEW q \in Producers, q # p, pc[q] \in {"cas", "casLate"}
          PROVE  head[q] # Inc(i)
      BY <1>1, <1>2, <1>10, <2>1, <3>1, RingAssumption, IndexAssumption, SMT
         DEF EnqCas, NoHeadLap, NearlyLapped, TypeOK, Counter, Sub, Inc
    <3> QED
      BY <1>1, <1>2, <2>1, <3>1 DEF TestsInv, TypeOK
  <2>6. StaleInv'
    BY <1>1, <1>2, <2>1 DEF StaleInv, TypeOK
  <2> QED
    BY <2>3, <2>4, <2>5, <2>6 DEF IndInv
<1>11. CASE EnqPublish(p)
  <2>1. /\ pc[p] = "publish" /\ head[p] = prodTail /\ prodTail' = Inc(prodTail)
        /\ p \in Owners(Producers)
        /\ UNCHANGED <<prodHead, consHead, consTail>>
        /\ pc' = [pc EXCEPT ![p] = "idle"] /\ head' = [head EXCEPT ![p] = 0]
        /\ tail' = [tail EXCEPT ![p] = 0]
    BY <1>2, <1>11 DEF EnqPublish, Return, ClaimsInv
  <2>2. /\ Pos(prodTail) \in Nat /\ Pos(prodHead) \in Nat /\ Pos(consHead) \in Nat
        /\ Pos(prodTail) < Pos(prodHead) /\ Pos(Inc(prodTail)) = Pos(prodTail) + 1
    <3>1. Pos(prodTail) < Pos(prodHead)
      BY <1>2, <2>1 DEF ClaimsInv
    <3>2. /\ Pos(prodTail) \in Counter /\ Pos(prodHead) \in Counter
          /\ Pos(consHead) \in Counter
      BY <1>2, CounterType DEF TypeOK
    <3> QED
      BY <1>2, <3>1, <3>2, SubInc, RingAssumption, IndexAssumption, SMT DEF TypeOK, Counter
  <2>3. CountersOrdered'
    BY <1>2, <2>1, <2>2, SMT DEF CountersOrdered
  <2>4. ClaimsInv'
    <3>1. \A q \in Owners(Producers) \ {p} :
             Pos(head[q]) >= Pos(prodTail) + 1 /\ pc[q] # "publish"
      <4>1. ASSUME NEW q \in Owners(Producers) \ {p}
            PROVE  /\ Pos(head[q]) \in Nat /\ Pos(head[q]) # Pos(prodTail)
                   /\ Pos(prodTail) <= Pos(head[q]) /\ pc[q] # "publish"
        <5>1. head[q] \in Counter /\ consTail \in Counter /\ prodTail \in Counter
          BY <1>1, <1>2, <4>1 DEF TypeOK
        <5>2. head[q] # prodTail
          BY <1>2, <2>1, <4>1 DEF ClaimsInv
        <5>3. Pos(prodTail) <= Pos(head[q]) /\ pc[q] # "publish"
          BY <1>2, <2>1, <4>1, <5>2 DEF ClaimsInv
        <5> QED
          BY <5>1, <5>2, <5>3, CounterType, SubInjective
      <4> QED
        BY <2>2, <4>1, SMT
    <3>2. /\ Owners(Producers)' = Owners(Producers) \ {p}
          /\ Owners(Consumers)' = Owners(Consumers) /\ p \notin Owners(Consumers)
      BY <1>1, <1>2, <2>1 DEF TypeOK
    <3>3. \A q \in Owners(Producers) : q \in Threads
      BY <1>1
    <3> HIDE DEF Owners
    <3> QED
      BY <1>1, <1>2, <2>1, <2>2, <3>1, <3>2, <3>3 DEF ClaimsInv, TypeOK
  <2>5. TestsInv'
    <3>1. consHead # Inc(prodTail)
      BY <1>2, <2>2, SMT DEF CountersOrdered
    <3> QED
      BY <1>1, <1>2, <2>1, <3>1 DEF TestsInv, TypeOK
  <2>6. StaleInv'
    BY <1>1, <1>2, <2>1 DEF StaleInv, TypeOK
  <2> QED
    BY <2>3, <2>4, <2>5, <2>6 DEF IndInv
<1> QED
  BY <1>3, <1>4, <1>5, <1>6, <1>7, <1>8, <1>9, <1>10, <1>11 DEF Enqueue

(* The steps of a dequeue preserve the invariant. *)
LEMMA DequeueStep ==
  ASSUME Reordering \cap Consumers = {},
         IndInv, TypeOK', NEW c \in Consumers, Dequeue(c)
  PROVE  IndInv'
<1> USE DEF counters, Goto
<1>1. /\ c \in Threads /\ c \notin Producers
      /\ Consumers \subseteq Threads /\ Producers \subseteq Threads
  BY RingAssumption, IndexAssumption DEF Threads
<1>2. TypeOK /\ CountersOrdered /\ ClaimsInv /\ TestsInv /\ StaleInv
  BY DEF IndInv
<1> USE DEF Owners, Pos
<1>3. CASE DeqRefuse(c)
  BY <1>1, <1>2, <1>3, QuietStep DEF DeqRefuse, Return, TypeOK
<1>4. CASE DeqLoad(c)
  BY <1>1, <1>2, <1>4, QuietStep DEF DeqLoad, TypeOK
<1>5. CASE DeqTurn(c)
  BY <1>1, <1>2, <1>5, QuietStep DEF DeqTurn, TypeOK
<1>6. CASE DeqLoadHead(c) \/ DeqCasFail(c)
  <2>1. CountersOrdered'
    BY <1>2, <1>6 DEF CountersOrdered, DeqLoadHead, DeqCasFail
  <2>2. ClaimsInv' /\ TestsInv'
    BY <1>1, <1>2, <1>6 DEF ClaimsInv, TestsInv, DeqLoadHead, DeqCasFail, TypeOK
  <2>3. Sub(consHead, consHead) + Cap < Modulus
    BY <1>2, RingAssumption, IndexAssumption, SMT DEF TypeOK, Counter, Sub
  <2>4. StaleInv'
    BY <1>1, <1>2, <1>6, <2>3 DEF StaleInv, DeqLoadHead, DeqCasFail, TypeOK
  <2> QED
    BY <2>1, <2>2, <2>4 DEF IndInv
<1>7. CASE DeqAdmit(c)
  <2>1. CountersOrdered'
    BY <1>2, <1>7 DEF CountersOrdered, DeqAdmit
  <2>2. ClaimsInv' /\ TestsInv' /\ StaleInv'
    BY <1>1, <1>2, <1>7 DEF ClaimsInv, TestsInv, StaleInv, DeqAdmit, TypeOK
  <2> QED
    BY <2>1, <2>2 DEF IndInv
<1>8. CASE DeqTailEarly(c)
  BY <1>8 DEF DeqTailEarly
<1>9. CASE DeqHeadLate(c)
  BY <1>2, <1>9 DEF DeqHeadLate, StaleInv
<1>10. CASE DeqCas(c)
  <2> DEFINE i == consHead
  <2>1. /\ pc[c] = "cas" /\ head[c] = i /\ consHead' = Inc(i)
        /\ UNCHANGED <<prodHead, prodTail, consTail, head>>
        /\ pc' = [pc EXCEPT ![c] = "slot"] /\ tail' = [tail EXCEPT ![c] = 0]
    BY <1>2, <1>10 DEF DeqCas, StaleInv
  <2>2. Pos(i) \in Nat /\ Pos(Inc(i)) = Pos(i) + 1 /\ Pos(Inc(i)) <= Pos(prodTail)
    <3>1. Pos(i) <= Pos(prodTail) /\ Pos(prodTail) <= Pos(prodHead) /\ Pos(prodHead) <= Cap
      BY <1>2 DEF CountersOrdered
    <3>2. Pos(i) \in Nat /\ Pos(prodTail) \in Nat /\ Pos(prodHead) \in Nat
      BY <1>2, CounterType DEF TypeOK
    <3>3. i # prodTail
      BY <1>1, <1>2, <2>1 DEF TestsInv
    <3>4. Pos(i) # Pos(prodTail)
      BY <1>2, <3>3, SubInjective DEF TypeOK
    <3>5. Pos(i) + 1 <= Pos(prodTail) /\ Pos(i) + 1 < Modulus
      BY <3>1, <3>2, <3>4, RingAssumption, IndexAssumption, SMT
    <3> QED
      BY <1>2, <3>2, <3>5, SubInc DEF TypeOK
  <2>3. CountersOrdered'
    BY <1>2, <2>1, <2>2 DEF CountersOrdered
  <2>4. ClaimsInv'
    <3>1. \A d \in Owners(Consumers) :
             Pos(head[d]) \in Nat /\ Pos(head[d]) < Pos(i) /\ head[d] # i
      <4>1. ASSUME NEW d \in Owners(Consumers)
            PROVE  Pos(head[d]) \in Nat /\ Pos(head[d]) < Pos(i)
        <5>1. head[d] \in Counter /\ consTail \in Counter
          BY <1>1, <1>2 DEF TypeOK
        <5> QED
          BY <1>2, <5>1, CounterType DEF ClaimsInv
      <4> QED
        BY <2>2, <4>1, SMT
    <3>2. Owners(Consumers)' = Owners(Consumers) \cup {c} /\ c \notin Owners(Consumers)
      BY <1>1, <1>2, <2>1 DEF TypeOK
    <3>3. \A d \in Owners(Consumers) \cup {c} :
             /\ Pos(head[d]) < Pos(i) + 1
             /\ \A e \in Owners(Consumers) \cup {c} : e # d => head[d] # head[e]
      BY <1>2, <2>1, <2>2, <3>1, SMT DEF ClaimsInv
    <3>4. Owners(Producers)' = Owners(Producers) /\ c \notin Owners(Producers)
      BY <1>1, <1>2, <2>1 DEF TypeOK
    <3> HIDE DEF Owners
    <3> QED
      BY <1>1, <1>2, <2>1, <2>2, <3>2, <3>3, <3>4 DEF ClaimsInv, TypeOK
  <2>5. ASSUME NEW d \in Consumers, d # c, pc[d] \in {"tail", "cas"}
        PROVE  Sub(Inc(i), head[d]) + Cap < Modulus /\ head[d] # Inc(i)
    <3>1. Sub(i, head[d]) + 1 + Cap < Modulus
      BY <1>1, <1>2, <1>10, <2>5, CounterType, RingAssumption, IndexAssumption, SMT
         DEF DeqCas, NoHeadLap, NearlyLapped, TypeOK
    <3> QED
      BY <1>1, <1>2, <3>1, RingAssumption, IndexAssumption, SMT DEF TypeOK, Counter, Sub, Inc
  <2>6. TestsInv'
    BY <1>1, <1>2, <2>1, <2>5 DEF TestsInv, TypeOK
  <2>7. StaleInv'
    BY <1>1, <1>2, <2>1, <2>5 DEF StaleInv, TypeOK
  <2> QED
    BY <2>3, <2>4, <2>6, <2>7 DEF IndInv
<1>11. CASE DeqPublish(c)
  <2> DEFINE NewPos(i) == Sub(i, Inc(consTail))
  <2>1. /\ pc[c] = "publish" /\ head[c] = consTail /\ consTail' = Inc(consTail)
        /\ c \in Owners(Consumers)
        /\ UNCHANGED <<prodHead, prodTail, consHead>>
        /\ pc' = [pc EXCEPT ![c] = "idle"] /\ head' = [head EXCEPT ![c] = 0]
        /\ tail' = [tail EXCEPT ![c] = 0]
    BY <1>2, <1>11 DEF DeqPublish, Return, ClaimsInv
  <2>2. /\ Pos(consTail) = 0
        /\ \A i \in Counter : Pos(i) \in Nat /\ (Pos(i) > 0 => NewPos(i) = Pos(i) - 1)
    <3>1. consTail \in Counter
      BY <1>2 DEF TypeOK
    <3>2. Pos(consTail) = 0
      BY <3>1, SMT DEF Counter, Sub
    <3>3. ASSUME NEW j \in Counter
          PROVE  Pos(j) \in Nat /\ (Pos(j) > 0 => NewPos(j) = Pos(j) - 1)
      <4>1. Pos(j) \in Nat
        BY <3>1, CounterType
      <4>2. CASE j = consTail
        BY <3>2, <4>1, <4>2, SMT
      <4>3. CASE j # consTail
        BY <3>1, <4>1, <4>3, SubDec
      <4> QED
        BY <4>2, <4>3
    <3> QED
      BY <3>2, <3>3
  <2>3. /\ Pos(consHead) > 0 /\ Pos(prodTail) > 0 /\ Pos(prodHead) > 0
        /\ NewPos(consHead) = Pos(consHead) - 1
        /\ NewPos(prodTail) = Pos(prodTail) - 1
        /\ NewPos(prodHead) = Pos(prodHead) - 1
    <3>1. Pos(consHead) > 0
      BY <1>2, <2>1, <2>2 DEF ClaimsInv
    <3>2. /\ Pos(consHead) \in Nat /\ Pos(prodTail) \in Nat /\ Pos(prodHead) \in Nat
          /\ Pos(consHead) <= Pos(prodTail) /\ Pos(prodTail) <= Pos(prodHead)
      BY <1>2, <2>2 DEF TypeOK, CountersOrdered
    <3>3. Pos(prodTail) > 0 /\ Pos(prodHead) > 0
      BY <3>1, <3>2, SMT
    <3> QED
      BY <1>2, <2>2, <3>1, <3>3 DEF TypeOK
  <2>4. CountersOrdered'
    <3>1. Pos(consHead) \in Nat /\ Pos(prodTail) \in Nat /\ Pos(prodHead) \in Nat
      BY <1>2, <2>2 DEF TypeOK
    <3>2. /\ NewPos(consHead) <= NewPos(prodTail) /\ NewPos(prodTail) <= NewPos(prodHead)
          /\ NewPos(prodHead) <= Cap
      BY <1>2, <2>3, <3>1, RingAssumption, IndexAssumption, SMT DEF CountersOrdered
    <3> QED
      BY <2>1, <3>2 DEF CountersOrdered
  <2>5. ClaimsInv'
    <3>1. ASSUME NEW p \in Owners(Producers)
          PROVE  NewPos(prodTail) <= NewPos(head[p]) /\ NewPos(head[p]) < NewPos(prodHead)
      <4>1. head[p] \in Counter /\ prodTail \in Counter /\ prodHead \in Counter
        BY <1>1, <1>2 DEF TypeOK
      <4>2. Pos(prodTail) <= Pos(head[p]) /\ Pos(head[p]) < Pos(prodHead)
        BY <1>2, <3>1 DEF ClaimsInv
      <4>3. Pos(head[p]) \in Nat /\ Pos(prodTail) \in Nat /\ Pos(prodHead) \in Nat
        BY <2>2, <4>1
      <4>4. Pos(head[p]) > 0
        BY <2>3, <4>2, <4>3, SMT
      <4>5. NewPos(head[p]) = Pos(head[p]) - 1
        BY <2>2, <4>1, <4>4
      <4> HIDE DEF NewPos
      <4> QED
        BY <2>3, <4>2, <4>3, <4>5, SMT
    <3>2. ASSUME NEW d \in Owners(Consumers) \ {c}
          PROVE  NewPos(head[d]) < NewPos(consHead) /\ pc[d] # "publish"
      <4>1. head[d] \in Counter /\ consHead \in Counter /\ consTail \in Counter
        BY <1>1, <1>2 DEF TypeOK
      <4>2. head[d] # consTail
        BY <1>2, <2>1, <3>2 DEF ClaimsInv
      <4>3. Pos(head[d]) < Pos(consHead) /\ pc[d] # "publish"
        BY <1>2, <3>2, <4>2 DEF ClaimsInv
      <4>4. Pos(head[d]) \in Nat /\ Pos(consHead) \in Nat /\ Pos(head[d]) # Pos(consTail)
        BY <2>2, <4>1, <4>2, SubInjective
      <4>5. Pos(head[d]) > 0
        BY <2>2, <4>4, SMT
      <4>6. NewPos(head[d]) = Pos(head[d]) - 1
        BY <2>2, <4>1, <4>5
      <4> HIDE DEF NewPos
      <4> QED
        BY <2>3, <4>3, <4>4, <4>6, SMT
    <3>3. /\ Owners(Consumers)' = Owners(Consumers) \ {c}
          /\ Owners(Producers)' = Owners(Producers) /\ c \notin Owners(Producers)
      BY <1>1, <1>2, <2>1 DEF TypeOK
    <3>4. \A t \in Owners(Consumers) \cup Owners(Producers) : t \in Threads
      BY <1>1
    <3> HIDE DEF Owners
    <3> QED
      BY <1>1, <1>2, <2>1, <3>1, <3>2, <3>3, <3>4 DEF ClaimsInv, TypeOK
  <2>6. TestsInv'
    <3>1. Pos(prodHead) < Cap => NewPos(prodHead) < Cap
      <4>1. Pos(prodHead) \in Nat
        BY <1>2, <2>2 DEF TypeOK
      <4> HIDE DEF NewPos
      <4> QED BY <2>3, <4>1, RingAssumption, IndexAssumption, SMT
    <3> QED
      BY <1>1, <1>2, <2>1, <3>1 DEF TestsInv, TypeOK
  <2>7. StaleInv'
    <3>1. ASSUME NEW p \in Producers, pc[p] \in {"late", "casLate"}
          PROVE  Sub(Inc(consTail), tail[p]) + Cap < Modulus
      <4>1. Sub(consTail, tail[p]) + 1 + Cap < Modulus
        BY <1>1, <1>2, <1>11, <3>1, CounterType, RingAssumption, IndexAssumption, SMT
           DEF DeqPublish, NoTailLap, NearlyLapped, TypeOK
      <4> QED
        BY <1>1, <1>2, <4>1, RingAssumption, IndexAssumption, SMT DEF TypeOK, Counter, Sub, Inc
    <3> QED
      BY <1>1, <1>2, <2>1, <3>1 DEF StaleInv, TypeOK
  <2> QED
    BY <2>4, <2>5, <2>6, <2>7 DEF IndInv
<1> QED
  BY <1>3, <1>4, <1>5, <1>6, <1>7, <1>8, <1>9, <1>10, <1>11 DEF Dequeue

(* Every step of the ring preserves the invariant. *)
LEMMA InvStep ==
  ASSUME Reordering \cap Consumers = {}
  PROVE  IndInv /\ [Next]_vars => IndInv'
<1> SUFFICES ASSUME IndInv, [Next]_vars PROVE IndInv'
  OBVIOUS
<1>1. TypeOK /\ TypeOK'
  BY TypeStep DEF IndInv
<1>2. ASSUME NEW p \in Producers, NEW v \in Values, EnqCall(p, v) PROVE IndInv'
  BY <1>1, <1>2, QuietStep DEF EnqCall, Goto, TypeOK, Threads
<1>3. ASSUME NEW p \in Producers, Enqueue(p) PROVE IndInv'
  BY <1>1, <1>3, EnqueueStep
<1>4. ASSUME NEW c \in Consumers, DeqCall(c) PROVE IndInv'
  BY <1>1, <1>4, QuietStep DEF DeqCall, Goto, TypeOK, Threads
<1>5. ASSUME NEW c \in Consumers, Dequeue(c) PROVE IndInv'
  BY <1>1, <1>5, DequeueStep
<1>6. CASE UNCHANGED vars
  BY <1>6 DEF vars, IndInv, TypeOK, CountersOrdered, ClaimsInv, TestsInv, StaleInv,
              Owners, Pos
<1> QED
  BY <1>2, <1>3, <1>4, <1>5, <1>6 DEF Next

(* The counters, the claims and the tests made with stale values fit         *)
(* together in every reachable state: what all that follows rests on.        *)
THEOREM InductiveInvariant ==
  ASSUME Reordering \cap Consumers = {}
  PROVE  Spec => []IndInv
<1>1. Init => IndInv
  BY InvInit
<1>2. IndInv /\ [Next]_vars => IndInv'
  BY InvStep
<1> QED
  BY <1>1, <1>2, PTL DEF Spec

(* The four counters never pass each other, for any number of threads and    *)
(* any capacity that divides the counters' range, on any CPU that keeps the  *)
(* order of a dequeue's two loads.                                           *)
THEOREM CountersStayOrdered ==
  ASSUME Reordering \cap Consumers = {}
  PROVE  Spec => []CountersOrdered
<1>1. IndInv => CountersOrdered
  BY DEF IndInv
<1> QED
  BY <1>1, InductiveInvariant, PTL

(* Two threads that own an index are never in one slot: their indices differ *)
(* and lie less than Cap above consTail.                                     *)
LEMMA InvExclusion == IndInv => SlotExclusion
<1> SUFFICES ASSUME IndInv, NEW t \in Owners(Threads), NEW u \in Owners(Threads), t # u
             PROVE  Slot(head[t]) # Slot(head[u])
  BY DEF SlotExclusion
<1>1. TypeOK /\ CountersOrdered /\ ClaimsInv
  BY DEF IndInv
<1>2. /\ Pos(consHead) \in Nat /\ Pos(prodTail) \in Nat /\ Pos(prodHead) \in Nat
      /\ \A w \in Owners(Threads) : head[w] \in Counter /\ Pos(head[w]) \in Nat
  BY <1>1, CounterType DEF TypeOK, Pos, Owners
<1>3. /\ Pos(consHead) <= Pos(prodTail) /\ Pos(prodTail) <= Pos(prodHead)
      /\ Pos(prodHead) <= Cap
  BY <1>1 DEF CountersOrdered, Pos
<1>4. \A w \in Owners(Threads) : w \in Owners(Producers) \/ w \in Owners(Consumers)
  BY DEF Owners, Threads
<1>5. /\ \A p \in Owners(Producers) :
            Pos(prodTail) <= Pos(head[p]) /\ Pos(head[p]) < Pos(prodHead)
      /\ \A c \in Owners(Consumers) : Pos(head[c]) < Pos(consHead)
  BY <1>1 DEF ClaimsInv
<1>6. Pos(head[t]) < Cap /\ Pos(head[u]) < Cap
  BY <1>2, <1>3, <1>4, <1>5, RingAssumption, IndexAssumption, SMT
<1>7. head[t] # head[u]
  <2>1. CASE t \in Owners(Producers) /\ u \in Owners(Producers)
    BY <1>1, <2>1 DEF ClaimsInv
  <2>2. CASE t \in Owners(Consumers) /\ u \in Owners(Consumers)
    BY <1>1, <2>2 DEF ClaimsInv
  <2>3. CASE t \in Owners(Producers) /\ u \in Owners(Consumers)
    BY <1>2, <1>3, <1>5, <2>3, SMT
  <2>4. CASE t \in Owners(Consumers) /\ u \in Owners(Producers)
    BY <1>2, <1>3, <1>5, <2>4, SMT
  <2> QED
    BY <1>4, <2>1, <2>2, <2>3, <2>4
<1> QED
  BY <1>1, <1>2, <1>6, <1>7, SlotsDiffer DEF Pos, TypeOK

(* A claimed slot belongs to one thread until it is published: the stores of *)
(* line 108 and the loads of line 148 never meet in a slot.                  *)
THEOREM SlotsAreExclusive ==
  ASSUME Reordering \cap Consumers = {}
  PROVE  Spec => []SlotExclusion
BY InvExclusion, InductiveInvariant, PTL

(* No dequeue ever owns an index that no enqueue has published.              *)
THEOREM ClaimsStayPublished ==
  ASSUME Reordering \cap Consumers = {}
  PROVE  Spec => []ClaimsArePublished
<1>1. IndInv => ClaimsArePublished
  <2> SUFFICES ASSUME IndInv, NEW c \in Owners(Consumers)
               PROVE  Sub(head[c], consTail) < Sub(prodTail, consTail)
    BY DEF ClaimsArePublished
  <2>1. /\ Sub(head[c], consTail) \in Nat /\ Sub(consHead, consTail) \in Nat
        /\ Sub(prodTail, consTail) \in Nat
    BY CounterType DEF IndInv, TypeOK, Owners, Threads
  <2>2. /\ Sub(head[c], consTail) < Sub(consHead, consTail)
        /\ Sub(consHead, consTail) <= Sub(prodTail, consTail)
    BY DEF IndInv, ClaimsInv, CountersOrdered, Pos
  <2> QED
    BY <2>1, <2>2, SMT
<1> QED
  BY <1>1, InductiveInvariant, PTL

(* "The queue is empty" is true whenever dequeue says it, although the head  *)
(* it compares may be out of date.                                           *)
THEOREM EmptyIsEmpty ==
  ASSUME Reordering \cap Consumers = {}
  PROVE  Spec => EmptyMeansEmpty
<1>1. IndInv => \A c \in Consumers : DeqRefuse(c) => consHead = prodTail
  <2> SUFFICES ASSUME IndInv, NEW c \in Consumers, DeqRefuse(c)
               PROVE  consHead = prodTail
    OBVIOUS
  <2>1. /\ consHead \in Counter /\ prodTail \in Counter
        /\ prodHead \in Counter /\ consTail \in Counter
    BY DEF IndInv, TypeOK
  <2>2. Sub(consHead, prodTail) + Cap < Modulus
    BY DEF IndInv, StaleInv, DeqRefuse
  <2>3. /\ Sub(consHead, consTail) <= Sub(prodTail, consTail)
        /\ Sub(prodTail, consTail) <= Sub(prodHead, consTail)
        /\ Sub(prodHead, consTail) <= Cap
    BY DEF IndInv, CountersOrdered
  <2> QED
    BY <2>1, <2>2, <2>3, RingAssumption, IndexAssumption, SMT DEF Counter, Sub
<1>2. IndInv /\ [Next]_vars
        => [\A c \in Consumers : DeqRefuse(c) => consHead = prodTail]_vars
  BY <1>1
<1> QED
  BY <1>2, InductiveInvariant, PTL DEF Spec, EmptyMeansEmpty

(***************************************************************************)
(* MpmcRing implements BoundedQueue when no consumer reorders its loads    *)
(***************************************************************************)

(* The steps of an enqueue, and of a dequeue, that neither touch buf, a tail *)
(* or consHead nor change what the thread holds.                             *)
EnqSilent(p) ==
  \/ EnqLoadHead(p) \/ EnqAdmit(p) \/ EnqCasFail(p) \/ EnqCas(p) \/ EnqTailEarly(p)
  \/ EnqTurn(p) \/ (EnqHeadLate(p) /\ ~Return(p))
EnqGiveUp(p) == EnqRefuse(p) \/ (EnqHeadLate(p) /\ Return(p))
DeqSilent(c) ==
  DeqCall(c) \/ DeqLoadHead(c) \/ DeqAdmit(c) \/ DeqRefuse(c) \/ DeqCasFail(c) \/ DeqTurn(c)

(* What such a step of an enqueue does to the locals. *)
LEMMA EnqSilentStep ==
  ASSUME TypeOK, NEW p \in Producers, EnqSilent(p)
  PROVE  /\ UNCHANGED <<prodTail, consHead, consTail, buf, item>>
         /\ pc[p] # "idle" /\ pc'[p] # "idle"
         /\ \A t \in Threads \ {p} : pc'[t] = pc[t] /\ head'[t] = head[t]
         /\ pc'[p] \in {"wait", "publish"} =>
              pc[p] \in {"wait", "publish"} /\ head'[p] = head[p]
<1> p \in Threads
  BY DEF Threads
<1> QED
  BY DEF EnqSilent, EnqLoadHead, EnqAdmit, EnqCasFail, EnqCas, EnqTailEarly, EnqTurn,
         EnqHeadLate, Goto, counters, TypeOK

(* An enqueue that gives up forgets its item and changes nothing else. *)
LEMMA EnqGiveUpStep ==
  ASSUME TypeOK, NEW p \in Producers, EnqGiveUp(p)
  PROVE  /\ UNCHANGED <<prodTail, consHead, consTail, buf>>
         /\ pc[p] # "idle" /\ pc'[p] = "idle"
         /\ item' = [item EXCEPT ![p] = None]
         /\ \A t \in Threads \ {p} : pc'[t] = pc[t] /\ head'[t] = head[t]
<1> p \in Threads
  BY DEF Threads
<1> QED
  BY DEF EnqGiveUp, EnqRefuse, EnqHeadLate, Return, Goto, counters, TypeOK

(* What a silent step of a dequeue that holds no item, or is about to        *)
(* publish, does to the locals.                                              *)
LEMMA DeqSilentStep ==
  ASSUME TypeOK, NEW c \in Consumers, DeqSilent(c),
         pc[c] \in {"wait", "publish"} <=> item[c] # None
  PROVE  /\ UNCHANGED <<prodTail, consHead, consTail, buf>>
         /\ item' = item
         /\ pc[c] # "slot" /\ pc'[c] # "slot"
         /\ pc'[c] \in {"wait", "publish"} <=> pc[c] \in {"wait", "publish"}
         /\ \A t \in Threads \ {c} : pc'[t] = pc[t] /\ head'[t] = head[t]
<1> c \in Threads
  BY DEF Threads
<1>1. CASE DeqRefuse(c)
  <2>1. item[c] = None
    BY <1>1 DEF DeqRefuse
  <2>2. item' = item
    BY <1>1, <2>1 DEF DeqRefuse, Return, TypeOK
  <2> QED
    BY <1>1, <2>2 DEF DeqRefuse, Return, Goto, counters, TypeOK
<1>2. CASE ~DeqRefuse(c)
  BY <1>2 DEF DeqSilent, DeqCall, DeqLoadHead, DeqAdmit, DeqCasFail, DeqTurn, Goto,
              counters, TypeOK
<1> QED
  BY <1>1, <1>2

(* A step of the ring is one of these. *)
LEMMA StepKinds ==
  ASSUME Reordering \cap Consumers = {}, IndInv, Next
  PROVE  \/ \E p \in Producers :
              \/ \E v \in Values : EnqCall(p, v)
              \/ EnqSilent(p) \/ EnqGiveUp(p) \/ EnqStore(p) \/ EnqPublish(p)
         \/ \E c \in Consumers :
              DeqSilent(c) \/ DeqCas(c) \/ DeqLoad(c) \/ DeqPublish(c)
<1>1. \A c \in Consumers : ~DeqTailEarly(c) /\ ~DeqHeadLate(c)
  BY DEF IndInv, StaleInv, DeqTailEarly, DeqHeadLate
<1>2. \A p \in Producers : Enqueue(p) =>
        EnqSilent(p) \/ EnqGiveUp(p) \/ EnqStore(p) \/ EnqPublish(p)
  BY DEF Enqueue, EnqSilent, EnqGiveUp
<1>3. \A c \in Consumers : DeqCall(c) \/ Dequeue(c) =>
        DeqSilent(c) \/ DeqCas(c) \/ DeqLoad(c) \/ DeqPublish(c)
  BY <1>1 DEF Dequeue, DeqSilent
<1> QED
  BY <1>2, <1>3 DEF Next

(* Where the counters are, and how many items the ring holds. *)
LEMMA Distances ==
  ASSUME IndInv
  PROVE  /\ prodHead \in Counter /\ prodTail \in Counter
         /\ consHead \in Counter /\ consTail \in Counter
         /\ Pos(prodTail) \in Nat /\ Pos(consHead) \in Nat /\ Pos(prodHead) \in Nat
         /\ Pos(consHead) <= Pos(prodTail) /\ Pos(prodTail) <= Pos(prodHead)
         /\ Pos(prodHead) <= Cap
         /\ \A i \in Counter : Pos(consHead) <= Pos(i) =>
              Sub(i, consHead) = Pos(i) - Pos(consHead)
         /\ Sub(prodTail, consHead) \in 0 .. Cap
<1>1. /\ prodHead \in Counter /\ prodTail \in Counter
      /\ consHead \in Counter /\ consTail \in Counter
  BY DEF IndInv, TypeOK
<1>2. Pos(prodTail) \in Nat /\ Pos(consHead) \in Nat /\ Pos(prodHead) \in Nat
  BY <1>1, CounterType DEF Pos
<1>3. /\ Pos(consHead) <= Pos(prodTail) /\ Pos(prodTail) <= Pos(prodHead)
      /\ Pos(prodHead) <= Cap
  BY DEF IndInv, CountersOrdered, Pos
<1>4. ASSUME NEW i \in Counter, Pos(consHead) <= Pos(i)
      PROVE  Sub(i, consHead) = Pos(i) - Pos(consHead)
  BY <1>1, <1>4, IndexAssumption, SMT DEF Pos, Sub, Counter
<1>5. Sub(prodTail, consHead) \in 0 .. Cap
  BY <1>1, <1>2, <1>3, <1>4, IndexAssumption, SMT
<1> QED
  BY <1>1, <1>2, <1>3, <1>4, <1>5

(***************************************************************************)
(* The items                                                               *)
(***************************************************************************)

(* A new ring has no items. *)
LEMMA DataInit == Init => DataInv
<1> SUFFICES ASSUME Init PROVE DataInv
  OBVIOUS
<1>1. \A t \in Threads : pc[t] = "idle" /\ item[t] = None
  BY DEF Init
<1>2. \A i \in Counter : ~(Pos(i) < Pos(prodTail))
  BY IndexAssumption, SMT DEF Init, Pos, Sub, Counter
<1> QED
  BY <1>1, <1>2 DEF DataInv, Threads

(* Every step keeps the items where the invariant says they are. *)
LEMMA DataStep ==
  ASSUME Reordering \cap Consumers = {}, IndInv, DataInv, [Next]_vars
  PROVE  DataInv'
<1>1. TypeOK /\ ClaimsInv /\ SlotExclusion
  BY InvExclusion DEF IndInv
<1>2. /\ Producers \subseteq Threads /\ Consumers \subseteq Threads
      /\ Producers \cap Consumers = {} /\ None \notin Values
  BY RingAssumption DEF Threads
<1>3. \A i \in Counter : Slot(i) \in Slots
  BY SlotType
<1>4. ASSUME NEW p \in Producers, NEW v \in Values, EnqCall(p, v) PROVE DataInv'
  <2>1. /\ UNCHANGED <<prodTail, consTail, buf, head>>
        /\ pc' = [pc EXCEPT ![p] = "head"] /\ item' = [item EXCEPT ![p] = v]
    BY <1>4 DEF EnqCall, counters, Goto
  <2> QED
    BY <1>1, <1>2, <2>1 DEF DataInv, TypeOK, Pos
<1>5. ASSUME NEW p \in Producers, EnqSilent(p) PROVE DataInv'
  BY <1>1, <1>2, <1>5, EnqSilentStep DEF DataInv, TypeOK, Pos
<1>6. ASSUME NEW p \in Producers, EnqGiveUp(p) PROVE DataInv'
  BY <1>1, <1>2, <1>6, EnqGiveUpStep DEF DataInv, TypeOK, Pos
<1>7. ASSUME NEW p \in Producers, EnqStore(p) PROVE DataInv'
  <2>1. /\ pc[p] = "slot" /\ UNCHANGED <<prodTail, consTail, head, item>>
        /\ buf' = [buf EXCEPT ![Slot(head[p])] = item[p]]
        /\ pc' = [pc EXCEPT ![p] = "wait"] /\ item[p] # None
    BY <1>7 DEF EnqStore, counters, Goto, DataInv
  <2>2. \A q \in Producers \ {p} :
          pc[q] \in {"wait", "publish"} => Slot(head[q]) # Slot(head[p])
    BY <1>1, <1>2, <2>1 DEF SlotExclusion, Owners
  <2>3. \A i \in Counter : Pos(i) < Pos(prodTail) => buf'[Slot(i)] # None
    BY <1>1, <1>3, <2>1 DEF DataInv, TypeOK
  <2>4. \A q \in Producers :
          pc'[q] \in {"wait", "publish"} => buf'[Slot(head[q])] = item[q]
    BY <1>1, <1>2, <1>3, <2>1, <2>2 DEF DataInv, TypeOK
  <2> QED
    BY <1>1, <1>2, <2>1, <2>3, <2>4 DEF DataInv, TypeOK, Pos
<1>8. ASSUME NEW p \in Producers, EnqPublish(p) PROVE DataInv'
  <2>1. /\ pc[p] = "publish" /\ head[p] = prodTail /\ prodTail' = Inc(prodTail)
        /\ UNCHANGED <<consTail, buf>>
        /\ pc' = [pc EXCEPT ![p] = "idle"] /\ item' = [item EXCEPT ![p] = None]
        /\ head' = [head EXCEPT ![p] = 0] /\ Pos(prodTail) < Pos(prodHead)
    BY <1>1, <1>8 DEF EnqPublish, Return, Goto, ClaimsInv, Owners
  <2>2. Pos(Inc(prodTail)) = Pos(prodTail) + 1
    <3>1. Sub(prodTail, consTail) + 1 < Modulus
      BY <2>1, Distances, IndexAssumption, SMT DEF Pos
    <3> QED
      BY <3>1, Distances, SubInc DEF Pos
  <2>3. ASSUME NEW i \in Counter, Pos(i) < Pos(prodTail) + 1 PROVE buf[Slot(i)] # None
    <3>1. Pos(i) \in Nat
      BY Distances, CounterType DEF Pos
    <3>2. Pos(i) < Pos(prodTail) \/ Pos(i) = Pos(prodTail)
      BY <2>3, <3>1, Distances, SMT
    <3>3. CASE Pos(i) < Pos(prodTail)
      BY <3>3 DEF DataInv
    <3>4. CASE Pos(i) = Pos(prodTail)
      <4>1. i = prodTail
        BY <3>4, Distances, SubInjective DEF Pos
      <4> QED
        BY <2>1, <4>1 DEF DataInv
    <3> QED
      BY <3>2, <3>3, <3>4
  <2>4. \A i \in Counter : Pos(i)' < Pos(prodTail)' => buf'[Slot(i)] # None
    BY <2>1, <2>2, <2>3 DEF Pos
  <2> QED
    BY <1>1, <1>2, <2>1, <2>4 DEF DataInv, TypeOK
<1>9. ASSUME NEW c \in Consumers, DeqSilent(c) PROVE DataInv'
  <2>1. pc[c] \in {"wait", "publish"} <=> item[c] # None
    BY DEF DataInv
  <2> QED
    BY <1>1, <1>2, <1>9, <2>1, DeqSilentStep DEF DataInv, TypeOK, Pos
<1>10. ASSUME NEW c \in Consumers, DeqCas(c) PROVE DataInv'
  BY <1>1, <1>2, <1>10 DEF DeqCas, Goto, DataInv, TypeOK, Pos
<1>11. ASSUME NEW c \in Consumers, DeqLoad(c) PROVE DataInv'
  <2>1. /\ pc[c] = "slot" /\ UNCHANGED <<prodTail, consTail, buf, head>>
        /\ item' = [item EXCEPT ![c] = buf[Slot(head[c])]]
        /\ pc' = [pc EXCEPT ![c] = "wait"]
    BY <1>11 DEF DeqLoad, counters, Goto
  <2>2. head[c] \in Counter /\ Pos(head[c]) < Pos(consHead)
    BY <1>1, <1>2, <2>1 DEF ClaimsInv, Owners, TypeOK
  <2>3. Pos(head[c]) \in Nat
    BY <2>2, Distances, CounterType DEF Pos
  <2>4. Pos(head[c]) < Pos(prodTail)
    BY <2>2, <2>3, Distances, SMT
  <2>5. buf[Slot(head[c])] # None
    BY <2>2, <2>4 DEF DataInv
  <2> QED
    BY <1>1, <1>2, <2>1, <2>5 DEF DataInv, TypeOK, Pos
<1>12. ASSUME NEW c \in Consumers, DeqPublish(c) PROVE DataInv'
  <2>1. /\ pc[c] = "publish" /\ head[c] = consTail /\ consTail' = Inc(consTail)
        /\ UNCHANGED <<prodTail, buf>>
        /\ pc' = [pc EXCEPT ![c] = "idle"] /\ item' = [item EXCEPT ![c] = None]
        /\ head' = [head EXCEPT ![c] = 0] /\ Pos(consTail) < Pos(consHead)
    BY <1>1, <1>12 DEF DeqPublish, Return, Goto, ClaimsInv, Owners
  <2>2. Pos(consTail) = 0 /\ prodTail # consTail
    BY <2>1, Distances, SMT DEF Pos, Sub, Counter
  <2>3. Sub(prodTail, Inc(consTail)) = Pos(prodTail) - 1
    BY <2>2, Distances, SubDec DEF Pos
  <2>4. ASSUME NEW i \in Counter, Sub(i, Inc(consTail)) < Pos(prodTail) - 1
        PROVE  Pos(i) < Pos(prodTail)
    <3>1. CASE i = consTail
      BY <2>1, <2>2, <3>1, Distances, SMT
    <3>2. CASE i # consTail
      <4>1. Sub(i, Inc(consTail)) = Pos(i) - 1 /\ Pos(i) \in Nat
        BY <3>2, Distances, SubDec, CounterType DEF Pos
      <4> QED
        BY <2>4, <4>1, Distances, SMT
    <3> QED
      BY <3>1, <3>2
  <2>5. \A i \in Counter : Pos(i)' < Pos(prodTail)' => buf'[Slot(i)] # None
    BY <2>1, <2>3, <2>4 DEF Pos, DataInv
  <2> QED
    BY <1>1, <1>2, <2>1, <2>5 DEF DataInv, TypeOK
<1>13. CASE UNCHANGED vars
  BY <1>13 DEF vars, DataInv, Pos
<1> QED
  BY <1>4, <1>5, <1>6, <1>7, <1>8, <1>9, <1>10, <1>11, <1>12, <1>13, StepKinds

(* Every dequeue that has loaded has an item, every published slot holds the *)
(* item that was stored for it, in every reachable state.                    *)
THEOREM ItemsStayInPlace ==
  ASSUME Reordering \cap Consumers = {}
  PROVE  Spec => []DataInv
<1>1. Init => IndInv /\ DataInv
  BY InvInit, DataInit
<1>2. IndInv /\ DataInv /\ [Next]_vars => IndInv' /\ DataInv'
  BY InvStep, DataStep
<1> QED
  BY <1>1, <1>2, PTL DEF Spec

(***************************************************************************)
(* The queue                                                               *)
(***************************************************************************)

(* What the queue sees of a state. *)
queueBar == Window(buf, consHead, Sub(prodTail, consHead))
offerBar == [p \in Producers |-> item[p]]
gotBar ==
  [c \in Consumers |-> IF pc[c] = "slot" THEN buf[Slot(head[c])] ELSE item[c]]

(* A new ring is an empty queue. *)
LEMMA QueueInit == Init => Queue!Init
<1> SUFFICES ASSUME Init PROVE Queue!Init
  OBVIOUS
<1>1. queueBar = <<>>
  <2>1. Sub(prodTail, consHead) = 0
    BY SMT DEF Init, Sub
  <2> QED
    BY <2>1, SMT DEF queueBar, Window
<1>2. offerBar = [p \in Producers |-> None] /\ gotBar = [c \in Consumers |-> None]
  BY DEF Init, offerBar, gotBar, Threads
<1> QED
  BY <1>1, <1>2 DEF Queue!Init, queueBar, offerBar, gotBar

(* The store of an enqueue is invisible: its index is not yet in the queue,  *)
(* and no consumer is at its slot.                                           *)
LEMMA StoreInvisible ==
  ASSUME IndInv, DataInv, NEW p \in Producers, EnqStore(p)
  PROVE  UNCHANGED <<queueBar, offerBar, gotBar>>
<1>1. TypeOK /\ ClaimsInv /\ SlotExclusion
  BY InvExclusion DEF IndInv
<1>2. /\ p \in Threads /\ Producers \cap Consumers = {} /\ Consumers \subseteq Threads
  BY RingAssumption DEF Threads
<1>3. /\ pc[p] = "slot" /\ UNCHANGED <<prodTail, consHead, head, item>>
      /\ buf' = [buf EXCEPT ![Slot(head[p])] = item[p]]
      /\ pc' = [pc EXCEPT ![p] = "wait"]
  BY EnqStore(p) DEF EnqStore, counters, Goto
<1>4. offerBar' = offerBar
  BY <1>3 DEF offerBar
<1>5. gotBar' = gotBar
  <2>1. ASSUME NEW c \in Consumers, pc[c] = "slot"
        PROVE  buf'[Slot(head[c])] = buf[Slot(head[c])]
    <3>1. Slot(head[c]) # Slot(head[p]) /\ Slot(head[c]) \in Slots
      BY <1>1, <1>2, <1>3, <2>1, SlotType DEF SlotExclusion, Owners, TypeOK
    <3> QED
      BY <1>1, <1>3, <3>1 DEF TypeOK
  <2> QED
    BY <1>1, <1>2, <1>3, <2>1 DEF gotBar, TypeOK
<1>6. queueBar' = queueBar
  <2> DEFINE n == Sub(prodTail, consHead)
             j == head[p]
             x == item[p]
  <2>1. /\ j \in Counter /\ x \in Values \cup {None} /\ buf \in Buffers(Values \cup {None})
        /\ n \in 0 .. Cap /\ consHead \in Counter
    BY <1>1, <1>2, Distances DEF TypeOK, Buffers
  <2>2. Pos(prodTail) <= Pos(j) /\ Pos(j) < Pos(prodHead) /\ Pos(j) \in Nat
    BY <1>1, <1>3, <2>1, Distances, CounterType DEF ClaimsInv, Owners, Pos
  <2>3. Sub(j, consHead) = Pos(j) - Pos(consHead) /\ n = Pos(prodTail) - Pos(consHead)
    <3>1. Pos(consHead) <= Pos(j)
      BY <2>2, Distances, SMT
    <3> QED
      BY <2>1, <3>1, Distances
  <2>4. n <= Sub(j, consHead) /\ Sub(j, consHead) < Cap
    <3>1. /\ Pos(prodTail) \in Nat /\ Pos(consHead) \in Nat /\ Pos(prodHead) \in Nat
          /\ Pos(prodHead) <= Cap /\ Cap \in Nat
      BY Distances, IndexAssumption
    <3> DEFINE a == Sub(j, consHead)
    <3>2. n = Pos(prodTail) - Pos(consHead) /\ a = Pos(j) - Pos(consHead)
      BY <2>3
    <3> HIDE DEF n, a
    <3>3. n <= a /\ a < Cap
      BY <2>2, <3>1, <3>2, SMT
    <3> QED
      BY <3>3 DEF a
  <2> HIDE DEF n, j, x
  <2>5. Window([buf EXCEPT ![Slot(j)] = x], consHead, n) = Window(buf, consHead, n)
    BY <2>1, <2>4, WindowStore
  <2> QED
    BY <1>3, <2>5 DEF n, j, x, queueBar
<1> QED
  BY <1>4, <1>5, <1>6

(* An enqueue takes effect when it publishes. *)
LEMMA PublishEnqueues ==
  ASSUME IndInv, DataInv, NEW p \in Producers, EnqPublish(p)
  PROVE  Queue!Enqueue(p)
<1>1. TypeOK /\ ClaimsInv
  BY DEF IndInv
<1>2. /\ p \in Threads /\ p \notin Consumers /\ Consumers \subseteq Threads
  BY RingAssumption DEF Threads
<1>3. /\ pc[p] = "publish" /\ head[p] = prodTail /\ prodTail' = Inc(prodTail)
      /\ UNCHANGED <<consHead, buf>>
      /\ pc' = [pc EXCEPT ![p] = "idle"] /\ item' = [item EXCEPT ![p] = None]
      /\ head' = [head EXCEPT ![p] = 0] /\ Pos(prodTail) < Pos(prodHead)
  BY <1>1, EnqPublish(p) DEF EnqPublish, Return, Goto, ClaimsInv, Owners
<1> DEFINE n == Sub(prodTail, consHead)
<1>4. /\ n \in 0 .. Cap - 1 /\ n + 1 < Modulus /\ consHead \in Counter
      /\ buf \in Buffers(Values \cup {None}) /\ prodTail \in Counter
  <2>1. n = Pos(prodTail) - Pos(consHead)
    BY Distances
  <2>2. n \in 0 .. Cap - 1 /\ n + 1 < Modulus
    <3> HIDE DEF n
    <3> QED
      BY <1>3, <2>1, Distances, IndexAssumption, SMT
  <2> QED
    BY <1>1, <2>2 DEF TypeOK, Buffers
<1>5. Sub(Inc(prodTail), consHead) = n + 1 /\ Add(consHead, n) = prodTail
  BY <1>4, SubInc, SubAdd
<1>6. item[p] # None /\ buf[Slot(prodTail)] = item[p]
  BY <1>3 DEF DataInv
<1>7. queueBar' = Append(queueBar, item[p]) /\ Len(queueBar) = n
  <2> HIDE DEF n
  <2>1. n \in 0 .. Cap
    BY <1>4, IndexAssumption, SMT
  <2>2. Window(buf, consHead, n + 1) = Append(Window(buf, consHead, n), buf[Slot(Add(consHead, n))])
    BY <1>4, WindowAppend
  <2>3. Len(Window(buf, consHead, n)) = n
    BY <1>4, <2>1, WindowType
  <2>4. queueBar = Window(buf, consHead, n) /\ queueBar' = Window(buf, consHead, n + 1)
    BY <1>3, <1>5 DEF queueBar, n
  <2> QED
    BY <1>5, <1>6, <2>2, <2>3, <2>4
<1>8. offerBar' = [offerBar EXCEPT ![p] = None] /\ offerBar[p] = item[p]
  BY <1>1, <1>2, <1>3 DEF offerBar, TypeOK, Threads
<1>9. gotBar' = gotBar
  BY <1>1, <1>2, <1>3 DEF gotBar, TypeOK
<1>10. Len(queueBar) < Cap
  <2> HIDE DEF n
  <2> QED
    BY <1>4, <1>7, IndexAssumption, SMT
<1> QED
  BY <1>6, <1>7, <1>8, <1>9, <1>10 DEF Queue!Enqueue, queueBar, offerBar, gotBar

(* A dequeue takes effect when it claims. *)
LEMMA ClaimDequeues ==
  ASSUME IndInv, DataInv, NEW c \in Consumers, DeqCas(c)
  PROVE  Queue!Dequeue(c)
<1>1. TypeOK /\ TestsInv /\ StaleInv
  BY DEF IndInv
<1>2. /\ c \in Threads /\ c \notin Producers /\ Consumers \subseteq Threads
  BY RingAssumption DEF Threads
<1>3. /\ pc[c] = "cas" /\ head[c] = consHead /\ consHead' = Inc(consHead)
      /\ UNCHANGED <<prodTail, buf, head, item>>
      /\ pc' = [pc EXCEPT ![c] = "slot"] /\ consHead # prodTail
  BY <1>1, DeqCas(c) DEF DeqCas, Goto, StaleInv, TestsInv
<1> DEFINE n == Sub(prodTail, consHead)
<1>4. /\ n \in 1 .. Cap /\ consHead \in Counter /\ prodTail \in Counter
      /\ buf \in Buffers(Values \cup {None})
  <2>1. Sub(consHead, consHead) = 0
    BY Distances, SMT DEF Sub, Counter
  <2>2. n # 0
    BY <1>3, <2>1, Distances, SubInjective
  <2>3. n \in 1 .. Cap
    <3> HIDE DEF n
    <3>1. n \in 0 .. Cap
      BY Distances DEF n
    <3> QED
      BY <2>2, <3>1, IndexAssumption, SMT
  <2> QED
    BY <1>1, <2>3, Distances DEF TypeOK, Buffers
<1>5. Sub(prodTail, Inc(consHead)) = n - 1
  BY <1>3, <1>4, SubDec
<1>6. /\ queueBar # <<>> /\ Head(queueBar) = buf[Slot(consHead)]
      /\ queueBar' = Tail(queueBar)
  <2> HIDE DEF n
  <2>1. queueBar = Window(buf, consHead, n) /\ queueBar' = Window(buf, Inc(consHead), n - 1)
    BY <1>3, <1>5 DEF queueBar, n
  <2> QED
    BY <1>4, <2>1, WindowTail
<1>7. gotBar[c] = None /\ gotBar' = [gotBar EXCEPT ![c] = buf[Slot(consHead)]]
  <2>1. item[c] = None
    BY <1>3 DEF DataInv
  <2> QED
    BY <1>1, <1>2, <1>3, <2>1 DEF gotBar, TypeOK
<1>8. offerBar' = offerBar
  BY <1>3 DEF offerBar
<1> QED
  BY <1>6, <1>7, <1>8 DEF Queue!Dequeue, queueBar, offerBar, gotBar

(* Every step of the ring is a step of the queue or invisible to it. *)
LEMMA QueueStep ==
  ASSUME Reordering \cap Consumers = {}, IndInv, DataInv, [Next]_vars
  PROVE  [Queue!Next]_Queue!vars
<1>1. TypeOK
  BY DEF IndInv
<1>2. /\ Producers \subseteq Threads /\ Consumers \subseteq Threads
      /\ Producers \cap Consumers = {}
  BY RingAssumption DEF Threads
<1>3. UNCHANGED <<queueBar, offerBar, gotBar>> => UNCHANGED Queue!vars
  BY DEF Queue!vars, queueBar, offerBar, gotBar
<1>4. ASSUME NEW p \in Producers, NEW v \in Values, EnqCall(p, v) PROVE Queue!Offer(p, v)
  <2>1. /\ UNCHANGED <<prodTail, consHead, buf, head>> /\ pc[p] = "idle"
        /\ pc' = [pc EXCEPT ![p] = "head"] /\ item' = [item EXCEPT ![p] = v]
        /\ item[p] = None
    BY <1>4 DEF EnqCall, counters, Goto, DataInv
  <2>2. offerBar[p] = None /\ offerBar' = [offerBar EXCEPT ![p] = v]
    BY <1>1, <1>2, <2>1 DEF offerBar, TypeOK
  <2>3. queueBar' = queueBar /\ gotBar' = gotBar
    BY <1>1, <1>2, <2>1 DEF queueBar, gotBar, TypeOK
  <2> QED
    BY <2>2, <2>3 DEF Queue!Offer, queueBar, offerBar, gotBar
<1>5. ASSUME NEW p \in Producers, EnqSilent(p) PROVE UNCHANGED Queue!vars
  BY <1>1, <1>2, <1>3, <1>5, EnqSilentStep DEF queueBar, offerBar, gotBar
<1>6. ASSUME NEW p \in Producers, EnqGiveUp(p) PROVE Queue!Refuse(p)
  <2>1. /\ UNCHANGED <<prodTail, consHead, buf>> /\ item[p] # None
        /\ item' = [item EXCEPT ![p] = None]
        /\ \A c \in Consumers : pc'[c] = pc[c] /\ head'[c] = head[c]
    BY <1>1, <1>2, <1>6, EnqGiveUpStep DEF DataInv
  <2>2. offerBar[p] # None /\ offerBar' = [offerBar EXCEPT ![p] = None]
    BY <1>1, <1>2, <2>1 DEF offerBar, TypeOK
  <2>3. queueBar' = queueBar /\ gotBar' = gotBar
    BY <1>1, <1>2, <2>1 DEF queueBar, gotBar, TypeOK
  <2> QED
    BY <2>2, <2>3 DEF Queue!Refuse, queueBar, offerBar, gotBar
<1>7. ASSUME NEW p \in Producers, EnqStore(p) PROVE UNCHANGED Queue!vars
  BY <1>3, <1>7, StoreInvisible
<1>8. ASSUME NEW p \in Producers, EnqPublish(p) PROVE Queue!Enqueue(p)
  BY <1>8, PublishEnqueues
<1>9. ASSUME NEW c \in Consumers, DeqSilent(c) PROVE UNCHANGED Queue!vars
  <2>1. pc[c] \in {"wait", "publish"} <=> item[c] # None
    BY DEF DataInv
  <2> QED
    BY <1>1, <1>2, <1>3, <1>9, <2>1, DeqSilentStep DEF queueBar, offerBar, gotBar
<1>10. ASSUME NEW c \in Consumers, DeqCas(c) PROVE Queue!Dequeue(c)
  BY <1>10, ClaimDequeues
<1>11. ASSUME NEW c \in Consumers, DeqLoad(c) PROVE UNCHANGED Queue!vars
  BY <1>1, <1>2, <1>3, <1>11 DEF DeqLoad, Goto, counters, queueBar, offerBar, gotBar, TypeOK
<1>12. ASSUME NEW c \in Consumers, DeqPublish(c) PROVE Queue!Deliver(c)
  <2>1. /\ pc[c] = "publish" /\ UNCHANGED <<prodTail, consHead, buf>>
        /\ pc' = [pc EXCEPT ![c] = "idle"] /\ item' = [item EXCEPT ![c] = None]
        /\ head' = [head EXCEPT ![c] = 0] /\ item[c] # None
    BY <1>12 DEF DeqPublish, Return, Goto, DataInv
  <2>2. gotBar[c] # None /\ gotBar' = [gotBar EXCEPT ![c] = None]
    BY <1>1, <1>2, <2>1 DEF gotBar, TypeOK
  <2>3. queueBar' = queueBar /\ offerBar' = offerBar
    BY <1>1, <1>2, <2>1 DEF queueBar, offerBar, TypeOK
  <2> QED
    BY <2>2, <2>3 DEF Queue!Deliver, queueBar, offerBar, gotBar
<1>13. CASE UNCHANGED vars
  BY <1>3, <1>13 DEF vars, queueBar, offerBar, gotBar
<1> QED
  BY <1>4, <1>5, <1>6, <1>7, <1>8, <1>9, <1>10, <1>11, <1>12, <1>13, StepKinds
     DEF Queue!Next

(* The ring is a FIFO queue of at most Cap items, for any number of          *)
(* producers and consumers and across every wrap of the counters: an item is *)
(* delivered once, in the order of publication, or still in the ring.        *)
THEOREM MpmcIsQueue ==
  ASSUME Reordering \cap Consumers = {}
  PROVE  Spec => ImplementsQueue
<1>1. Init => Queue!Init
  BY QueueInit
<1>2. IndInv /\ DataInv /\ [Next]_vars => [Queue!Next]_Queue!vars
  BY QueueStep
<1> QED
  BY <1>1, <1>2, InductiveInvariant, ItemsStayInPlace, PTL
     DEF Spec, ImplementsQueue, Queue!Spec

====
