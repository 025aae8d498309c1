---- MODULE BoundedQueue ----
(***************************************************************************)
(* What a bounded multi-producer multi-consumer queue promises its         *)
(* callers, independently of how it is implemented.  An item handed to an  *)
(* enqueue is in offer until the call either places it at the end of the   *)
(* queue or gives up; a dequeue takes the oldest item into got, and the    *)
(* item leaves got when the call returns it.  Every item is therefore      *)
(* delivered at most once and in the order of the queue.                   *)
(***************************************************************************)
EXTENDS Naturals, Sequences

CONSTANTS Producers, Consumers, Values, None, Cap

VARIABLES queue, offer, got

vars == <<queue, offer, got>>

Init ==
  /\ queue = <<>>
  /\ offer = [p \in Producers |-> None]
  /\ got = [c \in Consumers |-> None]

(* A caller starts an enqueue of v. *)
Offer(p, v) ==
  /\ offer[p] = None
  /\ offer' = [offer EXCEPT ![p] = v]
  /\ UNCHANGED <<queue, got>>

(* The enqueue takes effect and returns true. *)
Enqueue(p) ==
  /\ offer[p] # None
  /\ Len(queue) < Cap
  /\ queue' = Append(queue, offer[p])
  /\ offer' = [offer EXCEPT ![p] = None]
  /\ UNCHANGED got

(* The enqueue returns false.  When it may do so is not said here. *)
Refuse(p) ==
  /\ offer[p] # None
  /\ offer' = [offer EXCEPT ![p] = None]
  /\ UNCHANGED <<queue, got>>

(* A dequeue takes effect: the oldest item now belongs to the caller. *)
Dequeue(c) ==
  /\ got[c] = None
  /\ queue # <<>>
  /\ got' = [got EXCEPT ![c] = Head(queue)]
  /\ queue' = Tail(queue)
  /\ UNCHANGED offer

(* The dequeue returns its item. *)
Deliver(c) ==
  /\ got[c] # None
  /\ got' = [got EXCEPT ![c] = None]
  /\ UNCHANGED <<queue, offer>>

Next ==
  \/ \E p \in Producers : (\E v \in Values : Offer(p, v)) \/ Enqueue(p) \/ Refuse(p)
  \/ \E c \in Consumers : Dequeue(c) \/ Deliver(c)

Spec == Init /\ [][Next]_vars

====
