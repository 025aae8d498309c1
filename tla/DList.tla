---- MODULE DList ----
(***************************************************************************)
(* structure/dlist.h: circular doubly linked lists with the links inside   *)
(* the caller's nodes and heads.  A node or head is live while its links   *)
(* may be followed: a removed node and the source of a splice keep stale   *)
(* links, which only an initialisation or an insertion makes valid.        *)
(***************************************************************************)
EXTENDS Integers, Sequences, FiniteSets

CONSTANTS Heads, Nodes

ASSUME DlAssumption == Heads \cap Nodes = {} /\ IsFiniteSet(Nodes)

VARIABLES
  dl,       \* next and prev of every head and node
  dlLive,   \* history: the heads and nodes whose links are valid
  dlWalk    \* dlist_for_each_safe: head, pos and n, and the nodes to come

dlVars == <<dl, dlLive, dlWalk>>

Links == Heads \cup Nodes
NoWalk == <<>>

(* DLIST_HEAD makes the heads; nodes start initialised or not. *)
DlInit ==
  /\ dl = [next |-> [x \in Links |-> x], prev |-> [x \in Links |-> x]]
  /\ dlLive \in {Heads, Links}
  /\ dlWalk = NoWalk

(* dlist_empty: for a node, on no list. *)
Alone(l, x) == l.next[x] = x

SelfLink(l, x) == [l EXCEPT !.next[x] = x, !.prev[x] = x]
(* x keeps its old prev. *)
LinkForward(l, n, p, x) ==
  [next |-> [l.next EXCEPT ![n] = x, ![p] = n],
   prev |-> [l.prev EXCEPT ![n] = p]]
LinkBetween(l, n, p, x) ==
  [next |-> [l.next EXCEPT ![n] = x, ![p] = n],
   prev |-> [l.prev EXCEPT ![x] = n, ![n] = p]]
Bypass(l, n) ==
  [next |-> [l.next EXCEPT ![l.prev[n]] = l.next[n]],
   prev |-> [l.prev EXCEPT ![l.next[n]] = l.prev[n]]]

AddFront(l, n, h) == LinkBetween(l, n, h, l.next[h])
AddTail(l, n, h) == LinkBetween(l, n, l.prev[h], h)

(* The last node of s still leads to s. *)
SpliceOpen(l, s, p, x) ==
  [next |-> [l.next EXCEPT ![p] = l.next[s]],
   prev |-> [l.prev EXCEPT ![l.next[s]] = p, ![x] = l.prev[s]]]

(* __dlist_splice: the nodes of s go between p and x. *)
SpliceBetween(l, s, p, x) ==
  [next |-> [l.next EXCEPT ![p] = l.next[s], ![l.prev[s]] = x],
   prev |-> [l.prev EXCEPT ![l.next[s]] = p, ![x] = l.prev[s]]]
SpliceFront(l, s, h) == SpliceBetween(l, s, h, l.next[h])
SpliceTail(l, s, h) == SpliceBetween(l, s, l.prev[h], h)

(* --- operations, outside a loop ---------------------------------------- *)

DlIdle == dlWalk = NoWalk
OffList(n) == n \in dlLive => Alone(dl, n)

(* Initialising a head that still has nodes would lose them. *)
DlReset(x) ==
  /\ DlIdle /\ OffList(x)
  /\ dl' = SelfLink(dl, x) /\ dlLive' = dlLive \cup {x}
  /\ UNCHANGED dlWalk

DlAdd(n, h) ==
  /\ DlIdle /\ OffList(n) /\ h \in dlLive
  /\ \/ dl' = AddFront(dl, n, h)
     \/ dl' = AddTail(dl, n, h)
  /\ dlLive' = dlLive \cup {n}
  /\ UNCHANGED dlWalk

DlDel(n) == n \in dlLive /\ dl' = Bypass(dl, n) /\ dlLive' = dlLive \ {n}
DlDelInit(n) == n \in dlLive /\ dl' = SelfLink(Bypass(dl, n), n) /\ UNCHANGED dlLive

DlMove(n, h) ==
  /\ n \in dlLive /\ h \in dlLive
  /\ \/ dl' = AddFront(Bypass(dl, n), n, h)
     \/ dl' = AddTail(Bypass(dl, n), n, h)
  /\ UNCHANGED dlLive

(* Without init the source is stale afterwards, unless it was empty. *)
DlSplice(s, h, init) ==
  /\ DlIdle /\ s # h /\ s \in dlLive /\ h \in dlLive
  /\ IF Alone(dl, s) THEN UNCHANGED <<dl, dlLive>>
     ELSE /\ \E l \in {SpliceFront(dl, s, h), SpliceTail(dl, s, h)} :
               dl' = IF init THEN SelfLink(l, s) ELSE l
          /\ dlLive' = IF init THEN dlLive ELSE dlLive \ {s}
  /\ UNCHANGED dlWalk

(* --- dlist_for_each_safe ------------------------------------------------ *)

(* The nodes from h on, along f; a ring that does not close is no list.    *)
Along(f, h) ==
  LET at[i \in Nat] == IF i = 0 THEN h ELSE f[at[i - 1]]
      closes == {k \in 0 .. Cardinality(Nodes) : at[k + 1] = h}
  IN  IF closes = {} THEN <<h>>
      ELSE [i \in 1 .. (CHOOSE k \in closes : \A j \in closes : k <= j) |-> at[i]]

DlWalkStart(h) ==
  /\ DlIdle /\ h \in dlLive
  /\ dlWalk' = [head |-> h, pos |-> dl.next[h], n |-> dl.next[dl.next[h]], todo |-> Along(dl.next, h)]
  /\ UNCHANGED <<dl, dlLive>>

(* The body keeps its node, removes it or moves it to another list. *)
DlWalkOn ==
  /\ ~DlIdle /\ dlWalk.pos # dlWalk.head
  /\ \/ UNCHANGED <<dl, dlLive>>
     \/ DlDel(dlWalk.pos) \/ DlDelInit(dlWalk.pos)
     \/ \E h \in Heads \ {dlWalk.head} : DlMove(dlWalk.pos, h)
  /\ dlWalk' = [dlWalk EXCEPT !.pos = dlWalk.n, !.n = dl'.next[dlWalk.n], !.todo = Tail(@)]

DlWalkEnd ==
  /\ ~DlIdle /\ dlWalk.pos = dlWalk.head
  /\ dlWalk' = NoWalk
  /\ UNCHANGED <<dl, dlLive>>

DlNext ==
  \/ \E x \in Links : DlReset(x)
  \/ \E n \in Nodes, h \in Heads : DlAdd(n, h)
  \/ \E n \in Nodes : DlIdle /\ (DlDel(n) \/ DlDelInit(n)) /\ UNCHANGED dlWalk
  \/ \E n \in Nodes, h \in Heads : DlIdle /\ DlMove(n, h) /\ UNCHANGED dlWalk
  \/ \E s, h \in Heads, init \in BOOLEAN : DlSplice(s, h, init)
  \/ \E h \in Heads : DlWalkStart(h)
  \/ DlWalkOn \/ DlWalkEnd

DlSpec == DlInit /\ [][DlNext]_dlVars

(* --- properties -------------------------------------------------------- *)

DlTypeOK ==
  /\ dl \in [next : [Links -> Links], prev : [Links -> Links]]
  /\ dlLive \subseteq Links
  /\ dlWalk = NoWalk \/ dlWalk \in [head : Heads, pos : Links, n : Links, todo : Seq(Nodes)]

DlLinked ==
  \A x \in dlLive :
    /\ dl.next[x] \in dlLive /\ dl.prev[dl.next[x]] = x
    /\ dl.prev[x] \in dlLive /\ dl.next[dl.prev[x]] = x

DlWalkExact ==
  dlWalk # NoWalk =>
    dlWalk.pos = IF dlWalk.todo = <<>> THEN dlWalk.head ELSE Head(dlWalk.todo)

(* The links of live heads and nodes lead to live ones and undo each       *)
(* other, through insertions, removals, moves and splices that leave stale *)
(* links behind; and the loop that may remove or move its node is always   *)
(* at the first of the nodes it has not visited (dlist.h:17-147).          *)
DlExact == DlLinked /\ DlWalkExact

Abstract == INSTANCE Lists WITH
  lists <- [h \in Heads |-> IF h \in dlLive THEN Along(dl.next, h) ELSE <<>>]

(* Read from its heads the structure is a set of sequences that share no   *)
(* node, and every operation moves one node, or a whole list, to an end of *)
(* one and leaves the others alone; that front and tail are the ends they  *)
(* are called is not part of it (dlist.h:17-126).                          *)
DlImplementsLists == Abstract!Spec

====
