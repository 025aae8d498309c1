---- MODULE MCSequential ----
(***************************************************************************)
(* Small instances of the structures that stand by themselves: those that  *)
(* a single thread (for Mbuf, independent owners) uses, and the ring of    *)
(* one writer and one reader.  A behaviour exercises one of them; the      *)
(* others stay as they were created.                                       *)
(***************************************************************************)
EXTENDS RbTree, SkipList, DList, IrbRing, StepTable, Mbuf, CheckIp, SpscRing

CONSTANT Parts   \* the structures to exercise

VARIABLE part

SeqInit ==
  /\ part \in Parts
  /\ RbInit /\ SlInit /\ IrbInit
  /\ IF part = "dlist" THEN DlInit ELSE DlInit /\ dlLive = Heads
  /\ IF part = "steps" THEN StepInit ELSE StepInit /\ limit = <<StepMax>>
  /\ IF part = "mbuf" THEN MbInit ELSE MbInit /\ mbThreads = FALSE
  /\ IF part = "acl" THEN PtInit ELSE PtInit /\ ptAf = "v4"
  /\ Init

SeqNext ==
  /\ \/ part = "rbtree" /\ RbNext /\ UNCHANGED <<slVars, dlVars, irbVars, stepVars, mbVars, ptVars, vars>>
     \/ part = "skiplist" /\ SlNext /\ UNCHANGED <<rbVars, dlVars, irbVars, stepVars, mbVars, ptVars, vars>>
     \/ part = "dlist" /\ DlNext /\ UNCHANGED <<rbVars, slVars, irbVars, stepVars, mbVars, ptVars, vars>>
     \/ part = "ring" /\ IrbNext /\ UNCHANGED <<rbVars, slVars, dlVars, stepVars, mbVars, ptVars, vars>>
     \/ part = "steps" /\ StepNext /\ UNCHANGED <<rbVars, slVars, dlVars, irbVars, mbVars, ptVars, vars>>
     \/ part = "mbuf" /\ MbNext /\ UNCHANGED <<rbVars, slVars, dlVars, irbVars, stepVars, ptVars, vars>>
     \/ part = "acl" /\ PtNext /\ UNCHANGED <<rbVars, slVars, dlVars, irbVars, stepVars, mbVars, vars>>
     \/ part = "spsc" /\ Next /\ UNCHANGED <<rbVars, slVars, dlVars, irbVars, stepVars, mbVars, ptVars>>
  /\ UNCHANGED part

SeqSpec ==
  SeqInit /\ [][SeqNext]_<<part, rbVars, slVars, dlVars, irbVars, stepVars, mbVars, ptVars, vars>>

(* Two entries share a key. *)
Keys == [e \in Entries |-> IF e = 8 THEN 3 ELSE e]

Tables ==
  {t \in UNION {[1 .. n -> 0 .. StepMax] : n \in 1 .. 5} : Ascending(t) /\ t[Len(t)] = StepMax}

Text == {<<"x", "y">>}

RuleProto == [r \in Rules |-> IF r = "ping" THEN "icmp" ELSE "tcp"]
RuleLo == [r \in Rules |-> IF r = "high" THEN 2 ELSE 1]
RuleHi == [r \in Rules |-> IF r = "high" THEN 3 ELSE 2]

(* Nested prefixes and siblings of 4-bit addresses. *)
CidrSet == {Prefix(0, 2), Prefix(8, 1), Prefix(8, 2), Prefix(14, 4)}

Hop == [kind |-> "hop", size |-> 2, later |-> FALSE]
Auth == [kind |-> "auth", size |-> 3, later |-> FALSE]
Fragment(later) == [kind |-> "fragment", size |-> 2, later |-> later]

PacketSet ==
  [version : {4}, len : {2, 4, 5, 6, 7}, dst : {9}, port : {1}, ihl : {5, 6},
   proto : {"tcp", "udp", "icmp", "unknown", "gre"}, exts : {<<>>}]
  \cup [version : {6}, len : {9, 10, 12, 13, 15, 16}, dst : {9}, port : {2}, ihl : {0},
        proto : {"tcp", "nonext", "esp"},
        exts : {<<>>, <<Hop>>, <<Hop, Auth>>, <<Auth, Fragment(FALSE)>>, <<Fragment(TRUE)>>}]
  \cup [version : {5}, len : {10}, dst : {9}, port : {1}, ihl : {5}, proto : {"tcp"}, exts : {<<>>}]

(* The fields of every structure hold what their C types can: nodes or     *)
(* NULL, indices within their arrays, levels and counts within their       *)
(* bounds - the node fields of rbtree.h, skiplist.h and dlist.h, the       *)
(* indices of ringbuffer.c and of the searches of tiered_table.c, the      *)
(* counts of packet.c, the bits and children of patricia.c.                *)
SeqTypeOK ==
  RbTypeOK /\ SlTypeOK /\ DlTypeOK /\ IrbTypeOK /\ StepTypeOK /\ MbTypeOK /\ PtTypeOK

====
