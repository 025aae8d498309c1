---- MODULE Patricia ----
(***************************************************************************)
(* structure/patricia.c: the ACL table, a Patricia tree of prefixes per    *)
(* address family, each prefix with a list of rules per protocol.  A tree  *)
(* is a function from paths (0 left, 1 right) to nodes; replacing a child  *)
(* pointer is grafting a tree.  A node that is not is_end has no prefix.   *)
(* A range is inserted by a loop of one action per block.                  *)
(***************************************************************************)
EXTENDS Prefixes, SequencesExt

CONSTANTS
  Rules, ProtoOf, PortLo, PortHi,   \* rule_t objects and their fields
  Protos, Ports,                    \* protocol slots (of proto_to_idx), ports
  Icmp,                             \* the slot that has no ports
  V6Bits,         \* the 64 of insert_ip_rules
  Nil,
  Cidrs, Hosts,   \* what acl_add_rule_string and insert_ip_rules are given
  PtAnyOrder,     \* FALSE: only insertions that leave a correct tree (Lost)
  MaxGrants       \* a bound on the grants in the tree when one is added or deleted

ASSUME PtAssumption ==
  /\ \A r \in Rules : ProtoOf[r] \in Protos /\ PortLo[r] \in Ports /\ PortHi[r] \in Ports
  /\ Icmp \in Protos /\ V6Bits \in 1 .. Width /\ PtAnyOrder \in BOOLEAN /\ MaxGrants \in Nat
  /\ Hosts \subseteq Addresses
  /\ \A c \in Cidrs : c.len \in 1 .. Width /\ c = Prefix(c.addr, c.len)

Afs == {"v4", "v6"}

VARIABLES
  ptAf,       \* the family in use; the two trees are independent
  pt,         \* the trees of patricia_table_t
  ptLoop,     \* a range insertion in progress
  ptGranted   \* history: [prefix, rule] added and not deleted

ptVars == <<ptAf, pt, ptLoop, ptGranted>>

Paths == Seq({0, 1})
NoTree == <<>>
NoLoop == [at |-> "idle"]

PtInit ==
  /\ ptAf \in Afs
  /\ pt = [af \in Afs |-> NoTree]
  /\ ptLoop = NoLoop
  /\ ptGranted = {}

(* --- trees --------------------------------------------------------------- *)

Under(t, p) == [q \in {SubSeq(r, Len(p) + 1, Len(r)) : r \in {r \in DOMAIN t : IsPrefix(p, r)}} |-> t[p \o q]]

Graft(t, p, sub) ==
  [q \in {r \in DOMAIN t : ~IsPrefix(p, r)} \cup {p \o r : r \in DOMAIN sub} |->
     IF IsPrefix(p, q) THEN sub[SubSeq(q, Len(p) + 1, Len(q))] ELSE t[q]]

(* A node with one subtree, on the given side. *)
Above1(node, side, sub) == Graft([q \in {<<>>} |-> node], <<side>>, sub)

NoRules == [i \in Protos |-> <<>>]
LeafNode(prefix, bit, rule) ==
  [bit |-> bit, prefix |-> prefix, rules |-> [NoRules EXCEPT ![ProtoOf[rule]] = <<rule>>]]
Fork(bit) == [bit |-> bit, prefix |-> Nil, rules |-> NoRules]

(* The path on which key leaves the tree; its nodes are the proper prefixes. *)
Exit(t, key) ==
  LET go[p \in Paths] == IF p \in DOMAIN t THEN go[Append(p, Bit(key, t[p].bit))] ELSE p
  IN  go[<<>>]

(* find_any_is_end: the first prefix node below p, the left side first.    *)
Ends(t, p) == {q \in DOMAIN t : IsPrefix(p, q) /\ t[q].prefix # Nil}
LeftOf(p, q) ==
  \/ IsPrefix(p, q)
  \/ \E i \in 1 .. Len(p) : i <= Len(q) /\ SubSeq(p, 1, i - 1) = SubSeq(q, 1, i - 1) /\ p[i] < q[i]
FirstEnd(t, p) == CHOOSE q \in Ends(t, p) : \A r \in Ends(t, p) : LeftOf(q, r)

(* find_first_diff_bit *)
DiffBit(key, len, c) ==
  LET shorter == IF len < c.len THEN len ELSE c.len
      differ == {i \in 0 .. shorter - 1 : Bit(key, i) # Bit(c.addr, i)}
  IN  IF differ = {} THEN shorter ELSE CHOOSE i \in differ : \A j \in differ : i <= j

(* --- patricia_insert ----------------------------------------------------- *)

SamePorts(r, s) == PortLo[r] = PortLo[s] /\ PortHi[r] = PortHi[s]
Duplicate(node, rule) == \E i \in DOMAIN node.rules[ProtoOf[rule]] : SamePorts(node.rules[ProtoOf[rule]][i], rule)

(* The rule goes in front of the node's list, and a node without prefix    *)
(* gets this one.  Whether a prefix it has is the same is not looked at.   *)
Attach(t, p, prefix, rule) ==
  IF Duplicate(t[p], rule) THEN t
  ELSE [t EXCEPT ![p].prefix = IF @ = Nil THEN prefix ELSE @,
                 ![p].rules[ProtoOf[rule]] = <<rule>> \o @]

Closest(t, key) ==
  LET node == Front(Exit(t, key))
  IN  IF t[node].prefix # Nil THEN node
      ELSE IF Ends(t, node) # {} THEN FirstEnd(t, node) ELSE FirstEnd(t, <<>>)

InsertBelow(t, key, len, rule) ==
  LET prefix == Prefix(key, len)
      exit == Exit(t, key)
      closest == Closest(t, key)
      c == t[closest].prefix
      diff == DiffBit(key, len, c)
      contains == diff >= len              \* the new prefix contains c
      bit == IF contains THEN len - 1 ELSE diff
      stops == {i \in 0 .. Len(exit) - 1 :
                  LET next == SubSeq(exit, 1, i + 1) IN next \in DOMAIN t => t[next].bit >= bit}
      depth == IF t[<<>>].bit >= bit THEN 0 ELSE CHOOSE i \in stops : \A j \in stops : i <= j
      child == SubSeq(exit, 1, depth + 1)
      HasChild(b) == child \in DOMAIN t /\ t[child].bit = b
      leaf == LeafNode(prefix, len - 1, rule)
      raised == LeafNode(prefix, bit, rule)
      side == Bit(c.addr, bit)
      b == Bit(key, diff)
      single == [q \in {<<>>} |-> leaf]
  IN  IF contains /\ diff >= c.len THEN Attach(t, closest, prefix, rule)
      ELSE IF contains /\ t[<<>>].bit = bit THEN Attach(t, <<>>, prefix, rule)
      ELSE IF contains /\ HasChild(bit) THEN Attach(t, child, prefix, rule)
      ELSE IF t[<<>>].bit > bit THEN Above1(raised, side, t)
      ELSE IF contains THEN Graft(t, child, Above1(raised, side, Under(t, child)))
      ELSE IF HasChild(diff) THEN Graft(t, Append(child, b), single)
      ELSE Graft(t, child, Graft(Above1(Fork(diff), 1 - b, Under(t, child)), <<b>>, single))

Insert(t, key, len, rule) ==
  IF t = NoTree THEN [q \in {<<>>} |-> LeafNode(Prefix(key, len), len - 1, rule)]
  ELSE InsertBelow(t, key, len, rule)

(* --- searching ----------------------------------------------------------- *)

(* The nodes that key meets, in order. *)
Met(t, key) == LET exit == Exit(t, key) IN [i \in 1 .. Len(exit) |-> SubSeq(exit, 1, i - 1)]
Matching(t, a) == SelectSeq(Met(t, a), LAMBDA p : t[p].prefix # Nil /\ Covers(t[p].prefix, a))

(* patricia_search, and the target of patricia_delete: a walk that only    *)
(* meets bits below len.                                                   *)
Short(t, key, len) ==
  LET met == Met(t, key)
      out == {i \in DOMAIN met : t[met[i]].bit >= len}
  IN  IF out = {} THEN met ELSE SubSeq(met, 1, (CHOOSE i \in out : \A j \in out : i <= j) - 1)
Holders(t, key, len) == {p \in ToSet(Short(t, key, len)) : t[p].prefix = Prefix(key, len)}
Search(t, key, len) == CHOOSE p \in Holders(t, key, len) : \A q \in Holders(t, key, len) : Len(p) <= Len(q)
Target(t, key, len) == CHOOSE p \in Holders(t, key, len) : \A q \in Holders(t, key, len) : Len(q) <= Len(p)

Admits(rule, proto, port) == proto = Icmp \/ port \in PortLo[rule] .. PortHi[rule]
FirstOnly(rules, proto, port) ==   \* the rest of the list is not tried
  IF rules # <<>> /\ Admits(rules[1], proto, port) THEN rules[1] ELSE Nil
FirstAdmitting(rules, proto, port) ==
  LET fit == SelectSeq(rules, LAMBDA r : Admits(r, proto, port)) IN IF fit = <<>> THEN Nil ELSE fit[1]

(* acl_lookup: the first rule that fits on the way down. *)
OnTheWay(t, nodes, proto) == FlattenSeq([i \in DOMAIN nodes |-> t[nodes[i]].rules[proto]])
AclLookup(t, a, proto, port) == FirstAdmitting(OnTheWay(t, Matching(t, a), proto), proto, port)

(* acl_lookup_lpm: only the rules of the last matching node count. *)
AclLookupLpm(t, nodes, proto, port) ==
  IF nodes = <<>> THEN Nil ELSE FirstAdmitting(t[nodes[Len(nodes)]].rules[proto], proto, port)

(* --- patricia_delete ------------------------------------------------------ *)

Children(t, p) == {s \in {0, 1} : Append(p, s) \in DOMAIN t}

(* A node with at most one child gives its place to it. *)
Collapse(t, p) ==
  Graft(t, p, IF Children(t, p) = {} THEN NoTree ELSE Under(t, Append(p, CHOOSE s \in Children(t, p) : TRUE)))

(* The nodes above are left alone. *)
CollapseOne(t, p) == IF Cardinality(Children(t, p)) < 2 THEN Collapse(t, p) ELSE t

(* Then the nodes above it, until one that is a prefix or still forks.     *)
CollapseUp(t, p) ==
  LET up[i \in 0 .. Len(p)] ==
        IF i = 0 THEN [tree |-> IF Cardinality(Children(t, p)) < 2 THEN Collapse(t, p) ELSE t, on |-> TRUE]
        ELSE LET u == up[i - 1].tree
                 q == SubSeq(p, 1, Len(p) - i)
             IN  IF up[i - 1].on /\ u[q].prefix = Nil /\ Cardinality(Children(u, q)) < 2
                 THEN [tree |-> Collapse(u, q), on |-> TRUE]
                 ELSE [tree |-> u, on |-> FALSE]
  IN  up[Len(p)].tree

Delete(t, p, rule) ==
  LET t1 == [t EXCEPT ![p].rules[ProtoOf[rule]] = Remove(@, rule)]
  IN  IF t1[p].rules # NoRules THEN t1 ELSE CollapseUp([t1 EXCEPT ![p].prefix = Nil], p)

(* --- operations ----------------------------------------------------------- *)

Grant(prefix, rule) == [prefix |-> prefix, rule |-> rule]
GrantedHere(prefix) == {g.rule : g \in {g \in ptGranted : g.prefix = prefix}}
WithGrant(prefix, rule) ==
  IF \E r \in GrantedHere(prefix) : ProtoOf[r] = ProtoOf[rule] /\ SamePorts(r, rule) THEN ptGranted
  ELSE ptGranted \cup {Grant(prefix, rule)}

(* Insertions that patricia_insert gets wrong: of a prefix that contains    *)
(* one in the tree (lines 195-258 may attach its rule to another prefix),  *)
(* and of one in the tree that the descent does not come to (its node was  *)
(* put above the root, lines 264-273): it gets a second node.              *)
Lost(prefix) ==
  \E g \in ptGranted :
    \/ g.prefix.len > prefix.len /\ Covers(prefix, g.prefix.addr)
    \/ g.prefix = prefix /\ pt[ptAf][Closest(pt[ptAf], prefix.addr)].prefix # prefix
PtCalls == ptLoop = NoLoop /\ Cardinality(ptGranted) < MaxGrants

InsertKey(key, len, rule) ==
  /\ Lost(Prefix(key, len)) => PtAnyOrder
  /\ pt' = [pt EXCEPT ![ptAf] = Insert(@, key, len, rule)]
  /\ ptGranted' = WithGrant(Prefix(key, len), rule)

(* acl_add_rule_string: the text's host bits are cleared; /0 is refused.   *)
PtAdd(cidr, rule) ==
  /\ PtCalls
  /\ InsertKey(cidr.addr, cidr.len, rule)
  /\ UNCHANGED <<ptAf, ptLoop>>

(* insert_ip_rules for IPv6: whatever the mask, V6Bits bits of the address.*)
PtAddV6(a, rule) ==
  /\ PtCalls /\ ptAf = "v6"
  /\ InsertKey(a, V6Bits, rule)
  /\ UNCHANGED <<ptAf, ptLoop>>

PtRange(s, e, rule) ==
  /\ PtCalls /\ ptGranted = {} /\ s <= e
  /\ ptLoop' = [at |-> "loop", from |-> s, s |-> s, e |-> e, rule |-> rule, done |-> {}]
  /\ UNCHANGED <<ptAf, pt, ptGranted>>

(* One block; an insertion fails for bit length 0 or want of memory.       *)
PtRangeStep ==
  LET block == IF ptAf = "v4" THEN Block4(ptLoop.s, ptLoop.e) ELSE Block6(ptLoop.s, ptLoop.e)
  IN  /\ ptLoop.at = "loop"
      /\ \/ /\ block.len > 0
            /\ InsertKey(ptLoop.s, block.len, ptLoop.rule)
            /\ ptLoop' = [ptLoop EXCEPT !.at = IF block.last THEN "ok" ELSE "loop",
                            !.s = IF block.last THEN @ ELSE block.next,
                            !.done = @ \cup {Prefix(ptLoop.s, block.len)}]
         \/ ptLoop' = [ptLoop EXCEPT !.at = "failed"] /\ UNCHANGED <<pt, ptGranted>>
      /\ UNCHANGED ptAf

PtRangeReturn ==
  /\ ptLoop.at \in {"ok", "failed"}
  /\ ptLoop' = NoLoop
  /\ UNCHANGED <<ptAf, pt, ptGranted>>

PtDelete(prefix, rule) ==
  LET t == pt[ptAf]
      a == prefix.addr
      len == prefix.len
  IN  /\ ptLoop = NoLoop /\ Cardinality(ptGranted) <= MaxGrants
      /\ Holders(t, a, len) # {}
      /\ rule \in ToSet(t[Target(t, a, len)].rules[ProtoOf[rule]])
      /\ pt' = [pt EXCEPT ![ptAf] = Delete(t, Target(t, a, len), rule)]
      /\ ptGranted' = ptGranted \ {Grant(prefix, rule)}
      /\ UNCHANGED <<ptAf, ptLoop>>

(* free_g_ip_table *)
PtDestroy ==
  /\ ptLoop = NoLoop
  /\ pt' = [af \in Afs |-> NoTree]
  /\ ptGranted' = {}
  /\ UNCHANGED <<ptAf, ptLoop>>

PtNext ==
  \/ \E rule \in Rules :
       \/ \E cidr \in Cidrs : PtAdd(cidr, rule)
       \/ \E g \in ptGranted : PtDelete(g.prefix, rule)
       \/ \E a \in Hosts : PtAddV6(a, rule)
       \/ \E s, e \in Addresses : PtRange(s, e, rule)
  \/ PtRangeStep \/ PtRangeReturn \/ PtDestroy

PtSpec == PtInit /\ [][PtNext]_ptVars

(* --- properties ------------------------------------------------------------ *)

PtTypeOK ==
  /\ ptAf \in Afs
  /\ \A af \in Afs : \A p \in DOMAIN pt[af] :
       /\ p \in Paths /\ pt[af][p].bit \in 0 .. Width - 1
       /\ Len(p) > 0 => Front(p) \in DOMAIN pt[af]
  /\ ptLoop.at \in {"idle", "loop", "ok", "failed"}
  /\ \A g \in ptGranted : g.prefix.addr \in Addresses /\ g.prefix.len \in 1 .. Width /\ g.rule \in Rules

(* Every prefix granted is found again and its node holds exactly its      *)
(* rules, each once; the tree has no other prefix, no prefix twice, no     *)
(* node that leads nowhere, and bits that never decrease downwards - on all *)
(* paths of insertion and the collapses of deletion (patricia.c:143-319,   *)
(* 350-448).                                                               *)
PtTreeExact ==
  LET t == pt[ptAf]
  IN  /\ \A g \in ptGranted :
           /\ Holders(t, g.prefix.addr, g.prefix.len) # {}
           /\ LET rules == t[Search(t, g.prefix.addr, g.prefix.len)].rules
              IN  /\ {r \in Rules : \E i \in Protos : r \in ToSet(rules[i])} = GrantedHere(g.prefix)
                  /\ \A i \in Protos : IsInjective(rules[i])
      /\ Cardinality(Ends(t, <<>>)) = Cardinality({g.prefix : g \in ptGranted})
      /\ \A p \in DOMAIN t :
           /\ Ends(t, p) # {}
           /\ \A s \in Children(t, p) : t[Append(p, s)].bit >= t[p].bit

Covering(a) == {g \in ptGranted : Covers(g.prefix, a)}
Fitting(covering, proto, port) ==
  {g \in covering : ProtoOf[g.rule] = proto /\ Admits(g.rule, proto, port)}

(* A lookup finds a rule exactly if some prefix of the address was granted *)
(* one for the protocol and port; the longest-match lookup finds one       *)
(* exactly if the longest prefix with any rule has such a rule             *)
(* (patricia.c:450-525).                                                   *)
PtLookupExact ==
  \A a \in Addresses :
    LET t == pt[ptAf]
        nodes == Matching(t, a)
        covering == Covering(a)
        longest == {g \in covering : \A h \in covering : h.prefix.len <= g.prefix.len}
    IN  \A proto \in Protos : LET way == OnTheWay(t, nodes, proto) IN \A port \in Ports :
          LET found == FirstAdmitting(way, proto, port)
              lpm == AclLookupLpm(t, nodes, proto, port)
              fit == Fitting(covering, proto, port)
          IN  /\ IF fit = {} THEN found = Nil ELSE found \in {g.rule : g \in fit}
              /\ IF fit \cap longest = {} THEN lpm = Nil ELSE lpm \in {g.rule : g \in fit \cap longest}

WholeSpace(l) == l.from = 0 /\ l.e = Pow2[Width] - 1

(* The blocks inserted for a range so far are disjoint, aligned and cover  *)
(* exactly the addresses before the one the loop is at, and all of the     *)
(* range when it returns 0, up to both ends of the address space.  The     *)
(* whole space is refused for IPv4; for IPv6 it is WholeSpaceRefused that  *)
(* says what has to come of it (patricia.c:609-762).                       *)
RangesCut ==
  ptLoop # NoLoop =>
    LET upto == IF ptLoop.at = "ok" THEN ptLoop.e ELSE ptLoop.s - 1
    IN  /\ \A p, q \in ptLoop.done : p # q => AddressesOf(p) \cap AddressesOf(q) = {}
        /\ ptLoop.at = "ok" /\ WholeSpace(ptLoop) => ptAf = "v6"
        /\ \/ UNION {AddressesOf(p) : p \in ptLoop.done} = ptLoop.from .. upto
           \/ ptLoop.at = "ok" /\ WholeSpace(ptLoop)

(* "From :: to ffff:...:ffff the span wraps to zero ... -1 is returned"     *)
(* (patricia.h:283-285): no insertion of the whole IPv6 space returns 0.   *)
(* The code (patricia.c:672-761) has no such test: the size of the block   *)
(* wraps to zero, :: alone is inserted, and 0 is returned.                 *)
WholeSpaceRefused ==
  ptLoop # NoLoop /\ ptAf = "v6" /\ WholeSpace(ptLoop) => ptLoop.at # "ok"

====
