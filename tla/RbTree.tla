---- MODULE RbTree ----
(***************************************************************************)
(* structure/rbtree.h: a red-black tree of nodes with parent pointers,     *)
(* embedded in the caller's entries.  The mirrored halves of the code are  *)
(* one operator with a direction.  An insertion or erasure links the nodes *)
(* in one action and then repairs the colours in a loop, one action per    *)
(* iteration; rbFix is the loop's state.                                   *)
(***************************************************************************)
EXTENDS Entries

(* FALSE: no erasure that leaves parent at the erased node.                *)
CONSTANT RbAnyErase

ASSUME RbAssumption == RbAnyErase \in BOOLEAN

VARIABLES
  rb,       \* root->root and the fields of every entry's node
  rbFix,    \* the repair in progress
  rbIn,     \* history: the entries inserted and not erased
  rbWalk    \* rbtree_for_each_entry_safe: the current node, the entries to come

rbVars == <<rb, rbFix, rbIn, rbWalk>>

Dirs == {"left", "right"}
Opp(d) == IF d = "left" THEN "right" ELSE "left"
RbNodes == Entries \cup {Null}
RbIdle == [op |-> "idle", node |-> Null, parent |-> Null, gone |-> Null]

RbInit ==
  /\ rb = [root |-> Null, parent |-> [n \in Entries |-> Null],
           child |-> [d \in Dirs |-> [n \in Entries |-> Null]],
           color |-> [n \in Entries |-> "red"]]
  /\ rbFix = RbIdle
  /\ rbIn = {}
  /\ rbWalk = [at |-> Null, todo |-> {}]

Black(t, n) == n # Null => t.color[n] = "black"
Paint(t, n, c) == [t EXCEPT !.color[n] = c]
WithChild(t, n, d, c) == [t EXCEPT !.child[d][n] = c]
Adopt(t, n, p) == IF n = Null THEN t ELSE [t EXCEPT !.parent[n] = p]

(* The link to old, in p or in the root, now leads to new.  The code looks *)
(* at side d and takes the other one if old is not there.                  *)
Relink(t, p, old, new, d) ==
  IF p = Null THEN [t EXCEPT !.root = new]
  ELSE WithChild(t, p, IF t.child[d][p] = old THEN d ELSE Opp(d), new)

(* up, a child of n, takes the place of n and n is its child on side d. *)
RbRaise(t, n, up, d) ==
  LET p == t.parent[n]
  IN  Adopt(WithChild(Relink(Adopt(t, up, p), p, n, up, d), up, d, n), n, up)

(* The inner subtree does not learn of its new parent. *)
RbRotateOrphan(t, n, d) ==
  LET up == t.child[Opp(d)][n]
  IN  RbRaise(WithChild(t, n, Opp(d), t.child[d][up]), n, up, d)

(* up gives its inner subtree to n first.  The mirrored rotations.         *)
RbRotate(t, n, d) ==
  LET up == t.child[Opp(d)][n]
      inner == t.child[d][up]
  IN  RbRaise(Adopt(WithChild(t, n, Opp(d), inner), inner, n), n, up, d)

(* The caller frees an entry that is out of the tree. *)
RbFreed(t, n) ==
  [t EXCEPT !.parent[n] = Null, !.child["left"][n] = Null,
            !.child["right"][n] = Null, !.color[n] = "red"]

(* --- walks ------------------------------------------------------------- *)

(* The last node from n in direction d. *)
RbEnd(n, d) ==
  LET far[m \in Entries] == IF rb.child[d][m] = Null THEN m ELSE far[rb.child[d][m]]
  IN  IF n = Null THEN Null ELSE far[n]

(* One parent up and no further. *)
RbStepUp(n, d) == IF rb.child[d][n] # Null THEN RbEnd(rb.child[d][n], Opp(d)) ELSE rb.parent[n]

(* rbtree_next for d = "right", rbtree_prev for d = "left". *)
RbStep(n, d) ==
  LET climb[m \in Entries] ==
        LET p == rb.parent[m] IN IF p # Null /\ m = rb.child[d][p] THEN climb[p] ELSE p
  IN  IF rb.child[d][n] # Null THEN RbEnd(rb.child[d][n], Opp(d)) ELSE climb[n]

(* Where the search for k ends: the node with that key, or the free side.  *)
RbPlace(k) ==
  LET down[n \in Entries] ==
        LET d == IF k < KeyOf[n] THEN "left" ELSE "right"
        IN  IF k = KeyOf[n] THEN [at |-> n, side |-> "found"]
            ELSE IF rb.child[d][n] = Null THEN [at |-> n, side |-> d]
                 ELSE down[rb.child[d][n]]
  IN  IF rb.root = Null THEN [at |-> Null, side |-> "left"] ELSE down[rb.root]

RbFind(k) == IF RbPlace(k).side = "found" THEN RbPlace(k).at ELSE Null

(* --- insertion --------------------------------------------------------- *)

RbFree == rbFix.op = "idle" /\ rbWalk.at = Null

RbInsert(e) ==
  LET place == RbPlace(KeyOf[e])
      p == place.at
      t == Adopt(rb, e, p)
  IN  /\ RbFree /\ e \notin rbIn /\ place.side # "found"
      /\ rb' = IF p = Null THEN [t EXCEPT !.root = e]
               ELSE WithChild(t, p, place.side, e)
      /\ rbFix' = [RbIdle EXCEPT !.op = "insert", !.node = e]
      /\ rbIn' = rbIn \cup {e}
      /\ UNCHANGED rbWalk

(* An entry whose key is taken is refused. *)
RbInsertTaken(e) ==
  /\ RbFree /\ e \notin rbIn /\ RbPlace(KeyOf[e]).side = "found"
  /\ UNCHANGED rbVars

RedParent ==
  /\ rbFix.node # Null
  /\ ~Black(rb, rb.parent[rbFix.node])

RbInsertStep ==
  /\ rbFix.op = "insert" /\ RedParent
  /\ LET n == rbFix.node
         p == rb.parent[n]
         g == rb.parent[p]
         d == IF p = rb.child["left"][g] THEN "left" ELSE "right"
         uncle == rb.child[Opp(d)][g]
         inner == n = rb.child[Opp(d)][p]
         t == IF inner THEN RbRotate(rb, p, d) ELSE rb
         top == t.parent[IF inner THEN p ELSE n]
     IN  IF ~Black(rb, uncle)
         THEN /\ rb' = Paint(Paint(Paint(rb, p, "black"), uncle, "black"), g, "red")
              /\ rbFix' = [rbFix EXCEPT !.node = g]
         ELSE /\ rb' = RbRotate(Paint(Paint(t, top, "black"), g, "red"), g, Opp(d))
              /\ rbFix' = [rbFix EXCEPT !.node = Null]
  /\ UNCHANGED <<rbIn, rbWalk>>

RbInsertEnd ==
  /\ rbFix.op = "insert" /\ ~RedParent
  /\ rb' = Paint(rb, rb.root, "black")
  /\ rbFix' = RbIdle
  /\ UNCHANGED <<rbIn, rbWalk>>

(* --- erasure ----------------------------------------------------------- *)

OnlyChild(t, n) == IF t.child["left"][n] # Null THEN t.child["left"][n] ELSE t.child["right"][n]

(* A node with at most one child gives its place to it. *)
Unlink(t, n) ==
  LET c == OnlyChild(t, n) IN Relink(Adopt(t, c, t.parent[n]), t.parent[n], n, c, "left")

(* s takes over the place, the children and the colour of old. *)
Transplant(t, old, s) ==
  LET l == t.child["left"][old]
      r == t.child["right"][old]
      at == WithChild(WithChild(Adopt(t, s, t.parent[old]), s, "left", l), s, "right", r)
      moved == Paint(at, s, t.color[old])
  IN  Adopt(Adopt(Relink(moved, t.parent[old], old, s, "left"), l, s), r, s)

TwoChildren(e) == \A d \in Dirs : rb.child[d][e] # Null
Successor(e) == RbEnd(rb.child["right"][e], "left")

(* The repair would start at a parent that is the erased node itself. *)
ParentGone(e, s) ==
  s # e /\ rb.parent[s] = e /\ Black(rb, s) /\ rb.child["right"][s] = Null

RbEraseLinks(e) ==
  LET s == IF TwoChildren(e) THEN Successor(e) ELSE e
      t == IF s = e THEN Unlink(rb, e) ELSE Transplant(Unlink(rb, s), e, s)
  IN  /\ e \in rbIn
      /\ ParentGone(e, s) => RbAnyErase
      /\ rb' = IF Black(rb, s) THEN t ELSE RbFreed(t, e)
      /\ rbFix' = IF Black(rb, s)
                  THEN [op |-> "erase", node |-> OnlyChild(rb, s), parent |-> rb.parent[s], gone |-> e]
                  ELSE RbIdle
      /\ rbIn' = rbIn \ {e}

RbErase(e) == RbFree /\ RbEraseLinks(e) /\ UNCHANGED rbWalk

(* The paths through the node lack a black node. *)
Deficit == rbFix.node # rb.root /\ Black(rb, rbFix.node)

(* The cases of an iteration whose deficit is on side d of p.  Case 1: a    *)
(* red sibling is rotated above p.                                         *)
BlackSibling(t, p, d) ==
  LET s == t.child[Opp(d)][p]
  IN  IF Black(t, s) THEN t ELSE RbRotate(Paint(Paint(t, s, "black"), p, "red"), p, d)

(* Case 3: of a sibling with a red child the far one becomes red. *)
RedFarChild(t, p, d) ==
  LET s == t.child[Opp(d)][p]
  IN  IF Black(t, t.child[Opp(d)][s])
      THEN RbRotate(Paint(Paint(t, t.child[d][s], "black"), s, "red"), s, Opp(d)) ELSE t

(* Case 4: the sibling takes p's place and colour; its far child is red. *)
Rebalanced(t, p, d) ==
  LET s == t.child[Opp(d)][p]
  IN  RbRotate(Paint(Paint(Paint(t, s, t.color[p]), p, "black"), t.child[Opp(d)][s], "black"), p, d)

(* One iteration of the loop in rbtree_erase_fixup.  A NULL parent or      *)
(* sibling is dereferenced.                                                *)
RbEraseStep ==
  /\ rbFix.op = "erase" /\ Deficit
  /\ LET p == rbFix.parent
         d == IF rbFix.node = rb.child["left"][p] THEN "left" ELSE "right"
         t1 == BlackSibling(rb, p, d)
         s1 == t1.child[Opp(d)][p]
         t4 == Rebalanced(RedFarChild(t1, p, d), p, d)
     IN  IF p = Null \/ rb.child[Opp(d)][p] = Null
         THEN rb' = rb /\ rbFix' = [rbFix EXCEPT !.op = "crashed"]
         ELSE IF \A c \in Dirs : Black(t1, t1.child[c][s1])
              THEN /\ rb' = Paint(t1, s1, "red")
                   /\ rbFix' = [rbFix EXCEPT !.node = p, !.parent = t1.parent[p]]
              ELSE /\ rb' = t4
                   /\ rbFix' = [rbFix EXCEPT !.node = t4.root, !.parent = Null]
  /\ UNCHANGED <<rbIn, rbWalk>>

RbEraseEnd ==
  /\ rbFix.op = "erase" /\ ~Deficit
  /\ rb' = RbFreed(IF rbFix.node = Null THEN rb ELSE Paint(rb, rbFix.node, "black"), rbFix.gone)
  /\ rbFix' = RbIdle
  /\ UNCHANGED <<rbIn, rbWalk>>

(* --- replacement and the loop that may erase --------------------------- *)

(* The caller must choose a key that does not change the order. *)
RbReplace(e, f) ==
  /\ RbFree /\ e \in rbIn /\ f \notin rbIn
  /\ \A n \in rbIn \ {e} : KeyOf[n] # KeyOf[f] /\ (KeyOf[n] < KeyOf[e] <=> KeyOf[n] < KeyOf[f])
  /\ rb' = RbFreed(Transplant(rb, e, f), e)
  /\ rbIn' = (rbIn \ {e}) \cup {f}
  /\ UNCHANGED <<rbFix, rbWalk>>

RbWalkStart ==
  /\ RbFree /\ rb.root # Null
  /\ rbWalk' = [at |-> RbEnd(rb.root, "left"), todo |-> rbIn]
  /\ UNCHANGED <<rb, rbFix, rbIn>>

(* The body of the loop erases its node or leaves it; the next node was    *)
(* taken before.                                                           *)
RbWalkOn(erase) ==
  /\ rbFix.op = "idle" /\ rbWalk.at # Null
  /\ rbWalk' = [at |-> RbStep(rbWalk.at, "right"), todo |-> rbWalk.todo \ {rbWalk.at}]
  /\ IF erase THEN RbEraseLinks(rbWalk.at) ELSE UNCHANGED <<rb, rbFix, rbIn>>

RbNext ==
  \/ \E e \in Entries : RbInsert(e) \/ RbInsertTaken(e) \/ RbErase(e)
  \/ RbInsertStep \/ RbInsertEnd \/ RbEraseStep \/ RbEraseEnd
  \/ \E e, f \in Entries : RbReplace(e, f)
  \/ RbWalkStart
  \/ \E erase \in BOOLEAN : RbWalkOn(erase)

RbSpec == RbInit /\ [][RbNext]_rbVars

(* --- properties -------------------------------------------------------- *)

RbTypeOK ==
  /\ rb \in [root : RbNodes, parent : [Entries -> RbNodes],
             child : [Dirs -> [Entries -> RbNodes]], color : [Entries -> {"red", "black"}]]
  /\ rbFix \in [op : {"idle", "insert", "erase", "crashed"}, node : RbNodes,
                parent : RbNodes, gone : RbNodes]
  /\ rbIn \subseteq Entries
  /\ rbWalk \in [at : RbNodes, todo : SUBSET Entries]

(* n and the nodes above it, without following a cycle for ever. *)
Above(n) ==
  LET up[i \in 0 .. Cardinality(rbIn)] ==
        IF i = 0 THEN {n} ELSE up[i - 1] \cup {rb.parent[m] : m \in up[i - 1] \ {Null}}
  IN  up[Cardinality(rbIn)] \ {Null}

LinksAgree ==
  /\ rb.root \in rbIn \cup {Null} /\ (rb.root = Null <=> rbIn = {})
  /\ rb.root # Null => rb.parent[rb.root] = Null
  /\ \A n \in rbIn :
       /\ rb.root \in Above(n)
       /\ \A d \in Dirs : rb.child[d][n] # Null => rb.child[d][n] \in rbIn /\ rb.parent[rb.child[d][n]] = n
       /\ n # rb.root => rb.parent[n] \in rbIn /\ \E d \in Dirs : rb.child[d][rb.parent[n]] = n

SearchOrder ==
  \A n \in rbIn : \A m \in Above(n) \ {n} :
    (KeyOf[n] < KeyOf[m]) <=> rb.child["left"][m] \in Above(n)

ColourRules ==
  /\ Black(rb, rb.root)
  /\ \A n \in rbIn \ {rb.root} : Black(rb, n) \/ Black(rb, rb.parent[n])
  /\ LET tips == {n \in rbIn : ~TwoChildren(n)}
     IN  Cardinality({Cardinality({m \in Above(n) : Black(rb, m)}) : n \in tips}) <= 1

(* Between two calls the links of the nodes agree with each other and form *)
(* one tree that holds exactly the entries inserted and not erased, in     *)
(* order, with no red node below a red one and equally many black nodes on *)
(* every path; and no call dereferences NULL on the way (insert and erase  *)
(* with their fixups, rbtree.h:155-437).                                   *)
RbShape ==
  /\ rbFix.op # "crashed"
  /\ rbFix.op = "idle" => LinksAgree /\ SearchOrder /\ ColourRules

(* first, last, next, prev and find are those of the sorted set of entries *)
(* (rbtree.h:69-152), and the loop that may erase its node visits every    *)
(* entry once and in order (rbtree.h:485-501).                             *)
RbWalks ==
  rbFix.op = "idle" =>
    /\ RbEnd(rb.root, "left") = Least(rbIn) /\ RbEnd(rb.root, "right") = Greatest(rbIn)
    /\ \A n \in rbIn :
         /\ RbStep(n, "right") = Least({m \in rbIn : KeyOf[m] > KeyOf[n]})
         /\ RbStep(n, "left") = Greatest({m \in rbIn : KeyOf[m] < KeyOf[n]})
    /\ \A e \in Entries : RbFind(KeyOf[e]) = Least({n \in rbIn : KeyOf[n] = KeyOf[e]})
    /\ rbWalk.at = Least(rbWalk.todo)

====
