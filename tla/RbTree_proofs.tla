---- MODULE RbTree_proofs ----
EXTENDS RbTree, Places_proofs, FiniteSetTheorems

(***************************************************************************)
(* The shape and the walks of the red-black tree.  RbTreeOf(t, I, S) says  *)
(* that the links of t form one search tree of the entries in I, S[n]      *)
(* being the entries from n down; Heights(t, I, H, q, D) that H counts the *)
(* black nodes below each node, with one missing below q on side D.  A     *)
(* tree is Sound between two calls, Growing while an insertion repairs the *)
(* colours and Lacking while an erasure does.  Each rewrite of the links   *)
(* is first described field by field, then shown to keep the tree, then    *)
(* the colours, and at the end each action is put together from these.     *)
(***************************************************************************)

(* m is on side d of n in the order of the keys. *)
Side(d, m, n) == IF d = "left" THEN KeyOf[m] < KeyOf[n] ELSE KeyOf[n] < KeyOf[m]

Trees == [root : RbNodes, parent : [Entries -> RbNodes],
          child : [Dirs -> [Entries -> RbNodes]], color : [Entries -> {"red", "black"}]]

(* S[n] is the set of the entries from n down. *)
Under(S, c) == IF c = Null THEN {} ELSE S[c]

RbNode(t, I, S, n) ==
  /\ S[n] = {n} \cup Under(S, t.child["left"][n]) \cup Under(S, t.child["right"][n])
  /\ S[n] \subseteq I
  /\ \A d \in Dirs : t.child[d][n] # Null =>
       /\ t.child[d][n] \in I /\ t.parent[t.child[d][n]] = n
       /\ \A m \in S[t.child[d][n]] : Side(d, m, n)
  /\ n # t.root => t.parent[n] \in I /\ \E d \in Dirs : t.child[d][t.parent[n]] = n

RbTreeOf(t, I, S) ==
  /\ t \in Trees /\ I \subseteq Entries /\ IsFiniteSet(I) /\ S \in [Entries -> SUBSET Entries]
  /\ \A m, n \in I : KeyOf[m] = KeyOf[n] => m = n
  /\ t.root = Null => I = {}
  /\ t.root # Null => t.root \in I /\ S[t.root] = I /\ t.parent[t.root] = Null
  /\ \A n \in I : RbNode(t, I, S, n)

LEMMA DirFacts ==
  \A d \in Dirs : /\ Opp(d) \in Dirs /\ Opp(d) # d /\ Opp(Opp(d)) = d
                  /\ \A e \in Dirs : e = d \/ e = Opp(d)
BY DEF Dirs, Opp

LEMMA SideFacts ==
  ASSUME NEW d \in Dirs, NEW a \in Entries, NEW b \in Entries
  PROVE  /\ Side(Opp(d), a, b) <=> Side(d, b, a)
         /\ ~Side(d, a, a)
         /\ Side(d, a, b) => ~Side(d, b, a) /\ a # b
         /\ KeyOf[a] # KeyOf[b] => Side(d, a, b) \/ Side(d, b, a)
<1>1. KeyOf[a] \in Int /\ KeyOf[b] \in Int
  BY EntriesAssumption
<1>2. CASE d = "left"
  BY <1>1, <1>2 DEF Side, Opp
<1>3. CASE d = "right"
  BY <1>1, <1>3 DEF Side, Opp
<1> QED
  BY <1>2, <1>3 DEF Dirs

LEMMA SideTransitive ==
  ASSUME NEW d \in Dirs, NEW a \in Entries, NEW b \in Entries, NEW c \in Entries,
         Side(d, a, b), Side(d, b, c)
  PROVE  Side(d, a, c)
<1>1. KeyOf[a] \in Int /\ KeyOf[b] \in Int /\ KeyOf[c] \in Int
  BY EntriesAssumption
<1>2. CASE d = "left"
  BY <1>1, <1>2 DEF Side
<1>3. CASE d = "right"
  BY <1>1, <1>3 DEF Side
<1> QED
  BY <1>2, <1>3 DEF Dirs

(* The fields of a tree. *)
LEMMA TreeTypes ==
  ASSUME NEW t \in Trees
  PROVE  /\ t.root \in RbNodes
         /\ \A n \in Entries : t.parent[n] \in RbNodes /\ t.color[n] \in {"red", "black"}
         /\ \A d \in Dirs, n \in Entries : t.child[d][n] \in RbNodes
         /\ DOMAIN t.child = Dirs /\ DOMAIN t.parent = Entries /\ DOMAIN t.color = Entries
         /\ \A d \in Dirs : DOMAIN t.child[d] = Entries
BY DEF Trees

(* --- what a tree is, seen from one node -------------------------------- *)

LEMMA TreeNode ==
  ASSUME NEW t, NEW I, NEW S, RbTreeOf(t, I, S), NEW n \in I
  PROVE  /\ n \in Entries /\ n # Null /\ n \in S[n] /\ S[n] \subseteq I /\ I \subseteq Entries
         /\ t.root \in I /\ S[t.root] = I /\ t.parent[t.root] = Null
         /\ t.parent[n] = Null <=> n = t.root
         /\ n # t.root => t.parent[n] \in I /\ \E d \in Dirs : t.child[d][t.parent[n]] = n
<1>1. RbNode(t, I, S, n) /\ n \in Entries /\ t \in Trees
  BY DEF RbTreeOf
<1>2. n \in S[n] /\ S[n] \subseteq I /\ I \subseteq Entries
  BY <1>1 DEF RbNode, RbTreeOf
<1>3. t.root \in I /\ S[t.root] = I /\ t.parent[t.root] = Null
  BY DEF RbTreeOf
<1>4. n # t.root => t.parent[n] \in I /\ \E d \in Dirs : t.child[d][t.parent[n]] = n
  BY <1>1 DEF RbNode
<1> QED
  BY <1>1, <1>2, <1>3, <1>4, EntriesAssumption

LEMMA TreeChild ==
  ASSUME NEW t, NEW I, NEW S, RbTreeOf(t, I, S), NEW n \in I, NEW d \in Dirs,
         t.child[d][n] # Null
  PROVE  LET c == t.child[d][n]
         IN  /\ c \in I /\ c # n /\ t.parent[c] = n /\ c # t.root
             /\ S[c] \subseteq S[n] /\ n \notin S[c] /\ c \in S[c]
             /\ \A m \in S[c] : Side(d, m, n)
             /\ \A x \in I, e \in Dirs : t.child[e][x] = c => x = n /\ e = d
<1> DEFINE c == t.child[d][n]
<1>1. RbNode(t, I, S, n) /\ n \in Entries /\ I \subseteq Entries
  BY DEF RbTreeOf
<1>2. c \in I /\ t.parent[c] = n /\ \A m \in S[c] : Side(d, m, n)
  BY <1>1 DEF RbNode
<1>3. S[c] \subseteq S[n]
  BY <1>1 DEF RbNode, Under, Dirs
<1>4. c \in S[c] /\ c \in Entries /\ S[c] \subseteq Entries
  BY <1>2, TreeNode
<1>5. n \notin S[c]
  BY <1>1, <1>2, SideFacts
<1>6. c # t.root
  BY <1>1, <1>2, TreeNode, EntriesAssumption
<1>7. ASSUME NEW x \in I, NEW e \in Dirs, t.child[e][x] = c
      PROVE  x = n /\ e = d
  <2>1. x \in Entries /\ c # Null
    BY <1>1
  <2>2. RbNode(t, I, S, x)
    BY DEF RbTreeOf
  <2>3. t.parent[c] = x /\ Side(e, c, x)
    BY <1>4, <1>7, <2>1, <2>2 DEF RbNode
  <2>4. x = n /\ Side(d, c, n)
    BY <1>2, <1>4, <2>3
  <2>5. e = d \/ e = Opp(d)
    BY DirFacts
  <2>6. e # Opp(d)
    BY <1>1, <1>4, <2>3, <2>4, SideFacts
  <2> QED
    BY <2>4, <2>5, <2>6
<1> HIDE DEF c
<1>8. QED
  BY <1>2, <1>3, <1>4, <1>5, <1>6, <1>7 DEF c

LEMMA TreeBelow ==
  ASSUME NEW t, NEW I, NEW S, RbTreeOf(t, I, S), NEW n \in I, NEW m \in S[n]
  PROVE  /\ m \in I
         /\ m = n \/ \E d \in Dirs : t.child[d][n] # Null /\ m \in S[t.child[d][n]] /\ Side(d, m, n)
         /\ \A d \in Dirs : Side(d, m, n) => t.child[d][n] # Null /\ m \in S[t.child[d][n]]
<1>1. RbNode(t, I, S, n) /\ n \in Entries /\ I \subseteq Entries
  BY DEF RbTreeOf
<1>2. m \in I /\ m \in Entries
  BY <1>1 DEF RbNode
<1>3. m = n \/ \E d \in Dirs : t.child[d][n] # Null /\ m \in S[t.child[d][n]]
  BY <1>1 DEF RbNode, Under, Dirs
<1>4. \A d \in Dirs : t.child[d][n] # Null /\ m \in S[t.child[d][n]] => Side(d, m, n)
  BY TreeChild
<1>5. ASSUME NEW d \in Dirs, Side(d, m, n)
      PROVE  t.child[d][n] # Null /\ m \in S[t.child[d][n]]
  <2>1. m # n
    BY <1>1, <1>5, SideFacts
  <2>2. PICK e \in Dirs : t.child[e][n] # Null /\ m \in S[t.child[e][n]]
    BY <1>3, <2>1
  <2>3. Side(e, m, n)
    BY <1>4, <2>2
  <2>4. e = d \/ e = Opp(d)
    BY DirFacts
  <2>5. e # Opp(d)
    BY <1>1, <1>2, <1>5, <2>3, SideFacts
  <2> QED
    BY <2>2, <2>4, <2>5
<1> QED
  BY <1>2, <1>3, <1>4, <1>5

LEMMA TreeSize ==
  ASSUME NEW t, NEW I, NEW S, RbTreeOf(t, I, S), NEW n \in I
  PROVE  /\ Cardinality(S[n]) \in Nat /\ Cardinality(S[n]) >= 1
         /\ Cardinality(I) \in Nat /\ Cardinality(S[n]) <= Cardinality(I)
         /\ \A d \in Dirs : t.child[d][n] # Null => Cardinality(S[t.child[d][n]]) < Cardinality(S[n])
<1>1. IsFiniteSet(I) /\ S[n] \subseteq I /\ n \in S[n]
  BY TreeNode DEF RbTreeOf
<1>2. IsFiniteSet(S[n]) /\ Cardinality(S[n]) <= Cardinality(I)
  BY <1>1, FS_Subset
<1>3. Cardinality(S[n]) \in Nat /\ Cardinality(I) \in Nat
  BY <1>1, <1>2, FS_CardinalityType
<1>4. Cardinality(S[n]) # 0
  BY <1>1, <1>2, FS_EmptySet
<1>5. ASSUME NEW d \in Dirs, t.child[d][n] # Null
      PROVE  Cardinality(S[t.child[d][n]]) < Cardinality(S[n])
  <2>1. S[t.child[d][n]] \subseteq S[n] /\ n \notin S[t.child[d][n]]
    BY <1>5, TreeChild
  <2>2. IsFiniteSet(S[t.child[d][n]]) /\ Cardinality(S[t.child[d][n]]) <= Cardinality(S[n])
        /\ Cardinality(S[t.child[d][n]]) # Cardinality(S[n])
    BY <1>1, <1>2, <2>1, FS_Subset
  <2>3. Cardinality(S[t.child[d][n]]) \in Nat
    BY <2>2, FS_CardinalityType
  <2> QED
    BY <1>3, <2>2, <2>3
<1> QED
  BY <1>2, <1>3, <1>4, <1>5

(* A set that holds every node whose children it holds holds the tree. *)
LEMMA TreeDown ==
  ASSUME NEW t, NEW I, NEW S, RbTreeOf(t, I, S), NEW X,
         \A n \in I : (\A d \in Dirs : t.child[d][n] # Null => t.child[d][n] \in X) => n \in X
  PROVE  I \subseteq X
<1> SUFFICES ASSUME I \ X # {} PROVE FALSE
  OBVIOUS
<1> DEFINE T == {Cardinality(S[n]) : n \in I \ X}
<1>1. T \in SUBSET Nat /\ T # {}
  BY TreeSize
<1>2. PICK k \in T : \A j \in T : k <= j
  BY <1>1, LeastNumber
<1>3. PICK n \in I \ X : k = Cardinality(S[n])
  BY <1>2
<1>4. PICK d \in Dirs : t.child[d][n] # Null /\ t.child[d][n] \notin X
  BY <1>3
<1>5. t.child[d][n] \in I
  BY <1>3, <1>4, TreeChild
<1>6. Cardinality(S[t.child[d][n]]) \in T
  BY <1>4, <1>5
<1>7. k <= Cardinality(S[t.child[d][n]])
  BY <1>2, <1>6
<1>8. Cardinality(S[t.child[d][n]]) < k
  BY <1>3, <1>4, TreeSize
<1>9. Cardinality(S[t.child[d][n]]) \in Nat /\ k \in Nat
  BY <1>1, <1>2, <1>5, TreeSize
<1> HIDE DEF T
<1> QED
  BY <1>7, <1>8, <1>9

(* So does a set that holds every node whose parent it holds. *)
LEMMA TreeUp ==
  ASSUME NEW t, NEW I, NEW S, RbTreeOf(t, I, S), NEW X,
         \A n \in I : (n # t.root => t.parent[n] \in X) => n \in X
  PROVE  I \subseteq X
<1> SUFFICES ASSUME I \ X # {} PROVE FALSE
  OBVIOUS
<1> DEFINE T == {Cardinality(I) - Cardinality(S[n]) : n \in I \ X}
<1>1. T \in SUBSET Nat /\ T # {}
  <2>1. ASSUME NEW n \in I PROVE Cardinality(I) - Cardinality(S[n]) \in Nat
    <3>1. Cardinality(S[n]) \in Nat /\ Cardinality(I) \in Nat /\ Cardinality(S[n]) <= Cardinality(I)
      BY TreeSize
    <3> QED
      BY <3>1
  <2> QED
    BY <2>1
<1>2. PICK k \in T : \A j \in T : k <= j
  BY <1>1, LeastNumber
<1>3. PICK n \in I \ X : k = Cardinality(I) - Cardinality(S[n])
  BY <1>2
<1>4. n # t.root /\ t.parent[n] \notin X
  BY <1>3
<1>5. PICK p : p = t.parent[n]
  OBVIOUS
<1>6. p \in I /\ p \notin X /\ \E d \in Dirs : t.child[d][p] = n
  BY <1>3, <1>4, <1>5, TreeNode
<1>7. Cardinality(S[n]) < Cardinality(S[p])
  BY <1>3, <1>6, TreeSize, TreeNode
<1>8. Cardinality(I) - Cardinality(S[p]) \in T
  BY <1>6
<1>9. k <= Cardinality(I) - Cardinality(S[p])
  BY <1>2, <1>8
<1>10. Cardinality(S[p]) \in Nat /\ Cardinality(S[n]) \in Nat /\ Cardinality(I) \in Nat
  BY <1>3, <1>6, TreeSize
<1> HIDE DEF T
<1> QED
  BY <1>3, <1>7, <1>9, <1>10

(* What is below a node below n is below n. *)
LEMMA TreeNested ==
  ASSUME NEW t, NEW I, NEW S, RbTreeOf(t, I, S)
  PROVE  \A n \in I : \A m \in S[n] : S[m] \subseteq S[n]
<1> DEFINE X == {n \in I : \A m \in S[n] : S[m] \subseteq S[n]}
<1>1. ASSUME NEW n \in I, \A d \in Dirs : t.child[d][n] # Null => t.child[d][n] \in X
      PROVE  n \in X
  <2>1. ASSUME NEW m \in S[n], m # n PROVE S[m] \subseteq S[n]
    <3>1. PICK d \in Dirs : t.child[d][n] # Null /\ m \in S[t.child[d][n]]
      BY <2>1, TreeBelow
    <3>2. S[m] \subseteq S[t.child[d][n]]
      BY <1>1, <3>1
    <3>3. S[t.child[d][n]] \subseteq S[n]
      BY <3>1, TreeChild
    <3> QED
      BY <3>2, <3>3
  <2> QED
    BY <2>1
<1> HIDE DEF X
<1>2. I \subseteq X
  BY <1>1, TreeDown
<1> QED
  BY <1>2 DEF X

(* The nodes above a child are the child and those above its parent. *)
LEMMA TreeAbove ==
  ASSUME NEW t, NEW I, NEW S, RbTreeOf(t, I, S), NEW n \in I, NEW d \in Dirs,
         NEW c, c = t.child[d][n], c # Null
  PROVE  \A m \in I : c \in S[m] <=> m = c \/ n \in S[m]
<1>1. c \in I /\ t.parent[c] = n /\ c \in S[c] /\ S[c] \subseteq S[n]
  BY TreeChild
<1> DEFINE X == {m \in I : c \in S[m] => m = c \/ n \in S[m]}
<1>2. ASSUME NEW m \in I, \A e \in Dirs : t.child[e][m] # Null => t.child[e][m] \in X
      PROVE  m \in X
  <2> SUFFICES ASSUME c \in S[m], m # c PROVE n \in S[m]
    OBVIOUS
  <2>1. PICK e \in Dirs : t.child[e][m] # Null /\ c \in S[t.child[e][m]]
    BY TreeBelow
  <2>2. PICK y : y = t.child[e][m]
    OBVIOUS
  <2>3. y \in X /\ S[y] \subseteq S[m] /\ m \in S[m] /\ t.parent[y] = m
    BY <1>2, <2>1, <2>2, TreeChild, TreeNode
  <2> QED
    BY <1>1, <2>1, <2>2, <2>3
<1> HIDE DEF X
<1>3. I \subseteq X
  BY <1>2, TreeDown
<1>4. \A m \in I : n \in S[m] => c \in S[m]
  BY <1>1, TreeNested
<1> QED
  BY <1>1, <1>3, <1>4 DEF X

(* Seen from outside a subtree, its nodes are all on one side. *)
LEMMA TreeApart ==
  ASSUME NEW t, NEW I, NEW S, RbTreeOf(t, I, S)
  PROVE  \A n \in I : \A m \in I \ S[n] : \A a, b \in S[n] : \A d \in Dirs :
           Side(d, m, a) => Side(d, m, b)
<1> DEFINE P(n) == \A m \in I \ S[n] : \A a, b \in S[n] : \A d \in Dirs : Side(d, m, a) => Side(d, m, b)
           X == {n \in I : P(n)}
<1>1. ASSUME NEW n \in I, n # t.root => t.parent[n] \in X
      PROVE  n \in X
  <2> SUFFICES ASSUME NEW m \in I \ S[n], NEW a \in S[n], NEW b \in S[n], NEW d \in Dirs, Side(d, m, a)
               PROVE  Side(d, m, b)
    OBVIOUS
  <2>1. n # t.root
    BY TreeNode
  <2>2. PICK p : p = t.parent[n]
    OBVIOUS
  <2>3. p \in I /\ p \in X
    BY <1>1, <2>1, <2>2, TreeNode
  <2>4. PICK e \in Dirs : t.child[e][p] = n
    BY <2>1, <2>2, TreeNode
  <2>5. n # Null
    BY TreeNode
  <2>6. /\ S[n] \subseteq S[p] /\ Side(e, a, p) /\ Side(e, b, p)
    BY <2>3, <2>4, <2>5, TreeChild
  <2>7. m \in Entries /\ a \in Entries /\ b \in Entries /\ p \in Entries
    BY <2>3, TreeNode
  <2>8. CASE m \notin S[p]
    BY <2>3, <2>6, <2>8
  <2>9. CASE m \in S[p]
    <3>1. Opp(e) \in Dirs /\ Opp(Opp(e)) = e /\ (d = e \/ d = Opp(e))
      BY DirFacts
    <3>2. m = p \/ Side(Opp(e), m, p)
      BY <2>3, <2>4, <2>5, <2>9, <3>1, TreeBelow, DirFacts
    <3>3. Side(Opp(e), p, a) /\ Side(Opp(e), p, b)
      BY <2>6, <2>7, <3>1, SideFacts
    <3>4. Side(Opp(e), m, a) /\ Side(Opp(e), m, b)
      BY <2>7, <3>1, <3>2, <3>3, SideTransitive
    <3>5. d = Opp(e)
      BY <1>1, <2>7, <3>1, <3>4, SideFacts
    <3> QED
      BY <3>4, <3>5
  <2> QED
    BY <2>8, <2>9
<1> HIDE DEF X
<1>2. I \subseteq X
  BY <1>1, TreeUp
<1> QED
  BY <1>2 DEF X

(* Two entries of the tree are on different sides of each other. *)
LEMMA TreeSides ==
  ASSUME NEW t, NEW I, NEW S, RbTreeOf(t, I, S), NEW m \in I, NEW n \in I, m # n, NEW d \in Dirs
  PROVE  Side(d, m, n) <=> ~Side(d, n, m)
<1>1. m \in Entries /\ n \in Entries /\ KeyOf[m] # KeyOf[n]
  BY DEF RbTreeOf
<1> QED
  BY <1>1, SideFacts

(* --- recursion --------------------------------------------------------- *)

(* From stop to stop, a link leads down in some rank.                      *)
Descends(E, V, stop, val, next, K) ==
  /\ stop \in [E -> BOOLEAN] /\ val \in [E -> V] /\ next \in [E -> E]
  /\ \E rank \in [E -> Nat] : \A n \in E : rank[n] <= K /\ (~stop[n] => rank[next[n]] < rank[n])

(* Following it ends. *)
LEMMA Chase ==
  ASSUME NEW E, NEW V, NEW stop, NEW val, NEW next, NEW K \in Nat, Descends(E, V, stop, val, next, K)
  PROVE  \E f \in [E -> V] : \A n \in E : f[n] = IF stop[n] THEN val[n] ELSE f[next[n]]
<1>0. /\ stop \in [E -> BOOLEAN] /\ val \in [E -> V] /\ next \in [E -> E]
  BY DEF Descends
<1>7. PICK rank \in [E -> Nat] : \A n \in E : rank[n] <= K /\ (~stop[n] => rank[next[n]] < rank[n])
  BY DEF Descends
<1> DEFINE Step(f, n) == IF stop[n] THEN val[n] ELSE f[next[n]]
           Good(f, k) == f \in [E -> V] /\ \A n \in E : rank[n] < k => f[n] = Step(f, n)
           T == {k \in Nat : \E f : Good(f, k)}
<1>1. 0 \in T
  <2>1. \A n \in E : ~(rank[n] < 0)
    BY <1>7
  <2>2. Good(val, 0)
    BY <1>0, <2>1
  <2> QED
    BY <2>2
<1>2. ASSUME NEW k \in T PROVE k + 1 \in T
  <2>1. PICK f : Good(f, k)
    OBVIOUS
  <2> DEFINE g == [n \in E |-> Step(f, n)]
  <2>2. \A n \in E : Step(f, n) \in V
    BY <1>0, <2>1
  <2>3. g \in [E -> V]
    BY <2>2
  <2>4. ASSUME NEW n \in E, rank[n] < k + 1 PROVE g[n] = Step(g, n)
    <3>1. CASE stop[n]
      BY <3>1
    <3>2. CASE ~stop[n]
      <4>1. PICK x : x = next[n]
        OBVIOUS
      <4>2. x \in E /\ rank[x] < rank[n] /\ rank[x] \in Nat /\ rank[n] \in Nat /\ k \in Nat
        BY <1>0, <1>7, <3>2, <4>1
      <4>3. rank[x] < k
        BY <2>4, <4>2
      <4>4. f[x] = Step(f, x)
        BY <2>1, <4>2, <4>3
      <4>5. g[x] = Step(f, x)
        BY <4>2
      <4>6. g[n] = f[x] /\ Step(g, n) = g[x]
        BY <3>2, <4>1
      <4> QED
        BY <4>4, <4>5, <4>6
    <3> QED
      BY <3>1, <3>2
  <2> HIDE DEF g
  <2>5. Good(g, k + 1)
    BY <2>3, <2>4
  <2> QED
    BY <2>5
<1>3. T = Nat
  <2> HIDE DEF T
  <2>1. T \in SUBSET Nat
    BY DEF T
  <2> QED
    BY <1>1, <1>2, <2>1, SetInduction
<1>4. PICK f : Good(f, K + 1)
  <2>1. K + 1 \in Nat
    OBVIOUS
  <2>2. K + 1 \in T
    <3> HIDE DEF T
    <3> QED
      BY <1>3, <2>1
  <2> QED
    BY <2>2
<1>5. \A n \in E : f[n] = Step(f, n)
  <2>1. \A n \in E : rank[n] < K + 1
    BY <1>7
  <2> QED
    BY <1>4, <2>1
<1> QED
  BY <1>4, <1>5

Fresh(t, F) ==
  \A n \in F : t.parent[n] = Null /\ t.color[n] = "red" /\ \A d \in Dirs : t.child[d][n] = Null

(* Between two calls: a tree, and nothing outside it is linked. *)
AtRest(S) == RbTreeOf(rb, rbIn, S) /\ Fresh(rb, Entries \ rbIn)

LEMMA RestTypes ==
  ASSUME NEW S, AtRest(S)
  PROVE  /\ rb \in Trees /\ rbIn \subseteq Entries
         /\ \A d \in Dirs, n \in Entries :
              /\ rb.child[d][n] \in RbNodes
              /\ rb.child[d][n] # Null => n \in rbIn /\ rb.child[d][n] \in rbIn
         /\ \A n \in Entries : rb.parent[n] \in RbNodes /\ (rb.parent[n] # Null => n \in rbIn)
<1>1. rb \in Trees /\ rbIn \subseteq Entries /\ Fresh(rb, Entries \ rbIn) /\ RbTreeOf(rb, rbIn, S)
  BY DEF AtRest, RbTreeOf
<1>2. \A d \in Dirs, n \in Entries : rb.child[d][n] \in RbNodes
  BY <1>1, TreeTypes
<1>3. \A n \in Entries : rb.parent[n] \in RbNodes
  BY <1>1, TreeTypes
<1>4. ASSUME NEW d \in Dirs, NEW n \in Entries, rb.child[d][n] # Null
      PROVE  n \in rbIn /\ rb.child[d][n] \in rbIn
  <2>1. n \in rbIn
    BY <1>1, <1>4 DEF Fresh
  <2> QED
    BY <1>1, <1>4, <2>1, TreeChild
<1>5. ASSUME NEW n \in Entries, rb.parent[n] # Null
      PROVE  n \in rbIn
  BY <1>1, <1>5 DEF Fresh
<1> QED
  BY <1>1, <1>2, <1>3, <1>4, <1>5

(* The ranks that the walks down and up decrease.                          *)
LEMMA RankDown ==
  ASSUME NEW S, AtRest(S)
  PROVE  \E rank \in [Entries -> Nat] :
           /\ \A n \in Entries : rank[n] <= Cardinality(rbIn)
           /\ \A d \in Dirs, n \in Entries : rb.child[d][n] # Null => rank[rb.child[d][n]] < rank[n]
<1> DEFINE rank == [n \in Entries |-> IF n \in rbIn THEN Cardinality(S[n]) ELSE 0]
<1>1. RbTreeOf(rb, rbIn, S)
  BY DEF AtRest
<1>2. Cardinality(rbIn) \in Nat
  BY <1>1, FS_CardinalityType DEF RbTreeOf
<1>3. rank \in [Entries -> Nat]
  BY <1>1, TreeSize
<1>4. \A n \in Entries : rank[n] <= Cardinality(rbIn)
  BY <1>1, <1>2, TreeSize
<1>5. ASSUME NEW d \in Dirs, NEW n \in Entries, rb.child[d][n] # Null
      PROVE  rank[rb.child[d][n]] < rank[n]
  <2>1. n \in rbIn /\ rb.child[d][n] \in rbIn /\ rb.child[d][n] \in Entries
    BY <1>5, RestTypes
  <2>2. Cardinality(S[rb.child[d][n]]) < Cardinality(S[n])
    BY <1>1, <1>5, <2>1, TreeSize
  <2> QED
    BY <2>1, <2>2
<1> HIDE DEF rank
<1> QED
  BY <1>3, <1>4, <1>5

LEMMA RankUp ==
  ASSUME NEW S, AtRest(S)
  PROVE  \E rank \in [Entries -> Nat] :
           /\ \A n \in Entries : rank[n] <= Cardinality(rbIn)
           /\ \A n \in Entries : rb.parent[n] # Null => rank[rb.parent[n]] < rank[n]
<1> DEFINE rank == [n \in Entries |-> IF n \in rbIn THEN Cardinality(rbIn) - Cardinality(S[n]) ELSE 0]
<1>1. RbTreeOf(rb, rbIn, S)
  BY DEF AtRest
<1>2. Cardinality(rbIn) \in Nat
  BY <1>1, FS_CardinalityType DEF RbTreeOf
<1>3. \A n \in rbIn : /\ Cardinality(S[n]) \in Nat
                      /\ 1 <= Cardinality(S[n]) /\ Cardinality(S[n]) <= Cardinality(rbIn)
  BY <1>1, TreeSize
<1>4. \A n \in rbIn : /\ Cardinality(rbIn) - Cardinality(S[n]) \in Nat
                      /\ Cardinality(rbIn) - Cardinality(S[n]) <= Cardinality(rbIn)
  BY <1>2, <1>3
<1>5. rank \in [Entries -> Nat] /\ \A n \in Entries : rank[n] <= Cardinality(rbIn)
  BY <1>2, <1>4
<1>6. ASSUME NEW n \in Entries, rb.parent[n] # Null
      PROVE  rank[rb.parent[n]] < rank[n]
  <2>1. n \in rbIn
    BY <1>6, RestTypes
  <2>2. PICK p : p = rb.parent[n]
    OBVIOUS
  <2>3. n # rb.root
    BY <1>1, <1>6, <2>1, TreeNode
  <2>4. p \in rbIn /\ p \in Entries /\ \E d \in Dirs : rb.child[d][p] = n
    BY <1>1, <2>1, <2>2, <2>3, TreeNode
  <2>5. Cardinality(S[n]) < Cardinality(S[p])
    BY <1>1, <2>1, <2>4, TreeSize, TreeNode
  <2>6. Cardinality(rbIn) - Cardinality(S[p]) < Cardinality(rbIn) - Cardinality(S[n])
    BY <1>2, <1>3, <2>1, <2>4, <2>5
  <2> QED
    BY <2>1, <2>2, <2>4, <2>6
<1> HIDE DEF rank
<1> QED
  BY <1>5, <1>6

(* The last node from n in direction d is the one furthest on that side.   *)
LEMMA EndExists ==
  ASSUME NEW S, AtRest(S), NEW d \in Dirs
  PROVE  \E f : /\ \A n \in Entries : f[n] = IF rb.child[d][n] = Null THEN n ELSE f[rb.child[d][n]]
                /\ \A n \in Entries : RbEnd(n, d) = f[n]
<1> DEFINE F(f) == [m \in Entries |-> IF rb.child[d][m] = Null THEN m ELSE f[rb.child[d][m]]]
           g == CHOOSE f : f = F(f)
           stop == [m \in Entries |-> rb.child[d][m] = Null]
           val == [m \in Entries |-> m]
           next == [m \in Entries |-> IF rb.child[d][m] = Null THEN m ELSE rb.child[d][m]]
<1>1. PICK rank \in [Entries -> Nat] :
           /\ \A n \in Entries : rank[n] <= Cardinality(rbIn)
           /\ \A e \in Dirs, n \in Entries : rb.child[e][n] # Null => rank[rb.child[e][n]] < rank[n]
  BY RankDown
<1>2. \A n \in Entries : rb.child[d][n] \in RbNodes
  BY RestTypes
<1>3. stop \in [Entries -> BOOLEAN] /\ val \in [Entries -> Entries] /\ next \in [Entries -> Entries]
  BY <1>2 DEF RbNodes
<1>4. \A n \in Entries : ~stop[n] => rank[next[n]] < rank[n]
  BY <1>1
<1>5. Cardinality(rbIn) \in Nat
  BY FS_CardinalityType DEF AtRest, RbTreeOf
<1>6. Descends(Entries, Entries, stop, val, next, Cardinality(rbIn))
  <2> HIDE DEF stop, val, next
  <2> QED
    BY <1>1, <1>3, <1>4 DEF Descends
<1>7. \E f : f = F(f)
  <2>1. PICK f \in [Entries -> Entries] : \A n \in Entries : f[n] = IF stop[n] THEN val[n] ELSE f[next[n]]
    <3> HIDE DEF stop, val, next
    <3> QED
      BY <1>5, <1>6, Chase
  <2>2. f = F(f)
    BY <2>1
  <2> QED
    BY <2>2
<1>8. g = F(g)
  <2> HIDE DEF F
  <2> QED
    BY <1>7
<1>9. \A n \in Entries : g[n] = IF rb.child[d][n] = Null THEN n ELSE g[rb.child[d][n]]
  <2>1. PICK h : h = g
    OBVIOUS
  <2> HIDE DEF g
  <2>2. h = F(h)
    <3> HIDE DEF F
    <3> QED
      BY <1>8, <2>1
  <2>3. \A n \in Entries : h[n] = F(h)[n]
    BY <2>2
  <2> QED
    BY <2>1, <2>3
<1>10. \A n \in Entries : RbEnd(n, d) = g[n]
  BY EntriesAssumption DEF RbEnd
<1> HIDE DEF g
<1> QED
  BY <1>9, <1>10

LEMMA EndIs ==
  ASSUME NEW S, AtRest(S), NEW d \in Dirs
  PROVE  \A n \in rbIn : LET x == RbEnd(n, d)
                         IN  /\ x \in S[n] /\ rb.child[d][x] = Null
                             /\ \A m \in S[n] : m = x \/ Side(d, x, m)
<1>1. PICK f : /\ \A n \in Entries : f[n] = IF rb.child[d][n] = Null THEN n ELSE f[rb.child[d][n]]
               /\ \A n \in Entries : RbEnd(n, d) = f[n]
  BY EndExists
<1>2. RbTreeOf(rb, rbIn, S)
  BY DEF AtRest
<1> DEFINE P(n) == /\ f[n] \in S[n] /\ rb.child[d][f[n]] = Null
                   /\ \A m \in S[n] : m = f[n] \/ Side(d, f[n], m)
           X == {n \in rbIn : P(n)}
<1>3. ASSUME NEW n \in rbIn, \A e \in Dirs : rb.child[e][n] # Null => rb.child[e][n] \in X
      PROVE  n \in X
  <2>1. n \in Entries /\ n \in S[n] /\ rbIn \subseteq Entries /\ S[n] \subseteq rbIn
    BY <1>2, TreeNode
  <2>2. CASE rb.child[d][n] = Null
    <3>1. f[n] = n
      BY <1>1, <2>1, <2>2
    <3>2. ASSUME NEW m \in S[n], m # n PROVE Side(d, n, m)
      <4>1. ~Side(d, m, n)
        BY <1>2, <2>2, TreeBelow
      <4> QED
        BY <1>2, <2>1, <3>2, <4>1, TreeSides
    <3> QED
      BY <2>1, <2>2, <3>1, <3>2
  <2>3. CASE rb.child[d][n] # Null
    <3>1. PICK c : c = rb.child[d][n]
      OBVIOUS
    <3>2. f[n] = f[c] /\ c \in X /\ c # Null /\ c \in rbIn /\ S[c] \subseteq S[n]
      BY <1>1, <1>2, <1>3, <2>1, <2>3, <3>1, TreeChild
    <3>3. f[c] \in S[c] /\ rb.child[d][f[c]] = Null /\ \A m \in S[c] : m = f[c] \/ Side(d, f[c], m)
      BY <3>2
    <3>4. Side(d, f[c], n)
      BY <1>2, <2>3, <3>1, <3>3, TreeChild
    <3>5. f[c] \in Entries
      BY <2>1, <3>2, <3>3
    <3>6. ASSUME NEW m \in S[n], m \notin S[c], m # n PROVE Side(d, f[c], m)
      <4>1. ~Side(d, m, n)
        BY <1>2, <3>1, <3>6, TreeBelow
      <4>2. Side(d, n, m) /\ m \in Entries
        BY <1>2, <2>1, <3>6, <4>1, TreeSides
      <4> QED
        BY <2>1, <3>4, <3>5, <4>2, SideTransitive
    <3> QED
      BY <3>2, <3>3, <3>4, <3>6
  <2> QED
    BY <2>2, <2>3
<1> HIDE DEF X
<1>4. rbIn \subseteq X
  BY <1>2, <1>3, TreeDown
<1>5. \A n \in rbIn : P(n) /\ RbEnd(n, d) = f[n]
  BY <1>1, <1>2, <1>4, TreeNode DEF X
<1> QED
  BY <1>5

(* x is the member of M nearest to n on side d, Null if there is none. *)
Nearest(x, M, n, d) ==
  IF x = Null THEN \A m \in M : ~Side(d, m, n)
  ELSE x \in M /\ Side(d, x, n) /\ \A m \in M : Side(d, m, n) => m = x \/ Side(d, m, x)

LEMMA ClimbExists ==
  ASSUME NEW S, AtRest(S), NEW d \in Dirs
  PROVE  \E f : /\ \A n \in Entries : f[n] = IF rb.parent[n] # Null /\ n = rb.child[d][rb.parent[n]]
                                             THEN f[rb.parent[n]] ELSE rb.parent[n]
                /\ \A n \in Entries : RbStep(n, d) = IF rb.child[d][n] # Null
                                                     THEN RbEnd(rb.child[d][n], Opp(d)) ELSE f[n]
<1> DEFINE F(f) == [m \in Entries |-> IF rb.parent[m] # Null /\ m = rb.child[d][rb.parent[m]]
                                      THEN f[rb.parent[m]] ELSE rb.parent[m]]
           g == CHOOSE f : f = F(f)
           stop == [m \in Entries |-> ~(rb.parent[m] # Null /\ m = rb.child[d][rb.parent[m]])]
           val == [m \in Entries |-> rb.parent[m]]
           next == [m \in Entries |-> IF rb.parent[m] = Null THEN m ELSE rb.parent[m]]
<1>1. PICK rank \in [Entries -> Nat] :
           /\ \A n \in Entries : rank[n] <= Cardinality(rbIn)
           /\ \A n \in Entries : rb.parent[n] # Null => rank[rb.parent[n]] < rank[n]
  BY RankUp
<1>2. \A n \in Entries : rb.parent[n] \in RbNodes
  BY RestTypes
<1>3. stop \in [Entries -> BOOLEAN] /\ val \in [Entries -> RbNodes] /\ next \in [Entries -> Entries]
  BY <1>2 DEF RbNodes
<1>4. \A n \in Entries : ~stop[n] => rank[next[n]] < rank[n]
  BY <1>1
<1>5. Cardinality(rbIn) \in Nat
  BY FS_CardinalityType DEF AtRest, RbTreeOf
<1>6. Descends(Entries, RbNodes, stop, val, next, Cardinality(rbIn))
  <2> HIDE DEF stop, val, next
  <2> QED
    BY <1>1, <1>3, <1>4 DEF Descends
<1>7. \E f : f = F(f)
  <2>1. PICK f \in [Entries -> RbNodes] : \A n \in Entries : f[n] = IF stop[n] THEN val[n] ELSE f[next[n]]
    <3> HIDE DEF stop, val, next
    <3> QED
      BY <1>5, <1>6, Chase
  <2>2. f = F(f)
    BY <2>1
  <2> QED
    BY <2>2
<1>8. g = F(g)
  <2> HIDE DEF F
  <2> QED
    BY <1>7
<1>9. \A n \in Entries : g[n] = IF rb.parent[n] # Null /\ n = rb.child[d][rb.parent[n]]
                                THEN g[rb.parent[n]] ELSE rb.parent[n]
  <2>1. PICK h : h = g
    OBVIOUS
  <2> HIDE DEF g
  <2>2. h = F(h)
    <3> HIDE DEF F
    <3> QED
      BY <1>8, <2>1
  <2>3. \A n \in Entries : h[n] = F(h)[n]
    BY <2>2
  <2> QED
    BY <2>1, <2>3
<1>10. \A n \in Entries : RbStep(n, d) = IF rb.child[d][n] # Null
                                        THEN RbEnd(rb.child[d][n], Opp(d)) ELSE g[n]
  BY DEF RbStep
<1> HIDE DEF g
<1> QED
  BY <1>9, <1>10

(* Climbing ends at the nearest node outside the subtree. *)
LEMMA ClimbIs ==
  ASSUME NEW S, AtRest(S), NEW d \in Dirs, NEW f,
         \A n \in Entries : f[n] = IF rb.parent[n] # Null /\ n = rb.child[d][rb.parent[n]]
                                   THEN f[rb.parent[n]] ELSE rb.parent[n]
  PROVE  \A n \in rbIn : Nearest(f[n], rbIn \ S[n], n, d)
<1> DEFINE X == {n \in rbIn : Nearest(f[n], rbIn \ S[n], n, d)}
<1>1. RbTreeOf(rb, rbIn, S)
  BY DEF AtRest
<1>2. ASSUME NEW n \in rbIn, n # rb.root => rb.parent[n] \in X
      PROVE  Nearest(f[n], rbIn \ S[n], n, d)
  <2>1. n \in Entries /\ n \in S[n] /\ rbIn \subseteq Entries
    BY <1>1, TreeNode
  <2>2. CASE n = rb.root
    <3>1. rb.parent[n] = Null /\ rbIn \ S[n] = {}
      BY <1>1, <2>2, TreeNode
    <3>2. f[n] = Null
      BY <2>1, <3>1
    <3> QED
      BY <3>1, <3>2 DEF Nearest
  <2>3. CASE n # rb.root
    <3>1. PICK p : p = rb.parent[n]
      OBVIOUS
    <3>2. p \in rbIn /\ p \in X /\ p # Null /\ p \in Entries
      BY <1>1, <1>2, <2>3, <3>1, TreeNode
    <3>3. PICK e \in Dirs : rb.child[e][p] = n
      BY <1>1, <2>3, <3>1, TreeNode
    <3>4. n # Null /\ S[n] \subseteq S[p] /\ p \notin S[n] /\ Side(e, n, p) /\ p \in S[p] /\ n \in S[p]
      BY <1>1, <2>1, <3>2, <3>3, TreeChild, TreeNode
    <3>5. \A a \in Dirs : rb.child[a][p] = n => a = e
      BY <1>1, <3>2, <3>3, <3>4, TreeChild
    <3>6. \A m \in rbIn \ S[p] : \A a \in Dirs : Side(a, m, n) <=> Side(a, m, p)
      BY <1>1, <3>2, <3>4, TreeApart
    <3>7. CASE e # d
      <4>1. f[n] = p
        BY <2>1, <3>1, <3>5, <3>7
      <4>2. e = Opp(d)
        BY <3>7, DirFacts
      <4>3. Side(d, p, n)
        BY <2>1, <3>2, <3>4, <4>2, SideFacts
      <4>4. ASSUME NEW m \in rbIn \ S[n], Side(d, m, n), m # p
            PROVE  Side(d, m, p)
        <5>1. CASE m \notin S[p]
          BY <3>6, <4>4, <5>1
        <5>2. CASE m \in S[p]
          <6>1. ~Side(e, m, p)
            BY <1>1, <3>2, <3>3, <4>4, <5>2, TreeBelow
          <6>2. Side(e, p, m)
            BY <1>1, <3>2, <4>4, <6>1, TreeSides
          <6> QED
            BY <2>1, <3>2, <4>2, <6>2, SideFacts
        <5> QED
          BY <5>1, <5>2
      <4> QED
        BY <3>2, <3>4, <4>1, <4>3, <4>4 DEF Nearest
    <3>8. CASE e = d
      <4>1. f[n] = f[p]
        BY <2>1, <3>1, <3>2, <3>3, <3>8
      <4>2. Nearest(f[p], rbIn \ S[p], p, d)
        BY <3>2
      <4>3. ASSUME NEW m \in rbIn \ S[n], Side(d, m, n) PROVE m \notin S[p] /\ Side(d, m, p)
        <5>1. m # p
          BY <2>1, <3>2, <3>4, <3>8, <4>3, SideFacts
        <5>2. ASSUME m \in S[p] PROVE FALSE
          <6>1. ~Side(d, m, p)
            BY <1>1, <3>2, <3>3, <3>8, <4>3, <5>2, TreeBelow
          <6>2. Side(d, p, m) /\ m \in Entries
            BY <1>1, <2>1, <3>2, <4>3, <5>1, <6>1, TreeSides
          <6>3. Side(d, n, m)
            BY <2>1, <3>2, <3>4, <3>8, <6>2, SideTransitive
          <6> QED
            BY <2>1, <4>3, <6>2, <6>3, SideFacts
        <5> QED
          BY <3>6, <4>3, <5>2
      <4>4. CASE f[p] = Null
        BY <4>1, <4>2, <4>3, <4>4 DEF Nearest
      <4>5. CASE f[p] # Null
        <5>1. /\ f[p] \in rbIn \ S[p] /\ Side(d, f[p], p)
              /\ \A m \in rbIn \ S[p] : Side(d, m, p) => m = f[p] \/ Side(d, m, f[p])
          BY <4>2, <4>5 DEF Nearest
        <5>2. f[p] \in rbIn \ S[n] /\ Side(d, f[p], n)
          BY <3>4, <3>6, <5>1
        <5> QED
          BY <4>1, <4>3, <4>5, <5>1, <5>2 DEF Nearest
      <4> QED
        BY <4>4, <4>5
    <3> QED
      BY <3>7, <3>8
  <2> QED
    BY <2>2, <2>3
<1>3. ASSUME NEW n \in rbIn, n # rb.root => rb.parent[n] \in X
      PROVE  n \in X
  BY <1>2, <1>3
<1> HIDE DEF X
<1>4. rbIn \subseteq X
  BY <1>1, <1>3, TreeUp
<1> QED
  BY <1>4 DEF X

(* One step leads to the next entry in the order. *)
LEMMA StepIs ==
  ASSUME NEW S, AtRest(S), NEW d \in Dirs
  PROVE  \A n \in rbIn : Nearest(RbStep(n, d), rbIn, n, d)
<1> SUFFICES ASSUME NEW n \in rbIn PROVE Nearest(RbStep(n, d), rbIn, n, d)
  OBVIOUS
<1>1. RbTreeOf(rb, rbIn, S)
  BY DEF AtRest
<1>2. n \in Entries /\ n \in S[n] /\ rbIn \subseteq Entries /\ S[n] \subseteq rbIn
  BY <1>1, TreeNode
<1>3. PICK f : /\ \A m \in Entries : f[m] = IF rb.parent[m] # Null /\ m = rb.child[d][rb.parent[m]]
                                             THEN f[rb.parent[m]] ELSE rb.parent[m]
               /\ \A m \in Entries : RbStep(m, d) = IF rb.child[d][m] # Null
                                                     THEN RbEnd(rb.child[d][m], Opp(d)) ELSE f[m]
  BY ClimbExists
<1>4. Nearest(f[n], rbIn \ S[n], n, d)
  BY <1>3, ClimbIs
<1>5. CASE rb.child[d][n] = Null
  <2>1. RbStep(n, d) = f[n]
    BY <1>2, <1>3, <1>5
  <2>2. \A m \in rbIn : Side(d, m, n) => m \in rbIn \ S[n]
    BY <1>1, <1>5, TreeBelow
  <2> QED
    BY <1>4, <2>1, <2>2 DEF Nearest
<1>6. CASE rb.child[d][n] # Null
  <2>1. PICK c : c = rb.child[d][n]
    OBVIOUS
  <2>2. c \in rbIn /\ S[c] \subseteq S[n] /\ c # Null /\ \A m \in S[c] : Side(d, m, n)
    BY <1>1, <1>6, <2>1, TreeChild
  <2>3. PICK x : x = RbEnd(c, Opp(d))
    OBVIOUS
  <2>4. x \in S[c] /\ \A m \in S[c] : m = x \/ Side(Opp(d), x, m)
    BY <2>2, <2>3, EndIs, DirFacts
  <2>5. RbStep(n, d) = x
    BY <1>2, <1>3, <1>6, <2>1, <2>3
  <2>6. x \in Entries /\ x \in rbIn /\ x \in S[n] /\ x # Null
    BY <1>2, <2>2, <2>4, EntriesAssumption
  <2>7. ASSUME NEW m \in rbIn, Side(d, m, n), m # x PROVE Side(d, m, x)
    <3>1. CASE m \in S[n]
      <4>1. m \in S[c]
        BY <1>1, <2>1, <2>7, <3>1, TreeBelow
      <4>2. Side(Opp(d), x, m) /\ m \in Entries
        BY <1>2, <2>4, <2>7, <4>1
      <4> QED
        BY <2>6, <4>2, SideFacts
    <3>2. CASE m \notin S[n]
      BY <1>1, <1>2, <2>6, <2>7, <3>2, TreeApart
    <3> QED
      BY <3>1, <3>2
  <2> QED
    BY <2>2, <2>4, <2>5, <2>6, <2>7 DEF Nearest
<1> QED
  BY <1>5, <1>6

Toward(e, n) == IF KeyOf[e] < KeyOf[n] THEN "left" ELSE "right"

LEMMA PlaceExists ==
  ASSUME NEW S, AtRest(S), NEW e \in Entries
  PROVE  \E f : /\ \A n \in Entries : f[n] = IF KeyOf[e] = KeyOf[n] THEN [at |-> n, side |-> "found"]
                                             ELSE IF rb.child[Toward(e, n)][n] = Null
                                                  THEN [at |-> n, side |-> Toward(e, n)]
                                                  ELSE f[rb.child[Toward(e, n)][n]]
                /\ rb.root # Null => RbPlace(KeyOf[e]) = f[rb.root]
<1> DEFINE D(n) == IF KeyOf[e] < KeyOf[n] THEN "left" ELSE "right"
           F(f) == [n \in Entries |-> IF KeyOf[e] = KeyOf[n] THEN [at |-> n, side |-> "found"]
                                      ELSE IF rb.child[D(n)][n] = Null THEN [at |-> n, side |-> D(n)]
                                           ELSE f[rb.child[D(n)][n]]]
           g == CHOOSE f : f = F(f)
           V == [at : Entries, side : {"left", "right", "found"}]
           stop == [n \in Entries |-> KeyOf[e] = KeyOf[n] \/ rb.child[D(n)][n] = Null]
           val == [n \in Entries |-> [at |-> n, side |-> IF KeyOf[e] = KeyOf[n] THEN "found" ELSE D(n)]]
           next == [n \in Entries |-> IF rb.child[D(n)][n] = Null THEN n ELSE rb.child[D(n)][n]]
<1>1. PICK rank \in [Entries -> Nat] :
           /\ \A n \in Entries : rank[n] <= Cardinality(rbIn)
           /\ \A d \in Dirs, n \in Entries : rb.child[d][n] # Null => rank[rb.child[d][n]] < rank[n]
  BY RankDown
<1>2. \A n \in Entries : D(n) \in Dirs /\ D(n) \in {"left", "right", "found"}
  BY DEF Dirs
<1>3. \A d \in Dirs, n \in Entries : rb.child[d][n] \in RbNodes
  BY RestTypes
<1>4. stop \in [Entries -> BOOLEAN] /\ val \in [Entries -> V] /\ next \in [Entries -> Entries]
  <2>1. \A n \in Entries : rb.child[D(n)][n] \in RbNodes
    BY <1>2, <1>3
  <2> HIDE DEF D
  <2> QED
    BY <1>2, <2>1 DEF RbNodes
<1>5. \A n \in Entries : ~stop[n] => rank[next[n]] < rank[n]
  <2> HIDE DEF D
  <2> QED
    BY <1>1, <1>2
<1>6. Cardinality(rbIn) \in Nat
  BY FS_CardinalityType DEF AtRest, RbTreeOf
<1>7. Descends(Entries, V, stop, val, next, Cardinality(rbIn))
  <2> HIDE DEF stop, val, next, V
  <2> QED
    BY <1>1, <1>4, <1>5 DEF Descends
<1>8. \E f : f = F(f)
  <2>1. PICK f \in [Entries -> V] : \A n \in Entries : f[n] = IF stop[n] THEN val[n] ELSE f[next[n]]
    <3> HIDE DEF stop, val, next, V
    <3> QED
      BY <1>6, <1>7, Chase
  <2>2. ASSUME NEW n \in Entries PROVE f[n] = F(f)[n]
    <3> HIDE DEF D
    <3> QED
      BY <2>1
  <2>3. f = [n \in Entries |-> f[n]]
    BY <2>1
  <2>4. F(f) = [n \in Entries |-> F(f)[n]]
    <3> HIDE DEF D
    <3> QED
      OBVIOUS
  <2> HIDE DEF F
  <2>5. f = F(f)
    BY <2>2, <2>3, <2>4
  <2> QED
    BY <2>5
<1>9. g = F(g)
  <2> HIDE DEF F
  <2> QED
    BY <1>8
<1>10. rb.root # Null => RbPlace(KeyOf[e]) = g[rb.root]
  BY DEF RbPlace
<1>11. PICK h : h = g
  OBVIOUS
<1> HIDE DEF g
<1>12. h = F(h)
  <2> HIDE DEF F
  <2> QED
    BY <1>9, <1>11
<1>13. \A n \in Entries : h[n] = F(h)[n]
  BY <1>12
<1>14. \A n \in Entries : D(n) = Toward(e, n)
  BY DEF Toward
<1>15. \A n \in Entries : h[n] = IF KeyOf[e] = KeyOf[n] THEN [at |-> n, side |-> "found"]
                                 ELSE IF rb.child[Toward(e, n)][n] = Null
                                      THEN [at |-> n, side |-> Toward(e, n)]
                                      ELSE h[rb.child[Toward(e, n)][n]]
  <2> HIDE DEF D
  <2> QED
    BY <1>13, <1>14
<1> QED
  BY <1>10, <1>11, <1>15

LEMMA TowardIs ==
  ASSUME NEW e \in Entries, NEW n \in Entries, KeyOf[e] # KeyOf[n]
  PROVE  Toward(e, n) \in Dirs /\ Side(Toward(e, n), e, n) /\ Toward(e, n) # "found"
<1>1. KeyOf[e] \in Int /\ KeyOf[n] \in Int
  BY EntriesAssumption
<1> QED
  BY <1>1 DEF Toward, Side, Dirs

(* Where the search for the key of e ends, in the subtree of n: at that    *)
(* key, or at a free side with no key in between.                          *)
Placed(r, e, M) ==
  /\ r.at \in M
  /\ IF r.side = "found" THEN KeyOf[r.at] = KeyOf[e]
     ELSE /\ r.side \in Dirs /\ rb.child[r.side][r.at] = Null /\ Side(r.side, e, r.at)
          /\ \A m \in M \ {r.at} : \A d \in Dirs : Side(d, e, m) <=> Side(d, r.at, m)

LEMMA PlaceIs ==
  ASSUME NEW S, AtRest(S), NEW e \in Entries, rb.root # Null
  PROVE  Placed(RbPlace(KeyOf[e]), e, rbIn)
<1>1. PICK f : /\ \A n \in Entries : f[n] = IF KeyOf[e] = KeyOf[n] THEN [at |-> n, side |-> "found"]
                                             ELSE IF rb.child[Toward(e, n)][n] = Null
                                                  THEN [at |-> n, side |-> Toward(e, n)]
                                                  ELSE f[rb.child[Toward(e, n)][n]]
               /\ rb.root # Null => RbPlace(KeyOf[e]) = f[rb.root]
  BY PlaceExists
<1>2. RbTreeOf(rb, rbIn, S)
  BY DEF AtRest
<1> DEFINE X == {n \in rbIn : Placed(f[n], e, S[n])}
<1>3. ASSUME NEW n \in rbIn, \A d \in Dirs : rb.child[d][n] # Null => rb.child[d][n] \in X
      PROVE  Placed(f[n], e, S[n])
  <2>1. n \in Entries /\ n \in S[n] /\ rbIn \subseteq Entries /\ S[n] \subseteq rbIn
    BY <1>2, TreeNode
  <2>2. CASE KeyOf[e] = KeyOf[n]
    <3>1. f[n] = [at |-> n, side |-> "found"]
      BY <1>1, <2>1, <2>2
    <3> QED
      BY <2>1, <2>2, <3>1 DEF Placed
  <2>3. CASE KeyOf[e] # KeyOf[n]
    <3>1. PICK d : d = Toward(e, n)
      OBVIOUS
    <3>2. d \in Dirs /\ Side(d, e, n) /\ d # "found"
      BY <2>1, <2>3, <3>1, TowardIs
    <3>3. Side(Opp(d), n, e) /\ Opp(d) \in Dirs /\ Opp(Opp(d)) = d /\ \A a \in Dirs : a = d \/ a = Opp(d)
      BY <2>1, <3>2, SideFacts, DirFacts
    <3>4. CASE rb.child[d][n] = Null
      <4>1. f[n] = [at |-> n, side |-> d]
        BY <1>1, <2>1, <2>3, <3>1, <3>4
      <4>2. ASSUME NEW m \in S[n] \ {n}, NEW a \in Dirs PROVE Side(a, e, m) <=> Side(a, n, m)
        <5>1. m \in Entries /\ m \in rbIn
          BY <2>1
        <5>2. Side(d, n, m)
          BY <1>2, <2>1, <3>2, <3>4, <4>2, <5>1, TreeBelow, TreeSides
        <5>3. Side(d, e, m)
          BY <2>1, <3>2, <5>1, <5>2, SideTransitive
        <5>4. ~Side(Opp(d), n, m) /\ ~Side(Opp(d), e, m)
          BY <2>1, <3>2, <5>1, <5>2, <5>3, SideFacts
        <5> QED
          BY <3>3, <5>2, <5>3, <5>4
      <4> QED
        BY <2>1, <3>2, <3>4, <4>1, <4>2 DEF Placed
    <3>5. CASE rb.child[d][n] # Null
      <4>1. PICK c : c = rb.child[d][n]
        OBVIOUS
      <4>2. PICK r : r = f[c]
        OBVIOUS
      <4>3. f[n] = r
        BY <1>1, <2>1, <2>3, <3>1, <3>5, <4>1, <4>2
      <4>4. Placed(r, e, S[c]) /\ S[c] \subseteq S[n] /\ \A m \in S[c] : Side(d, m, n)
        BY <1>2, <1>3, <3>2, <3>5, <4>1, <4>2, TreeChild
      <4>5. r.at \in S[c] /\ r.at \in S[n] /\ r.at \in Entries
        BY <2>1, <4>4 DEF Placed
      <4>6. CASE r.side = "found"
        BY <4>3, <4>4, <4>5, <4>6 DEF Placed
      <4>7. CASE r.side # "found"
        <5>1. /\ r.side \in Dirs /\ rb.child[r.side][r.at] = Null /\ Side(r.side, e, r.at)
              /\ \A m \in S[c] \ {r.at} : \A a \in Dirs : Side(a, e, m) <=> Side(a, r.at, m)
          BY <4>4, <4>7 DEF Placed
        <5>2. ASSUME NEW m \in S[n], m \notin S[c], NEW a \in Dirs
              PROVE  Side(a, e, m) <=> Side(a, r.at, m)
          <6>1. m \in Entries /\ m \in rbIn
            BY <2>1
          <6>2. m = n \/ Side(d, n, m)
            BY <1>2, <2>1, <3>2, <3>5, <4>1, <5>2, <6>1, TreeBelow, TreeSides
          <6>3. Side(d, e, m) /\ Side(d, r.at, m)
            BY <2>1, <3>2, <4>4, <4>5, <6>1, <6>2, SideTransitive
          <6>4. ~Side(Opp(d), r.at, m) /\ ~Side(Opp(d), e, m)
            BY <2>1, <3>2, <4>5, <6>1, <6>3, SideFacts
          <6> QED
            BY <3>3, <6>3, <6>4
        <5> QED
          BY <4>3, <4>5, <4>7, <5>1, <5>2 DEF Placed
      <4> QED
        BY <4>6, <4>7
    <3> QED
      BY <3>4, <3>5
  <2> QED
    BY <2>2, <2>3
<1>4. ASSUME NEW n \in rbIn, \A d \in Dirs : rb.child[d][n] # Null => rb.child[d][n] \in X
      PROVE  n \in X
  BY <1>3, <1>4
<1> HIDE DEF X
<1>5. rbIn \subseteq X
  BY <1>2, <1>4, TreeDown
<1>6. rb.root \in rbIn /\ S[rb.root] = rbIn
  BY <1>2 DEF RbTreeOf
<1>7. Placed(f[rb.root], e, S[rb.root])
  BY <1>5, <1>6 DEF X
<1> QED
  BY <1>1, <1>6, <1>7

(* An entry whose key is not found has a key of its own. *)
LEMMA PlaceIsNew ==
  ASSUME NEW S, AtRest(S), NEW e \in Entries, rb.root # Null, RbPlace(KeyOf[e]).side # "found"
  PROVE  \A m \in rbIn : KeyOf[m] # KeyOf[e]
<1>1. PICK r : r = RbPlace(KeyOf[e])
  OBVIOUS
<1>2. /\ r.at \in rbIn /\ r.side \in Dirs /\ Side(r.side, e, r.at)
      /\ \A m \in rbIn \ {r.at} : \A d \in Dirs : Side(d, e, m) <=> Side(d, r.at, m)
  BY <1>1, PlaceIs DEF Placed
<1>3. RbTreeOf(rb, rbIn, S) /\ rbIn \subseteq Entries
  BY DEF AtRest, RbTreeOf
<1>4. ASSUME NEW m \in rbIn, NEW d \in Dirs, Side(d, e, m) PROVE KeyOf[m] # KeyOf[e]
  <2>1. KeyOf[m] \in Int /\ KeyOf[e] \in Int
    BY <1>3, EntriesAssumption
  <2> QED
    BY <1>4, <2>1 DEF Side
<1>5. ASSUME NEW m \in rbIn PROVE \E d \in Dirs : Side(d, e, m)
  <2>1. CASE m = r.at
    BY <1>2, <2>1
  <2>2. CASE m # r.at
    <3>1. Side("left", r.at, m) \/ Side("left", m, r.at)
      BY <1>2, <1>3, <2>2, TreeSides DEF Dirs
    <3>2. Side("left", r.at, m) \/ Side("right", r.at, m)
      BY <1>2, <1>3, <3>1, SideFacts DEF Dirs, Opp
    <3> QED
      BY <1>2, <2>2, <3>2 DEF Dirs
  <2> QED
    BY <2>1, <2>2
<1> QED
  BY <1>4, <1>5

WalkOK ==
  IF rbWalk.at = Null THEN rbWalk.todo = {}
  ELSE rbWalk.at \in rbIn /\ rbWalk.todo = {m \in rbIn : KeyOf[rbWalk.at] <= KeyOf[m]}

LEMMA LeastIs ==
  ASSUME NEW M \in SUBSET Entries, NEW x \in M, \A m \in M : m = x \/ KeyOf[x] < KeyOf[m]
  PROVE  Least(M) = x
<1>1. \A m \in M : KeyOf[m] \in Int
  BY EntriesAssumption
<1>2. \A m \in M : KeyOf[x] <= KeyOf[m]
  BY <1>1
<1>3. PICK y : y = CHOOSE n \in M : \A m \in M : KeyOf[n] <= KeyOf[m]
  OBVIOUS
<1>4. y \in M /\ \A m \in M : KeyOf[y] <= KeyOf[m]
  BY <1>2, <1>3
<1>5. y = x
  BY <1>1, <1>4
<1> QED
  BY <1>3, <1>5 DEF Least

LEMMA GreatestIs ==
  ASSUME NEW M \in SUBSET Entries, NEW x \in M, \A m \in M : m = x \/ KeyOf[m] < KeyOf[x]
  PROVE  Greatest(M) = x
<1>1. \A m \in M : KeyOf[m] \in Int
  BY EntriesAssumption
<1>2. \A m \in M : KeyOf[m] <= KeyOf[x]
  BY <1>1
<1>3. PICK y : y = CHOOSE n \in M : \A m \in M : KeyOf[m] <= KeyOf[n]
  OBVIOUS
<1>4. y \in M /\ \A m \in M : KeyOf[m] <= KeyOf[y]
  BY <1>2, <1>3
<1>5. y = x
  BY <1>1, <1>4
<1> QED
  BY <1>3, <1>5 DEF Greatest

LEMMA SideIs ==
  ASSUME NEW m, NEW n
  PROVE  /\ Side("left", m, n) <=> KeyOf[m] < KeyOf[n]
         /\ Side("right", m, n) <=> KeyOf[n] < KeyOf[m]
         /\ "left" \in Dirs /\ "right" \in Dirs /\ Opp("left") = "right" /\ Opp("right") = "left"
BY DEF Side, Dirs, Opp

LEMMA EndsHold ==
  ASSUME NEW S, AtRest(S)
  PROVE  RbEnd(rb.root, "left") = Least(rbIn) /\ RbEnd(rb.root, "right") = Greatest(rbIn)
<1>1. RbTreeOf(rb, rbIn, S) /\ rbIn \subseteq Entries
  BY DEF AtRest, RbTreeOf
<1>2. CASE rb.root = Null
  <2>1. rbIn = {} /\ Least(rbIn) = Null /\ Greatest(rbIn) = Null
    BY <1>1, <1>2 DEF RbTreeOf, Least, Greatest
  <2>2. RbEnd(rb.root, "left") = Null /\ RbEnd(rb.root, "right") = Null
    BY <1>2 DEF RbEnd
  <2> QED
    BY <2>1, <2>2
<1>3. CASE rb.root # Null
  <2>1. rb.root \in rbIn /\ S[rb.root] = rbIn
    BY <1>1, <1>3 DEF RbTreeOf
  <2>2. PICK x : x = RbEnd(rb.root, "left")
    OBVIOUS
  <2>3. x \in rbIn /\ \A m \in rbIn : m = x \/ KeyOf[x] < KeyOf[m]
    BY <2>1, <2>2, EndIs, SideIs
  <2>4. PICK y : y = RbEnd(rb.root, "right")
    OBVIOUS
  <2>5. y \in rbIn /\ \A m \in rbIn : m = y \/ KeyOf[m] < KeyOf[y]
    BY <2>1, <2>4, EndIs, SideIs
  <2> QED
    BY <1>1, <2>2, <2>3, <2>4, <2>5, LeastIs, GreatestIs
<1> QED
  BY <1>2, <1>3

LEMMA StepsHold ==
  ASSUME NEW S, AtRest(S), NEW n \in rbIn
  PROVE  /\ RbStep(n, "right") = Least({m \in rbIn : KeyOf[m] > KeyOf[n]})
         /\ RbStep(n, "left") = Greatest({m \in rbIn : KeyOf[m] < KeyOf[n]})
<1>1. rbIn \subseteq Entries /\ n \in Entries
  BY DEF AtRest, RbTreeOf
<1> DEFINE A == {m \in rbIn : KeyOf[m] > KeyOf[n]}
           B == {m \in rbIn : KeyOf[m] < KeyOf[n]}
<1>2. \A m \in rbIn : /\ m \in A <=> Side("right", m, n)
                      /\ m \in B <=> Side("left", m, n)
  <2>1. \A m \in rbIn : KeyOf[m] \in Int /\ KeyOf[n] \in Int
    BY <1>1, EntriesAssumption
  <2> QED
    BY <2>1, SideIs
<1>3. A \in SUBSET Entries /\ B \in SUBSET Entries /\ A \subseteq rbIn /\ B \subseteq rbIn
  BY <1>1
<1> HIDE DEF A, B
<1>4. PICK x : x = RbStep(n, "right")
  OBVIOUS
<1>5. Nearest(x, rbIn, n, "right")
  BY <1>4, StepIs, SideIs
<1>6. x = Least(A)
  <2>1. CASE x = Null
    <3>1. A = {}
      BY <1>2, <1>3, <1>5, <2>1 DEF Nearest
    <3> QED
      BY <2>1, <3>1 DEF Least
  <2>2. CASE x # Null
    <3>1. x \in A /\ \A m \in A : m = x \/ KeyOf[x] < KeyOf[m]
      BY <1>2, <1>3, <1>5, <2>2, SideIs DEF Nearest
    <3> QED
      BY <1>3, <3>1, LeastIs
  <2> QED
    BY <2>1, <2>2
<1>7. PICK y : y = RbStep(n, "left")
  OBVIOUS
<1>8. Nearest(y, rbIn, n, "left")
  BY <1>7, StepIs, SideIs
<1>9. y = Greatest(B)
  <2>1. CASE y = Null
    <3>1. B = {}
      BY <1>2, <1>3, <1>8, <2>1 DEF Nearest
    <3> QED
      BY <2>1, <3>1 DEF Greatest
  <2>2. CASE y # Null
    <3>1. y \in B /\ \A m \in B : m = y \/ KeyOf[m] < KeyOf[y]
      BY <1>2, <1>3, <1>8, <2>2, SideIs DEF Nearest
    <3> QED
      BY <1>3, <3>1, GreatestIs
  <2> QED
    BY <2>1, <2>2
<1> QED
  BY <1>4, <1>6, <1>7, <1>9 DEF A, B

LEMMA FindHolds ==
  ASSUME NEW S, AtRest(S), NEW e \in Entries
  PROVE  RbFind(KeyOf[e]) = Least({n \in rbIn : KeyOf[n] = KeyOf[e]})
<1> DEFINE A == {n \in rbIn : KeyOf[n] = KeyOf[e]}
<1>1. RbTreeOf(rb, rbIn, S) /\ rbIn \subseteq Entries
  BY DEF AtRest, RbTreeOf
<1>2. CASE rb.root = Null
  <2>1. A = {}
    BY <1>1, <1>2 DEF RbTreeOf
  <2>2. RbPlace(KeyOf[e]) = [at |-> Null, side |-> "left"]
    BY <1>2 DEF RbPlace
  <2>3. RbFind(KeyOf[e]) = Null
    BY <2>2 DEF RbFind
  <2> QED
    BY <2>1, <2>3 DEF Least
<1>3. CASE rb.root # Null
  <2>1. PICK r : r = RbPlace(KeyOf[e])
    OBVIOUS
  <2>2. Placed(r, e, rbIn)
    BY <1>3, <2>1, PlaceIs
  <2>3. CASE r.side = "found"
    <3>1. r.at \in A
      BY <2>2, <2>3 DEF Placed
    <3>2. \A m \in A : m = r.at
      BY <1>1, <3>1 DEF RbTreeOf
    <3>3. A \in SUBSET Entries
      BY <1>1
    <3> HIDE DEF A
    <3>4. Least(A) = r.at
      BY <3>1, <3>2, <3>3, LeastIs
    <3> QED
      BY <2>1, <2>3, <3>4 DEF RbFind, A
  <2>4. CASE r.side # "found"
    <3>1. A = {}
      BY <1>3, <2>1, <2>4, PlaceIsNew
    <3> QED
      BY <2>1, <2>4, <3>1 DEF RbFind, Least
  <2> QED
    BY <2>3, <2>4
<1> QED
  BY <1>2, <1>3

LEMMA WalksHold ==
  ASSUME NEW S, AtRest(S), WalkOK
  PROVE  RbWalks
<1>1. rbIn \subseteq Entries /\ Null \notin rbIn
  BY EntriesAssumption DEF AtRest, RbTreeOf
<1>2. rbWalk.at = Least(rbWalk.todo)
  <2>1. CASE rbWalk.at = Null
    BY <2>1 DEF WalkOK, Least
  <2>2. CASE rbWalk.at # Null
    <3>1. PICK x : x = rbWalk.at
      OBVIOUS
    <3>2. PICK M : M = rbWalk.todo
      OBVIOUS
    <3>3. x \in rbIn /\ M = {m \in rbIn : KeyOf[x] <= KeyOf[m]}
      BY <2>2, <3>1, <3>2 DEF WalkOK
    <3>4. \A m \in rbIn : KeyOf[m] \in Int
      BY <1>1, EntriesAssumption
    <3>5. \A m \in rbIn : KeyOf[m] = KeyOf[x] => m = x
      BY <3>3 DEF AtRest, RbTreeOf
    <3>6. x \in M /\ M \in SUBSET Entries /\ \A m \in M : m = x \/ KeyOf[x] < KeyOf[m]
      BY <1>1, <3>3, <3>4, <3>5
    <3> QED
      BY <3>1, <3>2, <3>6, LeastIs
  <2> QED
    BY <2>1, <2>2
<1> QED
  BY <1>2, EndsHold, StepsHold, FindHolds DEF RbWalks

(* The nodes above n are those that have n below them. *)
LEMMA AboveIs ==
  ASSUME NEW S, AtRest(S), NEW n \in rbIn
  PROVE  Above(n) = {m \in rbIn : n \in S[m]}
<1> DEFINE K == Cardinality(rbIn)
           Up(Y) == Y \cup {rb.parent[m] : m \in Y \ {Null}}
           F(u) == [i \in 0 .. K |-> IF i = 0 THEN {n}
                                     ELSE u[i - 1] \cup {rb.parent[m] : m \in u[i - 1] \ {Null}}]
           u == CHOOSE v : v = F(v)
           Anc == {m \in rbIn : n \in S[m]}
<1>1. RbTreeOf(rb, rbIn, S) /\ rbIn \subseteq Entries /\ Null \notin rbIn /\ n \in Entries
  BY EntriesAssumption DEF AtRest, RbTreeOf
<1>2. K \in Nat
  BY <1>1, FS_CardinalityType DEF RbTreeOf
<1>3. \A m \in Entries : rb.parent[m] \in RbNodes
  BY RestTypes
<1>4. \E v : v = F(v)
  <2> DEFINE f == [Y \in SUBSET RbNodes |-> Up(Y)]
  <2>1. f \in [SUBSET RbNodes -> SUBSET RbNodes]
    BY <1>3 DEF RbNodes
  <2>2. {n} \in SUBSET RbNodes
    BY <1>1 DEF RbNodes
  <2>3. PICK g : Iterates(g, SUBSET RbNodes, f, {n})
    <3> HIDE DEF f
    <3> QED
      BY <2>1, <2>2, IterateExists
  <2>4. g \in [Nat -> SUBSET RbNodes] /\ g[0] = {n} /\ \A i \in Nat : g[i + 1] = Up(g[i])
    BY <2>3 DEF Iterates
  <2> DEFINE h == [i \in 0 .. K |-> g[i]]
  <2>5. ASSUME NEW i \in 0 .. K PROVE h[i] = F(h)[i]
    <3>1. CASE i = 0
      BY <2>4, <3>1
    <3>2. CASE i # 0
      <4>1. i - 1 \in Nat /\ i - 1 \in 0 .. K /\ (i - 1) + 1 = i
        BY <1>2, <3>2
      <4>2. g[i] = Up(g[i - 1])
        BY <2>4, <4>1
      <4>3. h[i - 1] = g[i - 1] /\ h[i] = g[i]
        BY <4>1
      <4> HIDE DEF h
      <4> QED
        BY <3>2, <4>2, <4>3
    <3> QED
      BY <3>1, <3>2
  <2>6. h = [i \in 0 .. K |-> h[i]]
    OBVIOUS
  <2>7. F(h) = [i \in 0 .. K |-> F(h)[i]]
    OBVIOUS
  <2> HIDE DEF h, F
  <2>8. h = F(h)
    BY <2>5, <2>6, <2>7
  <2> QED
    BY <2>8
<1>5. u = F(u)
  <2> HIDE DEF F
  <2> QED
    BY <1>4
<1>6. Above(n) = u[K] \ {Null}
  BY DEF Above
<1>7. PICK v : v = u
  OBVIOUS
<1> HIDE DEF u
<1>8. v = F(v)
  <2> HIDE DEF F
  <2> QED
    BY <1>5, <1>7
<1>9. \A i \in 0 .. K : v[i] = F(v)[i]
  BY <1>8
<1>10. v[0] = {n}
  <2> HIDE DEF K
  <2>1. 0 \in 0 .. K
    BY <1>2
  <2> QED
    BY <1>9, <2>1
<1>11. \A i \in 0 .. K : i + 1 \in 0 .. K => v[i + 1] = Up(v[i])
  <2>1. ASSUME NEW i \in 0 .. K, i + 1 \in 0 .. K PROVE v[i + 1] = Up(v[i])
    <3>1. i + 1 # 0 /\ (i + 1) - 1 = i
      BY <1>2
    <3>2. v[i + 1] = v[(i + 1) - 1] \cup {rb.parent[m] : m \in v[(i + 1) - 1] \ {Null}}
      BY <1>9, <2>1, <3>1
    <3> QED
      BY <3>1, <3>2
  <2> QED
    BY <2>1
<1> HIDE DEF F, K
<1>12. \A i \in 0 .. K : v[i] \subseteq Anc \cup {Null} /\ n \in v[i]
  <2> DEFINE T == {i \in Nat : i \in 0 .. K => v[i] \subseteq Anc \cup {Null} /\ n \in v[i]}
  <2>1. 0 \in T
    BY <1>1, <1>10, TreeNode
  <2>2. ASSUME NEW i \in T PROVE i + 1 \in T
    <3> SUFFICES ASSUME i + 1 \in 0 .. K PROVE v[i + 1] \subseteq Anc \cup {Null} /\ n \in v[i + 1]
      BY <1>2
    <3>1. i \in 0 .. K
      BY <1>2
    <3>2. v[i] \subseteq Anc \cup {Null} /\ n \in v[i] /\ v[i + 1] = Up(v[i])
      BY <1>11, <3>1
    <3>3. ASSUME NEW m \in Anc PROVE rb.parent[m] \in Anc \cup {Null}
      <4>1. CASE m = rb.root
        BY <1>1, <4>1, TreeNode
      <4>2. CASE m # rb.root
        <5>1. PICK p : p = rb.parent[m]
          OBVIOUS
        <5>2. p \in rbIn /\ \E d \in Dirs : rb.child[d][p] = m
          BY <1>1, <4>2, <5>1, TreeNode
        <5>3. S[m] \subseteq S[p]
          BY <1>1, <5>2, TreeChild
        <5> QED
          BY <5>1, <5>2, <5>3
      <4> QED
        BY <4>1, <4>2
    <3> HIDE DEF Anc
    <3> QED
      BY <3>2, <3>3
  <2>3. T = Nat
    <3> HIDE DEF T
    <3>1. T \in SUBSET Nat
      BY DEF T
    <3> QED
      BY <2>1, <2>2, <3>1, SetInduction
  <2> QED
    BY <1>2, <2>3
<1>13. \A m \in rbIn : n \in S[m] => \A j \in 0 .. K : j >= Cardinality(S[m]) - 1 => m \in v[j]
  <2> DEFINE P(m) == n \in S[m] => \A j \in 0 .. K : j >= Cardinality(S[m]) - 1 => m \in v[j]
             X == {m \in rbIn : P(m)}
  <2>1. ASSUME NEW m \in rbIn, \A d \in Dirs : rb.child[d][m] # Null => rb.child[d][m] \in X
        PROVE  P(m)
    <3> SUFFICES ASSUME n \in S[m], NEW j \in 0 .. K, j >= Cardinality(S[m]) - 1, m # n
                 PROVE  m \in v[j]
      BY <1>12
    <3>1. PICK d \in Dirs : rb.child[d][m] # Null /\ n \in S[rb.child[d][m]]
      BY <1>1, TreeBelow
    <3>2. PICK c : c = rb.child[d][m]
      OBVIOUS
    <3>3. c \in rbIn /\ rb.parent[c] = m /\ c \in X /\ n \in S[c] /\ c # Null
      BY <1>1, <2>1, <3>1, <3>2, TreeChild
    <3>4. Cardinality(S[c]) \in Nat /\ Cardinality(S[c]) >= 1 /\ Cardinality(S[m]) \in Nat
      BY <1>1, <3>3, TreeSize
    <3>5. Cardinality(S[c]) < Cardinality(S[m])
      BY <1>1, <3>1, <3>2, TreeSize
    <3>6. j - 1 \in 0 .. K /\ j - 1 >= Cardinality(S[c]) - 1 /\ (j - 1) + 1 = j
      BY <1>2, <3>4, <3>5
    <3>7. c \in v[j - 1]
      BY <3>3, <3>6
    <3>8. v[j] = Up(v[j - 1])
      BY <1>11, <3>6
    <3> QED
      BY <3>3, <3>7, <3>8
  <2>2. ASSUME NEW m \in rbIn, \A d \in Dirs : rb.child[d][m] # Null => rb.child[d][m] \in X
        PROVE  m \in X
    BY <2>1, <2>2
  <2> HIDE DEF X
  <2>3. rbIn \subseteq X
    BY <1>1, <2>2, TreeDown
  <2> QED
    BY <2>3 DEF X
<1>14. \A m \in rbIn : Cardinality(S[m]) \in Nat /\ Cardinality(S[m]) <= K
  BY <1>1, TreeSize DEF K
<1>15. K \in 0 .. K /\ \A m \in rbIn : K >= Cardinality(S[m]) - 1
  BY <1>2, <1>14
<1>16. v[K] \subseteq Anc \cup {Null} /\ Anc \subseteq v[K]
  BY <1>12, <1>13, <1>15
<1> QED
  BY <1>1, <1>6, <1>7, <1>16

(* H[n] is the number of black nodes on every path down from n, without n; *)
(* on side D of q a path lacks one.                                        *)
Weight(t, H, c) == IF c = Null THEN 0 ELSE IF t.color[c] = "black" THEN H[c] + 1 ELSE H[c]
Heights(t, I, H, q, D) ==
  /\ H \in [Entries -> Nat]
  /\ \A n \in I, d \in Dirs : H[n] = Weight(t, H, t.child[d][n]) + (IF n = q /\ d = D THEN 1 ELSE 0)

NoRedPair(t, I, X) == \A n \in I \ ({t.root} \cup X) : Black(t, n) \/ Black(t, t.parent[n])

Balanced(H) ==
  Heights(rb, rbIn, H, Null, "left") /\ NoRedPair(rb, rbIn, {}) /\ Black(rb, rb.root)

LEMMA LinksHold ==
  ASSUME NEW S, AtRest(S)
  PROVE  LinksAgree /\ SearchOrder
<1>1. RbTreeOf(rb, rbIn, S) /\ rbIn \subseteq Entries /\ Null \notin rbIn
  BY EntriesAssumption DEF AtRest, RbTreeOf
<1>2. \A n \in rbIn : Above(n) = {m \in rbIn : n \in S[m]}
  BY AboveIs
<1>3. /\ rb.root \in rbIn \cup {Null} /\ (rb.root = Null <=> rbIn = {})
      /\ rb.root # Null => rb.parent[rb.root] = Null
  BY <1>1 DEF RbTreeOf
<1>4. \A n \in rbIn : rb.root \in Above(n)
  BY <1>1, <1>2, TreeNode
<1>5. \A n \in rbIn : \A d \in Dirs :
         rb.child[d][n] # Null => rb.child[d][n] \in rbIn /\ rb.parent[rb.child[d][n]] = n
  BY <1>1, TreeChild
<1>6. \A n \in rbIn : n # rb.root => rb.parent[n] \in rbIn /\ \E d \in Dirs : rb.child[d][rb.parent[n]] = n
  BY <1>1, TreeNode
<1>7. LinksAgree
  BY <1>3, <1>4, <1>5, <1>6 DEF LinksAgree
<1>8. ASSUME NEW n \in rbIn, NEW m \in Above(n) \ {n}
      PROVE  (KeyOf[n] < KeyOf[m]) <=> rb.child["left"][m] \in Above(n)
  <2>1. m \in rbIn /\ n \in S[m]
    BY <1>2, <1>8
  <2>2. Side("left", n, m) <=> KeyOf[n] < KeyOf[m]
    BY SideIs
  <2>3. PICK c : c = rb.child["left"][m]
    OBVIOUS
  <2>4. ASSUME Side("left", n, m) PROVE c \in Above(n)
    <3>1. c # Null /\ n \in S[c]
      BY <1>1, <2>1, <2>3, <2>4, SideIs, TreeBelow
    <3>2. c \in rbIn
      BY <1>1, <2>1, <2>3, <3>1, SideIs, TreeChild
    <3> QED
      BY <1>2, <3>1, <3>2
  <2>5. ASSUME c \in Above(n) PROVE Side("left", n, m)
    <3>1. c # Null /\ n \in S[c]
      BY <1>1, <1>2, <2>5
    <3> QED
      BY <1>1, <2>1, <2>3, <3>1, SideIs, TreeChild
  <2> QED
    BY <2>2, <2>3, <2>4, <2>5
<1> QED
  BY <1>7, <1>8 DEF SearchOrder

LEMMA ColoursHold ==
  ASSUME NEW S, AtRest(S), NEW H, Balanced(H)
  PROVE  ColourRules
<1> DEFINE BlackAbove(n) == {m \in Above(n) : Black(rb, m)}
           B(n) == Cardinality(BlackAbove(n))
           tips == {n \in rbIn : ~TwoChildren(n)}
<1>1. RbTreeOf(rb, rbIn, S) /\ rbIn \subseteq Entries /\ Null \notin rbIn /\ IsFiniteSet(rbIn)
  BY EntriesAssumption DEF AtRest, RbTreeOf
<1>2. \A n \in rbIn : Above(n) = {m \in rbIn : n \in S[m]}
  BY AboveIs
<1>3. ASSUME NEW n \in rbIn
      PROVE  IsFiniteSet(BlackAbove(n)) /\ B(n) \in Nat
  BY <1>1, <1>2, FS_Subset, FS_CardinalityType
<1>4. \A n \in rbIn : H[n] \in Nat
  BY <1>1 DEF Balanced, Heights
<1>5. \A n \in rbIn, d \in Dirs : H[n] = Weight(rb, H, rb.child[d][n])
  <2> SUFFICES ASSUME NEW n \in rbIn, NEW d \in Dirs PROVE H[n] = Weight(rb, H, rb.child[d][n])
    OBVIOUS
  <2>1. H[n] = Weight(rb, H, rb.child[d][n]) + (IF n = Null /\ d = "left" THEN 1 ELSE 0)
    BY DEF Balanced, Heights
  <2>2. H[n] = Weight(rb, H, rb.child[d][n]) + 0
    BY <1>1, <2>1
  <2>3. Weight(rb, H, rb.child[d][n]) \in Nat
    BY <1>1, <1>4, TreeChild DEF Weight
  <2> QED
    BY <2>2, <2>3
<1>6. ASSUME NEW n \in rbIn, NEW d \in Dirs, NEW c, c = rb.child[d][n], c # Null
      PROVE  B(c) + H[c] = B(n) + H[n]
  <2>1. c \in rbIn /\ rb.parent[c] = n /\ S[c] \subseteq S[n] /\ c \in S[c] /\ n \notin S[c] /\ c # n
    BY <1>1, <1>6, TreeChild
  <2>2. \A m \in rbIn : c \in S[m] <=> m = c \/ n \in S[m]
    BY <1>1, <1>6, TreeAbove
  <2>3. BlackAbove(c) = IF Black(rb, c) THEN BlackAbove(n) \cup {c} ELSE BlackAbove(n)
    <3>1. Above(c) = Above(n) \cup {c}
      BY <1>2, <2>1, <2>2
    <3> QED
      BY <3>1
  <2>4. c \notin BlackAbove(n)
    <3>1. n \notin S[c]
      BY <2>1
    <3> QED
      BY <1>2, <3>1
  <2>5. IsFiniteSet(BlackAbove(n)) /\ B(n) \in Nat /\ B(c) \in Nat
    BY <1>3, <2>1
  <2>6. PICK M : M = BlackAbove(n)
    OBVIOUS
  <2>7. Cardinality(M \cup {c}) = Cardinality(M) + 1
    BY <2>4, <2>5, <2>6, FS_AddElement
  <2>8. H[n] = Weight(rb, H, c) /\ H[n] \in Nat /\ H[c] \in Nat
    BY <1>4, <1>5, <1>6, <2>1
  <2>9. CASE Black(rb, c)
    <3>1. B(c) = B(n) + 1
      BY <2>3, <2>6, <2>7, <2>9
    <3>2. H[n] = H[c] + 1
      BY <1>6, <2>8, <2>9 DEF Weight, Black
    <3> HIDE DEF B
    <3> QED
      BY <2>5, <2>8, <3>1, <3>2
  <2>10. CASE ~Black(rb, c)
    <3>1. B(c) = B(n)
      BY <2>3, <2>10
    <3>2. H[n] = H[c]
      BY <1>6, <2>8, <2>10 DEF Weight, Black
    <3> HIDE DEF B
    <3> QED
      BY <3>1, <3>2
  <2> QED
    BY <2>9, <2>10
<1>7. PICK k : k = B(rb.root) + H[rb.root]
  OBVIOUS
<1>8. \A n \in rbIn : B(n) + H[n] = k
  <2> DEFINE X == {n \in rbIn : B(n) + H[n] = k}
  <2>1. ASSUME NEW n \in rbIn, n # rb.root => rb.parent[n] \in X
        PROVE  n \in X
    <3> HIDE DEF B
    <3>1. CASE n = rb.root
      BY <1>7, <3>1
    <3>2. CASE n # rb.root
      <4>1. PICK p : p = rb.parent[n]
        OBVIOUS
      <4>2. p \in rbIn /\ p \in X /\ \E d \in Dirs : rb.child[d][p] = n
        BY <1>1, <2>1, <3>2, <4>1, TreeNode
      <4>3. n # Null
        BY <1>1
      <4> QED
        BY <1>6, <4>2, <4>3
    <3> QED
      BY <3>1, <3>2
  <2> HIDE DEF X
  <2>2. rbIn \subseteq X
    BY <1>1, <2>1, TreeUp
  <2> QED
    BY <2>2 DEF X
<1>9. \A n \in tips : B(n) = k
  <2> SUFFICES ASSUME NEW n \in rbIn, ~TwoChildren(n) PROVE B(n) = k
    OBVIOUS
  <2>1. PICK d \in Dirs : rb.child[d][n] = Null
    BY DEF TwoChildren
  <2>2. H[n] = 0
    BY <1>5, <2>1 DEF Weight
  <2>3. B(n) + H[n] = k /\ B(n) \in Nat
    BY <1>3, <1>8
  <2> HIDE DEF B
  <2> QED
    BY <2>2, <2>3
<1>10. Cardinality({B(n) : n \in tips}) <= 1
  <2> HIDE DEF B, tips
  <2>1. {B(n) : n \in tips} \subseteq {k}
    BY <1>9
  <2>2. IsFiniteSet({k}) /\ Cardinality({k}) = 1
    BY FS_Singleton
  <2> QED
    BY <2>1, <2>2, FS_Subset
<1>11. Black(rb, rb.root) /\ \A n \in rbIn \ {rb.root} : Black(rb, n) \/ Black(rb, rb.parent[n])
  BY DEF Balanced, NoRedPair
<1> QED
  BY <1>10, <1>11 DEF ColourRules

(* --- what an update writes and what it leaves -------------------------- *)

ChildSet(t, u, n, d, c) ==
  /\ u \in Trees /\ u.root = t.root /\ u.color = t.color /\ u.parent = t.parent
  /\ \A e \in Dirs, x \in Entries : u.child[e][x] = IF e = d /\ x = n THEN c ELSE t.child[e][x]

ParentSet(t, u, n, p) ==
  /\ u \in Trees /\ u.root = t.root /\ u.color = t.color /\ u.child = t.child
  /\ \A x \in Entries : u.parent[x] = IF x = n THEN p ELSE t.parent[x]

ColorSet(t, u, n, c) ==
  /\ u \in Trees /\ u.root = t.root /\ u.child = t.child /\ u.parent = t.parent
  /\ \A x \in Entries : u.color[x] = IF x = n THEN c ELSE t.color[x]

Relinked(t, u, p, old, new) ==
  /\ u \in Trees /\ u.color = t.color /\ u.parent = t.parent
  /\ u.root = IF p = Null THEN new ELSE t.root
  /\ \A e \in Dirs, x \in Entries :
       u.child[e][x] = IF x = p /\ t.child[e][x] = old THEN new ELSE t.child[e][x]

LEMMA WithChildIs ==
  ASSUME NEW t \in Trees, NEW d \in Dirs, NEW n \in Entries, NEW c \in RbNodes
  PROVE  ChildSet(t, WithChild(t, n, d, c), n, d, c)
BY DEF Trees, WithChild, ChildSet

LEMMA PaintIs ==
  ASSUME NEW t \in Trees, NEW n \in RbNodes, NEW c \in {"red", "black"}
  PROVE  ColorSet(t, Paint(t, n, c), n, c)
BY DEF Trees, Paint, ColorSet

LEMMA AdoptIs ==
  ASSUME NEW t \in Trees, NEW n \in RbNodes, NEW p \in RbNodes
  PROVE  ParentSet(t, Adopt(t, n, p), n, p)
<1>1. CASE n = Null
  <2>1. Adopt(t, n, p) = t /\ \A x \in Entries : x # n
    BY <1>1, EntriesAssumption DEF Adopt
  <2> QED
    BY <2>1 DEF ParentSet
<1>2. CASE n # Null
  <2>1. n \in Entries
    BY <1>2 DEF RbNodes
  <2>2. Adopt(t, n, p) = [t EXCEPT !.parent[n] = p]
    BY <1>2 DEF Adopt
  <2>3. ParentSet(t, [t EXCEPT !.parent[n] = p], n, p)
    BY <2>1 DEF Trees, ParentSet
  <2> QED
    BY <2>2, <2>3
<1> QED
  BY <1>1, <1>2

LEMMA RelinkIs ==
  ASSUME NEW t \in Trees, NEW p \in RbNodes, NEW old, NEW new \in RbNodes, NEW d \in Dirs,
         p # Null => \E e \in Dirs : t.child[e][p] = old /\ t.child[Opp(e)][p] # old
  PROVE  Relinked(t, Relink(t, p, old, new, d), p, old, new)
<1>1. CASE p = Null
  <2>1. Relink(t, p, old, new, d) = [t EXCEPT !.root = new]
    BY <1>1 DEF Relink
  <2>2. \A x \in Entries : x # p
    BY <1>1, EntriesAssumption
  <2>3. Relinked(t, [t EXCEPT !.root = new], p, old, new)
    BY <1>1, <2>2 DEF Trees, Relinked
  <2> QED
    BY <2>1, <2>3
<1>2. CASE p # Null
  <2>1. p \in Entries
    BY <1>2 DEF RbNodes
  <2>2. PICK e \in Dirs : t.child[e][p] = old /\ t.child[Opp(e)][p] # old
    BY <1>2
  <2>3. Relink(t, p, old, new, d) = WithChild(t, p, e, new)
    <3>1. d = e \/ d = Opp(e)
      BY DirFacts
    <3>2. CASE d = e
      BY <1>2, <2>2, <3>2 DEF Relink
    <3>3. CASE d = Opp(e)
      BY <1>2, <2>2, <3>3, DirFacts DEF Relink
    <3> QED
      BY <3>1, <3>2, <3>3
  <2>4. \A a \in Dirs : t.child[a][p] = old <=> a = e
    BY <2>2, DirFacts
  <2>5. PICK u : u = WithChild(t, p, e, new)
    OBVIOUS
  <2>6. ChildSet(t, u, p, e, new)
    BY <2>1, <2>2, <2>5, WithChildIs
  <2>7. Relinked(t, u, p, old, new)
    BY <1>2, <2>4, <2>6 DEF ChildSet, Relinked
  <2> QED
    BY <2>3, <2>5, <2>7
<1> QED
  BY <1>1, <1>2

(* --- rotation ---------------------------------------------------------- *)

(* The links of r are those of t with n turned under its child. *)
Turned(t, r, n, d) ==
  LET up == t.child[Opp(d)][n]
      inner == t.child[d][up]
      p == t.parent[n]
  IN  /\ r \in Trees
      /\ r.root = IF p = Null THEN up ELSE t.root
      /\ \A x \in Entries : r.parent[x] = IF x = n THEN up ELSE IF x = up THEN p
                                          ELSE IF x = inner THEN n ELSE t.parent[x]
      /\ \A x \in Entries : r.child[d][x] = IF x = up THEN n
                                            ELSE IF x = p /\ t.child[d][x] = n THEN up ELSE t.child[d][x]
      /\ \A x \in Entries : r.child[Opp(d)][x] =
           IF x = n THEN inner
           ELSE IF x = p /\ t.child[Opp(d)][x] = n THEN up ELSE t.child[Opp(d)][x]

LEMMA RotateSteps ==
  ASSUME NEW t, NEW n, NEW d
  PROVE  LET a == t.child[Opp(d)][n]
             b == t.child[d][a]
         IN  RbRotate(t, n, d) = RbRaise(Adopt(WithChild(t, n, Opp(d), b), b, n), n, a, d)
BY DEF RbRotate

LEMMA RotateIs ==
  ASSUME NEW t, NEW I, NEW S, RbTreeOf(t, I, S), NEW n \in I, NEW d \in Dirs,
         t.child[Opp(d)][n] # Null
  PROVE  Turned(t, RbRotate(t, n, d), n, d) /\ RbRotate(t, n, d).color = t.color
<1>1. PICK up : up = t.child[Opp(d)][n]
  OBVIOUS
<1>2. PICK inner : inner = t.child[d][up]
  OBVIOUS
<1>3. PICK p : p = t.parent[n]
  OBVIOUS
<1>4. Opp(d) \in Dirs /\ Opp(d) # d /\ Opp(Opp(d)) = d /\ \A e \in Dirs : e = d \/ e = Opp(d)
  BY DirFacts
<1>5. t \in Trees /\ I \subseteq Entries /\ n \in Entries /\ n # Null
  BY TreeNode DEF RbTreeOf
<1>6. up \in I /\ up # Null /\ up # n /\ up \in Entries /\ t.parent[up] = n
  BY <1>1, <1>4, <1>5, TreeChild
<1>7. p \in RbNodes /\ inner \in RbNodes /\ n \in RbNodes /\ up \in RbNodes
  BY <1>2, <1>3, <1>5, <1>6, TreeTypes DEF RbNodes
<1>8. /\ p # n /\ p # up
      /\ p # Null => p \in I /\ \E e \in Dirs : t.child[e][p] = n /\ t.child[Opp(e)][p] # n
  <2>1. CASE n = t.root
    BY <1>3, <1>5, <1>6, <2>1, TreeNode
  <2>2. CASE n # t.root
    <3>1. p \in I
      BY <1>3, <2>2, TreeNode
    <3>2. PICK e \in Dirs : t.child[e][p] = n
      BY <1>3, <2>2, TreeNode
    <3>3. p # n /\ \A a \in Dirs : t.child[a][p] = n => a = e
      BY <1>5, <3>1, <3>2, TreeChild
    <3>4. Opp(e) \in Dirs /\ Opp(e) # e
      BY DirFacts
    <3>5. n \in S[p] /\ p \notin S[n] /\ up \in S[n]
      BY <1>1, <1>4, <1>5, <1>6, <3>1, <3>2, TreeChild, TreeNode
    <3> QED
      BY <3>1, <3>2, <3>3, <3>4, <3>5
  <2> QED
    BY <2>1, <2>2
<1>9. inner # n /\ inner # up /\ (inner # Null => t.parent[inner] = up)
  <2>1. CASE inner = Null
    BY <1>5, <1>6, <2>1
  <2>2. CASE inner # Null
    BY <1>1, <1>2, <1>4, <1>6, <2>2, TreeChild
  <2> QED
    BY <2>1, <2>2
<1>10. /\ d \in Dirs /\ Opp(d) \in Dirs /\ n \in Entries /\ up \in Entries
       /\ inner \in RbNodes /\ p \in RbNodes /\ n \in RbNodes /\ up \in RbNodes
  BY <1>4, <1>5, <1>6, <1>7
<1>11. PICK t0 : t0 = WithChild(t, n, Opp(d), inner)
  OBVIOUS
<1>12. ChildSet(t, t0, n, Opp(d), inner)
  BY <1>5, <1>10, <1>11, WithChildIs
<1>13. PICK t1 : t1 = Adopt(t0, inner, n)
  OBVIOUS
<1>14. ParentSet(t0, t1, inner, n)
  <2>1. t0 \in Trees
    BY <1>12 DEF ChildSet
  <2> QED
    BY <1>10, <1>13, <2>1, AdoptIs
<1>15. PICK t2 : t2 = Adopt(t1, up, p)
  OBVIOUS
<1>16. ParentSet(t1, t2, up, p)
  <2>1. t1 \in Trees
    BY <1>14 DEF ParentSet
  <2> QED
    BY <1>10, <1>15, <2>1, AdoptIs
<1>17. PICK t3 : t3 = Relink(t2, p, n, up, d)
  OBVIOUS
<1>18. p # Null => \E e \in Dirs : t2.child[e][p] = n /\ t2.child[Opp(e)][p] # n
  <2>1. ASSUME p # Null PROVE \A e \in Dirs : t2.child[e][p] = t.child[e][p]
    BY <1>8, <1>10, <1>12, <1>14, <1>16, <2>1 DEF RbNodes, ChildSet, ParentSet
  <2> QED
    BY <1>8, <2>1, DirFacts
<1>19. Relinked(t2, t3, p, n, up)
  <2>1. t2 \in Trees
    BY <1>16 DEF ParentSet
  <2> QED
    BY <1>10, <1>17, <1>18, <2>1, RelinkIs
<1>20. PICK t4 : t4 = WithChild(t3, up, d, n)
  OBVIOUS
<1>21. ChildSet(t3, t4, up, d, n)
  <2>1. t3 \in Trees
    BY <1>19 DEF Relinked
  <2> QED
    BY <1>10, <1>20, <2>1, WithChildIs
<1>22. PICK r : r = Adopt(t4, n, up)
  OBVIOUS
<1>23. ParentSet(t4, r, n, up)
  <2>1. t4 \in Trees
    BY <1>21 DEF ChildSet
  <2> QED
    BY <1>10, <1>22, <2>1, AdoptIs
<1>24. r = RbRotate(t, n, d)
  <2>1. t1.parent[n] = p
    BY <1>3, <1>5, <1>9, <1>12, <1>14 DEF ChildSet, ParentSet
  <2>2. RbRaise(t1, n, up, d)
          = Adopt(WithChild(Relink(Adopt(t1, up, p), p, n, up, d), up, d, n), n, up)
    BY <2>1 DEF RbRaise
  <2>3. r = RbRaise(t1, n, up, d)
    BY <1>15, <1>17, <1>20, <1>22, <2>2
  <2> QED
    BY <1>1, <1>2, <1>11, <1>13, <2>3, RotateSteps
<1> USE DEF ChildSet, ParentSet, Relinked
<1>25. \A x \in Entries : r.parent[x] = IF x = n THEN up ELSE IF x = up THEN p
                                        ELSE IF x = inner THEN n ELSE t.parent[x]
  BY <1>12, <1>14, <1>16, <1>19, <1>21, <1>23
<1>26. \A x \in Entries : r.child[d][x] = IF x = up THEN n
                          ELSE IF x = p /\ t.child[d][x] = n THEN up ELSE t.child[d][x]
  BY <1>4, <1>12, <1>14, <1>16, <1>19, <1>21, <1>23
<1>27. \A x \in Entries : r.child[Opp(d)][x] =
           IF x = n THEN inner
           ELSE IF x = p /\ t.child[Opp(d)][x] = n THEN up ELSE t.child[Opp(d)][x]
  BY <1>4, <1>8, <1>12, <1>14, <1>16, <1>19, <1>21, <1>23
<1>28. r \in Trees /\ r.color = t.color /\ r.root = IF p = Null THEN up ELSE t.root
  BY <1>12, <1>14, <1>16, <1>19, <1>21, <1>23
<1> QED
  BY <1>1, <1>2, <1>3, <1>24, <1>25, <1>26, <1>27, <1>28 DEF Turned

LEMMA SameLinks ==
  ASSUME NEW t, NEW I, NEW S, RbTreeOf(t, I, S), NEW u \in Trees,
         u.root = t.root, u.child = t.child, u.parent = t.parent
  PROVE  RbTreeOf(u, I, S)
BY DEF RbTreeOf, RbNode

(* What is below n is now below up, and n keeps the near and inner parts.  *)
TurnedSets(S, n, up, near, inner) ==
  [S EXCEPT ![up] = S[n], ![n] = {n} \cup Under(S, near) \cup Under(S, inner)]

LEMMA RotateTree ==
  ASSUME NEW t, NEW I, NEW S, RbTreeOf(t, I, S), NEW n \in I, NEW d \in Dirs,
         t.child[Opp(d)][n] # Null, NEW r, Turned(t, r, n, d)
  PROVE  \E S2 : RbTreeOf(r, I, S2)
<1>1. PICK up : up = t.child[Opp(d)][n]
  OBVIOUS
<1>2. PICK inner : inner = t.child[d][up]
  OBVIOUS
<1>3. PICK p : p = t.parent[n]
  OBVIOUS
<1>4. PICK near : near = t.child[d][n]
  OBVIOUS
<1>5. PICK outer : outer = t.child[Opp(d)][up]
  OBVIOUS
<1>6. PICK o : o = Opp(d)
  OBVIOUS
<1>7. o \in Dirs /\ o # d /\ Opp(o) = d /\ \A e \in Dirs : e = d \/ e = o
  BY <1>6, DirFacts
<1>8. t \in Trees /\ I \subseteq Entries /\ n \in Entries /\ n # Null /\ Null \notin Entries
  BY TreeNode, EntriesAssumption DEF RbTreeOf
<1>9. /\ up \in I /\ up # n /\ up \in Entries /\ t.parent[up] = n /\ n \notin S[up]
      /\ up # Null /\ \A m \in S[up] : Side(o, m, n)
  BY <1>1, <1>6, <1>7, <1>8, TreeChild
<1>10. up \in S[up] /\ S[up] \subseteq S[n]
  BY <1>1, <1>6, <1>7, <1>8, TreeChild
<1>11. /\ r \in Trees
       /\ r.root = IF p = Null THEN up ELSE t.root
       /\ \A x \in Entries : r.parent[x] = IF x = n THEN up ELSE IF x = up THEN p
                                           ELSE IF x = inner THEN n ELSE t.parent[x]
       /\ \A x \in Entries : r.child[d][x] = IF x = up THEN n
                                             ELSE IF x = p /\ t.child[d][x] = n THEN up ELSE t.child[d][x]
       /\ \A x \in Entries : r.child[o][x] =
            IF x = n THEN inner
            ELSE IF x = p /\ t.child[o][x] = n THEN up ELSE t.child[o][x]
  BY <1>1, <1>2, <1>3, <1>6 DEF Turned
<1>12. /\ inner # Null => /\ inner \in I /\ t.parent[inner] = up /\ inner # up /\ inner # n
                          /\ \A m \in S[inner] : Side(d, m, up) /\ m \in S[up]
       /\ outer # Null => /\ outer \in I /\ t.parent[outer] = up /\ outer # up /\ outer # n
                          /\ \A m \in S[outer] : Side(o, m, up)
       /\ near # Null => /\ near \in I /\ t.parent[near] = n /\ near # n /\ near # up
                         /\ \A m \in S[near] : Side(d, m, n)
  <2>1. ASSUME inner # Null
        PROVE  /\ inner \in I /\ t.parent[inner] = up /\ inner # up
               /\ \A m \in S[inner] : Side(d, m, up) /\ m \in S[up]
    BY <1>2, <1>9, <2>1, TreeChild
  <2>2. inner # Null => inner # n
    <3>1. inner # Null => inner \in S[inner]
      BY <2>1, TreeNode
    <3> QED
      BY <1>9, <2>1, <3>1
  <2>3. ASSUME outer # Null
        PROVE  /\ outer \in I /\ t.parent[outer] = up /\ outer # up /\ outer # n
               /\ \A m \in S[outer] : Side(o, m, up)
    <3>1. /\ outer \in I /\ t.parent[outer] = up /\ outer # up /\ S[outer] \subseteq S[up]
          /\ \A m \in S[outer] : Side(o, m, up)
      BY <1>5, <1>6, <1>7, <1>9, <2>3, TreeChild
    <3>2. outer \in S[outer]
      BY <3>1, TreeNode
    <3> QED
      BY <1>9, <3>1, <3>2
  <2>4. ASSUME near # Null
        PROVE  /\ near \in I /\ t.parent[near] = n /\ near # n /\ near # up
               /\ \A m \in S[near] : Side(d, m, n)
    <3>1. /\ near \in I /\ t.parent[near] = n /\ near # n
          /\ \A m \in S[near] : Side(d, m, n)
          /\ \A x \in I, e \in Dirs : t.child[e][x] = near => x = n /\ e = d
      BY <1>4, <1>8, <2>4, TreeChild
    <3> QED
      BY <1>1, <1>6, <1>7, <3>1
  <2> QED
    BY <2>1, <2>2, <2>3, <2>4
<1>13. near # Null => near # inner
  BY <1>9, <1>12
<1>14. outer # Null => outer # inner
  <2>1. inner # Null => \A x \in I, e \in Dirs : t.child[e][x] = inner => x = up /\ e = d
    BY <1>2, <1>9, TreeChild
  <2> QED
    BY <1>5, <1>6, <1>7, <1>9, <2>1
<1>15. /\ p # n /\ p # up
       /\ p = Null <=> n = t.root
       /\ p # Null => p \in I /\ \E e \in Dirs : t.child[e][p] = n
  <2>1. p = Null <=> n = t.root
    BY <1>3, TreeNode
  <2>2. p # Null => p \in I /\ \E e \in Dirs : t.child[e][p] = n
    BY <1>3, <2>1, TreeNode
  <2>3. ASSUME p # Null PROVE p # n /\ p # up
    <3>1. PICK e \in Dirs : t.child[e][p] = n
      BY <2>2, <2>3
    <3>2. n # p /\ p \notin S[n]
      BY <1>8, <2>2, <2>3, <3>1, TreeChild
    <3> QED
      BY <1>10, <3>2
  <2> QED
    BY <1>8, <1>9, <2>1, <2>2, <2>3
<1>16. PICK S2 : S2 = TurnedSets(S, n, up, near, inner)
  OBVIOUS
<1>17. PICK B : B = {n} \cup Under(S, near) \cup Under(S, inner)
  OBVIOUS
<1>18. S \in [Entries -> SUBSET Entries]
  BY DEF RbTreeOf
<1>19. \A x \in Entries : S2[x] = IF x = n THEN B ELSE IF x = up THEN S[n] ELSE S[x]
  BY <1>8, <1>9, <1>16, <1>17, <1>18 DEF TurnedSets
<1>20. S[n] = {n} \cup Under(S, near) \cup S[up]
  <2>1. S[n] = {n} \cup Under(S, t.child["left"][n]) \cup Under(S, t.child["right"][n])
    BY DEF RbTreeOf, RbNode
  <2>2. S[n] = {n} \cup Under(S, t.child[d][n]) \cup Under(S, t.child[o][n])
    BY <1>7, <2>1 DEF Dirs
  <2> QED
    BY <1>1, <1>4, <1>6, <1>9, <2>2 DEF Under
<1>21. S[up] = {up} \cup Under(S, inner) \cup Under(S, outer)
  <2>1. S[up] = {up} \cup Under(S, t.child["left"][up]) \cup Under(S, t.child["right"][up])
    BY <1>9 DEF RbTreeOf, RbNode
  <2>2. S[up] = {up} \cup Under(S, t.child[d][up]) \cup Under(S, t.child[o][up])
    BY <1>7, <2>1 DEF Dirs
  <2> QED
    BY <1>2, <1>5, <1>6, <2>2
<1>22. S[n] \subseteq I /\ S[n] \subseteq Entries /\ B \subseteq S[n]
  BY <1>8, <1>17, <1>20, <1>21, TreeNode
<1>23. S2 \in [Entries -> SUBSET Entries]
  BY <1>8, <1>9, <1>16, <1>17, <1>18, <1>22 DEF TurnedSets
<1>24. Under(S2, near) = Under(S, near) /\ Under(S2, inner) = Under(S, inner)
       /\ Under(S2, outer) = Under(S, outer)
  BY <1>8, <1>12, <1>19 DEF Under
<1>25. RbNode(r, I, S2, n)
  <2>1. r.child[d][n] = near /\ r.child[o][n] = inner /\ r.parent[n] = up
    BY <1>4, <1>8, <1>9, <1>11, <1>15
  <2>2. S2[n] = {n} \cup Under(S2, r.child["left"][n]) \cup Under(S2, r.child["right"][n])
    <3>1. S2[n] = {n} \cup Under(S2, near) \cup Under(S2, inner)
      BY <1>8, <1>17, <1>19, <1>24
    <3> QED
      BY <1>7, <2>1, <3>1 DEF Dirs
  <2>3. S2[n] \subseteq I
    BY <1>8, <1>19, <1>22
  <2>4. near # Null => near \in I /\ r.parent[near] = n /\ \A m \in S2[near] : Side(d, m, n)
    BY <1>8, <1>11, <1>12, <1>13, <1>19
  <2>5. inner # Null => inner \in I /\ r.parent[inner] = n /\ \A m \in S2[inner] : Side(o, m, n)
    BY <1>8, <1>9, <1>11, <1>12, <1>19
  <2>6. r.child[d][up] = n
    BY <1>9, <1>11
  <2> QED
    BY <1>7, <1>9, <2>1, <2>2, <2>3, <2>4, <2>5, <2>6 DEF RbNode
<1>26. RbNode(r, I, S2, up)
  <2>1. r.child[d][up] = n /\ r.child[o][up] = outer /\ r.parent[up] = p
    BY <1>5, <1>6, <1>9, <1>11, <1>15
  <2>2. S2[up] = {up} \cup Under(S2, r.child["left"][up]) \cup Under(S2, r.child["right"][up])
    <3>1. S2[up] = {up} \cup B \cup Under(S, outer)
      BY <1>9, <1>17, <1>19, <1>20, <1>21
    <3>2. Under(S2, n) = B
      BY <1>8, <1>19 DEF Under
    <3> QED
      BY <1>7, <1>24, <2>1, <3>1, <3>2 DEF Dirs
  <2>3. S2[up] \subseteq I
    BY <1>9, <1>19, <1>22
  <2>4. ASSUME NEW m \in B PROVE Side(d, m, up)
    <3>1. Side(d, n, up)
      BY <1>6, <1>7, <1>8, <1>9, <1>10, SideFacts
    <3>2. CASE m = n
      BY <3>1, <3>2
    <3>3. CASE m \in Under(S, near)
      <4>1. m \in Entries /\ Side(d, m, n)
        BY <1>8, <1>12, <1>17, <1>22, <3>3 DEF Under
      <4> QED
        BY <1>8, <1>9, <3>1, <4>1, SideTransitive
    <3>4. CASE m \in Under(S, inner)
      BY <1>12, <3>4 DEF Under
    <3> QED
      BY <1>17, <3>2, <3>3, <3>4
  <2>5. r.parent[n] = up /\ S2[n] = B
    BY <1>8, <1>11, <1>19
  <2>6. outer # Null => outer \in I /\ r.parent[outer] = up /\ \A m \in S2[outer] : Side(o, m, up)
    BY <1>8, <1>11, <1>12, <1>14, <1>19
  <2>7. up # r.root => p \in I /\ \E e \in Dirs : r.child[e][p] = up
    <3>1. SUFFICES ASSUME up # r.root PROVE p \in I /\ \E e \in Dirs : r.child[e][p] = up
      OBVIOUS
    <3>2. p \in I /\ p \in Entries
      BY <1>8, <1>11, <1>15, <3>1
    <3>3. PICK e \in Dirs : t.child[e][p] = n
      BY <1>8, <1>15, <3>2
    <3>4. r.child[e][p] = up
      BY <1>7, <1>11, <1>15, <3>2, <3>3
    <3> QED
      BY <3>2, <3>4
  <2> QED
    BY <1>7, <2>1, <2>2, <2>3, <2>4, <2>5, <2>6, <2>7 DEF RbNode
<1>27. ASSUME NEW x \in I, x # n, x # up
       PROVE  RbNode(r, I, S2, x)
  <2>1. x \in Entries /\ S2[x] = S[x] /\ S[x] \subseteq I
    BY <1>8, <1>19, <1>27, TreeNode
  <2>2. \A e \in Dirs : t.child[e][x] \in Entries \cup {Null}
    BY <1>8, <2>1, TreeTypes DEF RbNodes
  <2>3. \A e \in Dirs : r.child[e][x] = IF t.child[e][x] = n THEN up ELSE t.child[e][x]
    <3>1. \A e \in Dirs : t.child[e][x] = n => x = p
      BY <1>3, <1>8, TreeChild
    <3> QED
      BY <1>7, <1>11, <1>27, <2>1, <3>1
  <2>4. \A e \in Dirs : t.child[e][x] # up
    BY <1>9, <1>27, TreeChild
  <2>5. \A e \in Dirs : Under(S2, r.child[e][x]) = Under(S, t.child[e][x])
    BY <1>8, <1>9, <1>19, <2>2, <2>3, <2>4 DEF Under
  <2>6. S2[x] = {x} \cup Under(S2, r.child["left"][x]) \cup Under(S2, r.child["right"][x])
    <3>1. S[x] = {x} \cup Under(S, t.child["left"][x]) \cup Under(S, t.child["right"][x])
      BY DEF RbTreeOf, RbNode
    <3> QED
      BY <2>1, <2>5, <3>1 DEF Dirs
  <2>7. ASSUME NEW e \in Dirs, r.child[e][x] # Null
        PROVE  /\ r.child[e][x] \in I /\ r.parent[r.child[e][x]] = x
               /\ \A m \in S2[r.child[e][x]] : Side(e, m, x)
    <3>1. PICK c : c = t.child[e][x]
      OBVIOUS
    <3>2. c # Null
      BY <1>8, <2>3, <2>7, <3>1
    <3>3. c \in I /\ t.parent[c] = x /\ \A m \in S[c] : Side(e, m, x)
      BY <3>1, <3>2, TreeChild
    <3>4. c # up /\ c # inner /\ c \in Entries
      BY <1>8, <1>9, <1>12, <1>27, <3>2, <3>3
    <3>5. CASE c = n
      <4>1. r.child[e][x] = up /\ x = p
        BY <1>3, <2>3, <3>1, <3>3, <3>5
      <4>2. r.parent[up] = p /\ S2[up] = S[n]
        BY <1>9, <1>11, <1>19
      <4> QED
        BY <1>9, <3>3, <3>5, <4>1, <4>2
    <3>6. CASE c # n
      <4>1. r.child[e][x] = c /\ r.parent[c] = x /\ S2[c] = S[c]
        BY <1>11, <1>19, <2>3, <3>1, <3>3, <3>4, <3>6
      <4> QED
        BY <3>3, <4>1
    <3> QED
      BY <3>5, <3>6
  <2>8. ASSUME x # r.root
        PROVE  r.parent[x] \in I /\ \E e \in Dirs : r.child[e][r.parent[x]] = x
    <3>1. CASE x = inner
      <4>1. r.parent[x] = n /\ r.child[o][n] = x
        BY <1>8, <1>11, <1>27, <2>1, <3>1
      <4> QED
        BY <1>7, <4>1
    <3>2. CASE x # inner
      <4>1. PICK y : y = t.parent[x]
        OBVIOUS
      <4>2. r.parent[x] = y
        BY <1>11, <1>27, <2>1, <3>2, <4>1
      <4>3. x # t.root
        BY <1>11, <1>15, <1>27, <2>8
      <4>4. y \in I /\ y \in Entries
        BY <1>8, <4>1, <4>3, TreeNode
      <4>5. PICK e \in Dirs : t.child[e][y] = x
        BY <4>1, <4>3, TreeNode
      <4>6. CASE y = n
        <5>1. e = d
          BY <1>1, <1>6, <1>7, <1>27, <4>5, <4>6
        <5>2. r.child[d][n] = x
          BY <1>8, <1>9, <1>11, <1>15, <4>5, <4>6, <5>1
        <5> QED
          BY <4>2, <4>4, <4>6, <5>2
      <4>7. CASE y = up
        <5>1. e = o
          BY <1>2, <1>7, <3>2, <4>5, <4>7
        <5>2. r.child[o][up] = x
          BY <1>9, <1>11, <1>15, <4>5, <4>7, <5>1
        <5> QED
          BY <1>7, <4>2, <4>4, <4>7, <5>2
      <4>8. CASE y # n /\ y # up
        <5>1. r.child[e][y] = x
          BY <1>7, <1>11, <1>27, <4>4, <4>5, <4>8
        <5> QED
          BY <4>2, <4>4, <5>1
      <4> QED
        BY <4>6, <4>7, <4>8
    <3> QED
      BY <3>1, <3>2
  <2> QED
    BY <2>1, <2>6, <2>7, <2>8 DEF RbNode
<1>28. r.root \in I /\ S2[r.root] = I /\ r.parent[r.root] = Null /\ r.root # Null
  <2>1. CASE p = Null
    <3>1. n = t.root /\ S[n] = I
      BY <1>15, <2>1, TreeNode
    <3> QED
      BY <1>9, <1>11, <1>19, <2>1, <3>1
  <2>2. CASE p # Null
    <3>1. t.root \in I /\ t.root \in Entries /\ S[t.root] = I /\ t.parent[t.root] = Null
      BY <1>8, TreeNode
    <3>2. t.root # n /\ t.root # up /\ t.root # inner
      BY <1>8, <1>9, <1>12, <1>15, <2>2, <3>1
    <3> QED
      BY <1>8, <1>11, <1>19, <2>2, <3>1, <3>2
  <2> QED
    BY <2>1, <2>2
<1>29. \A x \in I : RbNode(r, I, S2, x)
  BY <1>25, <1>26, <1>27
<1>30. RbTreeOf(r, I, S2)
  <2>1. IsFiniteSet(I) /\ \A a, b \in I : KeyOf[a] = KeyOf[b] => a = b
    BY DEF RbTreeOf
  <2> QED
    BY <1>8, <1>11, <1>23, <1>28, <1>29, <2>1 DEF RbTreeOf
<1> QED
  BY <1>30

(* The entries of F keep their links and their colour. *)
Untouched(t, r, F) ==
  \A x \in F : /\ r.parent[x] = t.parent[x] /\ r.color[x] = t.color[x]
               /\ \A e \in Dirs : r.child[e][x] = t.child[e][x]

LEMMA FreshKept ==
  ASSUME NEW t, NEW r, NEW F, Fresh(t, F), Untouched(t, r, F)
  PROVE  Fresh(r, F)
BY DEF Fresh, Untouched

LEMMA TurnFacts ==
  ASSUME NEW t, NEW I, NEW S, RbTreeOf(t, I, S), NEW n \in I, NEW d \in Dirs,
         NEW up, up = t.child[Opp(d)][n], up # Null,
         NEW inner, inner = t.child[d][up], NEW outer, outer = t.child[Opp(d)][up],
         NEW near, near = t.child[d][n], NEW p, p = t.parent[n]
  PROVE  /\ n \in Entries /\ up \in I /\ up \in Entries /\ n # Null /\ up # n /\ p # n /\ p # up
         /\ t.parent[up] = n /\ up # t.root /\ n \in S[n] /\ Null \notin I
         /\ inner \in I \cup {Null} /\ outer \in I \cup {Null} /\ near \in I \cup {Null}
         /\ inner # n /\ inner # up /\ outer # n /\ outer # up /\ near # n /\ near # up
         /\ inner # Null => t.parent[inner] = up /\ inner # outer /\ inner # near /\ inner # t.root
         /\ near # Null => near # outer
         /\ \A x \in I \ {t.root} : t.parent[x] = n => x = near \/ x = up
         /\ \A x \in I \ {t.root} : t.parent[x] = up => x = inner \/ x = outer
         /\ \A x \in I, e \in Dirs : t.child[e][x] = n => x = p
         /\ \A x \in I, e \in Dirs : t.child[e][x] = up => x = n /\ e = Opp(d)
         /\ p = Null <=> n = t.root
         /\ p # Null => p \in I
<1>1. PICK o : o = Opp(d)
  OBVIOUS
<1>2. o \in Dirs /\ o # d /\ \A e \in Dirs : e = d \/ e = o
  BY <1>1, DirFacts
<1>3. n \in Entries /\ n # Null /\ n \in S[n] /\ Null \notin I
  BY TreeNode, EntriesAssumption DEF RbTreeOf
<1>4. /\ up \in I /\ up # n /\ t.parent[up] = n /\ up # t.root /\ n \notin S[up] /\ S[up] \subseteq S[n]
      /\ \A x \in I, e \in Dirs : t.child[e][x] = up => x = n /\ e = o
  BY <1>1, <1>2, TreeChild
<1>5. up \in Entries /\ up \in S[up]
  BY <1>4, TreeNode
<1>6. p = Null <=> n = t.root
  BY TreeNode
<1>7. p # Null => p \in I /\ \E e \in Dirs : t.child[e][p] = n
  BY <1>6, TreeNode
<1>8. p # n /\ p # up
  <2>1. CASE p = Null
    BY <1>3, <1>4, <2>1
  <2>2. CASE p # Null
    <3>1. PICK e \in Dirs : t.child[e][p] = n
      BY <1>7, <2>2
    <3>2. n # p /\ p \notin S[n]
      BY <1>3, <1>7, <2>2, <3>1, TreeChild
    <3> QED
      BY <1>4, <1>5, <3>2
  <2> QED
    BY <2>1, <2>2
<1>9. near # Null => near \in I /\ near # n /\ near # up /\ t.parent[near] = n
  BY <1>1, <1>2, <1>4, TreeChild
<1>10. inner # Null => /\ inner \in I /\ inner # up /\ t.parent[inner] = up /\ inner # t.root
                       /\ inner # outer
  BY <1>1, <1>2, <1>4, TreeChild
<1>11. outer # Null => outer \in I /\ outer # up /\ t.parent[outer] = up
  BY <1>1, <1>2, <1>4, TreeChild
<1>12. \A c \in {inner, outer} : c # Null => c # n
  <2>1. \A c \in {inner, outer} : c # Null => c \in S[up]
    <3>1. inner # Null => S[inner] \subseteq S[up] /\ inner \in S[inner]
      BY <1>4, TreeChild
    <3>2. outer # Null => S[outer] \subseteq S[up] /\ outer \in S[outer]
      BY <1>1, <1>2, <1>4, TreeChild
    <3> QED
      BY <3>1, <3>2
  <2> QED
    BY <1>4, <2>1
<1>13. \A x \in I \ {t.root} : \E e \in Dirs : t.child[e][t.parent[x]] = x
  BY TreeNode
<1>14. \A x \in I \ {t.root} : t.parent[x] = n => x = near \/ x = up
  BY <1>1, <1>2, <1>13
<1>15. \A x \in I \ {t.root} : t.parent[x] = up => x = inner \/ x = outer
  BY <1>1, <1>2, <1>13
<1>16. \A x \in I, e \in Dirs : t.child[e][x] = n => x = p
  BY <1>3, TreeChild
<1>17. /\ inner \in I \cup {Null} /\ outer \in I \cup {Null} /\ near \in I \cup {Null}
       /\ inner # n /\ inner # up /\ outer # n /\ outer # up /\ near # n /\ near # up
  BY <1>3, <1>4, <1>9, <1>10, <1>11, <1>12
<1>18. near # Null => near # outer /\ near # inner
  BY <1>4, <1>9, <1>10, <1>11
<1> QED
  BY <1>1, <1>3, <1>4, <1>5, <1>6, <1>7, <1>8, <1>10, <1>14, <1>15, <1>16, <1>17, <1>18

(* v is t in other colours. *)
Repainted(t, v, I) ==
  /\ v \in Trees /\ v.root = t.root /\ v.child = t.child /\ v.parent = t.parent
  /\ Untouched(t, v, Entries \ I)

Painted(t, n, c, r) == r = Paint(t, n, c)
Rotated(t, n, d, r) == r = RbRotate(t, n, d)
HasChild(t, n, d) == t.child[d][n] # Null

(* A tree repainted and turned is a tree. *)
LEMMA TurnIs ==
  ASSUME NEW t, NEW I, NEW S, RbTreeOf(t, I, S), NEW n \in I, NEW d \in Dirs,
         HasChild(t, n, Opp(d)), NEW v, Repainted(t, v, I), NEW r, Rotated(v, n, d, r)
  PROVE  /\ Turned(t, r, n, d) /\ r.color = v.color
         /\ (\E S2 : RbTreeOf(r, I, S2)) /\ Untouched(t, r, Entries \ I)
<1>r. /\ v \in Trees /\ v.root = t.root /\ v.child = t.child /\ v.parent = t.parent
      /\ Untouched(t, v, Entries \ I) /\ t.child[Opp(d)][n] # Null
  BY DEF Repainted, HasChild
<1>1. RbTreeOf(v, I, S)
  BY <1>r, SameLinks
<1>2. Turned(v, r, n, d) /\ r.color = v.color
  BY <1>1, <1>r, RotateIs DEF Rotated
<1>3. \E S2 : RbTreeOf(r, I, S2)
  BY <1>1, <1>2, <1>r, RotateTree
<1>4. Turned(t, r, n, d)
  BY <1>2, <1>r DEF Turned
<1>5. Untouched(t, r, Entries \ I)
  <2>1. PICK up : up = t.child[Opp(d)][n]
    OBVIOUS
  <2>2. PICK inner : inner = t.child[d][up]
    OBVIOUS
  <2>3. PICK p : p = t.parent[n]
    OBVIOUS
  <2>4. n \in I /\ up \in I /\ inner \in I \cup {Null} /\ (p # Null => p \in I)
    BY <1>r, <2>1, <2>2, <2>3, TurnFacts
  <2>5. /\ \A x \in Entries : r.parent[x] = IF x = n THEN up ELSE IF x = up THEN p
                                            ELSE IF x = inner THEN n ELSE t.parent[x]
        /\ \A x \in Entries : r.child[d][x] = IF x = up THEN n
                                              ELSE IF x = p /\ t.child[d][x] = n THEN up ELSE t.child[d][x]
        /\ \A x \in Entries : r.child[Opp(d)][x] =
             IF x = n THEN inner
             ELSE IF x = p /\ t.child[Opp(d)][x] = n THEN up ELSE t.child[Opp(d)][x]
    BY <1>4, <2>1, <2>2, <2>3 DEF Turned
  <2>6. \A x \in Entries \ I : x # n /\ x # up /\ x # inner /\ x # p
    BY <2>4, EntriesAssumption
  <2>7. \A x \in Entries \ I : r.color[x] = t.color[x]
    BY <1>2, <1>r DEF Untouched
  <2>8. \A x \in Entries \ I : r.parent[x] = t.parent[x]
    BY <2>5, <2>6
  <2>9. \A x \in Entries \ I : \A e \in Dirs : r.child[e][x] = t.child[e][x]
    BY <2>5, <2>6, DirFacts
  <2> QED
    BY <2>7, <2>8, <2>9 DEF Untouched
<1> QED
  BY <1>2, <1>3, <1>4, <1>5

LEMMA NoRedPairLess ==
  ASSUME NEW t, NEW I, NoRedPair(t, I, {}), NEW X
  PROVE  NoRedPair(t, I, X)
BY DEF NoRedPair

LEMMA WeightIs ==
  ASSUME NEW t, NEW H \in [Entries -> Nat], NEW c \in RbNodes
  PROVE  /\ Weight(t, H, c) \in Nat
         /\ c # Null => c \in Entries
         /\ c # Null /\ Black(t, c) => Weight(t, H, c) = H[c] + 1
         /\ c # Null /\ ~Black(t, c) => Weight(t, H, c) = H[c]
BY DEF RbNodes, Weight, Black

(* Where no path lacks a black node. *)
LEMMA EvenHeights ==
  ASSUME NEW t \in Trees, NEW I \in SUBSET Entries, NEW H \in [Entries -> Nat], NEW D
  PROVE  Heights(t, I, H, Null, D) <=> \A x \in I, e \in Dirs : H[x] = Weight(t, H, t.child[e][x])
<1>1. \A x \in I, e \in Dirs : Weight(t, H, t.child[e][x]) \in Nat
  BY TreeTypes, WeightIs
<1>2. \A x \in I : x # Null
  BY EntriesAssumption
<1>3. \A x \in I, e \in Dirs : Weight(t, H, t.child[e][x]) + (IF x = Null /\ e = D THEN 1 ELSE 0)
                                 = Weight(t, H, t.child[e][x])
  BY <1>1, <1>2
<1> QED
  BY <1>3 DEF Heights

(* A red child turned up over a black node takes its colour and gives it   *)
(* its own: no path changes its number of black nodes.                     *)
LEMMA RaiseColours ==
  ASSUME NEW t, NEW I, NEW S, RbTreeOf(t, I, S), NEW n \in I, NEW d \in Dirs,
         NEW up, up = t.child[Opp(d)][n], up # Null,
         t.color[up] = "red", t.color[n] = "black", Black(t, t.child[d][n]), Black(t, t.root),
         NEW H, NEW q, NEW D, Heights(t, I, H, q, D), q = n => D = d, q # up,
         NoRedPair(t, I, {t.child[Opp(d)][up]}),
         NEW r, Turned(t, r, n, d),
         \A x \in Entries : r.color[x] = IF x = n THEN "red" ELSE IF x = up THEN "black" ELSE t.color[x]
  PROVE  Heights(r, I, H, q, D) /\ NoRedPair(r, I, {}) /\ Black(r, r.root)
<1>1. PICK o : o = Opp(d)
  OBVIOUS
<1>2. PICK inner : inner = t.child[d][up]
  OBVIOUS
<1>3. PICK outer : outer = t.child[o][up]
  OBVIOUS
<1>4. PICK near : near = t.child[d][n]
  OBVIOUS
<1>5. PICK p : p = t.parent[n]
  OBVIOUS
<1>6. o \in Dirs /\ o # d /\ \A e \in Dirs : e = d \/ e = o
  BY <1>1, DirFacts
<1>7. /\ n \in Entries /\ up \in I /\ up \in Entries /\ n # Null /\ up # n /\ p # n /\ p # up
      /\ t.parent[up] = n /\ up # t.root /\ Null \notin I
      /\ inner \in I \cup {Null} /\ outer \in I \cup {Null} /\ near \in I \cup {Null}
      /\ inner # n /\ inner # up /\ outer # n /\ outer # up /\ near # n /\ near # up
      /\ inner # Null => t.parent[inner] = up /\ inner # outer /\ inner # near /\ inner # t.root
      /\ near # Null => near # outer
      /\ \A x \in I \ {t.root} : t.parent[x] = n => x = near \/ x = up
      /\ \A x \in I \ {t.root} : t.parent[x] = up => x = inner \/ x = outer
      /\ \A x \in I, e \in Dirs : t.child[e][x] = n => x = p
      /\ \A x \in I, e \in Dirs : t.child[e][x] = up => x = n /\ e = o
      /\ p = Null <=> n = t.root
      /\ p # Null => p \in I
  BY <1>1, <1>2, <1>3, <1>4, <1>5, TurnFacts
<1>8. /\ r \in Trees
      /\ r.root = IF p = Null THEN up ELSE t.root
      /\ \A x \in Entries : r.parent[x] = IF x = n THEN up ELSE IF x = up THEN p
                                          ELSE IF x = inner THEN n ELSE t.parent[x]
      /\ \A x \in Entries : r.child[d][x] = IF x = up THEN n
                                            ELSE IF x = p /\ t.child[d][x] = n THEN up ELSE t.child[d][x]
      /\ \A x \in Entries : r.child[o][x] =
           IF x = n THEN inner
           ELSE IF x = p /\ t.child[o][x] = n THEN up ELSE t.child[o][x]
  BY <1>1, <1>2, <1>5 DEF Turned
<1>9. t \in Trees /\ I \subseteq Entries /\ Null \notin Entries
  BY EntriesAssumption DEF RbTreeOf
<1>10. /\ H \in [Entries -> Nat]
       /\ \A x \in I, e \in Dirs : H[x] = Weight(t, H, t.child[e][x]) + (IF x = q /\ e = D THEN 1 ELSE 0)
  BY DEF Heights
<1>11. \A c \in Entries \cup {Null} : c # n /\ c # up => Weight(r, H, c) = Weight(t, H, c)
  BY DEF Weight
<1>12. Weight(r, H, n) = H[n] /\ Weight(r, H, up) = H[up] + 1
  BY <1>7, <1>9 DEF Weight
<1>13. Weight(t, H, n) = H[n] + 1 /\ Weight(t, H, up) = H[up]
  BY <1>7, <1>9 DEF Weight
<1>14. H[n] = H[up]
  <2>1. H[n] = Weight(t, H, up) + (IF n = q /\ o = D THEN 1 ELSE 0)
    BY <1>1, <1>6, <1>10
  <2>2. H[n] \in Nat /\ H[up] \in Nat
    BY <1>7, <1>10
  <2> QED
    BY <1>6, <1>13, <2>1, <2>2
<1>15. H[n] = Weight(t, H, near) + (IF n = q /\ d = D THEN 1 ELSE 0)
  BY <1>4, <1>10
<1>16. H[up] = Weight(t, H, inner) + (IF up = q /\ d = D THEN 1 ELSE 0)
       /\ H[up] = Weight(t, H, outer) + (IF up = q /\ o = D THEN 1 ELSE 0)
  BY <1>2, <1>3, <1>6, <1>7, <1>10
<1>17. Heights(r, I, H, q, D)
  <2>1. ASSUME NEW x \in I, NEW e \in Dirs
        PROVE  H[x] = Weight(r, H, r.child[e][x]) + (IF x = q /\ e = D THEN 1 ELSE 0)
    <3>1. x \in Entries
      BY <1>9
    <3>2. CASE x = n
      <4>1. r.child[d][n] = near /\ r.child[o][n] = inner
        BY <1>4, <1>7, <1>8
      <4>2. Weight(r, H, near) = Weight(t, H, near) /\ Weight(r, H, inner) = Weight(t, H, inner)
        BY <1>7, <1>9, <1>11
      <4>3. H[n] = Weight(r, H, near) + (IF n = q /\ d = D THEN 1 ELSE 0)
        BY <1>15, <4>2
      <4>4. H[n] = Weight(r, H, inner) + (IF n = q /\ o = D THEN 1 ELSE 0)
        BY <1>6, <1>14, <1>16, <4>2
      <4> QED
        BY <1>6, <3>2, <4>1, <4>3, <4>4
    <3>3. CASE x = up
      <4>1. r.child[d][up] = n /\ r.child[o][up] = outer
        BY <1>3, <1>7, <1>8
      <4>2. Weight(r, H, outer) = Weight(t, H, outer)
        BY <1>7, <1>9, <1>11
      <4>3. H[up] = Weight(r, H, n) + (IF up = q /\ d = D THEN 1 ELSE 0)
        <5>1. H[up] \in Nat
          BY <1>7, <1>10
        <5> QED
          BY <1>12, <1>14, <5>1
      <4>4. H[up] = Weight(r, H, outer) + (IF up = q /\ o = D THEN 1 ELSE 0)
        BY <1>16, <4>2
      <4> QED
        BY <1>6, <3>3, <4>1, <4>3, <4>4
    <3>4. CASE x # n /\ x # up
      <4>1. PICK c : c = t.child[e][x]
        OBVIOUS
      <4>2. c \in Entries \cup {Null} /\ c # up
        BY <1>7, <1>9, <3>1, <3>4, <4>1, TreeTypes DEF RbNodes
      <4>3. r.child[e][x] = IF c = n THEN up ELSE c
        BY <1>6, <1>7, <1>8, <3>1, <3>4, <4>1
      <4>4. Weight(r, H, r.child[e][x]) = Weight(t, H, c)
        BY <1>11, <1>12, <1>13, <1>14, <4>2, <4>3
      <4> QED
        BY <1>10, <4>1, <4>4
    <3> QED
      BY <3>2, <3>3, <3>4
  <2> QED
    BY <1>10, <2>1 DEF Heights
<1>18. \A x \in I : Black(r, x) <=> x # n /\ (x = up \/ Black(t, x))
  BY <1>7, <1>9 DEF Black
<1>19. NoRedPair(r, I, {})
  <2>1. ASSUME NEW x \in I, x # r.root
        PROVE  Black(r, x) \/ Black(r, r.parent[x])
    <3>1. x \in Entries
      BY <1>9
    <3>2. CASE x = n
      BY <1>7, <1>8, <1>18, <3>2
    <3>3. CASE x = up
      BY <1>7, <1>18, <3>3
    <3>4. CASE x = inner
      <4>1. Black(t, x) \/ Black(t, up)
        BY <1>1, <1>3, <1>7, <1>9, <3>4 DEF NoRedPair
      <4>2. ~Black(t, up)
        BY <1>7, <1>9 DEF Black
      <4> QED
        BY <1>7, <1>18, <3>4, <4>1, <4>2
    <3>5. CASE x = near
      BY <1>4, <1>7, <1>18, <3>5
    <3>6. CASE x = outer
      <4>1. t.parent[x] = up
        BY <1>1, <1>3, <1>6, <1>7, <1>9, <3>6, TreeChild
      <4>2. r.parent[x] = up
        BY <1>7, <1>8, <1>9, <3>1, <3>6, <4>1
      <4> QED
        BY <1>7, <1>18, <4>2
    <3>7. CASE x # n /\ x # up /\ x # inner /\ x # near /\ x # outer
      <4>1. x # t.root /\ r.parent[x] = t.parent[x]
        BY <1>7, <1>8, <2>1, <3>1, <3>7
      <4>2. Black(t, x) \/ Black(t, t.parent[x])
        BY <1>1, <1>3, <3>7, <4>1 DEF NoRedPair
      <4>3. t.parent[x] # n /\ t.parent[x] # up /\ t.parent[x] \in I
        BY <1>7, <3>7, <4>1, TreeNode
      <4> QED
        BY <1>18, <3>7, <4>1, <4>2, <4>3
    <3> QED
      BY <3>2, <3>3, <3>4, <3>5, <3>6, <3>7
  <2> QED
    BY <2>1 DEF NoRedPair
<1>20. Black(r, r.root)
  <2>1. CASE p = Null
    BY <1>7, <1>8, <1>18, <2>1
  <2>2. CASE p # Null
    <3>1. r.root = t.root /\ t.root \in I /\ t.root # n
      BY <1>7, <1>8, <2>2, TreeNode
    <3> QED
      BY <1>18, <3>1
  <2> QED
    BY <2>1, <2>2
<1> QED
  BY <1>17, <1>19, <1>20

(* A red child turned up over a red node: the two change places.           *)
LEMMA TwistColours ==
  ASSUME NEW t, NEW I, NEW S, RbTreeOf(t, I, S), NEW n \in I, NEW d \in Dirs,
         NEW up, up = t.child[Opp(d)][n], up # Null,
         t.color[up] = "red", t.color[n] = "red", n # t.root, Black(t, t.parent[n]), Black(t, t.root),
         NEW H, Heights(t, I, H, Null, "left"), NoRedPair(t, I, {up}),
         NEW r, Turned(t, r, n, d), r.color = t.color
  PROVE  Heights(r, I, H, Null, "left") /\ NoRedPair(r, I, {n}) /\ Black(r, r.root)
<1>1. PICK o : o = Opp(d)
  OBVIOUS
<1>2. PICK inner : inner = t.child[d][up]
  OBVIOUS
<1>3. PICK outer : outer = t.child[o][up]
  OBVIOUS
<1>4. PICK near : near = t.child[d][n]
  OBVIOUS
<1>5. PICK p : p = t.parent[n]
  OBVIOUS
<1>6. o \in Dirs /\ o # d /\ \A e \in Dirs : e = d \/ e = o
  BY <1>1, DirFacts
<1>7. /\ n \in Entries /\ up \in I /\ up \in Entries /\ n # Null /\ up # n /\ p # n /\ p # up
      /\ t.parent[up] = n /\ up # t.root /\ Null \notin I
      /\ inner \in I \cup {Null} /\ outer \in I \cup {Null} /\ near \in I \cup {Null}
      /\ inner # n /\ inner # up /\ outer # n /\ outer # up /\ near # n /\ near # up
      /\ inner # Null => t.parent[inner] = up /\ inner # t.root
      /\ \A x \in I \ {t.root} : t.parent[x] = n => x = near \/ x = up
      /\ \A x \in I, e \in Dirs : t.child[e][x] = n => x = p
      /\ \A x \in I, e \in Dirs : t.child[e][x] = up => x = n /\ e = o
      /\ p = Null <=> n = t.root
      /\ p # Null => p \in I
  BY <1>1, <1>2, <1>3, <1>4, <1>5, TurnFacts
<1>8. /\ r \in Trees
      /\ r.root = t.root
      /\ \A x \in Entries : r.parent[x] = IF x = n THEN up ELSE IF x = up THEN p
                                          ELSE IF x = inner THEN n ELSE t.parent[x]
      /\ \A x \in Entries : r.child[d][x] = IF x = up THEN n
                                            ELSE IF x = p /\ t.child[d][x] = n THEN up ELSE t.child[d][x]
      /\ \A x \in Entries : r.child[o][x] =
           IF x = n THEN inner
           ELSE IF x = p /\ t.child[o][x] = n THEN up ELSE t.child[o][x]
  BY <1>1, <1>2, <1>5, <1>7 DEF Turned
<1>9. t \in Trees /\ I \subseteq Entries /\ Null \notin Entries
  BY EntriesAssumption DEF RbTreeOf
<1>10. H \in [Entries -> Nat] /\ \A x \in I, e \in Dirs : H[x] = Weight(t, H, t.child[e][x])
  <2>1. H \in [Entries -> Nat]
    BY DEF Heights
  <2> QED
    BY <1>9, <2>1, EvenHeights
<1>11. \A c \in Entries \cup {Null} : Weight(r, H, c) = Weight(t, H, c)
  BY DEF Weight
<1>12. Weight(t, H, n) = H[n] /\ Weight(t, H, up) = H[up] /\ H[n] = H[up]
  <2>1. Weight(t, H, n) = H[n] /\ Weight(t, H, up) = H[up]
    BY <1>7, <1>9 DEF Weight
  <2>2. H[n] = Weight(t, H, up)
    BY <1>1, <1>6, <1>10
  <2> QED
    BY <2>1, <2>2
<1>13. /\ H[n] = Weight(t, H, near) /\ H[up] = Weight(t, H, inner) /\ H[up] = Weight(t, H, outer)
  BY <1>2, <1>3, <1>4, <1>6, <1>7, <1>10
<1>14. Heights(r, I, H, Null, "left")
  <2>1. ASSUME NEW x \in I, NEW e \in Dirs
        PROVE  H[x] = Weight(t, H, r.child[e][x])
    <3>1. x \in Entries
      BY <1>9
    <3>2. CASE x = n
      <4>1. r.child[d][n] = near /\ r.child[o][n] = inner
        BY <1>4, <1>7, <1>8
      <4> QED
        BY <1>6, <1>12, <1>13, <3>2, <4>1
    <3>3. CASE x = up
      <4>1. r.child[d][up] = n /\ r.child[o][up] = outer
        BY <1>3, <1>7, <1>8
      <4> QED
        BY <1>6, <1>12, <1>13, <3>3, <4>1
    <3>4. CASE x # n /\ x # up
      <4>1. r.child[e][x] = IF t.child[e][x] = n THEN up ELSE t.child[e][x]
        BY <1>6, <1>7, <1>8, <3>1, <3>4
      <4> QED
        BY <1>10, <1>12, <4>1
    <3> QED
      BY <3>2, <3>3, <3>4
  <2>2. \A x \in I, e \in Dirs : r.child[e][x] \in Entries \cup {Null}
    BY <1>8, <1>9, TreeTypes DEF RbNodes
  <2>3. \A x \in I, e \in Dirs : H[x] = Weight(r, H, r.child[e][x])
    BY <1>11, <2>1, <2>2
  <2> QED
    BY <1>8, <1>9, <1>10, <2>3, EvenHeights
<1>15. \A x \in Entries \cup {Null} : Black(r, x) <=> Black(t, x)
  BY DEF Black
<1>16. NoRedPair(r, I, {n})
  <2>1. ASSUME NEW x \in I, x # r.root, x # n
        PROVE  Black(r, x) \/ Black(r, r.parent[x])
    <3>1. x \in Entries /\ x # t.root
      BY <1>8, <1>9, <2>1
    <3>2. CASE x = up
      <4>1. r.parent[x] = p /\ p \in Entries
        BY <1>7, <1>8, <1>9, <3>2
      <4> QED
        BY <1>5, <1>15, <4>1
    <3>3. CASE x = inner
      <4>1. Black(t, x) \/ Black(t, up)
        BY <1>7, <3>1, <3>2, <3>3 DEF NoRedPair
      <4>2. ~Black(t, up)
        BY <1>7, <1>9 DEF Black
      <4> QED
        BY <1>15, <3>1, <4>1, <4>2
    <3>4. CASE x # up /\ x # inner
      <4>1. r.parent[x] = t.parent[x] /\ t.parent[x] \in Entries
        BY <1>8, <1>9, <2>1, <3>1, <3>4, TreeNode
      <4>2. Black(t, x) \/ Black(t, t.parent[x])
        BY <3>1, <3>4 DEF NoRedPair
      <4> QED
        BY <1>15, <3>1, <4>1, <4>2
    <3> QED
      BY <3>2, <3>3, <3>4
  <2> QED
    BY <2>1 DEF NoRedPair
<1>17. Black(r, r.root)
  BY <1>8, <1>9, <1>15, TreeTypes DEF RbNodes
<1> QED
  BY <1>14, <1>16, <1>17

(* A black sibling with a red far child is turned up over the parent: the  *)
(* path that lacked a black node gets one and no other path changes.       *)
LEMMA SettleColours ==
  ASSUME NEW t, NEW I, NEW S, RbTreeOf(t, I, S), NEW p \in I, NEW d \in Dirs,
         NEW s, s = t.child[Opp(d)][p], s # Null, t.color[s] = "black",
         NEW far, far = t.child[Opp(d)][s], far # Null, t.color[far] = "red",
         NEW H, Heights(t, I, H, p, d), NoRedPair(t, I, {}), Black(t, t.root),
         NEW r, Turned(t, r, p, d),
         \A x \in Entries : r.color[x] = IF x = far \/ x = p THEN "black"
                                         ELSE IF x = s THEN t.color[p] ELSE t.color[x]
  PROVE  \E H2 : Heights(r, I, H2, Null, "left") /\ NoRedPair(r, I, {}) /\ Black(r, r.root)
<1>1. PICK o : o = Opp(d)
  OBVIOUS
<1>2. PICK inner : inner = t.child[d][s]
  OBVIOUS
<1>3. PICK near : near = t.child[d][p]
  OBVIOUS
<1>4. PICK pp : pp = t.parent[p]
  OBVIOUS
<1>5. o \in Dirs /\ o # d /\ \A e \in Dirs : e = d \/ e = o
  BY <1>1, DirFacts
<1>6. /\ p \in Entries /\ s \in I /\ s \in Entries /\ p # Null /\ s # p /\ pp # p /\ pp # s
      /\ t.parent[s] = p /\ s # t.root /\ Null \notin I
      /\ inner \in I \cup {Null} /\ far \in I \cup {Null} /\ near \in I \cup {Null}
      /\ inner # p /\ inner # s /\ far # p /\ far # s /\ near # p /\ near # s
      /\ inner # Null => t.parent[inner] = s /\ inner # far /\ inner # near /\ inner # t.root
      /\ near # Null => near # far
      /\ \A x \in I \ {t.root} : t.parent[x] = p => x = near \/ x = s
      /\ \A x \in I \ {t.root} : t.parent[x] = s => x = inner \/ x = far
      /\ \A x \in I, e \in Dirs : t.child[e][x] = p => x = pp
      /\ \A x \in I, e \in Dirs : t.child[e][x] = s => x = p /\ e = o
      /\ pp = Null <=> p = t.root
      /\ pp # Null => pp \in I
  BY <1>1, <1>2, <1>3, <1>4, TurnFacts
<1>7. /\ r \in Trees
      /\ r.root = IF pp = Null THEN s ELSE t.root
      /\ \A x \in Entries : r.parent[x] = IF x = p THEN s ELSE IF x = s THEN pp
                                          ELSE IF x = inner THEN p ELSE t.parent[x]
      /\ \A x \in Entries : r.child[d][x] = IF x = s THEN p
                                            ELSE IF x = pp /\ t.child[d][x] = p THEN s ELSE t.child[d][x]
      /\ \A x \in Entries : r.child[o][x] =
           IF x = p THEN inner
           ELSE IF x = pp /\ t.child[o][x] = p THEN s ELSE t.child[o][x]
  BY <1>1, <1>2, <1>4 DEF Turned
<1>8. t \in Trees /\ I \subseteq Entries /\ Null \notin Entries /\ far \in I /\ far \in Entries
  BY <1>6, EntriesAssumption DEF RbTreeOf
<1>9. /\ H \in [Entries -> Nat]
      /\ \A x \in I, e \in Dirs : H[x] = Weight(t, H, t.child[e][x]) + (IF x = p /\ e = d THEN 1 ELSE 0)
  BY DEF Heights
<1>10. \A x \in I, e \in Dirs : Weight(t, H, t.child[e][x]) \in Nat /\ t.child[e][x] \in Entries \cup {Null}
  BY <1>8, <1>9, TreeTypes, WeightIs DEF RbNodes
<1>11. \A x \in I, e \in Dirs : ~(x = p /\ e = d) => H[x] = Weight(t, H, t.child[e][x])
  BY <1>9, <1>10
<1>12. H[p] = Weight(t, H, near) + 1 /\ Weight(t, H, near) \in Nat
  BY <1>3, <1>9, <1>10
<1>13. H[p] \in Nat /\ H[s] \in Nat /\ H[far] \in Nat
  BY <1>6, <1>8, <1>9
<1>14. H[p] = H[s] + 1
  <2>1. Weight(t, H, s) = H[s] + 1
    BY <1>6, <1>8 DEF Weight
  <2> QED
    BY <1>1, <1>5, <1>11, <2>1
<1>15. H[s] = Weight(t, H, inner) /\ H[s] = H[far]
  <2>1. Weight(t, H, far) = H[far]
    BY <1>8 DEF Weight
  <2> QED
    BY <1>1, <1>2, <1>5, <1>6, <1>11, <2>1
<1>16. PICK H2 : H2 = [[H EXCEPT ![s] = H[p]] EXCEPT ![p] = H[s]]
  OBVIOUS
<1>17. H2 \in [Entries -> Nat] /\ \A x \in Entries : H2[x] = IF x = p THEN H[s] ELSE IF x = s THEN H[p] ELSE H[x]
  BY <1>6, <1>9, <1>13, <1>16
<1>18. /\ Weight(r, H2, p) = H[p]
       /\ Weight(r, H2, far) = H[p]
       /\ Weight(r, H2, s) = Weight(t, H, p)
       /\ \A c \in Entries \cup {Null} : c # p /\ c # s /\ c # far => Weight(r, H2, c) = Weight(t, H, c)
  <2>1. Weight(r, H2, p) = H2[p] + 1 /\ Weight(r, H2, far) = H2[far] + 1
    BY <1>6, <1>8 DEF Weight
  <2>2. H2[p] = H[s] /\ H2[far] = H[far] /\ H2[s] = H[p]
    BY <1>6, <1>8, <1>17
  <2>3. Weight(r, H2, s) = IF t.color[p] = "black" THEN H[p] + 1 ELSE H[p]
    BY <1>6, <1>8, <2>2 DEF Weight
  <2>4. Weight(t, H, p) = IF t.color[p] = "black" THEN H[p] + 1 ELSE H[p]
    BY <1>6, <1>8 DEF Weight
  <2>5. \A c \in Entries \cup {Null} : c # p /\ c # s /\ c # far => Weight(r, H2, c) = Weight(t, H, c)
    BY <1>17 DEF Weight
  <2>6. Weight(r, H2, p) = H[p] /\ Weight(r, H2, far) = H[p]
    BY <1>14, <1>15, <2>1, <2>2
  <2>7. Weight(r, H2, s) = Weight(t, H, p)
    BY <2>3, <2>4
  <2> QED
    BY <2>5, <2>6, <2>7
<1>19. Heights(r, I, H2, Null, "left")
  <2>1. ASSUME NEW x \in I, NEW e \in Dirs
        PROVE  H2[x] = Weight(r, H2, r.child[e][x])
    <3>1. x \in Entries
      BY <1>8
    <3>2. CASE x = p
      <4>1. r.child[d][p] = near /\ r.child[o][p] = inner
        BY <1>3, <1>6, <1>7
      <4>2. Weight(r, H2, near) = Weight(t, H, near) /\ Weight(r, H2, inner) = Weight(t, H, inner)
        BY <1>6, <1>8, <1>18
      <4>3. H2[p] = Weight(t, H, near) /\ H2[p] = Weight(t, H, inner)
        BY <1>6, <1>12, <1>13, <1>14, <1>15, <1>17
      <4> QED
        BY <1>5, <3>2, <4>1, <4>2, <4>3
    <3>3. CASE x = s
      <4>1. r.child[d][s] = p /\ r.child[o][s] = far
        BY <1>1, <1>6, <1>7
      <4>2. H2[s] = H[p]
        BY <1>6, <1>17
      <4> QED
        BY <1>5, <1>18, <3>3, <4>1, <4>2
    <3>4. CASE x # p /\ x # s
      <4>1. PICK c : c = t.child[e][x]
        OBVIOUS
      <4>2. c \in Entries \cup {Null} /\ c # s /\ c # far
        <5>1. \A y \in I, a \in Dirs : t.child[a][y] = far => y = s
          BY <1>1, <1>5, <1>6, <1>8, TreeChild
        <5> QED
          BY <1>6, <1>10, <3>4, <4>1, <5>1
      <4>3. r.child[e][x] = IF c = p THEN s ELSE c
        BY <1>5, <1>6, <1>7, <3>1, <3>4, <4>1
      <4>4. Weight(r, H2, r.child[e][x]) = Weight(t, H, c)
        BY <1>18, <4>2, <4>3
      <4>5. H2[x] = Weight(t, H, c)
        BY <1>11, <1>17, <3>1, <3>4, <4>1
      <4> QED
        BY <4>4, <4>5
    <3> QED
      BY <3>2, <3>3, <3>4
  <2> QED
    BY <1>7, <1>8, <1>17, <2>1, EvenHeights
<1>20. \A x \in I : Black(r, x) <=> x = p \/ x = far \/ (x = s /\ Black(t, p)) \/ (x # s /\ Black(t, x))
  BY <1>6, <1>8 DEF Black
<1>21. NoRedPair(r, I, {})
  <2>1. ASSUME NEW x \in I, x # r.root
        PROVE  Black(r, x) \/ Black(r, r.parent[x])
    <3>1. x \in Entries
      BY <1>8
    <3>2. CASE x = p \/ x = far
      BY <1>20, <3>2
    <3>3. CASE x = s
      <4>1. r.parent[x] = pp /\ p # t.root /\ pp \in I
        BY <1>6, <1>7, <2>1, <3>3
      <4>2. Black(t, p) \/ Black(t, pp)
        BY <1>4, <4>1 DEF NoRedPair
      <4> QED
        BY <1>6, <1>20, <3>3, <4>1, <4>2
    <3>4. CASE x # p /\ x # s /\ x # far
      <4>1. x # t.root
        BY <1>6, <1>7, <2>1, <3>4
      <4>2. CASE t.parent[x] = p
        BY <1>6, <1>7, <1>20, <3>1, <3>4, <4>1, <4>2
      <4>3. CASE t.parent[x] = s
        BY <1>6, <1>7, <1>20, <3>1, <3>4, <4>1, <4>3
      <4>4. CASE t.parent[x] # p /\ t.parent[x] # s
        <5>1. r.parent[x] = t.parent[x] /\ t.parent[x] \in I
          BY <1>6, <1>7, <3>1, <3>4, <4>1, <4>4, TreeNode
        <5>2. Black(t, x) \/ Black(t, t.parent[x])
          BY <4>1 DEF NoRedPair
        <5> QED
          BY <1>20, <3>4, <4>4, <5>1, <5>2
      <4> QED
        BY <4>2, <4>3, <4>4
    <3> QED
      BY <3>2, <3>3, <3>4
  <2> QED
    BY <2>1 DEF NoRedPair
<1>22. Black(r, r.root)
  <2>1. CASE pp = Null
    BY <1>6, <1>7, <1>20, <2>1
  <2>2. CASE pp # Null
    <3>1. r.root = t.root /\ t.root \in I /\ t.root # s
      BY <1>6, <1>7, <2>2, TreeNode
    <3> QED
      BY <1>20, <3>1
  <2> QED
    BY <2>1, <2>2
<1> QED
  BY <1>19, <1>21, <1>22

(* A black sibling without red children turns red: now all paths through   *)
(* the parent lack a black node.                                           *)
BlackChildren(t, p, d, s) ==
  /\ s = t.child[Opp(d)][p] /\ s # Null /\ t.color[s] = "black"
  /\ \A e \in Dirs : Black(t, t.child[e][s])

Hangs(t, p, q, D) == q = t.parent[p] /\ (q # Null => D \in Dirs /\ t.child[D][q] = p)

LEMMA PassColours ==
  ASSUME NEW t, NEW I, NEW S, RbTreeOf(t, I, S), NEW p \in I, NEW d \in Dirs,
         NEW s, BlackChildren(t, p, d, s),
         NEW H, Heights(t, I, H, p, d), NoRedPair(t, I, {}), Black(t, t.root),
         NEW q, NEW D, Hangs(t, p, q, D),
         NEW r, ColorSet(t, r, s, "red")
  PROVE  /\ \E H2 : Heights(r, I, H2, q, D)
         /\ NoRedPair(r, I, {n \in I : n = p \/ t.parent[n] = p}) /\ Black(r, r.root)
<1> USE DEF BlackChildren, Hangs
<1>1. PICK o : o = Opp(d)
  OBVIOUS
<1>2. o \in Dirs /\ o # d /\ \A e \in Dirs : e = d \/ e = o
  BY <1>1, DirFacts
<1>3. t \in Trees /\ I \subseteq Entries /\ Null \notin Entries /\ p \in Entries
  BY EntriesAssumption DEF RbTreeOf
<1>4. /\ s \in I /\ s # p /\ s \in Entries /\ t.parent[s] = p /\ s # t.root
      /\ \A x \in I, e \in Dirs : t.child[e][x] = s => x = p /\ e = o
  BY <1>1, <1>2, <1>3, TreeChild
<1>5. /\ r \in Trees /\ r.root = t.root /\ r.child = t.child /\ r.parent = t.parent
      /\ \A x \in Entries : r.color[x] = IF x = s THEN "red" ELSE t.color[x]
  BY DEF ColorSet
<1>6. /\ H \in [Entries -> Nat]
      /\ \A x \in I, e \in Dirs : H[x] = Weight(t, H, t.child[e][x]) + (IF x = p /\ e = d THEN 1 ELSE 0)
  BY DEF Heights
<1>7. \A x \in I, e \in Dirs : Weight(t, H, t.child[e][x]) \in Nat /\ t.child[e][x] \in Entries \cup {Null}
  BY <1>3, <1>6, TreeTypes, WeightIs DEF RbNodes
<1>8. \A x \in I, e \in Dirs : ~(x = p /\ e = d) => H[x] = Weight(t, H, t.child[e][x])
  BY <1>6, <1>7
<1>9. H[p] = Weight(t, H, t.child[d][p]) + 1 /\ Weight(t, H, t.child[d][p]) \in Nat
  BY <1>6, <1>7
<1>10. H[p] = H[s] + 1 /\ H[s] \in Nat /\ H[p] \in Nat
  <2>1. Weight(t, H, s) = H[s] + 1
    BY <1>3, <1>4 DEF Weight
  <2> QED
    BY <1>1, <1>2, <1>3, <1>4, <1>6, <1>8, <2>1
<1>11. PICK H2 : H2 = [H EXCEPT ![p] = H[s]]
  OBVIOUS
<1>12. H2 \in [Entries -> Nat] /\ \A x \in Entries : H2[x] = IF x = p THEN H[s] ELSE H[x]
  BY <1>3, <1>6, <1>10, <1>11
<1>13. /\ \A c \in Entries \cup {Null} : c # p /\ c # s => Weight(r, H2, c) = Weight(t, H, c)
       /\ Weight(r, H2, s) = H[s] /\ Weight(t, H, p) = Weight(r, H2, p) + 1
  <2>1. \A c \in Entries \cup {Null} : c # p /\ c # s => Weight(r, H2, c) = Weight(t, H, c)
    BY <1>5, <1>12 DEF Weight
  <2>2. Weight(r, H2, s) = H[s]
    BY <1>3, <1>4, <1>5, <1>12 DEF Weight
  <2>3. Weight(t, H, p) = IF t.color[p] = "black" THEN H[p] + 1 ELSE H[p]
    BY <1>3 DEF Weight
  <2>4. Weight(r, H2, p) = IF t.color[p] = "black" THEN H[s] + 1 ELSE H[s]
    BY <1>3, <1>4, <1>5, <1>12 DEF Weight
  <2> QED
    BY <1>10, <2>1, <2>2, <2>3, <2>4
<1>14. ASSUME NEW x \in I, NEW e \in Dirs
       PROVE  H2[x] = Weight(r, H2, r.child[e][x]) + (IF x = q /\ e = D THEN 1 ELSE 0)
  <2>1. x \in Entries /\ t.parent[p] = q
    BY <1>3
  <2>2. PICK c : c = t.child[e][x]
    OBVIOUS
  <2>3. c \in Entries \cup {Null} /\ r.child[e][x] = c
    BY <1>5, <1>7, <2>2
  <2>4. c = p <=> x = q /\ e = D
    <3>1. ASSUME c = p PROVE x = q /\ e = D
      <4>1. t.child[e][x] = p /\ t.child[e][x] # Null
        BY <1>3, <2>2, <3>1
      <4>2. t.parent[t.child[e][x]] = x
        BY <4>1, TreeChild
      <4>3. x = q /\ x # Null
        BY <1>3, <2>1, <4>1, <4>2
      <4>4. D \in Dirs /\ t.child[D][q] = p /\ q \in I
        BY <4>3
      <4>5. \A y \in I, a \in Dirs : t.child[a][y] = t.child[e][x] => y = x /\ a = e
        BY <4>1, TreeChild
      <4> QED
        BY <4>1, <4>3, <4>4, <4>5
    <3>2. ASSUME x = q, e = D PROVE c = p
      BY <1>3, <2>1, <2>2, <3>2
    <3> QED
      BY <3>1, <3>2
  <2>5. CASE x = p
    <3>1. x # q
      BY <1>3, <2>4, <2>5, TreeChild
    <3>2. CASE e = d
      <4>1. c # s /\ c # p
        BY <1>2, <1>4, <2>2, <2>4, <2>5, <3>1, <3>2
      <4>2. H2[x] = Weight(r, H2, c) /\ H2[x] \in Nat
        BY <1>9, <1>10, <1>12, <1>13, <2>1, <2>2, <2>3, <2>5, <3>2, <4>1
      <4> QED
        BY <2>3, <3>1, <4>2
    <3>3. CASE e = o
      <4>1. H2[x] = Weight(r, H2, c) /\ H2[x] \in Nat
        BY <1>1, <1>10, <1>12, <1>13, <2>1, <2>2, <2>5, <3>3
      <4> QED
        BY <2>3, <3>1, <4>1
    <3> QED
      BY <1>2, <3>2, <3>3
  <2>6. CASE x # p /\ c = p
    <3>1. H2[x] = Weight(r, H2, c) + 1
      BY <1>8, <1>12, <1>13, <2>1, <2>2, <2>6
    <3> QED
      BY <2>3, <2>4, <2>6, <3>1
  <2>7. CASE x # p /\ c # p
    <3>1. c # s
      BY <1>4, <2>2, <2>7
    <3>2. H2[x] = Weight(r, H2, c) /\ H2[x] \in Nat
      BY <1>8, <1>12, <1>13, <2>1, <2>2, <2>3, <2>7, <3>1
    <3> QED
      BY <2>3, <2>4, <2>7, <3>2
  <2> QED
    BY <2>5, <2>6, <2>7
<1>15. Heights(r, I, H2, q, D)
  BY <1>12, <1>14 DEF Heights
<1>16. \A x \in I : Black(r, x) <=> x # s /\ Black(t, x)
  BY <1>3, <1>4, <1>5 DEF Black
<1>17. ASSUME NEW x \in I, x # r.root, x # p, t.parent[x] # p
       PROVE  Black(r, x) \/ Black(r, r.parent[x])
  <2>1. x # t.root /\ x # s /\ r.parent[x] = t.parent[x] /\ t.parent[x] \in I
    BY <1>4, <1>5, <1>17, TreeNode
  <2>2. CASE t.parent[x] = s
    <3>1. \E e \in Dirs : t.child[e][s] = x
      BY <2>1, <2>2, TreeNode
    <3> QED
      BY <1>16, <2>1, <3>1
  <2>3. CASE t.parent[x] # s
    <3>1. Black(t, x) \/ Black(t, t.parent[x])
      BY <2>1 DEF NoRedPair
    <3> QED
      BY <1>16, <2>1, <2>3, <3>1
  <2> QED
    BY <2>2, <2>3
<1>18. NoRedPair(r, I, {n \in I : n = p \/ t.parent[n] = p})
  BY <1>17 DEF NoRedPair
<1>19. Black(r, r.root)
  BY <1>4, <1>5, <1>16, TreeNode
<1> QED
  BY <1>15, <1>18, <1>19

(* A red parent and a red uncle turn black and the grandparent red: every  *)
(* path through it keeps its number of black nodes.                        *)
LEMMA UncleColours ==
  ASSUME NEW t, NEW I, NEW S, RbTreeOf(t, I, S), NEW g \in I, NEW d \in Dirs,
         NEW p, p = t.child[d][g], p # Null, t.color[p] = "red",
         NEW u, u = t.child[Opp(d)][g], u # Null, t.color[u] = "red", t.color[g] = "black",
         NEW z \in I, t.parent[z] = p,
         NEW H, Heights(t, I, H, Null, "left"), NoRedPair(t, I, {z}), Black(t, t.root),
         NEW r \in Trees, r.root = t.root, r.child = t.child, r.parent = t.parent,
         \A x \in Entries : r.color[x] = IF x = g THEN "red" ELSE IF x = p \/ x = u THEN "black"
                                         ELSE t.color[x]
  PROVE  /\ \E H2 : Heights(r, I, H2, Null, "left")
         /\ NoRedPair(r, I, {g}) /\ (Black(r, r.root) \/ r.root = g)
<1>1. PICK o : o = Opp(d)
  OBVIOUS
<1>2. o \in Dirs /\ o # d /\ \A e \in Dirs : e = d \/ e = o
  BY <1>1, DirFacts
<1>3. t \in Trees /\ I \subseteq Entries /\ Null \notin Entries /\ g \in Entries
  BY EntriesAssumption DEF RbTreeOf
<1>4. /\ p \in I /\ p # g /\ p \in Entries /\ t.parent[p] = g /\ p # t.root
      /\ \A x \in I, e \in Dirs : t.child[e][x] = p => x = g /\ e = d
  BY <1>3, TreeChild
<1>5. /\ u \in I /\ u # g /\ u \in Entries /\ t.parent[u] = g /\ u # t.root
      /\ \A x \in I, e \in Dirs : t.child[e][x] = u => x = g /\ e = o
  BY <1>1, <1>2, <1>3, TreeChild
<1>6. H \in [Entries -> Nat]
  BY DEF Heights
<1>7. \A x \in I, e \in Dirs : H[x] = Weight(t, H, t.child[e][x])
  BY <1>3, <1>6, EvenHeights
<1>8. H[g] = H[p] /\ H[g] = H[u] /\ H[g] \in Nat
  <2>1. Weight(t, H, p) = H[p] /\ Weight(t, H, u) = H[u]
    BY <1>3, <1>4, <1>5 DEF Weight
  <2> QED
    BY <1>1, <1>2, <1>3, <1>6, <1>7, <2>1
<1>9. PICK H2 : H2 = [H EXCEPT ![g] = H[g] + 1]
  OBVIOUS
<1>10. H2 \in [Entries -> Nat] /\ \A x \in Entries : H2[x] = IF x = g THEN H[g] + 1 ELSE H[x]
  BY <1>3, <1>6, <1>8, <1>9
<1>11. /\ Weight(r, H2, p) = H[g] + 1 /\ Weight(r, H2, u) = H[g] + 1
       /\ \A c \in Entries \cup {Null} : c # p /\ c # u => Weight(r, H2, c) = Weight(t, H, c)
  <2>1. Weight(r, H2, p) = H[g] + 1 /\ Weight(r, H2, u) = H[g] + 1
    BY <1>3, <1>4, <1>5, <1>8, <1>10 DEF Weight
  <2>2. Weight(r, H2, g) = H[g] + 1 /\ Weight(t, H, g) = H[g] + 1
    BY <1>3, <1>10 DEF Weight
  <2>3. \A c \in Entries \cup {Null} : c # p /\ c # u /\ c # g => Weight(r, H2, c) = Weight(t, H, c)
    BY <1>10 DEF Weight
  <2> QED
    BY <2>1, <2>2, <2>3
<1>12. ASSUME NEW x \in I, NEW e \in Dirs
       PROVE  H2[x] = Weight(r, H2, r.child[e][x])
  <2>1. PICK c : c = t.child[e][x]
    OBVIOUS
  <2>2. c \in Entries \cup {Null} /\ r.child[e][x] = c /\ x \in Entries
    BY <1>3, <2>1, TreeTypes DEF RbNodes
  <2>3. CASE x = g
    BY <1>1, <1>2, <1>10, <1>11, <2>1, <2>2, <2>3
  <2>4. CASE x # g
    <3>1. c # p /\ c # u
      BY <1>4, <1>5, <2>1, <2>4
    <3> QED
      BY <1>7, <1>10, <1>11, <2>1, <2>2, <2>4, <3>1
  <2> QED
    BY <2>3, <2>4
<1>13. Heights(r, I, H2, Null, "left")
  BY <1>3, <1>10, <1>12, EvenHeights
<1>14. \A x \in I : Black(r, x) <=> x # g /\ (x = p \/ x = u \/ Black(t, x))
  BY <1>3 DEF Black
<1>15. ASSUME NEW x \in I, x # r.root, x # g
       PROVE  Black(r, x) \/ Black(r, r.parent[x])
  <2>1. x # t.root /\ r.parent[x] = t.parent[x] /\ t.parent[x] \in I
    BY <1>15, TreeNode
  <2>2. CASE t.parent[x] = g
    <3>1. \E e \in Dirs : t.child[e][g] = x
      BY <2>1, <2>2, TreeNode
    <3> QED
      BY <1>1, <1>2, <1>4, <1>5, <1>14, <3>1
  <2>3. CASE x = z
    BY <1>4, <1>14, <2>1, <2>3
  <2>4. CASE t.parent[x] # g /\ x # z
    <3>1. Black(t, x) \/ Black(t, t.parent[x])
      BY <2>1, <2>4 DEF NoRedPair
    <3> QED
      BY <1>14, <1>15, <2>1, <2>4, <3>1
  <2> QED
    BY <2>2, <2>3, <2>4
<1>16. NoRedPair(r, I, {g})
  BY <1>15 DEF NoRedPair
<1>17. Black(r, r.root) \/ r.root = g
  BY <1>14, TreeNode
<1> QED
  BY <1>13, <1>16, <1>17

(* A node at the root or a red one at the end of the lacking path turns    *)
(* black and all paths are even.                                           *)
LEMMA EndColours ==
  ASSUME NEW t, NEW I, NEW S, RbTreeOf(t, I, S), NEW z \in I,
         NEW q, q = t.parent[z], NEW D, q # Null => D \in Dirs /\ t.child[D][q] = z,
         NEW H, NEW a, a = Null \/ a = q, Heights(t, I, H, a, D),
         a = Null => z = t.root, z = t.root \/ t.color[z] = "red",
         NoRedPair(t, I, {n \in I : n = z \/ t.parent[n] = z}),
         Black(t, t.root) \/ t.root = z,
         NEW r, ColorSet(t, r, z, "black")
  PROVE  Heights(r, I, H, Null, "left") /\ NoRedPair(r, I, {}) /\ Black(r, r.root)
<1>1. t \in Trees /\ I \subseteq Entries /\ Null \notin Entries /\ z \in Entries
  BY EntriesAssumption DEF RbTreeOf
<1>2. /\ r \in Trees /\ r.root = t.root /\ r.child = t.child /\ r.parent = t.parent
      /\ \A x \in Entries : r.color[x] = IF x = z THEN "black" ELSE t.color[x]
  BY DEF ColorSet
<1>3. z = t.root <=> q = Null
  BY TreeNode
<1>4. /\ H \in [Entries -> Nat]
      /\ \A x \in I, e \in Dirs : H[x] = Weight(t, H, t.child[e][x]) + (IF x = a /\ e = D THEN 1 ELSE 0)
  BY DEF Heights
<1>5. \A x \in I, e \in Dirs : Weight(t, H, t.child[e][x]) \in Nat /\ t.child[e][x] \in Entries \cup {Null}
  BY <1>1, <1>4, TreeTypes, WeightIs DEF RbNodes
<1>6. \A c \in Entries \cup {Null} : c # z => Weight(r, H, c) = Weight(t, H, c)
  BY <1>2 DEF Weight
<1>7. ASSUME NEW x \in I, NEW e \in Dirs
      PROVE  H[x] = Weight(r, H, r.child[e][x])
  <2>1. PICK c : c = t.child[e][x]
    OBVIOUS
  <2>2. c \in Entries \cup {Null} /\ r.child[e][x] = c /\ x \in Entries
    BY <1>1, <1>2, <1>5, <2>1
  <2>3. CASE c = z
    <3>1. t.child[e][x] # Null /\ t.child[e][x] = z
      BY <1>1, <2>1, <2>3
    <3>2. t.parent[t.child[e][x]] = x /\ t.child[e][x] # t.root
      BY <3>1, TreeChild
    <3>3. x = q /\ q # Null /\ a = q /\ t.color[z] = "red"
      BY <1>3, <3>1, <3>2
    <3>4. \A y \in I, b \in Dirs : t.child[b][y] = t.child[e][x] => y = x /\ b = e
      BY <3>1, TreeChild
    <3>5. e = D
      BY <3>1, <3>3, <3>4
    <3>6. H[x] = Weight(t, H, z) + 1
      BY <1>4, <3>1, <3>3, <3>5
    <3>7. Weight(t, H, z) = H[z] /\ Weight(r, H, z) = H[z] + 1
      BY <1>1, <1>2, <3>3 DEF Weight
    <3> QED
      BY <2>2, <2>3, <3>6, <3>7
  <2>4. CASE c # z
    <3>1. ~(x = a /\ e = D)
      BY <1>1, <2>1, <2>2, <2>4
    <3>2. H[x] = Weight(t, H, c)
      BY <1>4, <1>5, <2>1, <3>1
    <3> QED
      BY <1>6, <2>2, <2>4, <3>2
  <2> QED
    BY <2>3, <2>4
<1>8. Heights(r, I, H, Null, "left")
  BY <1>1, <1>2, <1>4, <1>7, EvenHeights
<1>9. \A x \in I : Black(r, x) <=> x = z \/ Black(t, x)
  BY <1>1, <1>2 DEF Black
<1>10. ASSUME NEW x \in I, x # r.root
       PROVE  Black(r, x) \/ Black(r, r.parent[x])
  <2>1. x # t.root /\ r.parent[x] = t.parent[x] /\ t.parent[x] \in I
    BY <1>2, <1>10, TreeNode
  <2>2. CASE x = z \/ t.parent[x] = z
    BY <1>9, <2>1, <2>2
  <2>3. CASE x # z /\ t.parent[x] # z
    <3>1. Black(t, x) \/ Black(t, t.parent[x])
      BY <2>1, <2>3 DEF NoRedPair
    <3> QED
      BY <1>9, <2>1, <3>1
  <2> QED
    BY <2>2, <2>3
<1>11. NoRedPair(r, I, {})
  BY <1>10 DEF NoRedPair
<1>12. Black(r, r.root)
  BY <1>2, <1>9, TreeNode
<1> QED
  BY <1>8, <1>11, <1>12

(* r is t with e linked at the free side d of p. *)
Linked(t, r, e, p, d) ==
  /\ r \in Trees /\ r.color = t.color
  /\ r.root = IF p = Null THEN e ELSE t.root
  /\ \A x \in Entries : r.parent[x] = IF x = e THEN p ELSE t.parent[x]
  /\ \A a \in Dirs, x \in Entries : r.child[a][x] = IF x = p /\ a = d THEN e ELSE t.child[a][x]

LEMMA LinkTree ==
  ASSUME NEW t, NEW I, NEW S, RbTreeOf(t, I, S), NEW e \in Entries \ I,
         \A a \in Dirs : t.child[a][e] = Null,
         NEW p \in I, NEW d \in Dirs, t.child[d][p] = Null, Side(d, e, p),
         \A m \in I \ {p} : \A a \in Dirs : Side(a, e, m) <=> Side(a, p, m),
         \A m \in I : KeyOf[m] # KeyOf[e],
         NEW r, Linked(t, r, e, p, d)
  PROVE  \E S2 : RbTreeOf(r, I \cup {e}, S2)
<1>1. t \in Trees /\ I \subseteq Entries /\ Null \notin Entries /\ p \in Entries /\ e # p /\ S \in [Entries -> SUBSET Entries]
  BY EntriesAssumption DEF RbTreeOf
<1>2. /\ r \in Trees /\ r.root = t.root
      /\ \A x \in Entries : r.parent[x] = IF x = e THEN p ELSE t.parent[x]
      /\ \A a \in Dirs, x \in Entries : r.child[a][x] = IF x = p /\ a = d THEN e ELSE t.child[a][x]
  BY <1>1 DEF Linked
<1>3. PICK S2 : S2 = [x \in Entries |-> IF x = e THEN {e} ELSE IF p \in S[x] THEN S[x] \cup {e} ELSE S[x]]
  OBVIOUS
<1>4. S2 \in [Entries -> SUBSET Entries]
  BY <1>1, <1>3
<1>5. /\ S2[e] = {e}
      /\ \A x \in I : S2[x] = IF p \in S[x] THEN S[x] \cup {e} ELSE S[x]
  BY <1>1, <1>3
<1>6. RbNode(r, I \cup {e}, S2, e)
  <2>1. \A a \in Dirs : r.child[a][e] = Null
    BY <1>1, <1>2
  <2>2. r.parent[e] = p /\ r.child[d][p] = e
    BY <1>1, <1>2
  <2>3. S2[e] = {e} \cup Under(S2, r.child["left"][e]) \cup Under(S2, r.child["right"][e])
    BY <1>5, <2>1 DEF Under, Dirs
  <2> QED
    BY <1>5, <2>1, <2>2, <2>3 DEF RbNode
<1>7. ASSUME NEW x \in I
      PROVE  RbNode(r, I \cup {e}, S2, x)
  <2>1. x \in Entries /\ x # e /\ S[x] \subseteq I /\ x \in S[x]
    BY <1>1, TreeNode
  <2>2. S[x] = {x} \cup Under(S, t.child["left"][x]) \cup Under(S, t.child["right"][x])
    BY DEF RbTreeOf, RbNode
  <2>3. \A a \in Dirs : r.child[a][x] = IF x = p /\ a = d THEN e ELSE t.child[a][x]
    BY <1>2, <2>1
  <2>4. \A a \in Dirs : t.child[a][x] # Null => /\ t.child[a][x] \in I /\ t.parent[t.child[a][x]] = x
                                                 /\ x \notin S[t.child[a][x]] /\ S[t.child[a][x]] \subseteq S[x]
                                                 /\ \A m \in S[t.child[a][x]] : Side(a, m, x)
    BY TreeChild
  <2>5. \A a \in Dirs : Under(S2, r.child[a][x]) =
           IF x = p /\ a = d THEN {e}
           ELSE IF p \in Under(S, t.child[a][x]) THEN Under(S, t.child[a][x]) \cup {e} ELSE Under(S, t.child[a][x])
    BY <1>1, <1>5, <2>3, <2>4 DEF Under
  <2>6. S2[x] = {x} \cup Under(S2, r.child["left"][x]) \cup Under(S2, r.child["right"][x])
    <3>1. "left" \in Dirs /\ "right" \in Dirs /\ (d = "left" \/ d = "right")
      BY DEF Dirs
    <3>2. CASE x = p
      <4>1. \A a \in Dirs : p \notin Under(S, t.child[a][x])
        BY <2>4, <3>2 DEF Under
      <4>2. Under(S, t.child[d][x]) = {}
        BY <3>2 DEF Under
      <4>3. S2[x] = S[x] \cup {e}
        BY <1>5, <2>1, <3>2
      <4>4. CASE d = "left"
        BY <2>2, <2>5, <3>1, <3>2, <4>1, <4>2, <4>3, <4>4
      <4>5. CASE d = "right"
        BY <2>2, <2>5, <3>1, <3>2, <4>1, <4>2, <4>3, <4>5
      <4> QED
        BY <3>1, <4>4, <4>5
    <3>3. CASE x # p
      BY <1>5, <2>2, <2>5, <3>1, <3>3
    <3> QED
      BY <3>2, <3>3
  <2>7. S2[x] \subseteq I \cup {e}
    BY <1>5, <2>1
  <2>8. ASSUME NEW a \in Dirs, r.child[a][x] # Null
        PROVE  /\ r.child[a][x] \in I \cup {e} /\ r.parent[r.child[a][x]] = x
               /\ \A m \in S2[r.child[a][x]] : Side(a, m, x)
    <3>1. CASE x = p /\ a = d
      BY <1>1, <1>2, <1>5, <2>3, <3>1
    <3>2. CASE ~(x = p /\ a = d)
      <4>1. PICK c : c = t.child[a][x]
        OBVIOUS
      <4>2. r.child[a][x] = c /\ c # Null
        BY <2>3, <2>8, <3>2, <4>1
      <4>3. c \in I /\ t.parent[c] = x /\ x \notin S[c] /\ \A m \in S[c] : Side(a, m, x)
        BY <2>4, <4>1, <4>2
      <4>4. r.parent[c] = x
        BY <1>1, <1>2, <4>3
      <4>5. p \in S[c] => Side(a, e, x)
        BY <4>3
      <4>6. \A m \in S2[c] : Side(a, m, x)
        BY <1>5, <4>3, <4>5
      <4> QED
        BY <4>2, <4>3, <4>4, <4>6
    <3> QED
      BY <3>1, <3>2
  <2>9. ASSUME x # r.root
        PROVE  r.parent[x] \in I \cup {e} /\ \E a \in Dirs : r.child[a][r.parent[x]] = x
    <3>1. r.parent[x] = t.parent[x]
      BY <1>2, <2>1
    <3>2. t.parent[x] \in I /\ \E a \in Dirs : t.child[a][t.parent[x]] = x
      BY <1>2, <2>9, TreeNode
    <3>3. PICK a \in Dirs : t.child[a][t.parent[x]] = x
      BY <3>2
    <3>4. r.child[a][t.parent[x]] = x
      BY <1>1, <1>2, <2>1, <3>2, <3>3
    <3> QED
      BY <3>1, <3>2, <3>4
  <2> QED
    BY <2>6, <2>7, <2>8, <2>9 DEF RbNode
<1>8. t.root \in I /\ S[t.root] = I /\ t.parent[t.root] = Null
  BY TreeNode
<1>9. r.root # Null => r.root \in I \cup {e} /\ S2[r.root] = I \cup {e} /\ r.parent[r.root] = Null
  <2>1. PICK w : w = t.root
    OBVIOUS
  <2>2. w \in I /\ S[w] = I /\ t.parent[w] = Null /\ r.root = w /\ w \in Entries /\ w # e
    BY <1>1, <1>2, <1>8, <2>1
  <2>3. S2[w] = I \cup {e}
    BY <1>5, <2>2
  <2>4. r.parent[w] = Null
    BY <1>2, <2>2
  <2> QED
    BY <2>2, <2>3, <2>4
<1>10. IsFiniteSet(I \cup {e}) /\ \A m, n \in I \cup {e} : KeyOf[m] = KeyOf[n] => m = n
  <2>1. IsFiniteSet(I) /\ \A m, n \in I : KeyOf[m] = KeyOf[n] => m = n
    BY DEF RbTreeOf
  <2>2. IsFiniteSet(I \cup {e})
    BY <2>1, FS_AddElement
  <2> QED
    BY <2>1, <2>2
<1>11. r.root # Null
  BY <1>1, <1>2, <1>8
<1>12. RbTreeOf(r, I \cup {e}, S2)
  BY <1>1, <1>2, <1>4, <1>6, <1>7, <1>9, <1>10, <1>11 DEF RbTreeOf
<1> QED
  BY <1>12

(* e is not linked and side d of p is free. *)
Linkable(t, I, e, p, d) ==
  /\ t \in Trees /\ I \in SUBSET Entries /\ e \in Entries \ I
  /\ \A a \in Dirs : t.child[a][e] = Null
  /\ t.color[e] = "red"
  /\ p = Null \/ (p \in I /\ d \in Dirs /\ t.child[d][p] = Null)
  /\ \A x \in I, a \in Dirs : t.child[a][x] # e
  /\ t.root # Null => t.root \in I
  /\ p = Null => I = {}

LEMMA LinkColours ==
  ASSUME NEW t, NEW I, NEW e, NEW p, NEW d, Linkable(t, I, e, p, d),
         NEW H, Heights(t, I, H, Null, "left"), NoRedPair(t, I, {}), Black(t, t.root),
         NEW r, Linked(t, r, e, p, d)
  PROVE  /\ \E H2 : Heights(r, I \cup {e}, H2, Null, "left")
         /\ NoRedPair(r, I \cup {e}, {e}) /\ (Black(r, r.root) \/ r.root = e) /\ r.color[e] = "red"
<1> USE DEF Linkable
<1>1. Null \notin Entries /\ (p # Null => p \in Entries) /\ e # p
  BY EntriesAssumption
<1>2. /\ r \in Trees /\ r.color = t.color /\ r.root = IF p = Null THEN e ELSE t.root
      /\ \A x \in Entries : r.parent[x] = IF x = e THEN p ELSE t.parent[x]
      /\ \A a \in Dirs, x \in Entries : r.child[a][x] = IF x = p /\ a = d THEN e ELSE t.child[a][x]
  BY DEF Linked
<1>3. H \in [Entries -> Nat]
  BY DEF Heights
<1>4. \A x \in I, a \in Dirs : H[x] = Weight(t, H, t.child[a][x])
  BY <1>3, EvenHeights
<1>5. PICK H2 : H2 = [H EXCEPT ![e] = 0]
  OBVIOUS
<1>6. H2 \in [Entries -> Nat] /\ \A x \in Entries : H2[x] = IF x = e THEN 0 ELSE H[x]
  BY <1>3, <1>5
<1>7. /\ Weight(r, H2, e) = 0 /\ Weight(r, H2, Null) = 0 /\ Weight(t, H, Null) = 0
      /\ \A c \in Entries \cup {Null} : c # e => Weight(r, H2, c) = Weight(t, H, c)
  BY <1>1, <1>2, <1>6 DEF Weight
<1>8. ASSUME NEW x \in I \cup {e}, NEW a \in Dirs
      PROVE  H2[x] = Weight(r, H2, r.child[a][x])
  <2>1. CASE x = e
    <3>1. r.child[a][x] = Null
      BY <1>1, <1>2, <2>1
    <3> QED
      BY <1>6, <1>7, <2>1, <3>1
  <2>2. CASE x # e
    <3>1. x \in I /\ x \in Entries /\ H2[x] = H[x] /\ t.child[a][x] \in Entries \cup {Null} /\ t.child[a][x] # e
      BY <1>6, <2>2, TreeTypes DEF RbNodes
    <3>2. H[x] = Weight(t, H, t.child[a][x])
      BY <1>4, <3>1
    <3>3. CASE x = p /\ a = d
      <4>1. r.child[a][x] = e /\ t.child[a][x] = Null
        BY <1>1, <1>2, <3>1, <3>3
      <4> QED
        BY <1>7, <3>1, <3>2, <4>1
    <3>4. CASE ~(x = p /\ a = d)
      <4>1. r.child[a][x] = t.child[a][x]
        BY <1>2, <3>1, <3>4
      <4> QED
        BY <1>7, <3>1, <3>2, <4>1
    <3> QED
      BY <3>3, <3>4
  <2> QED
    BY <2>1, <2>2
<1>9. Heights(r, I \cup {e}, H2, Null, "left")
  BY <1>2, <1>6, <1>8, EvenHeights
<1>10. NoRedPair(r, I \cup {e}, {e})
  <2>1. ASSUME NEW x \in I, x # r.root
        PROVE  Black(r, x) \/ Black(r, r.parent[x])
    <3>1. x # t.root /\ r.parent[x] = t.parent[x] /\ x # e
      BY <1>2, <2>1
    <3>2. Black(t, x) \/ Black(t, t.parent[x])
      BY <3>1 DEF NoRedPair
    <3> QED
      BY <1>2, <3>1, <3>2 DEF Black
  <2> QED
    BY <2>1 DEF NoRedPair
<1>11. Black(r, r.root) \/ r.root = e
  BY <1>2 DEF Black
<1> QED
  BY <1>2, <1>9, <1>10, <1>11

(* The first entry. *)
LEMMA LinkFirst ==
  ASSUME NEW t, NEW S, RbTreeOf(t, {}, S), NEW e \in Entries,
         \A a \in Dirs : t.child[a][e] = Null, NEW d, NEW r, Linked(t, r, e, Null, d)
  PROVE  \E S2 : RbTreeOf(r, {e}, S2)
<1>1. Null \notin Entries
  BY EntriesAssumption
<1>2. /\ r \in Trees /\ r.root = e /\ r.parent[e] = Null /\ \A a \in Dirs : r.child[a][e] = Null
  BY <1>1 DEF Linked
<1>3. PICK S2 : S2 = [x \in Entries |-> {e}]
  OBVIOUS
<1>4. S2 \in [Entries -> SUBSET Entries] /\ S2[e] = {e} /\ IsFiniteSet({e})
  BY <1>3, FS_Singleton
<1>5. RbNode(r, {e}, S2, e)
  BY <1>2, <1>4 DEF RbNode, Under, Dirs
<1>6. RbTreeOf(r, {e}, S2)
  BY <1>1, <1>2, <1>4, <1>5 DEF RbTreeOf
<1> QED
  BY <1>6

(* r is t with c, the only child of n, in the place of n. *)
Unlinked(t, r, n, c) ==
  LET p == t.parent[n]
  IN  /\ r \in Trees /\ r.color = t.color
      /\ r.root = IF p = Null THEN c ELSE t.root
      /\ \A x \in Entries : r.parent[x] = IF x = c THEN p ELSE t.parent[x]
      /\ \A a \in Dirs, x \in Entries :
           r.child[a][x] = IF x = p /\ t.child[a][x] = n THEN c ELSE t.child[a][x]

(* The parent of a node leads to it on one side only. *)
LEMMA ParentLink ==
  ASSUME NEW t, NEW I, NEW S, RbTreeOf(t, I, S), NEW n \in I, NEW p, p = t.parent[n], p # Null
  PROVE  /\ p \in I /\ p # n /\ p \notin S[n] /\ n # t.root
         /\ \E a \in Dirs : t.child[a][p] = n /\ t.child[Opp(a)][p] # n
<1>1. n # t.root /\ p \in I /\ n # Null
  BY TreeNode
<1>2. PICK a \in Dirs : t.child[a][p] = n
  BY <1>1, TreeNode
<1>3. p # n /\ p \notin S[n] /\ \A b \in Dirs : t.child[b][p] = n => b = a
  BY <1>1, <1>2, TreeChild
<1> QED
  BY <1>1, <1>2, <1>3, DirFacts

LEMMA UnlinkIs ==
  ASSUME NEW t, NEW I, NEW S, RbTreeOf(t, I, S), NEW n \in I, NEW c, c = OnlyChild(t, n),
         NEW r, r = Unlink(t, n)
  PROVE  Unlinked(t, r, n, c)
<1>1. PICK p : p = t.parent[n]
  OBVIOUS
<1>2. t \in Trees /\ n \in Entries /\ I \subseteq Entries /\ "left" \in Dirs /\ "right" \in Dirs
  BY DEF RbTreeOf, Dirs
<1>3. c \in RbNodes /\ p \in RbNodes
  BY <1>1, <1>2, TreeTypes DEF OnlyChild
<1>4. PICK t1 : t1 = Adopt(t, c, p)
  OBVIOUS
<1>5. ParentSet(t, t1, c, p)
  BY <1>2, <1>3, <1>4, AdoptIs
<1>6. t1 \in Trees /\ t1.child = t.child /\ t1.root = t.root /\ t1.color = t.color
  BY <1>5 DEF ParentSet
<1>7. r = Relink(t1, p, n, c, "left")
  BY <1>1, <1>4 DEF Unlink
<1>8. p # Null => \E a \in Dirs : t1.child[a][p] = n /\ t1.child[Opp(a)][p] # n
  BY <1>1, <1>6, ParentLink
<1>9. Relinked(t1, r, p, n, c)
  BY <1>2, <1>3, <1>6, <1>7, <1>8, RelinkIs
<1> QED
  BY <1>1, <1>5, <1>6, <1>9 DEF Unlinked, ParentSet, Relinked

(* A node with at most one child. *)
LEMMA OnlyChildIs ==
  ASSUME NEW t, NEW I, NEW S, RbTreeOf(t, I, S), NEW n \in I, NEW c, c = OnlyChild(t, n),
         \E a \in Dirs : t.child[a][n] = Null
  PROVE  /\ \A a \in Dirs : t.child[a][n] = c \/ t.child[a][n] = Null
         /\ \E a \in Dirs : t.child[a][n] = Null /\ t.child[Opp(a)][n] = c
         /\ c # Null => /\ c \in I /\ c # n /\ t.parent[c] = n /\ c # t.root
                        /\ n \notin S[c] /\ S[n] = {n} \cup S[c]
         /\ c = Null => S[n] = {n}
<1>1. S[n] = {n} \cup Under(S, t.child["left"][n]) \cup Under(S, t.child["right"][n])
  BY DEF RbTreeOf, RbNode
<1>2. (t.child["left"][n] = Null /\ t.child["right"][n] = c) \/ (t.child["left"][n] = c /\ t.child["right"][n] = Null)
  BY DEF OnlyChild, Dirs
<1>3. \A a \in Dirs : t.child[a][n] = c \/ t.child[a][n] = Null
  BY <1>2 DEF Dirs
<1>4. \E a \in Dirs : t.child[a][n] = Null /\ t.child[Opp(a)][n] = c
  BY <1>2 DEF Dirs, Opp
<1>5. S[n] = {n} \cup Under(S, c)
  BY <1>1, <1>2 DEF Under
<1>6. c # Null => c \in I /\ c # n /\ t.parent[c] = n /\ c # t.root /\ n \notin S[c]
  <2>1. PICK b \in Dirs : t.child[b][n] = c
    BY <1>4, DirFacts
  <2> QED
    BY <2>1, TreeChild
<1> QED
  BY <1>3, <1>4, <1>5, <1>6 DEF Under

LEMMA UnlinkTree ==
  ASSUME NEW t, NEW I, NEW S, RbTreeOf(t, I, S), NEW n \in I, NEW c, c = OnlyChild(t, n),
         \E a \in Dirs : t.child[a][n] = Null, NEW r, Unlinked(t, r, n, c)
  PROVE  \E S2 : RbTreeOf(r, I \ {n}, S2)
<1>1. PICK p : p = t.parent[n]
  OBVIOUS
<1>2. t \in Trees /\ I \subseteq Entries /\ Null \notin Entries /\ n \in Entries /\ S \in [Entries -> SUBSET Entries]
  BY EntriesAssumption DEF RbTreeOf
<1>3. /\ r \in Trees
      /\ r.root = IF p = Null THEN c ELSE t.root
      /\ \A x \in Entries : r.parent[x] = IF x = c THEN p ELSE t.parent[x]
      /\ \A a \in Dirs, x \in Entries :
           r.child[a][x] = IF x = p /\ t.child[a][x] = n THEN c ELSE t.child[a][x]
  BY <1>1 DEF Unlinked
<1>4. /\ \A a \in Dirs : t.child[a][n] = c \/ t.child[a][n] = Null
      /\ c # Null => /\ c \in I /\ c # n /\ t.parent[c] = n /\ c # t.root
                     /\ n \notin S[c] /\ S[n] = {n} \cup S[c]
      /\ c = Null => S[n] = {n}
  BY OnlyChildIs
<1>5. PICK S2 : S2 = [x \in Entries |-> S[x] \ {n}]
  OBVIOUS
<1>6. S2 \in [Entries -> SUBSET Entries] /\ \A x \in Entries : S2[x] = S[x] \ {n}
  BY <1>2, <1>5
<1>7. p # Null => p \in I /\ p # n /\ n # t.root /\ \E a \in Dirs : t.child[a][p] = n
  BY <1>1, ParentLink
<1>8. p = Null => n = t.root
  BY <1>1, TreeNode
<1>9. ASSUME NEW x \in I \ {n}
      PROVE  RbNode(r, I \ {n}, S2, x)
  <2>1. x \in Entries /\ x # n /\ S[x] \subseteq I /\ x \in S[x]
    BY <1>2, TreeNode
  <2>2. S[x] = {x} \cup Under(S, t.child["left"][x]) \cup Under(S, t.child["right"][x])
    BY DEF RbTreeOf, RbNode
  <2>3. \A a \in Dirs : t.child[a][x] # Null => /\ t.child[a][x] \in I /\ t.parent[t.child[a][x]] = x
                                                 /\ \A m \in S[t.child[a][x]] : Side(a, m, x)
    BY TreeChild
  <2>4. \A a \in Dirs : t.child[a][x] = n => x = p
    BY <1>1, <1>2, <2>3
  <2>5. \A a \in Dirs : r.child[a][x] = IF t.child[a][x] = n THEN c ELSE t.child[a][x]
    BY <1>3, <2>1, <2>4
  <2>6. \A a \in Dirs : Under(S2, r.child[a][x]) = Under(S, t.child[a][x]) \ {n}
    <3>1. Under(S2, c) = S[n] \ {n}
      BY <1>2, <1>4, <1>6 DEF Under
    <3>2. ASSUME NEW a \in Dirs PROVE Under(S2, r.child[a][x]) = Under(S, t.child[a][x]) \ {n}
      <4>1. CASE t.child[a][x] = n
        BY <1>2, <2>5, <3>1, <4>1 DEF Under
      <4>2. CASE t.child[a][x] # n
        BY <1>2, <1>6, <2>3, <2>5, <4>2 DEF Under
      <4> QED
        BY <4>1, <4>2
    <3> QED
      BY <3>2
  <2>7. S2[x] = {x} \cup Under(S2, r.child["left"][x]) \cup Under(S2, r.child["right"][x])
    BY <1>6, <2>1, <2>2, <2>6 DEF Dirs
  <2>8. S2[x] \subseteq I \ {n}
    BY <1>6, <2>1
  <2>9. ASSUME NEW a \in Dirs, r.child[a][x] # Null
        PROVE  /\ r.child[a][x] \in I \ {n} /\ r.parent[r.child[a][x]] = x
               /\ \A m \in S2[r.child[a][x]] : Side(a, m, x)
    <3>1. CASE t.child[a][x] = n
      <4>1. r.child[a][x] = c /\ c # Null /\ x = p
        BY <2>4, <2>5, <2>9, <3>1
      <4>2. c \in I \ {n} /\ c \in Entries /\ S2[c] \subseteq S[n] /\ r.parent[c] = x
        BY <1>2, <1>3, <1>4, <1>6, <4>1
      <4>3. \A m \in S[n] : Side(a, m, x)
        BY <1>2, <2>3, <3>1
      <4> QED
        BY <4>1, <4>2, <4>3
    <3>2. CASE t.child[a][x] # n
      <4>1. PICK k : k = t.child[a][x]
        OBVIOUS
      <4>2. r.child[a][x] = k /\ k # Null /\ k # n
        BY <2>5, <2>9, <3>2, <4>1
      <4>3. k \in I /\ t.parent[k] = x /\ \A m \in S[k] : Side(a, m, x)
        BY <2>3, <4>1, <4>2
      <4>4. k # c /\ k \in Entries
        BY <1>2, <1>4, <2>1, <4>2, <4>3
      <4>5. r.parent[k] = x /\ S2[k] \subseteq S[k]
        BY <1>3, <1>6, <4>3, <4>4
      <4> QED
        BY <4>2, <4>3, <4>5
    <3> QED
      BY <3>1, <3>2
  <2>10. ASSUME x # r.root
         PROVE  r.parent[x] \in I \ {n} /\ \E a \in Dirs : r.child[a][r.parent[x]] = x
    <3>1. CASE x = c
      <4>1. p # Null /\ r.parent[x] = p
        BY <1>3, <2>1, <2>10, <3>1
      <4>2. PICK a \in Dirs : t.child[a][p] = n
        BY <1>7, <4>1
      <4>3. r.child[a][p] = c
        BY <1>2, <1>3, <1>7, <4>1, <4>2
      <4> QED
        BY <1>7, <3>1, <4>1, <4>3
    <3>2. CASE x # c
      <4>1. x # t.root /\ r.parent[x] = t.parent[x]
        BY <1>3, <1>8, <2>1, <2>10, <3>2
      <4>2. PICK y : y = t.parent[x]
        OBVIOUS
      <4>3. y \in I /\ \E a \in Dirs : t.child[a][y] = x
        BY <4>1, <4>2, TreeNode
      <4>4. PICK a \in Dirs : t.child[a][y] = x
        BY <4>3
      <4>5. y # n
        BY <1>2, <1>4, <2>1, <3>2, <4>4
      <4>6. r.child[a][y] = x
        BY <1>2, <1>3, <2>1, <4>3, <4>4
      <4> QED
        BY <4>1, <4>2, <4>3, <4>5, <4>6
    <3> QED
      BY <3>1, <3>2
  <2> QED
    BY <2>7, <2>8, <2>9, <2>10 DEF RbNode
<1>10. r.root = Null => I \ {n} = {}
  <2>1. CASE p = Null
    BY <1>3, <1>4, <1>8, <2>1, TreeNode
  <2>2. CASE p # Null
    BY <1>2, <1>3, <2>2, TreeNode
  <2> QED
    BY <2>1, <2>2
<1>11. r.root # Null => r.root \in I \ {n} /\ S2[r.root] = I \ {n} /\ r.parent[r.root] = Null
  <2>1. CASE p = Null
    <3>1. S[n] = I
      BY <1>8, <2>1, TreeNode
    <3>2. r.root = c
      BY <1>3, <2>1
    <3>3. c # Null => c \in I \ {n} /\ c \in Entries /\ S2[c] = I \ {n} /\ r.parent[c] = Null
      BY <1>2, <1>3, <1>4, <1>6, <2>1, <3>1
    <3> QED
      BY <3>2, <3>3
  <2>2. CASE p # Null
    <3>1. PICK w : w = t.root
      OBVIOUS
    <3>2. w \in I /\ S[w] = I /\ t.parent[w] = Null /\ w # n /\ r.root = w /\ w \in Entries
      BY <1>2, <1>3, <1>7, <2>2, <3>1, TreeNode
    <3>3. w # c
      BY <1>2, <1>4, <3>1, <3>2
    <3> QED
      BY <1>3, <1>6, <3>2, <3>3
  <2> QED
    BY <2>1, <2>2
<1>12. IsFiniteSet(I \ {n}) /\ \A a, b \in I \ {n} : KeyOf[a] = KeyOf[b] => a = b
  <2>1. IsFiniteSet(I) /\ \A a, b \in I : KeyOf[a] = KeyOf[b] => a = b
    BY DEF RbTreeOf
  <2> QED
    BY <2>1, FS_Subset
<1>13. RbTreeOf(r, I \ {n}, S2)
  BY <1>2, <1>3, <1>6, <1>9, <1>10, <1>11, <1>12 DEF RbTreeOf
<1> QED
  BY <1>13

(* n has at most one child c and a parent p or none. *)
Detached(t, n, c, p) ==
  c = OnlyChild(t, n) /\ p = t.parent[n] /\ \E a \in Dirs : t.child[a][n] = Null

(* What is left when the node was red, and when it was black. *)
RedGone(r, I, H) == Heights(r, I, H, Null, "left") /\ NoRedPair(r, I, {})

BlackGone(r, I, H, c, p) ==
  /\ \E D \in Dirs : (p # Null => r.child[D][p] = c) /\ Heights(r, I, H, p, D)
  /\ NoRedPair(r, I, {c})

RootAfter(t, r, c, p) == IF p = Null THEN r.root = c ELSE r.root = t.root /\ Black(r, r.root)

LEMMA UnlinkColours ==
  ASSUME NEW t, NEW I, NEW S, RbTreeOf(t, I, S), NEW n \in I,
         NEW c, NEW p, Detached(t, n, c, p), NEW r, Unlinked(t, r, n, c),
         NEW H, Heights(t, I, H, Null, "left"), NoRedPair(t, I, {}), Black(t, t.root)
  PROVE  /\ c # Null => t.color[c] = "red"
         /\ ~Black(t, n) => RedGone(r, I \ {n}, H)
         /\ Black(t, n) => BlackGone(r, I \ {n}, H, c, p)
         /\ RootAfter(t, r, c, p)
<1> USE DEF Detached
<1>1. t \in Trees /\ I \subseteq Entries /\ Null \notin Entries /\ n \in Entries
  BY EntriesAssumption DEF RbTreeOf
<1>2. /\ r \in Trees /\ r.color = t.color
      /\ r.root = IF p = Null THEN c ELSE t.root
      /\ \A x \in Entries : r.parent[x] = IF x = c THEN p ELSE t.parent[x]
      /\ \A a \in Dirs, x \in Entries :
           r.child[a][x] = IF x = p /\ t.child[a][x] = n THEN c ELSE t.child[a][x]
  BY DEF Unlinked
<1>3. /\ \A a \in Dirs : t.child[a][n] = c \/ t.child[a][n] = Null
      /\ \E a \in Dirs : t.child[a][n] = Null /\ t.child[Opp(a)][n] = c
      /\ c # Null => c \in I /\ c # n /\ t.parent[c] = n /\ c # t.root
  BY OnlyChildIs
<1>4. H \in [Entries -> Nat]
  BY DEF Heights
<1>5. \A x \in I, a \in Dirs : H[x] = Weight(t, H, t.child[a][x])
  BY <1>1, <1>4, EvenHeights
<1>6. Weight(t, H, Null) = 0 /\ H[n] = 0 /\ Weight(t, H, c) = 0
  <2>1. PICK a \in Dirs : t.child[a][n] = Null /\ t.child[Opp(a)][n] = c
    BY <1>3
  <2>2. Weight(t, H, Null) = 0
    BY DEF Weight
  <2>3. H[n] = Weight(t, H, Null) /\ H[n] = Weight(t, H, c)
    BY <1>5, <2>1, DirFacts
  <2> QED
    BY <2>2, <2>3
<1>7. c # Null => t.color[c] = "red"
  <2>1. ASSUME c # Null, t.color[c] # "red" PROVE FALSE
    <3>1. c \in Entries /\ H[c] \in Nat /\ t.color[c] = "black"
      BY <1>1, <1>3, <1>4, <2>1, TreeTypes
    <3>2. Weight(t, H, c) = H[c] + 1
      BY <2>1, <3>1 DEF Weight
    <3> QED
      BY <1>6, <3>1, <3>2
  <2> QED
    BY <2>1
<1>8. \A x \in Entries \cup {Null} : Weight(r, H, x) = Weight(t, H, x) /\ (Black(r, x) <=> Black(t, x))
  BY <1>2 DEF Weight, Black
<1>9. \A x \in I, a \in Dirs : t.child[a][x] \in Entries \cup {Null} /\ (t.child[a][x] = n => x = p)
  <2>1. \A x \in I, a \in Dirs : t.child[a][x] \in Entries \cup {Null}
    BY <1>1, TreeTypes DEF RbNodes
  <2>2. \A x \in I, a \in Dirs : t.child[a][x] = n => x = p
    BY <1>1, TreeChild
  <2> QED
    BY <2>1, <2>2
<1>10. \A x \in I, a \in Dirs : r.child[a][x] = IF t.child[a][x] = n THEN c ELSE t.child[a][x]
  BY <1>1, <1>2, <1>9
<1>11. c \in Entries \cup {Null}
  BY <1>1, <1>3
<1>12. /\ p # Null => p \in I /\ p # n /\ n # t.root /\ \E a \in Dirs : t.child[a][p] = n /\ t.child[Opp(a)][p] # n
       /\ p = Null => n = t.root
  BY ParentLink, TreeNode
<1>13. IF p = Null THEN r.root = c ELSE r.root = t.root /\ Black(r, r.root)
  <2>1. p # Null => r.root = t.root /\ t.root \in Entries
    BY <1>1, <1>2, TreeNode
  <2> QED
    BY <1>2, <1>8, <2>1
<1>14. ASSUME NEW x \in I \ {n}, x # r.root, x # c
       PROVE  Black(r, x) \/ Black(r, r.parent[x])
  <2>1. x # t.root /\ r.parent[x] = t.parent[x]
    BY <1>1, <1>2, <1>12, <1>14
  <2>2. t.parent[x] \in Entries /\ x \in Entries
    BY <1>1, <2>1, TreeNode
  <2>3. Black(t, x) \/ Black(t, t.parent[x])
    BY <2>1 DEF NoRedPair
  <2> QED
    BY <1>8, <2>1, <2>2, <2>3
<1>15. NoRedPair(r, I \ {n}, {c})
  BY <1>14 DEF NoRedPair
<1>16. ASSUME ~Black(t, n)
       PROVE  /\ c = Null /\ Heights(r, I \ {n}, H, Null, "left") /\ NoRedPair(r, I \ {n}, {})
  <2>1. c = Null
    <3>1. ASSUME c # Null PROVE FALSE
      <4>1. c \in I /\ t.parent[c] = n /\ c # t.root /\ t.color[c] = "red"
        BY <1>3, <1>7, <3>1
      <4>2. Black(t, c) \/ Black(t, n)
        BY <4>1 DEF NoRedPair
      <4>3. ~Black(t, c)
        BY <3>1, <4>1 DEF Black
      <4> QED
        BY <1>16, <4>2, <4>3
    <3> QED
      BY <3>1
  <2>2. Weight(t, H, n) = 0
    <3>1. Weight(t, H, n) = H[n]
      BY <1>1, <1>4, <1>16, WeightIs DEF RbNodes
    <3> QED
      BY <1>6, <3>1
  <2>3. \A x \in I \ {n}, a \in Dirs : H[x] = Weight(r, H, r.child[a][x])
    BY <1>5, <1>6, <1>8, <1>9, <1>10, <2>1, <2>2
  <2>4. Heights(r, I \ {n}, H, Null, "left")
    <3>1. I \ {n} \in SUBSET Entries
      BY <1>1
    <3> QED
      BY <1>2, <1>4, <2>3, <3>1, EvenHeights
  <2>5. NoRedPair(r, I \ {n}, {})
    BY <1>1, <1>15, <2>1 DEF NoRedPair
  <2> QED
    BY <2>1, <2>4, <2>5
<1>17. ASSUME Black(t, n)
       PROVE  \E D \in Dirs : (p # Null => r.child[D][p] = c) /\ Heights(r, I \ {n}, H, p, D)
  <2>1. Weight(t, H, n) = 1
    <3>1. Weight(t, H, n) = H[n] + 1
      BY <1>1, <1>4, <1>17, WeightIs DEF RbNodes
    <3> QED
      BY <1>6, <3>1
  <2>2. \A x \in I, a \in Dirs : H[x] \in Nat /\ Weight(t, H, t.child[a][x]) \in Nat
    BY <1>1, <1>4, <1>5
  <2>3. CASE p = Null
    <3>1. \A x \in I \ {n}, a \in Dirs : H[x] = Weight(r, H, r.child[a][x])
      BY <1>1, <1>5, <1>8, <1>9, <1>10, <2>3
    <3>2. Heights(r, I \ {n}, H, p, "left")
      <4>1. I \ {n} \in SUBSET Entries
        BY <1>1
      <4> QED
        BY <1>2, <1>4, <2>3, <3>1, <4>1, EvenHeights
    <3>3. "left" \in Dirs
      BY DEF Dirs
    <3> QED
      BY <2>3, <3>2, <3>3
  <2>4. CASE p # Null
    <3>1. PICK D \in Dirs : t.child[D][p] = n /\ t.child[Opp(D)][p] # n
      BY <1>12, <2>4
    <3>2. r.child[D][p] = c
      BY <1>10, <1>12, <2>4, <3>1
    <3>3. \A x \in I, a \in Dirs : t.child[a][x] = n <=> x = p /\ a = D
      BY <1>9, <3>1, DirFacts
    <3>4. ASSUME NEW x \in I \ {n}, NEW a \in Dirs
          PROVE  H[x] = Weight(r, H, r.child[a][x]) + (IF x = p /\ a = D THEN 1 ELSE 0)
      <4>1. CASE x = p /\ a = D
        <5>1. H[x] = 1 /\ Weight(r, H, r.child[a][x]) = 0
          BY <1>5, <1>6, <1>8, <1>11, <2>1, <3>1, <3>2, <4>1
        <5> QED
          BY <4>1, <5>1
      <4>2. CASE ~(x = p /\ a = D)
        <5>1. Weight(r, H, r.child[a][x]) = H[x] /\ H[x] \in Nat
          BY <1>5, <1>8, <1>9, <1>10, <2>2, <3>3, <4>2
        <5> QED
          BY <4>2, <5>1
      <4> QED
        BY <4>1, <4>2
    <3>5. Heights(r, I \ {n}, H, p, D)
      BY <1>4, <3>4 DEF Heights
    <3> QED
      BY <3>2, <3>5
  <2> QED
    BY <2>3, <2>4
<1> QED
  BY <1>7, <1>13, <1>15, <1>16, <1>17 DEF RedGone, BlackGone, RootAfter

(* u is t with s, which is not in it, in the place of old. *)
Renamed(t, u, old, s) ==
  /\ u \in Trees
  /\ u.root = IF t.root = old THEN s ELSE t.root
  /\ u.color[s] = t.color[old] /\ u.parent[s] = t.parent[old]
  /\ \A a \in Dirs : u.child[a][s] = t.child[a][old]
  /\ \A x \in Entries \ {s} :
       /\ u.color[x] = t.color[x]
       /\ u.parent[x] = IF \E a \in Dirs : t.child[a][old] = x THEN s ELSE t.parent[x]
       /\ \A a \in Dirs : u.child[a][x] = IF x = t.parent[old] /\ t.child[a][x] = old THEN s ELSE t.child[a][x]

LEMMA TransplantIs ==
  ASSUME NEW t, NEW I, NEW S, RbTreeOf(t, I, S), NEW old \in I, NEW s \in Entries \ I,
         NEW u, u = Transplant(t, old, s)
  PROVE  Renamed(t, u, old, s)
<1>1. PICK p : p = t.parent[old]
  OBVIOUS
<1>2. PICK l : l = t.child["left"][old]
  OBVIOUS
<1>3. PICK r : r = t.child["right"][old]
  OBVIOUS
<1>4. PICK c : c = t.color[old]
  OBVIOUS
<1>5. t \in Trees /\ I \subseteq Entries /\ old \in Entries /\ old # s /\ Null \notin Entries
  BY EntriesAssumption DEF RbTreeOf
<1>6. "left" \in Dirs /\ "right" \in Dirs /\ "left" # "right" /\ \A a \in Dirs : a = "left" \/ a = "right"
  BY DEF Dirs
<1>7. /\ p \in RbNodes /\ l \in RbNodes /\ r \in RbNodes /\ c \in {"red", "black"} /\ s \in RbNodes
  BY <1>1, <1>2, <1>3, <1>4, <1>5, <1>6, TreeTypes DEF RbNodes
<1>8. l # s /\ r # s
  <2>1. \A a \in Dirs : t.child[a][old] # Null => t.child[a][old] \in I
    BY TreeChild
  <2> QED
    BY <1>2, <1>3, <1>5, <1>6, <2>1
<1>9. /\ p # s
      /\ p = Null <=> old = t.root
      /\ p # Null => p \in I /\ \E a \in Dirs : t.child[a][p] = old /\ t.child[Opp(a)][p] # old
  <2>1. p = Null <=> old = t.root
    BY <1>1, TreeNode
  <2>2. p # Null => p \in I /\ \E a \in Dirs : t.child[a][p] = old /\ t.child[Opp(a)][p] # old
    BY <1>1, ParentLink
  <2> QED
    BY <1>5, <2>1, <2>2
<1>10. PICK t0 : t0 = Adopt(t, s, p)
  OBVIOUS
<1>11. ParentSet(t, t0, s, p)
  BY <1>5, <1>7, <1>10, AdoptIs
<1>12. PICK t1 : t1 = WithChild(t0, s, "left", l)
  OBVIOUS
<1>13. ChildSet(t0, t1, s, "left", l)
  <2>1. t0 \in Trees
    BY <1>11 DEF ParentSet
  <2> QED
    BY <1>6, <1>7, <1>12, <2>1, WithChildIs
<1>14. PICK t2 : t2 = WithChild(t1, s, "right", r)
  OBVIOUS
<1>15. ChildSet(t1, t2, s, "right", r)
  <2>1. t1 \in Trees
    BY <1>13 DEF ChildSet
  <2> QED
    BY <1>6, <1>7, <1>14, <2>1, WithChildIs
<1>16. PICK t3 : t3 = Paint(t2, s, c)
  OBVIOUS
<1>17. ColorSet(t2, t3, s, c)
  <2>1. t2 \in Trees
    BY <1>15 DEF ChildSet
  <2> QED
    BY <1>7, <1>16, <2>1, PaintIs
<1>18. PICK t4 : t4 = Relink(t3, p, old, s, "left")
  OBVIOUS
<1>19. p # Null => \E a \in Dirs : t3.child[a][p] = old /\ t3.child[Opp(a)][p] # old
  <2>1. ASSUME p # Null PROVE \A a \in Dirs : t3.child[a][p] = t.child[a][p]
    BY <1>5, <1>9, <1>11, <1>13, <1>15, <1>17, <2>1 DEF ParentSet, ChildSet, ColorSet
  <2> QED
    BY <1>9, <2>1, DirFacts
<1>20. Relinked(t3, t4, p, old, s)
  <2>1. t3 \in Trees
    BY <1>17 DEF ColorSet
  <2> QED
    BY <1>6, <1>7, <1>18, <1>19, <2>1, RelinkIs
<1>21. PICK t5 : t5 = Adopt(t4, l, s)
  OBVIOUS
<1>22. ParentSet(t4, t5, l, s)
  <2>1. t4 \in Trees
    BY <1>20 DEF Relinked
  <2> QED
    BY <1>7, <1>21, <2>1, AdoptIs
<1>23. PICK t6 : t6 = Adopt(t5, r, s)
  OBVIOUS
<1>24. ParentSet(t5, t6, r, s)
  <2>1. t5 \in Trees
    BY <1>22 DEF ParentSet
  <2> QED
    BY <1>7, <1>23, <2>1, AdoptIs
<1>25. u = t6
  BY <1>1, <1>2, <1>3, <1>4, <1>10, <1>12, <1>14, <1>16, <1>18, <1>21, <1>23 DEF Transplant
<1> USE DEF ParentSet, ChildSet, ColorSet, Relinked
<1>26. t6 \in Trees /\ t6.root = IF t.root = old THEN s ELSE t.root
  BY <1>9, <1>11, <1>13, <1>15, <1>17, <1>20, <1>22, <1>24
<1>27. t6.color[s] = c /\ \A x \in Entries \ {s} : t6.color[x] = t.color[x]
  BY <1>11, <1>13, <1>15, <1>17, <1>20, <1>22, <1>24
<1>28. t6.parent[s] = p /\ \A x \in Entries \ {s} : t6.parent[x] = IF x = l \/ x = r THEN s ELSE t.parent[x]
  BY <1>8, <1>11, <1>13, <1>15, <1>17, <1>20, <1>22, <1>24
<1>29. \A x \in Entries \ {s} : (\E a \in Dirs : t.child[a][old] = x) <=> x = l \/ x = r
  BY <1>2, <1>3, <1>6
<1>30. \A a \in Dirs : t3.child[a][s] = t.child[a][old] /\ \A x \in Entries \ {s} : t3.child[a][x] = t.child[a][x]
  <2>1. t3.child["left"][s] = l /\ t3.child["right"][s] = r
    BY <1>6, <1>11, <1>13, <1>15, <1>17
  <2>2. \A a \in Dirs, x \in Entries \ {s} : t3.child[a][x] = t.child[a][x]
    BY <1>11, <1>13, <1>15, <1>17
  <2> QED
    BY <1>2, <1>3, <1>6, <2>1, <2>2
<1>31. \A a \in Dirs, x \in Entries : t6.child[a][x] = IF x = p /\ t3.child[a][x] = old THEN s ELSE t3.child[a][x]
  BY <1>20, <1>22, <1>24
<1>32. \A a \in Dirs : t6.child[a][s] = t.child[a][old]
  BY <1>9, <1>30, <1>31
<1>33. \A x \in Entries \ {s}, a \in Dirs : t6.child[a][x] = IF x = p /\ t.child[a][x] = old THEN s ELSE t.child[a][x]
  BY <1>30, <1>31
<1> QED
  BY <1>1, <1>4, <1>25, <1>26, <1>27, <1>28, <1>29, <1>32, <1>33 DEF Renamed

(* What holds in u of the other nodes. *)
LEMMA RenamedFacts ==
  ASSUME NEW t, NEW I, NEW S, RbTreeOf(t, I, S), NEW old \in I, NEW s \in Entries \ I,
         NEW u, Renamed(t, u, old, s)
  PROVE  /\ \A x \in I \ {old} : /\ u.color[x] = t.color[x]
                                 /\ x # t.root => u.parent[x] = IF t.parent[x] = old THEN s ELSE t.parent[x]
                                 /\ x = t.root => u.parent[x] = Null
                                 /\ \A a \in Dirs : u.child[a][x] = IF t.child[a][x] = old THEN s ELSE t.child[a][x]
         /\ \A x \in I, a \in Dirs : t.child[a][x] # s /\ (t.child[a][x] # Null => t.child[a][x] \in I)
         /\ \A a \in Dirs : t.child[a][old] # old
<1>1. t \in Trees /\ I \subseteq Entries /\ old \in Entries /\ old # s /\ Null \notin Entries
  BY EntriesAssumption DEF RbTreeOf
<1>2. \A x \in I, a \in Dirs : t.child[a][x] # Null =>
         t.child[a][x] \in I /\ t.parent[t.child[a][x]] = x /\ t.child[a][x] # x /\ t.child[a][x] # t.root
  BY TreeChild
<1>3. \A x \in I, a \in Dirs : t.child[a][x] # s
  BY <1>1, <1>2
<1>4. \A a \in Dirs : t.child[a][old] # old
  BY <1>1, <1>2
<1>5. ASSUME NEW x \in I \ {old}
      PROVE  /\ u.color[x] = t.color[x]
             /\ x # t.root => u.parent[x] = IF t.parent[x] = old THEN s ELSE t.parent[x]
             /\ x = t.root => u.parent[x] = Null
             /\ \A a \in Dirs : u.child[a][x] = IF t.child[a][x] = old THEN s ELSE t.child[a][x]
  <2>1. x \in Entries \ {s} /\ x # Null
    BY <1>1
  <2>2. u.color[x] = t.color[x] /\ u.parent[x] = IF \E a \in Dirs : t.child[a][old] = x THEN s ELSE t.parent[x]
    BY <2>1 DEF Renamed
  <2>3. \A a \in Dirs : u.child[a][x] = IF x = t.parent[old] /\ t.child[a][x] = old THEN s ELSE t.child[a][x]
    BY <2>1 DEF Renamed
  <2>4. \A a \in Dirs : t.child[a][x] = old => x = t.parent[old]
    BY <1>1, <1>2
  <2>5. ASSUME x # t.root PROVE (\E a \in Dirs : t.child[a][old] = x) <=> t.parent[x] = old
    <3>1. \E a \in Dirs : t.child[a][t.parent[x]] = x
      BY <2>5, TreeNode
    <3>2. \A a \in Dirs : t.child[a][old] = x => t.parent[x] = old
      BY <1>2, <2>1
    <3> QED
      BY <3>1, <3>2
  <2>6. x = t.root => t.parent[x] = Null /\ \A a \in Dirs : t.child[a][old] # x
    BY <1>2, <2>1, TreeNode
  <2> QED
    BY <2>2, <2>3, <2>4, <2>5, <2>6
<1> QED
  BY <1>2, <1>3, <1>4, <1>5

(* The set with s in the place of old. *)
Exchanged(M, old, s) == IF old \in M THEN (M \ {old}) \cup {s} ELSE M

LEMMA TransplantTree ==
  ASSUME NEW t, NEW I, NEW S, RbTreeOf(t, I, S), NEW old \in I, NEW s \in Entries \ I,
         \A m \in I \ {old} : KeyOf[m] # KeyOf[s] /\ \A a \in Dirs : Side(a, s, m) <=> Side(a, old, m),
         NEW u, Renamed(t, u, old, s)
  PROVE  \E S2 : RbTreeOf(u, (I \ {old}) \cup {s}, S2)
<1>1. t \in Trees /\ I \subseteq Entries /\ old \in Entries /\ old # s /\ Null \notin Entries
      /\ S \in [Entries -> SUBSET Entries]
  BY EntriesAssumption DEF RbTreeOf
<1>2. PICK J : J = (I \ {old}) \cup {s}
  OBVIOUS
<1>3. /\ u \in Trees
      /\ u.root = IF t.root = old THEN s ELSE t.root
      /\ u.parent[s] = t.parent[old]
      /\ \A a \in Dirs : u.child[a][s] = t.child[a][old]
  BY DEF Renamed
<1>4. /\ \A x \in I \ {old} : /\ x # t.root => u.parent[x] = IF t.parent[x] = old THEN s ELSE t.parent[x]
                              /\ x = t.root => u.parent[x] = Null
                              /\ \A a \in Dirs : u.child[a][x] = IF t.child[a][x] = old THEN s ELSE t.child[a][x]
      /\ \A x \in I, a \in Dirs : t.child[a][x] # s /\ (t.child[a][x] # Null => t.child[a][x] \in I)
      /\ \A a \in Dirs : t.child[a][old] # old
  BY RenamedFacts
<1>5. PICK S2 : S2 = [x \in Entries |-> Exchanged(S[IF x = s THEN old ELSE x], old, s)]
  OBVIOUS
<1>6. S2 \in [Entries -> SUBSET Entries]
  BY <1>1, <1>5 DEF Exchanged
<1>7. S2[s] = Exchanged(S[old], old, s) /\ \A x \in I : S2[x] = Exchanged(S[x], old, s)
  BY <1>1, <1>5
<1>8. \A x \in I : S[x] \subseteq I /\ x \in S[x]
  BY TreeNode
<1>9. \A x \in I, a \in Dirs : t.child[a][x] # Null =>
         /\ t.child[a][x] \in I /\ t.parent[t.child[a][x]] = x /\ t.child[a][x] # t.root
         /\ x \notin S[t.child[a][x]] /\ \A m \in S[t.child[a][x]] : Side(a, m, x)
  BY TreeChild
<1>10. ASSUME NEW c, c = Null \/ c \in I
       PROVE  Under(S2, IF c = old THEN s ELSE c) = Exchanged(Under(S, c), old, s)
  <2>1. CASE c = Null
    BY <1>1, <2>1 DEF Under, Exchanged
  <2>2. CASE c = old
    BY <1>1, <1>7, <2>2 DEF Under
  <2>3. CASE c \in I /\ c # old
    BY <1>1, <1>7, <2>3 DEF Under
  <2> QED
    BY <1>10, <2>1, <2>2, <2>3
<1>11. \A x \in I : S[x] = {x} \cup Under(S, t.child["left"][x]) \cup Under(S, t.child["right"][x])
  BY DEF RbTreeOf, RbNode
<1>12. RbNode(u, J, S2, s)
  <2>1. \A a \in Dirs : old \notin Under(S, t.child[a][old])
    BY <1>9 DEF Under
  <2>2. \A a \in Dirs : Under(S2, u.child[a][s]) = Under(S, t.child[a][old])
    <3>1. \A a \in Dirs : Under(S2, t.child[a][old]) = Exchanged(Under(S, t.child[a][old]), old, s)
      BY <1>4, <1>10
    <3> QED
      BY <1>3, <2>1, <3>1 DEF Exchanged
  <2>3. S2[s] = {s} \cup Under(S2, u.child["left"][s]) \cup Under(S2, u.child["right"][s])
    <3>1. S2[s] = (S[old] \ {old}) \cup {s}
      BY <1>7, <1>8 DEF Exchanged
    <3>2. "left" \in Dirs /\ "right" \in Dirs
      BY DEF Dirs
    <3> QED
      BY <1>11, <2>1, <2>2, <3>1, <3>2
  <2>4. S2[s] \subseteq J
    BY <1>2, <1>7, <1>8 DEF Exchanged
  <2>5. ASSUME NEW a \in Dirs, u.child[a][s] # Null
        PROVE  u.child[a][s] \in J /\ u.parent[u.child[a][s]] = s /\ \A m \in S2[u.child[a][s]] : Side(a, m, s)
    <3>1. PICK c : c = t.child[a][old]
      OBVIOUS
    <3>2. u.child[a][s] = c /\ c # Null
      BY <1>3, <2>5, <3>1
    <3>3. c \in I /\ c # old /\ t.parent[c] = old /\ c # t.root /\ \A m \in S[c] : Side(a, m, old)
      BY <1>4, <1>9, <3>1, <3>2
    <3>4. u.parent[c] = s /\ c \in J
      BY <1>2, <1>4, <3>3
    <3>5. S2[c] = S[c] /\ old \notin S[c] /\ S[c] \subseteq I
      <4>1. old \notin S[c]
        BY <1>9, <3>1, <3>2
      <4> QED
        BY <1>7, <1>8, <3>3, <4>1 DEF Exchanged
    <3>6. ASSUME NEW m \in S[c] PROVE Side(a, m, s)
      <4>1. m \in I \ {old} /\ m \in Entries /\ Side(a, m, old)
        BY <1>1, <3>3, <3>5
      <4>2. Opp(a) \in Dirs /\ Opp(Opp(a)) = a
        BY DirFacts
      <4>3. Side(Opp(a), old, m)
        BY <1>1, <4>1, SideFacts
      <4>4. Side(Opp(a), s, m)
        BY <4>1, <4>2, <4>3
      <4> QED
        BY <1>1, <4>1, <4>2, <4>4, SideFacts
    <3> QED
      BY <3>2, <3>4, <3>5, <3>6
  <2>6. ASSUME s # u.root
        PROVE  u.parent[s] \in J /\ \E a \in Dirs : u.child[a][u.parent[s]] = s
    <3>1. PICK p : p = t.parent[old]
      OBVIOUS
    <3>2. old # t.root
      BY <1>3, <2>6
    <3>3. p # Null /\ p \in I /\ p # old
      BY <3>1, <3>2, TreeNode, ParentLink
    <3>4. PICK a \in Dirs : t.child[a][p] = old
      BY <3>1, <3>2, TreeNode
    <3>5. u.child[a][p] = s /\ u.parent[s] = p /\ p \in J
      BY <1>2, <1>3, <1>4, <3>1, <3>3, <3>4
    <3> QED
      BY <3>5
  <2> QED
    BY <2>3, <2>4, <2>5, <2>6 DEF RbNode
<1>13. ASSUME NEW x \in I, x # old
       PROVE  RbNode(u, J, S2, x)
  <2>1. x \in J /\ S2[x] = Exchanged(S[x], old, s) /\ S[x] \subseteq I /\ x \in Entries
    BY <1>1, <1>2, <1>7, <1>8, <1>13
  <2>2. \A a \in Dirs : u.child[a][x] = IF t.child[a][x] = old THEN s ELSE t.child[a][x]
    BY <1>4, <1>13
  <2>3. \A a \in Dirs : Under(S2, u.child[a][x]) = Exchanged(Under(S, t.child[a][x]), old, s)
    BY <1>4, <1>10, <2>2
  <2>4. S2[x] = {x} \cup Under(S2, u.child["left"][x]) \cup Under(S2, u.child["right"][x])
    <3>1. "left" \in Dirs /\ "right" \in Dirs
      BY DEF Dirs
    <3>2. PICK A, B : A = Under(S, t.child["left"][x]) /\ B = Under(S, t.child["right"][x])
      OBVIOUS
    <3>3. S[x] = {x} \cup A \cup B
      BY <1>11, <3>2
    <3>4. x # old /\ x # s
      BY <1>13
    <3>5. Exchanged({x} \cup A \cup B, old, s) = {x} \cup Exchanged(A, old, s) \cup Exchanged(B, old, s)
      BY <3>4 DEF Exchanged
    <3> QED
      BY <2>1, <2>3, <3>1, <3>2, <3>3, <3>5
  <2>5. S2[x] \subseteq J
    BY <1>2, <2>1 DEF Exchanged
  <2>6. ASSUME NEW a \in Dirs, u.child[a][x] # Null
        PROVE  u.child[a][x] \in J /\ u.parent[u.child[a][x]] = x /\ \A m \in S2[u.child[a][x]] : Side(a, m, x)
    <3>1. PICK c : c = t.child[a][x]
      OBVIOUS
    <3>2. c # Null
      BY <1>1, <2>2, <2>6, <3>1
    <3>3. c \in I /\ t.parent[c] = x /\ c # t.root /\ \A m \in S[c] : Side(a, m, x)
      BY <1>9, <3>1, <3>2
    <3>4. \A m \in Exchanged(S[c], old, s) : Side(a, m, x)
      <4>1. old \in S[c] => Side(a, s, x)
        BY <1>13, <3>3
      <4> QED
        BY <3>3, <4>1 DEF Exchanged
    <3>5. CASE c = old
      <4>1. u.child[a][x] = s /\ S2[s] = Exchanged(S[c], old, s) /\ u.parent[s] = x
        BY <1>3, <1>7, <2>2, <3>1, <3>3, <3>5
      <4> QED
        BY <1>2, <3>4, <4>1
    <3>6. CASE c # old
      <4>1. u.child[a][x] = c /\ S2[c] = Exchanged(S[c], old, s) /\ u.parent[c] = x /\ c \in J
        BY <1>2, <1>4, <1>7, <1>13, <2>2, <3>1, <3>3, <3>6
      <4> QED
        BY <3>4, <4>1
    <3> QED
      BY <3>5, <3>6
  <2>7. ASSUME x # u.root
        PROVE  u.parent[x] \in J /\ \E a \in Dirs : u.child[a][u.parent[x]] = x
    <3>1. x # t.root
      BY <1>3, <1>13, <2>7
    <3>2. PICK y : y = t.parent[x]
      OBVIOUS
    <3>3. y \in I /\ \E a \in Dirs : t.child[a][y] = x
      BY <3>1, <3>2, TreeNode
    <3>4. PICK a \in Dirs : t.child[a][y] = x
      BY <3>3
    <3>5. CASE y = old
      <4>1. u.parent[x] = s /\ u.child[a][s] = x
        BY <1>3, <1>4, <1>13, <3>1, <3>2, <3>4, <3>5
      <4> QED
        BY <1>2, <4>1
    <3>6. CASE y # old
      <4>1. u.parent[x] = y /\ u.child[a][y] = x /\ y \in J
        BY <1>2, <1>4, <1>13, <3>1, <3>2, <3>3, <3>4, <3>6
      <4> QED
        BY <4>1
    <3> QED
      BY <3>5, <3>6
  <2> QED
    BY <2>4, <2>5, <2>6, <2>7 DEF RbNode
<1>14. u.root # Null /\ u.root \in J /\ S2[u.root] = J /\ u.parent[u.root] = Null
  <2>1. t.root \in I /\ S[t.root] = I /\ t.parent[t.root] = Null
    BY TreeNode
  <2>2. Exchanged(I, old, s) = J
    BY <1>2 DEF Exchanged
  <2>3. CASE t.root = old
    BY <1>1, <1>2, <1>3, <1>7, <2>1, <2>2, <2>3
  <2>4. CASE t.root # old
    BY <1>1, <1>2, <1>3, <1>4, <1>7, <2>1, <2>2, <2>4
  <2> QED
    BY <2>3, <2>4
<1>15. IsFiniteSet(J) /\ \A a, b \in J : KeyOf[a] = KeyOf[b] => a = b
  <2>1. IsFiniteSet(I) /\ \A a, b \in I : KeyOf[a] = KeyOf[b] => a = b
    BY DEF RbTreeOf
  <2>2. IsFiniteSet(I \ {old})
    BY <2>1, FS_Subset
  <2>3. IsFiniteSet(J)
    BY <1>2, <2>2, FS_AddElement
  <2> QED
    BY <1>2, <2>1, <2>3
<1>16. RbTreeOf(u, J, S2)
  <2>1. \A x \in J : RbNode(u, J, S2, x)
    BY <1>2, <1>12, <1>13
  <2> QED
    BY <1>1, <1>2, <1>3, <1>6, <1>14, <1>15, <2>1 DEF RbTreeOf
<1> QED
  BY <1>2, <1>16

LEMMA TransplantColours ==
  ASSUME NEW t, NEW I, NEW S, RbTreeOf(t, I, S), NEW old \in I, NEW s \in Entries \ I,
         NEW u, Renamed(t, u, old, s),
         NEW H, NEW q, NEW D, q # s, Heights(t, I, H, q, D),
         NEW X, old \notin X, NoRedPair(t, I, X), Black(t, t.root)
  PROVE  /\ \E H2 : Heights(u, (I \ {old}) \cup {s}, H2, IF q = old THEN s ELSE q, D)
         /\ NoRedPair(u, (I \ {old}) \cup {s}, X) /\ Black(u, u.root)
<1>1. t \in Trees /\ I \subseteq Entries /\ old \in Entries /\ old # s /\ Null \notin Entries
  BY EntriesAssumption DEF RbTreeOf
<1>2. PICK J : J = (I \ {old}) \cup {s}
  OBVIOUS
<1>3. /\ u \in Trees
      /\ u.root = IF t.root = old THEN s ELSE t.root
      /\ u.color[s] = t.color[old] /\ u.parent[s] = t.parent[old]
      /\ \A a \in Dirs : u.child[a][s] = t.child[a][old]
  BY DEF Renamed
<1>4. /\ \A x \in I \ {old} : /\ u.color[x] = t.color[x]
                              /\ x # t.root => u.parent[x] = IF t.parent[x] = old THEN s ELSE t.parent[x]
                              /\ \A a \in Dirs : u.child[a][x] = IF t.child[a][x] = old THEN s ELSE t.child[a][x]
      /\ \A x \in I, a \in Dirs : t.child[a][x] # s /\ (t.child[a][x] # Null => t.child[a][x] \in I)
      /\ \A a \in Dirs : t.child[a][old] # old
  BY RenamedFacts
<1>5. PICK q2 : q2 = IF q = old THEN s ELSE q
  OBVIOUS
<1>6. PICK H2 : H2 = [H EXCEPT ![s] = H[old]]
  OBVIOUS
<1>7. /\ H \in [Entries -> Nat]
      /\ \A x \in I, a \in Dirs : H[x] = Weight(t, H, t.child[a][x]) + (IF x = q /\ a = D THEN 1 ELSE 0)
  BY DEF Heights
<1>8. H2 \in [Entries -> Nat] /\ H2[s] = H[old] /\ \A x \in I : H2[x] = H[x]
  BY <1>1, <1>6, <1>7
<1>9. ASSUME NEW c, c = Null \/ c \in I
      PROVE  Weight(u, H2, IF c = old THEN s ELSE c) = Weight(t, H, c)
  <2>1. CASE c = old
    BY <1>1, <1>3, <1>8, <2>1 DEF Weight
  <2>2. CASE c # old
    BY <1>4, <1>8, <1>9, <2>2 DEF Weight
  <2> QED
    BY <2>1, <2>2
<1>10. ASSUME NEW x \in J, NEW a \in Dirs
       PROVE  H2[x] = Weight(u, H2, u.child[a][x]) + (IF x = q2 /\ a = D THEN 1 ELSE 0)
  <2>1. CASE x = s
    <3>1. Weight(u, H2, u.child[a][s]) = Weight(t, H, t.child[a][old])
      BY <1>3, <1>4, <1>9
    <3>2. s = q2 <=> old = q
      BY <1>5
    <3> QED
      BY <1>7, <1>8, <2>1, <3>1, <3>2
  <2>2. CASE x # s
    <3>1. x \in I /\ x # old
      BY <1>2, <2>2
    <3>2. Weight(u, H2, u.child[a][x]) = Weight(t, H, t.child[a][x])
      BY <1>4, <1>9, <3>1
    <3>3. x = q2 <=> x = q
      BY <1>5, <2>2, <3>1
    <3> QED
      BY <1>7, <1>8, <3>1, <3>2, <3>3
  <2> QED
    BY <2>1, <2>2
<1>11. Heights(u, J, H2, q2, D)
  BY <1>8, <1>10 DEF Heights
<1>12. /\ Black(u, s) <=> Black(t, old)
       /\ \A x \in I \ {old} : Black(u, x) <=> Black(t, x)
  BY <1>1, <1>3, <1>4 DEF Black
<1>13. ASSUME NEW x \in J, x # u.root, x \notin X
       PROVE  Black(u, x) \/ Black(u, u.parent[x])
  <2>1. CASE x = s
    <3>1. old # t.root
      BY <1>3, <1>13, <2>1
    <3>2. Black(t, old) \/ Black(t, t.parent[old])
      BY <3>1 DEF NoRedPair
    <3>3. t.parent[old] \in I /\ t.parent[old] # old
      BY <3>1, TreeNode, ParentLink
    <3> QED
      BY <1>3, <1>12, <2>1, <3>2, <3>3
  <2>2. CASE x # s
    <3>1. x \in I /\ x # old /\ x # t.root
      BY <1>2, <1>3, <1>13, <2>2
    <3>2. Black(t, x) \/ Black(t, t.parent[x])
      BY <1>13, <3>1 DEF NoRedPair
    <3>3. t.parent[x] \in I /\ u.parent[x] = IF t.parent[x] = old THEN s ELSE t.parent[x]
      BY <1>4, <3>1, TreeNode
    <3> QED
      BY <1>12, <3>1, <3>2, <3>3
  <2> QED
    BY <2>1, <2>2
<1>14. NoRedPair(u, J, X)
  BY <1>13 DEF NoRedPair
<1>15. Black(u, u.root)
  <2>1. t.root \in I
    BY TreeNode
  <2> QED
    BY <1>3, <1>12, <2>1
<1> QED
  BY <1>2, <1>5, <1>11, <1>14, <1>15

IsTree(t, I) == \E S : RbTreeOf(t, I, S)

(* A red-black tree at rest. *)
Sound(t, I) ==
  /\ IsTree(t, I) /\ \E H : Heights(t, I, H, Null, "left")
  /\ NoRedPair(t, I, {}) /\ Black(t, t.root)

(* During an insertion: only z may be red under a red parent. *)
Growing(t, I, z) ==
  /\ IsTree(t, I) /\ \E H : Heights(t, I, H, Null, "left")
  /\ NoRedPair(t, I, {z}) /\ z \in I \cup {Null}
  /\ z # Null => t.color[z] = "red" /\ (Black(t, t.root) \/ t.root = z)

(* During an erasure: the paths through z, a child of q, lack a black node. *)
Lacking(t, I, z, q) ==
  /\ IsTree(t, I)
  /\ \E H, D : /\ Heights(t, I, H, q, D)
               /\ q # Null => q \in I /\ D \in Dirs /\ t.child[D][q] = z
  /\ NoRedPair(t, I, {n \in I : n = z \/ t.parent[n] = z})
  /\ Black(t, t.root) \/ t.root = z
  /\ z # Null => z \in I /\ q = t.parent[z]
  /\ z = Null /\ q = Null => I = {}

LEMMA TreeFacts ==
  ASSUME NEW t, NEW I, IsTree(t, I)
  PROVE  /\ t \in Trees /\ I \in SUBSET Entries /\ IsFiniteSet(I) /\ Null \notin Entries
         /\ t.root = Null <=> I = {}
         /\ t.root # Null => t.root \in I /\ t.parent[t.root] = Null
BY EntriesAssumption DEF IsTree, RbTreeOf

(* Painting a node of the tree. *)
LEMMA PaintedIs ==
  ASSUME NEW t, NEW I, IsTree(t, I), NEW n \in I \cup {Null}, NEW c \in {"red", "black"},
         NEW r, r = Paint(t, n, c)
  PROVE  ColorSet(t, r, n, c) /\ IsTree(r, I) /\ Untouched(t, r, Entries \ I)
<1>1. t \in Trees /\ I \subseteq Entries /\ Null \notin Entries /\ n \in RbNodes
  BY TreeFacts DEF RbNodes
<1>2. ColorSet(t, r, n, c)
  BY <1>1, PaintIs
<1>3. IsTree(r, I)
  <2>1. PICK S : RbTreeOf(t, I, S)
    BY DEF IsTree
  <2>2. RbTreeOf(r, I, S)
    BY <1>2, <2>1, SameLinks DEF ColorSet
  <2> QED
    BY <2>2 DEF IsTree
<1>4. Untouched(t, r, Entries \ I)
  BY <1>1, <1>2 DEF ColorSet, Untouched
<1> QED
  BY <1>2, <1>3, <1>4

LEMMA UntouchedChain ==
  ASSUME NEW t, NEW u, NEW r, NEW F, Untouched(t, u, F), Untouched(u, r, F)
  PROVE  Untouched(t, r, F)
BY DEF Untouched

LEMMA TurnRepainted ==
  ASSUME NEW t, NEW I, IsTree(t, I), NEW v, Repainted(t, v, I), NEW n \in I, NEW d \in Dirs,
         HasChild(t, n, Opp(d)), NEW r, Rotated(v, n, d, r)
  PROVE  Turned(t, r, n, d) /\ r.color = v.color /\ IsTree(r, I) /\ Untouched(t, r, Entries \ I)
<1>1. PICK S : RbTreeOf(t, I, S)
  BY DEF IsTree
<1>2. /\ Turned(t, r, n, d) /\ r.color = v.color
      /\ (\E S2 : RbTreeOf(r, I, S2)) /\ Untouched(t, r, Entries \ I)
  BY <1>1, TurnIs
<1> QED
  BY <1>2 DEF IsTree

Swapped(t, r, n, up) ==
  \A x \in Entries : r.color[x] = IF x = n THEN "red" ELSE IF x = up THEN "black" ELSE t.color[x]

LEMMA TwicePainted ==
  ASSUME NEW t, NEW I, IsTree(t, I), NEW n \in I, NEW up \in I,
         NEW u, Painted(t, up, "black", u), NEW v, Painted(u, n, "red", v)
  PROVE  /\ Repainted(t, v, I)
         /\ Swapped(t, v, n, up)
<1>1. ColorSet(t, u, up, "black") /\ IsTree(u, I) /\ Untouched(t, u, Entries \ I)
  BY PaintedIs DEF Painted
<1>2. ColorSet(u, v, n, "red") /\ Untouched(u, v, Entries \ I)
  BY <1>1, PaintedIs DEF Painted
<1>3. Untouched(t, v, Entries \ I)
  BY <1>1, <1>2, UntouchedChain
<1>4. Repainted(t, v, I)
  BY <1>1, <1>2, <1>3 DEF ColorSet, Repainted
<1>5. \A x \in Entries : v.color[x] = IF x = n THEN "red" ELSE IF x = up THEN "black" ELSE t.color[x]
  BY <1>1, <1>2 DEF ColorSet
<1> QED
  BY <1>4, <1>5 DEF Swapped

(* up, a red child of the black n, may take its place. *)
Raisable(t, I, n, d, up) ==
  /\ IsTree(t, I) /\ n \in I /\ d \in Dirs /\ up = t.child[Opp(d)][n] /\ up # Null
  /\ t.color[up] = "red" /\ t.color[n] = "black"
  /\ Black(t, t.child[d][n]) /\ Black(t, t.root)
  /\ NoRedPair(t, I, {t.child[Opp(d)][up]})

RaisedTo(t, n, d, up, r) == r = RbRotate(Paint(Paint(t, up, "black"), n, "red"), n, d)

(* The code paints the two and rotates. *)
LEMMA RaiseTurns ==
  ASSUME NEW t, NEW I, NEW n, NEW d, NEW up, Raisable(t, I, n, d, up),
         NEW r, RaisedTo(t, n, d, up, r)
  PROVE  /\ Turned(t, r, n, d) /\ IsTree(r, I) /\ Untouched(t, r, Entries \ I)
         /\ Swapped(t, r, n, up)
<1>1. IsTree(t, I) /\ n \in I /\ d \in Dirs /\ HasChild(t, n, Opp(d))
  BY DEF Raisable, HasChild
<1>2. up \in I
  <2>1. PICK S : RbTreeOf(t, I, S)
    BY <1>1 DEF IsTree
  <2>2. up = t.child[Opp(d)][n] /\ up # Null
    BY DEF Raisable
  <2>3. Opp(d) \in Dirs
    BY <1>1, DirFacts
  <2> QED
    BY <1>1, <2>1, <2>2, <2>3, TreeChild
<1>3. PICK u : Painted(t, up, "black", u)
  BY DEF Painted
<1>4. PICK v : Painted(u, n, "red", v)
  BY DEF Painted
<1>5. Rotated(v, n, d, r)
  BY <1>3, <1>4 DEF Painted, Rotated, RaisedTo
<1>6. /\ Repainted(t, v, I)
      /\ Swapped(t, v, n, up)
  BY <1>1, <1>2, <1>3, <1>4, TwicePainted
<1>7. Turned(t, r, n, d) /\ r.color = v.color /\ IsTree(r, I) /\ Untouched(t, r, Entries \ I)
  BY <1>1, <1>5, <1>6, TurnRepainted
<1>8. Swapped(t, r, n, up)
  BY <1>6, <1>7 DEF Swapped
<1> QED
  BY <1>7, <1>8

Apart(q, D, n, d, up) == (q = n => D = d) /\ q # up

LEMMA RaiseIs ==
  ASSUME NEW t, NEW I, NEW n, NEW d, NEW up, Raisable(t, I, n, d, up),
         NEW r, RaisedTo(t, n, d, up, r),
         NEW H, NEW q, NEW D, Heights(t, I, H, q, D), Apart(q, D, n, d, up)
  PROVE  Heights(r, I, H, q, D) /\ NoRedPair(r, I, {}) /\ Black(r, r.root)
<1>1. /\ Turned(t, r, n, d) /\ IsTree(r, I) /\ Untouched(t, r, Entries \ I)
      /\ Swapped(t, r, n, up)
  BY RaiseTurns
<1>2. /\ IsTree(t, I) /\ n \in I /\ d \in Dirs /\ up = t.child[Opp(d)][n] /\ up # Null
      /\ t.color[up] = "red" /\ t.color[n] = "black"
      /\ Black(t, t.child[d][n]) /\ Black(t, t.root)
      /\ NoRedPair(t, I, {t.child[Opp(d)][up]})
      /\ q = n => D = d
      /\ q # up
  BY DEF Raisable, Apart
<1>3. PICK S : RbTreeOf(t, I, S)
  BY <1>2 DEF IsTree
<1>4. \A x \in Entries : r.color[x] = IF x = n THEN "red" ELSE IF x = up THEN "black" ELSE t.color[x]
  BY <1>1 DEF Swapped
<1> QED
  BY <1>1, <1>2, <1>3, <1>4, RaiseColours

(* --- the repair after an insertion ------------------------------------- *)

(* A red node top under a black one, with only one red child, on its side, *)
(* and no red sibling.                                                     *)
InLine(t, I, g, d, top) ==
  /\ IsTree(t, I) /\ g \in I /\ d \in Dirs
  /\ top = t.child[d][g] /\ top # Null /\ t.color[top] = "red" /\ t.color[g] = "black"
  /\ Black(t, t.child[Opp(d)][g]) /\ Black(t, t.root)
  /\ \E H : Heights(t, I, H, Null, "left")
  /\ NoRedPair(t, I, {t.child[d][top]})

LEMMA InLineTurned ==
  ASSUME NEW t, NEW I, NEW g, NEW d, NEW top, InLine(t, I, g, d, top),
         NEW r, RaisedTo(t, g, Opp(d), top, r)
  PROVE  Sound(r, I) /\ Untouched(t, r, Entries \ I)
<1>1. /\ IsTree(t, I) /\ g \in I /\ d \in Dirs
      /\ top = t.child[d][g] /\ top # Null /\ t.color[top] = "red" /\ t.color[g] = "black"
      /\ Black(t, t.child[Opp(d)][g]) /\ Black(t, t.root)
      /\ NoRedPair(t, I, {t.child[d][top]})
  BY DEF InLine
<1>2. PICK H : Heights(t, I, H, Null, "left")
  BY DEF InLine
<1>3. Opp(d) \in Dirs /\ Opp(Opp(d)) = d
  BY <1>1, DirFacts
<1>4. Raisable(t, I, g, Opp(d), top)
  BY <1>1, <1>3 DEF Raisable
<1>5. Apart(Null, "left", g, Opp(d), top)
  BY <1>1, TreeFacts DEF Apart
<1>6. IsTree(r, I) /\ Untouched(t, r, Entries \ I)
  BY <1>4, RaiseTurns
<1>7. Heights(r, I, H, Null, "left") /\ NoRedPair(r, I, {}) /\ Black(r, r.root)
  BY <1>2, <1>4, <1>5, RaiseIs
<1> QED
  BY <1>6, <1>7 DEF Sound

LEMMA SoundGrows ==
  ASSUME NEW t, NEW I, Sound(t, I)
  PROVE  Growing(t, I, Null)
BY NoRedPairLess DEF Sound, Growing

(* z and its parent p are red, g is above them. *)
RedPair(t, z, p, g) == z # Null /\ p = t.parent[z] /\ ~Black(t, p) /\ g = t.parent[p]

LEMMA GrowingFacts ==
  ASSUME NEW t, NEW I, NEW z, NEW p, NEW g, Growing(t, I, z), RedPair(t, z, p, g)
  PROVE  /\ z \in I /\ p \in I /\ g \in I /\ p # Null /\ g # Null /\ z # p /\ p # t.root
         /\ t.color[z] = "red" /\ t.color[p] = "red" /\ t.color[g] = "black" /\ Black(t, t.root)
         /\ \E a \in Dirs : t.child[a][p] = z
         /\ \E a \in Dirs : t.child[a][g] = p
<1>r. z # Null /\ p = t.parent[z] /\ ~Black(t, p) /\ g = t.parent[p]
  BY DEF RedPair
<1>1. PICK S : RbTreeOf(t, I, S)
  BY DEF Growing, IsTree
<1>2. t \in Trees /\ I \subseteq Entries /\ Null \notin Entries
  BY <1>1, EntriesAssumption DEF RbTreeOf
<1>3. z \in I /\ t.color[z] = "red" /\ (Black(t, t.root) \/ t.root = z) /\ NoRedPair(t, I, {z})
  BY <1>r DEF Growing
<1>4. p # Null
  BY <1>r DEF Black
<1>5. z # t.root /\ p \in I /\ p # z /\ \E a \in Dirs : t.child[a][p] = z
  BY <1>r, <1>1, <1>3, <1>4, ParentLink, TreeNode
<1>6. Black(t, t.root)
  BY <1>3, <1>5
<1>7. p # t.root /\ t.color[p] = "red"
  BY <1>r, <1>2, <1>5, <1>6, TreeTypes DEF Black
<1>8. g \in I /\ g # Null /\ \E a \in Dirs : t.child[a][g] = p
  BY <1>r, <1>1, <1>2, <1>5, <1>7, TreeNode
<1>9. Black(t, g)
  BY <1>r, <1>3, <1>5, <1>7 DEF NoRedPair
<1> QED
  BY <1>3, <1>4, <1>5, <1>6, <1>7, <1>8, <1>9 DEF Black

(* Two red nodes under a black one, the lower on the inner side of the     *)
(* other: it is turned up over it.                                         *)
Bent(t, I, g, d, p, z) ==
  /\ IsTree(t, I) /\ g \in I /\ p \in I /\ z \in I /\ d \in Dirs
  /\ t.child[d][g] = p /\ t.parent[p] = g /\ t.child[Opp(d)][p] = z
  /\ t.color[z] = "red" /\ t.color[p] = "red" /\ t.color[g] = "black"
  /\ Black(t, t.child[Opp(d)][g]) /\ Black(t, t.root)
  /\ \E H : Heights(t, I, H, Null, "left")
  /\ NoRedPair(t, I, {z})

LEMMA TwistIs ==
  ASSUME NEW t, NEW I, NEW g, NEW d, NEW p, NEW z, Bent(t, I, g, d, p, z),
         NEW r, Rotated(t, p, d, r)
  PROVE  InLine(r, I, g, d, z) /\ r.parent[p] = z /\ Untouched(t, r, Entries \ I)
<1>0. /\ IsTree(t, I) /\ g \in I /\ p \in I /\ z \in I /\ d \in Dirs
      /\ t.child[d][g] = p /\ t.parent[p] = g /\ t.child[Opp(d)][p] = z
      /\ t.color[z] = "red" /\ t.color[p] = "red" /\ t.color[g] = "black"
      /\ Black(t, t.child[Opp(d)][g]) /\ Black(t, t.root)
      /\ NoRedPair(t, I, {z})
  BY DEF Bent
<1>h. PICK H : Heights(t, I, H, Null, "left")
  BY DEF Bent
<1>s. PICK S : RbTreeOf(t, I, S)
  BY <1>0 DEF IsTree
<1>1. PICK o : o = Opp(d)
  OBVIOUS
<1>2. o \in Dirs /\ o # d /\ \A a \in Dirs : a = d \/ a = o
  BY <1>0, <1>1, DirFacts
<1>3. t \in Trees /\ I \subseteq Entries /\ Null \notin Entries
  BY <1>0, TreeFacts
<1>4. t.child[Opp(d)][p] # Null /\ p # t.root /\ HasChild(t, p, Opp(d))
  BY <1>0, <1>s, <1>3, TreeNode DEF HasChild
<1>5. Repainted(t, t, I)
  BY <1>3 DEF Untouched, Repainted
<1>6. /\ Turned(t, r, p, d) /\ r.color = t.color /\ IsTree(r, I) /\ Untouched(t, r, Entries \ I)
  BY <1>0, <1>4, <1>5, TurnRepainted
<1>7. Black(t, t.parent[p])
  BY <1>0 DEF Black
<1>8. Heights(r, I, H, Null, "left") /\ NoRedPair(r, I, {p}) /\ Black(r, r.root)
  BY <1>0, <1>h, <1>s, <1>3, <1>4, <1>6, <1>7, TwistColours
<1>9. PICK inner : inner = t.child[d][z]
  OBVIOUS
<1>10. /\ \A x \in Entries : r.parent[x] = IF x = p THEN z ELSE IF x = z THEN g
                                            ELSE IF x = inner THEN p ELSE t.parent[x]
       /\ \A x \in Entries : r.child[d][x] = IF x = z THEN p
                                              ELSE IF x = g /\ t.child[d][x] = p THEN z ELSE t.child[d][x]
       /\ \A x \in Entries : r.child[o][x] =
            IF x = p THEN inner
            ELSE IF x = g /\ t.child[o][x] = p THEN z ELSE t.child[o][x]
  BY <1>0, <1>1, <1>6, <1>9 DEF Turned
<1>11. g # p /\ g # z /\ p # z /\ t.child[o][g] # p
  <2>1. g \notin S[p] /\ p # g
    BY <1>0, <1>s, <1>3, ParentLink
  <2>2. z \in S[p] /\ p # z
    <3>1. t.child[o][p] # Null /\ t.child[o][p] = z
      BY <1>0, <1>1, <1>4
    <3>2. S[t.child[o][p]] \subseteq S[p] /\ t.child[o][p] \in S[t.child[o][p]] /\ t.child[o][p] # p
      BY <1>0, <1>s, <1>2, <3>1, TreeChild
    <3> QED
      BY <3>1, <3>2
  <2>3. t.child[o][g] # p
    <3>1. t.child[d][g] # Null
      BY <1>0, <1>3
    <3>2. \A x \in I, a \in Dirs : t.child[a][x] = t.child[d][g] => x = g /\ a = d
      BY <1>0, <1>s, <3>1, TreeChild
    <3> QED
      BY <1>0, <1>2, <3>2
  <2> QED
    BY <2>1, <2>2, <2>3
<1>12. r.parent[p] = z /\ r.child[d][g] = z /\ r.child[d][z] = p /\ r.child[o][g] = t.child[o][g]
  BY <1>0, <1>3, <1>10, <1>11
<1>13. Black(r, r.child[Opp(d)][g]) /\ z # Null /\ r.color[z] = "red" /\ r.color[g] = "black"
  BY <1>0, <1>1, <1>3, <1>6, <1>12 DEF Black
<1>14. NoRedPair(r, I, {r.child[d][z]})
  BY <1>8, <1>12
<1>15. InLine(r, I, g, d, z)
  BY <1>0, <1>6, <1>8, <1>12, <1>13, <1>14 DEF InLine
<1> QED
  BY <1>6, <1>12, <1>15

BlackUncle(t, g, d, p) ==
  d \in Dirs /\ t.child[d][g] = p /\ Black(t, t.child[Opp(d)][g])

RedUncle(t, g, d, p, u) ==
  d \in Dirs /\ t.child[d][g] = p /\ u = t.child[Opp(d)][g] /\ ~Black(t, u)

LEMMA InsertBends ==
  ASSUME NEW t, NEW I, NEW z, NEW p, NEW g, Growing(t, I, z), RedPair(t, z, p, g),
         NEW d, BlackUncle(t, g, d, p)
  PROVE  /\ z = t.child[Opp(d)][p] => Bent(t, I, g, d, p, z)
         /\ z # t.child[Opp(d)][p] => InLine(t, I, g, d, p)
<1>1. /\ z \in I /\ p \in I /\ g \in I /\ p # Null /\ g # Null /\ z # p /\ p # t.root
      /\ t.color[z] = "red" /\ t.color[p] = "red" /\ t.color[g] = "black" /\ Black(t, t.root)
      /\ \E a \in Dirs : t.child[a][p] = z
  BY GrowingFacts
<1>2. NoRedPair(t, I, {z}) /\ IsTree(t, I) /\ \E H : Heights(t, I, H, Null, "left")
  BY DEF Growing
<1>3. t.parent[p] = g /\ d \in Dirs /\ t.child[d][g] = p /\ Black(t, t.child[Opp(d)][g])
  BY DEF RedPair, BlackUncle
<1>4. ASSUME z = t.child[Opp(d)][p]
      PROVE  Bent(t, I, g, d, p, z)
  BY <1>1, <1>2, <1>3, <1>4 DEF Bent
<1>5. ASSUME z # t.child[Opp(d)][p]
      PROVE  InLine(t, I, g, d, p)
  <2>1. t.child[d][p] = z
    BY <1>1, <1>3, <1>5, DirFacts
  <2> QED
    BY <1>1, <1>2, <1>3, <2>1 DEF InLine
<1> QED
  BY <1>4, <1>5

(* --- one iteration ----------------------------------------------------- *)

(* The uncle is black: the tree is put in order. *)
InsertTurned(t, z, p, g, d, t1, top, r) ==
  /\ t1 = IF z = t.child[Opp(d)][p] THEN RbRotate(t, p, d) ELSE t
  /\ top = t1.parent[IF z = t.child[Opp(d)][p] THEN p ELSE z]
  /\ r = RbRotate(Paint(Paint(t1, top, "black"), g, "red"), g, Opp(d))

LEMMA InsertTurns ==
  ASSUME NEW t, NEW I, NEW z, NEW p, NEW g, Growing(t, I, z), RedPair(t, z, p, g),
         NEW d, BlackUncle(t, g, d, p),
         NEW t1, NEW top, NEW r, InsertTurned(t, z, p, g, d, t1, top, r)
  PROVE  Sound(r, I) /\ Untouched(t, r, Entries \ I)
<1>1. /\ z = t.child[Opp(d)][p] => Bent(t, I, g, d, p, z)
      /\ z # t.child[Opp(d)][p] => InLine(t, I, g, d, p)
  BY InsertBends
<1>2. RaisedTo(t1, g, Opp(d), top, r)
  BY DEF InsertTurned, RaisedTo
<1>3. CASE z # t.child[Opp(d)][p]
  <2>1. t1 = t /\ top = p
    BY <1>3 DEF InsertTurned, RedPair
  <2>2. RaisedTo(t, g, Opp(d), p, r)
    BY <1>2, <2>1
  <2>3. InLine(t, I, g, d, p)
    BY <1>1, <1>3
  <2> QED
    BY <2>2, <2>3, InLineTurned
<1>4. CASE z = t.child[Opp(d)][p]
  <2>1. Bent(t, I, g, d, p, z)
    BY <1>1, <1>4
  <2>2. Rotated(t, p, d, t1)
    BY <1>4 DEF InsertTurned, Rotated
  <2>3. InLine(t1, I, g, d, z) /\ t1.parent[p] = z /\ Untouched(t, t1, Entries \ I)
    BY <2>1, <2>2, TwistIs
  <2>4. RaisedTo(t1, g, Opp(d), z, r)
    <3>1. top = t1.parent[p]
      BY <1>4 DEF InsertTurned
    <3> QED
      BY <1>2, <2>3, <3>1
  <2>5. Sound(r, I) /\ Untouched(t1, r, Entries \ I)
    BY <2>3, <2>4, InLineTurned
  <2> QED
    BY <2>3, <2>5, UntouchedChain
<1> QED
  BY <1>3, <1>4

Thrice(t, p, u, g, v, w, r) ==
  Painted(t, p, "black", v) /\ Painted(v, u, "black", w) /\ Painted(w, g, "red", r)

ThriceColours(t, p, u, g, r) ==
  \A x \in Entries : r.color[x] = IF x = g THEN "red" ELSE IF x = p \/ x = u THEN "black"
                                  ELSE t.color[x]

LEMMA ThriceIs ==
  ASSUME NEW t, NEW I, IsTree(t, I), NEW p \in I, NEW u \in I, NEW g \in I,
         NEW v, NEW w, NEW r, Thrice(t, p, u, g, v, w, r)
  PROVE  /\ r \in Trees /\ r.root = t.root /\ r.child = t.child /\ r.parent = t.parent
         /\ ThriceColours(t, p, u, g, r) /\ IsTree(r, I) /\ Untouched(t, r, Entries \ I)
<1>1. v = Paint(t, p, "black") /\ w = Paint(v, u, "black") /\ r = Paint(w, g, "red")
  BY DEF Thrice, Painted
<1>2. ColorSet(t, v, p, "black") /\ IsTree(v, I) /\ Untouched(t, v, Entries \ I)
  BY <1>1, PaintedIs
<1>3. ColorSet(v, w, u, "black") /\ IsTree(w, I) /\ Untouched(v, w, Entries \ I)
  BY <1>1, <1>2, PaintedIs
<1>4. ColorSet(w, r, g, "red") /\ IsTree(r, I) /\ Untouched(w, r, Entries \ I)
  BY <1>1, <1>3, PaintedIs
<1>5. Untouched(t, w, Entries \ I)
  BY <1>2, <1>3, UntouchedChain
<1>6. Untouched(t, r, Entries \ I)
  BY <1>4, <1>5, UntouchedChain
<1>7. /\ \A x \in Entries : v.color[x] = IF x = p THEN "black" ELSE t.color[x]
      /\ \A x \in Entries : w.color[x] = IF x = u THEN "black" ELSE v.color[x]
      /\ \A x \in Entries : r.color[x] = IF x = g THEN "red" ELSE w.color[x]
  BY <1>2, <1>3, <1>4 DEF ColorSet
<1>8. /\ r \in Trees /\ r.root = t.root /\ r.child = t.child /\ r.parent = t.parent
  BY <1>2, <1>3, <1>4 DEF ColorSet
<1>9. \A x \in Entries : r.color[x] = IF x = g THEN "red" ELSE IF x = p \/ x = u THEN "black"
                                      ELSE t.color[x]
  BY <1>7
<1> QED
  BY <1>4, <1>6, <1>8, <1>9 DEF ThriceColours

(* The uncle is red: the colours move up. *)
LEMMA InsertRecolours ==
  ASSUME NEW t, NEW I, NEW z, NEW p, NEW g, Growing(t, I, z), RedPair(t, z, p, g),
         NEW d, NEW u, RedUncle(t, g, d, p, u),
         NEW v, NEW w, NEW r, Thrice(t, p, u, g, v, w, r)
  PROVE  Growing(r, I, g) /\ Untouched(t, r, Entries \ I)
<1>1. /\ z \in I /\ p \in I /\ g \in I /\ p # Null /\ g # Null /\ z # p /\ p # t.root
      /\ t.color[z] = "red" /\ t.color[p] = "red" /\ t.color[g] = "black" /\ Black(t, t.root)
  BY GrowingFacts
<1>2. PICK S : RbTreeOf(t, I, S)
  BY DEF Growing, IsTree
<1>3. PICK H : Heights(t, I, H, Null, "left")
  BY DEF Growing
<1>4. NoRedPair(t, I, {z}) /\ IsTree(t, I)
  BY DEF Growing
<1>5. t \in Trees /\ I \subseteq Entries /\ Null \notin Entries
  BY <1>4, TreeFacts
<1>r. d \in Dirs /\ t.child[d][g] = p /\ u = t.child[Opp(d)][g] /\ ~Black(t, u)
  BY DEF RedUncle
<1>6. u # Null /\ u \in I /\ t.color[u] = "red"
  <2>1. u # Null
    BY <1>r DEF Black
  <2>2. u \in I
    BY <1>r, <1>1, <1>2, <2>1, TreeChild, DirFacts
  <2> QED
    BY <1>r, <1>5, <2>1, <2>2, TreeTypes DEF Black
<1>7. /\ r \in Trees /\ r.root = t.root /\ r.child = t.child /\ r.parent = t.parent
      /\ ThriceColours(t, p, u, g, r) /\ IsTree(r, I) /\ Untouched(t, r, Entries \ I)
  BY <1>1, <1>4, <1>6, ThriceIs
<1>8. \A x \in Entries : r.color[x] = IF x = g THEN "red" ELSE IF x = p \/ x = u THEN "black"
                                      ELSE t.color[x]
  BY <1>7 DEF ThriceColours
<1>p. t.parent[z] = p
  BY DEF RedPair
<1>9. /\ \E H2 : Heights(r, I, H2, Null, "left")
      /\ NoRedPair(r, I, {g}) /\ (Black(r, r.root) \/ r.root = g)
  BY <1>p, <1>r, <1>1, <1>2, <1>3, <1>4, <1>6, <1>7, <1>8, UncleColours
<1>10. r.color[g] = "red"
  BY <1>1, <1>5, <1>8
<1> QED
  BY <1>1, <1>7, <1>9, <1>10 DEF Growing

(* The loop of an insertion ends. *)
LEMMA InsertEnds ==
  ASSUME NEW t, NEW I, NEW z, Growing(t, I, z), z # Null => Black(t, t.parent[z]),
         NEW r, r = Paint(t, t.root, "black")
  PROVE  Sound(r, I) /\ Untouched(t, r, Entries \ I)
<1>1. IsTree(t, I) /\ NoRedPair(t, I, {z})
  BY DEF Growing
<1>2. /\ t \in Trees /\ I \in SUBSET Entries /\ IsFiniteSet(I) /\ Null \notin Entries
      /\ t.root = Null <=> I = {}
      /\ t.root # Null => t.root \in I /\ t.parent[t.root] = Null
  BY <1>1, TreeFacts
<1>3. PICK H : Heights(t, I, H, Null, "left")
  BY DEF Growing
<1>4. ColorSet(t, r, t.root, "black") /\ IsTree(r, I) /\ Untouched(t, r, Entries \ I)
  <2>1. t.root \in I \cup {Null}
    BY <1>2
  <2> QED
    BY <1>1, <2>1, PaintedIs
<1>5. NoRedPair(t, I, {})
  BY <1>1, <1>2 DEF NoRedPair
<1>6. Heights(r, I, H, Null, "left") /\ NoRedPair(r, I, {}) /\ Black(r, r.root)
  <2>1. CASE t.root = Null
    <3>1. I = {} /\ r.root = Null /\ H \in [Entries -> Nat]
      BY <1>2, <1>3, <1>4, <2>1 DEF ColorSet, Heights
    <3> QED
      BY <3>1 DEF Heights, NoRedPair, Black
  <2>2. CASE t.root # Null
    <3>1. PICK k : k = t.root
      OBVIOUS
    <3>2. PICK S : RbTreeOf(t, I, S)
      BY <1>1 DEF IsTree
    <3>3. k \in I /\ t.parent[k] = Null
      BY <1>2, <2>2, <3>1
    <3>4. NoRedPair(t, I, {n \in I : n = k \/ t.parent[n] = k})
      BY <1>5, NoRedPairLess
    <3>5. ColorSet(t, r, k, "black")
      BY <1>4, <3>1
    <3> QED
      BY <1>3, <3>1, <3>2, <3>3, <3>4, <3>5, EndColours
  <2> QED
    BY <2>1, <2>2
<1> QED
  BY <1>4, <1>6 DEF Sound

(* --- the repair after an erasure --------------------------------------- *)

(* The paths through z, a black child of q on side d, lack a black node;   *)
(* nothing else is wrong.                                                  *)
Deep(t, I, q, d, z) ==
  /\ IsTree(t, I) /\ q \in I /\ d \in Dirs /\ t.child[d][q] = z /\ Black(t, z)
  /\ \E H : Heights(t, I, H, q, d)
  /\ NoRedPair(t, I, {}) /\ Black(t, t.root)

Short(t, z) == z # t.root /\ Black(t, z)

LEMMA LackingIsDeep ==
  ASSUME NEW t, NEW I, NEW z, NEW q, Lacking(t, I, z, q), Short(t, z)
  PROVE  q \in I /\ \E d : Deep(t, I, q, d, z)
<1>1. /\ IsTree(t, I) /\ NoRedPair(t, I, {n \in I : n = z \/ t.parent[n] = z})
      /\ Black(t, t.root) \/ t.root = z
      /\ z # Null => z \in I /\ q = t.parent[z]
      /\ z = Null /\ q = Null => I = {}
  BY DEF Lacking
<1>2. z # t.root /\ Black(t, z)
  BY DEF Short
<1>3. PICK H, D : Heights(t, I, H, q, D) /\ (q # Null => q \in I /\ D \in Dirs /\ t.child[D][q] = z)
  BY DEF Lacking
<1>4. PICK S : RbTreeOf(t, I, S)
  BY <1>1 DEF IsTree
<1>5. q # Null
  <2>1. CASE z = Null
    BY <1>1, <1>2, <2>1, TreeFacts
  <2>2. CASE z # Null
    BY <1>1, <1>2, <1>4, <2>2, TreeNode
  <2> QED
    BY <2>1, <2>2
<1>6. NoRedPair(t, I, {})
  <2> SUFFICES ASSUME NEW n \in I, n # t.root
               PROVE  Black(t, n) \/ Black(t, t.parent[n])
    BY DEF NoRedPair
  <2>1. CASE n = z
    BY <1>2, <2>1
  <2>2. CASE t.parent[n] = z
    BY <1>2, <2>2
  <2>3. CASE n # z /\ t.parent[n] # z
    BY <1>1, <2>3 DEF NoRedPair
  <2> QED
    BY <2>1, <2>2, <2>3
<1>7. Deep(t, I, q, D, z)
  BY <1>1, <1>2, <1>3, <1>5, <1>6 DEF Deep
<1> QED
  BY <1>3, <1>5, <1>7

(* The other side of q has more black nodes, so it is not empty. *)
LEMMA SiblingIs ==
  ASSUME NEW t, NEW I, NEW q, NEW d, NEW z, Deep(t, I, q, d, z)
  PROVE  /\ t.child[Opp(d)][q] # Null /\ t.child[Opp(d)][q] # z
         /\ (IF z = t.child["left"][q] THEN "left" ELSE "right") = d
         /\ t.child[Opp(d)][q] \in I /\ t.child[Opp(d)][q] # q /\ z # q /\ q # Null
<1>1. IsTree(t, I) /\ q \in I /\ d \in Dirs /\ t.child[d][q] = z
  BY DEF Deep
<1>2. PICK H : Heights(t, I, H, q, d)
  BY DEF Deep
<1>3. PICK S : RbTreeOf(t, I, S)
  BY <1>1 DEF IsTree
<1>4. t \in Trees /\ I \subseteq Entries /\ Null \notin Entries /\ q \in Entries
  BY <1>1, TreeFacts
<1>5. PICK o : o = Opp(d)
  OBVIOUS
<1>6. o \in Dirs /\ o # d
  BY <1>1, <1>5, DirFacts
<1>7. PICK s : s = t.child[o][q]
  OBVIOUS
<1>8. z \in RbNodes /\ s \in RbNodes
  BY <1>1, <1>4, <1>6, <1>7, TreeTypes
<1>9. s # Null
  <2>1. H \in [Entries -> Nat] /\ H[q] = Weight(t, H, z) + 1 /\ H[q] = Weight(t, H, s) + 0
    BY <1>1, <1>2, <1>6, <1>7 DEF Heights
  <2>2. Weight(t, H, z) \in Nat /\ Weight(t, H, s) \in Nat
    BY <1>8, <2>1, WeightIs
  <2>3. Weight(t, H, s) # 0
    BY <2>1, <2>2
  <2> QED
    BY <2>3 DEF Weight
<1>10. s # z /\ s \in I /\ s # q
  <2>1. t.child[o][q] # Null
    BY <1>7, <1>9
  <2>2. /\ t.child[o][q] \in I /\ t.child[o][q] # q
        /\ \A x \in I, e \in Dirs : t.child[e][x] = t.child[o][q] => x = q /\ e = o
    BY <1>1, <1>3, <1>6, <2>1, TreeChild
  <2> QED
    BY <1>1, <1>6, <1>7, <2>2
<1>11. z # q
  <2>1. CASE z = Null
    BY <1>1, <1>4, <2>1
  <2>2. CASE z # Null
    BY <1>1, <1>3, <2>2, TreeChild
  <2> QED
    BY <2>1, <2>2
<1>12. (IF z = t.child["left"][q] THEN "left" ELSE "right") = d
  <2>1. CASE d = "left"
    BY <1>1, <2>1
  <2>2. CASE d # "left"
    <3>1. d = "right" /\ o = "left"
      BY <1>1, <1>5, <2>2 DEF Dirs, Opp
    <3>2. z # t.child["left"][q]
      BY <1>7, <1>10, <3>1
    <3> QED
      BY <3>1, <3>2
  <2> QED
    BY <2>1, <2>2
<1> QED
  BY <1>1, <1>4, <1>5, <1>7, <1>9, <1>10, <1>11, <1>12

(* --- a red sibling ----------------------------------------------------- *)

Sibling(t, q, d, s) == s = t.child[Opp(d)][q]

(* The red sibling is turned up over the parent: the new one is black. *)
LEMMA RedSiblingIs ==
  ASSUME NEW t, NEW I, NEW q, NEW d, NEW z, Deep(t, I, q, d, z),
         NEW s, Sibling(t, q, d, s), ~Black(t, s), NEW r, RaisedTo(t, q, d, s, r)
  PROVE  /\ Deep(r, I, q, d, z) /\ Untouched(t, r, Entries \ I)
         /\ \A m : Sibling(r, q, d, m) => Black(r, m)
<1>1. /\ IsTree(t, I) /\ q \in I /\ d \in Dirs /\ t.child[d][q] = z /\ Black(t, z)
      /\ NoRedPair(t, I, {}) /\ Black(t, t.root)
  BY DEF Deep
<1>2. PICK H : Heights(t, I, H, q, d)
  BY DEF Deep
<1>3. PICK S : RbTreeOf(t, I, S)
  BY <1>1 DEF IsTree
<1>4. PICK o : o = Opp(d)
  OBVIOUS
<1>5. o \in Dirs /\ o # d /\ Opp(o) = d
  BY <1>1, <1>4, DirFacts
<1>6. s = t.child[o][q]
  BY <1>4 DEF Sibling
<1>7. s # Null /\ s # z /\ s \in I /\ s # q /\ z # q /\ q # Null
  BY <1>4, <1>6, SiblingIs
<1>8. t \in Trees /\ I \subseteq Entries /\ Null \notin Entries
  BY <1>1, TreeFacts
<1>9. t.color[s] = "red"
  BY <1>7, <1>8, TreeTypes DEF Black
<1>10. t.parent[s] = q /\ s # t.root
  BY <1>1, <1>3, <1>5, <1>6, <1>7, TreeChild
<1>11. t.color[q] = "black"
  BY <1>7, <1>9, <1>10, <1>1 DEF NoRedPair, Black
<1>12. NoRedPair(t, I, {t.child[Opp(d)][s]})
  BY <1>1, NoRedPairLess
<1>13. Raisable(t, I, q, d, s)
  BY <1>1, <1>4, <1>6, <1>7, <1>9, <1>11, <1>12 DEF Raisable
<1>14. Turned(t, r, q, d) /\ IsTree(r, I) /\ Untouched(t, r, Entries \ I) /\ Swapped(t, r, q, s)
  BY <1>13, RaiseTurns
<1>15. Apart(q, d, q, d, s)
  BY <1>7 DEF Apart
<1>16. Heights(r, I, H, q, d) /\ NoRedPair(r, I, {}) /\ Black(r, r.root)
  BY <1>2, <1>13, <1>15, RaiseIs
<1>17. PICK m : m = t.child[d][s]
  OBVIOUS
<1>18. PICK pp : pp = t.parent[q]
  OBVIOUS
<1>19. pp # q
  BY <1>1, <1>3, <1>7, <1>18, ParentLink
<1>20. r.child[d][q] = z /\ r.child[o][q] = m
  <2>1. /\ \A x \in Entries : r.child[d][x] = IF x = s THEN q
                                              ELSE IF x = pp /\ t.child[d][x] = q THEN s ELSE t.child[d][x]
        /\ \A x \in Entries : r.child[o][x] =
             IF x = q THEN m
             ELSE IF x = pp /\ t.child[o][x] = q THEN s ELSE t.child[o][x]
    BY <1>4, <1>6, <1>14, <1>17, <1>18 DEF Turned
  <2> QED
    BY <1>1, <1>7, <1>8, <1>19, <2>1
<1>21. Black(r, z)
  <2>1. CASE z = Null
    BY <2>1 DEF Black
  <2>2. CASE z # Null
    <3>1. z \in Entries /\ t.color[z] = "black"
      BY <1>1, <1>3, <1>8, <2>2, TreeChild DEF Black
    <3>2. r.color[z] = "black"
      BY <1>7, <1>14, <3>1 DEF Swapped
    <3> QED
      BY <3>2 DEF Black
  <2> QED
    BY <2>1, <2>2
<1>22. Black(r, m)
  <2>1. CASE m = Null
    BY <2>1 DEF Black
  <2>2. CASE m # Null
    <3>1. m \in I /\ m # s /\ t.parent[m] = s /\ m # t.root
      BY <1>1, <1>3, <1>7, <1>17, <2>2, TreeChild
    <3>2. m # q
      <4>1. S[m] \subseteq S[s] /\ m \in S[m]
        BY <1>1, <1>3, <1>7, <1>17, <2>2, TreeChild
      <4>2. q \notin S[s]
        BY <1>1, <1>3, <1>5, <1>6, <1>7, TreeChild
      <4> QED
        BY <4>1, <4>2
    <3>3. t.color[m] = "black"
      BY <1>1, <1>7, <1>9, <2>2, <3>1 DEF NoRedPair, Black
    <3>4. r.color[m] = "black"
      BY <1>8, <1>14, <3>1, <3>2, <3>3 DEF Swapped
    <3> QED
      BY <3>4 DEF Black
  <2> QED
    BY <2>1, <2>2
<1>23. Deep(r, I, q, d, z)
  BY <1>1, <1>14, <1>16, <1>20, <1>21 DEF Deep
<1>24. \A k : Sibling(r, q, d, k) => Black(r, k)
  BY <1>4, <1>20, <1>22 DEF Sibling
<1> QED
  BY <1>14, <1>23, <1>24

(* --- both nephews black: the deficit moves up -------------------------- *)

LEMMA PassIs ==
  ASSUME NEW t, NEW I, NEW q, NEW d, NEW z, Deep(t, I, q, d, z),
         NEW s, Sibling(t, q, d, s), Black(t, s), \A e \in Dirs : Black(t, t.child[e][s]),
         NEW r, Painted(t, s, "red", r)
  PROVE  Lacking(r, I, q, r.parent[q]) /\ Untouched(t, r, Entries \ I) /\ r.parent = t.parent
<1>1. /\ IsTree(t, I) /\ q \in I /\ d \in Dirs /\ t.child[d][q] = z /\ Black(t, z)
      /\ NoRedPair(t, I, {}) /\ Black(t, t.root)
  BY DEF Deep
<1>2. PICK H : Heights(t, I, H, q, d)
  BY DEF Deep
<1>3. PICK S : RbTreeOf(t, I, S)
  BY <1>1 DEF IsTree
<1>4. s = t.child[Opp(d)][q] /\ s # Null /\ s \in I /\ q # Null
  BY SiblingIs DEF Sibling
<1>5. t.color[s] = "black"
  BY <1>4 DEF Black
<1>6. ColorSet(t, r, s, "red") /\ IsTree(r, I) /\ Untouched(t, r, Entries \ I)
  BY <1>1, <1>4, PaintedIs DEF Painted
<1>7. PICK a : a = t.parent[q]
  OBVIOUS
<1>8. PICK D : a # Null => a \in I /\ D \in Dirs /\ t.child[D][a] = q
  BY <1>1, <1>3, <1>7, ParentLink
<1>b. BlackChildren(t, q, d, s)
  BY <1>4, <1>5 DEF BlackChildren
<1>h. Hangs(t, q, a, D)
  BY <1>7, <1>8 DEF Hangs
<1>9. /\ \E H2 : Heights(r, I, H2, a, D)
      /\ NoRedPair(r, I, {n \in I : n = q \/ t.parent[n] = q}) /\ Black(r, r.root)
  BY <1>1, <1>2, <1>3, <1>6, <1>b, <1>h, PassColours
<1>10. r.parent = t.parent /\ r.child = t.child /\ r.root = t.root
  BY <1>6 DEF ColorSet
<1>11. a = r.parent[q] /\ (a # Null => a \in I /\ D \in Dirs /\ r.child[D][a] = q)
  BY <1>7, <1>8, <1>10
<1>12. NoRedPair(r, I, {n \in I : n = q \/ r.parent[n] = q})
  BY <1>9, <1>10
<1>13. Lacking(r, I, q, a)
  BY <1>1, <1>4, <1>6, <1>9, <1>11, <1>12 DEF Lacking
<1> QED
  BY <1>6, <1>10, <1>11, <1>13

(* --- the far nephew black, the near one red: it takes the sibling's place *)

RedFar(t, I, q, d, z, s, far) ==
  /\ Deep(t, I, q, d, z) /\ Sibling(t, q, d, s) /\ Black(t, s)
  /\ far = t.child[Opp(d)][s] /\ ~Black(t, far)

LEMMA NearIs ==
  ASSUME NEW t, NEW I, NEW q, NEW d, NEW z, Deep(t, I, q, d, z),
         NEW s, Sibling(t, q, d, s), Black(t, s), Black(t, t.child[Opp(d)][s]),
         NEW near, near = t.child[d][s], ~Black(t, near), NEW r, RaisedTo(t, s, Opp(d), near, r)
  PROVE  RedFar(r, I, q, d, z, near, s) /\ Untouched(t, r, Entries \ I)
<1>1. /\ IsTree(t, I) /\ q \in I /\ d \in Dirs /\ t.child[d][q] = z /\ Black(t, z)
      /\ NoRedPair(t, I, {}) /\ Black(t, t.root)
  BY DEF Deep
<1>2. PICK H : Heights(t, I, H, q, d)
  BY DEF Deep
<1>3. PICK S : RbTreeOf(t, I, S)
  BY <1>1 DEF IsTree
<1>4. PICK o : o = Opp(d)
  OBVIOUS
<1>5. o \in Dirs /\ o # d /\ Opp(o) = d
  BY <1>1, <1>4, DirFacts
<1>6. s = t.child[o][q]
  BY <1>4 DEF Sibling
<1>7. s # Null /\ s # z /\ s \in I /\ s # q /\ z # q /\ q # Null
  BY <1>4, <1>6, SiblingIs
<1>8. t \in Trees /\ I \subseteq Entries /\ Null \notin Entries
  BY <1>1, TreeFacts
<1>9. t.color[s] = "black"
  BY <1>7 DEF Black
<1>10. t.parent[s] = q
  BY <1>1, <1>3, <1>5, <1>6, <1>7, TreeChild
<1>11. near # Null
  BY DEF Black
<1>12. near \in I /\ near # s /\ near # q /\ near # z
  <2>1. t.child[d][s] # Null
    BY <1>11
  <2>2. /\ t.child[d][s] \in I /\ t.child[d][s] # s
        /\ S[t.child[d][s]] \subseteq S[s] /\ t.child[d][s] \in S[t.child[d][s]]
        /\ \A x \in I, e \in Dirs : t.child[e][x] = t.child[d][s] => x = s /\ e = d
    BY <1>1, <1>3, <1>7, <2>1, TreeChild
  <2>3. q \notin S[s]
    BY <1>1, <1>3, <1>5, <1>6, <1>7, TreeChild
  <2> QED
    BY <1>1, <1>7, <2>2, <2>3
<1>13. t.color[near] = "red"
  BY <1>8, <1>12, TreeTypes DEF Black
<1>14. NoRedPair(t, I, {t.child[Opp(o)][near]})
  BY <1>1, NoRedPairLess
<1>15. Black(t, t.child[o][s])
  BY <1>4
<1>16. near = t.child[Opp(o)][s]
  BY <1>5
<1>17. Raisable(t, I, s, o, near)
  BY <1>1, <1>5, <1>7, <1>9, <1>11, <1>13, <1>14, <1>15, <1>16 DEF Raisable
<1>18. RaisedTo(t, s, o, near, r)
  BY <1>4
<1>19. Turned(t, r, s, o) /\ IsTree(r, I) /\ Untouched(t, r, Entries \ I) /\ Swapped(t, r, s, near)
  BY <1>17, <1>18, RaiseTurns
<1>20. Apart(q, d, s, o, near)
  BY <1>7, <1>12 DEF Apart
<1>21. Heights(r, I, H, q, d) /\ NoRedPair(r, I, {}) /\ Black(r, r.root)
  BY <1>2, <1>17, <1>18, <1>20, RaiseIs
<1>22. r.child[o][q] = near /\ r.child[o][near] = s /\ r.child[d][q] = z
  <2>1. PICK m : m = t.child[o][near]
    OBVIOUS
  <2>2. /\ \A x \in Entries : r.child[o][x] = IF x = near THEN s
                                              ELSE IF x = q /\ t.child[o][x] = s THEN near ELSE t.child[o][x]
        /\ \A x \in Entries : r.child[d][x] =
             IF x = s THEN m
             ELSE IF x = q /\ t.child[d][x] = s THEN near ELSE t.child[d][x]
    BY <1>5, <1>10, <1>16, <1>19, <2>1 DEF Turned
  <2> QED
    BY <1>1, <1>6, <1>7, <1>8, <1>12, <2>2
<1>23. r.color[near] = "black" /\ r.color[s] = "red"
  BY <1>7, <1>8, <1>12, <1>19 DEF Swapped
<1>24. Black(r, z)
  <2>1. CASE z = Null
    BY <2>1 DEF Black
  <2>2. CASE z # Null
    <3>1. z \in Entries /\ t.color[z] = "black"
      BY <1>1, <1>3, <1>8, <2>2, TreeChild DEF Black
    <3>2. r.color[z] = "black"
      BY <1>7, <1>12, <1>19, <3>1 DEF Swapped
    <3> QED
      BY <3>2 DEF Black
  <2> QED
    BY <2>1, <2>2
<1>25. Deep(r, I, q, d, z)
  BY <1>1, <1>19, <1>21, <1>22, <1>24 DEF Deep
<1>26. Sibling(r, q, d, near) /\ Black(r, near) /\ s = r.child[Opp(d)][near] /\ ~Black(r, s)
  BY <1>4, <1>7, <1>22, <1>23 DEF Sibling, Black
<1> QED
  BY <1>19, <1>25, <1>26 DEF RedFar

(* --- the far nephew red: the last rotation ----------------------------- *)

Settled(t, q, d, s, far, r) ==
  r = RbRotate(Paint(Paint(Paint(t, s, t.color[q]), q, "black"), far, "black"), q, d)

LEMMA SettleIs ==
  ASSUME NEW t, NEW I, NEW q, NEW d, NEW z, NEW s, NEW far, RedFar(t, I, q, d, z, s, far),
         NEW r, Settled(t, q, d, s, far, r)
  PROVE  Sound(r, I) /\ Untouched(t, r, Entries \ I)
<1>0. Deep(t, I, q, d, z) /\ Sibling(t, q, d, s)
  BY DEF RedFar
<1>1. /\ IsTree(t, I) /\ q \in I /\ d \in Dirs
      /\ NoRedPair(t, I, {}) /\ Black(t, t.root)
  BY <1>0 DEF Deep
<1>2. PICK H : Heights(t, I, H, q, d)
  BY <1>0 DEF Deep
<1>3. PICK S : RbTreeOf(t, I, S)
  BY <1>1 DEF IsTree
<1>4. s # Null /\ s \in I /\ s # q /\ HasChild(t, q, Opp(d))
  BY <1>0, SiblingIs DEF Sibling, HasChild
<1>5. s = t.child[Opp(d)][q] /\ far = t.child[Opp(d)][s] /\ Black(t, s) /\ ~Black(t, far)
  BY DEF RedFar, Sibling
<1>6. t \in Trees /\ I \subseteq Entries /\ Null \notin Entries
  BY <1>1, TreeFacts
<1>7. far # Null
  BY <1>5 DEF Black
<1>8. far \in I /\ far # s
  BY <1>1, <1>3, <1>4, <1>5, <1>7, TreeChild, DirFacts
<1>9. t.color[s] = "black" /\ t.color[far] = "red"
  BY <1>4, <1>5, <1>6, <1>7, <1>8, TreeTypes DEF Black
<1>10. PICK c : c = t.color[q]
  OBVIOUS
<1>11. c \in {"red", "black"}
  BY <1>1, <1>6, <1>10, TreeTypes
<1>12. PICK u : Painted(t, s, c, u)
  BY DEF Painted
<1>13. PICK v : Painted(u, q, "black", v)
  BY DEF Painted
<1>14. PICK w : Painted(v, far, "black", w)
  BY DEF Painted
<1>15. Rotated(w, q, d, r)
  BY <1>10, <1>12, <1>13, <1>14 DEF Painted, Rotated, Settled
<1>16. ColorSet(t, u, s, c) /\ IsTree(u, I) /\ Untouched(t, u, Entries \ I)
  BY <1>1, <1>4, <1>11, <1>12, PaintedIs DEF Painted
<1>17. ColorSet(u, v, q, "black") /\ IsTree(v, I) /\ Untouched(u, v, Entries \ I)
  BY <1>1, <1>13, <1>16, PaintedIs DEF Painted
<1>18. ColorSet(v, w, far, "black") /\ Untouched(v, w, Entries \ I)
  BY <1>8, <1>14, <1>17, PaintedIs DEF Painted
<1>19. Repainted(t, w, I)
  <2>1. Untouched(t, v, Entries \ I)
    BY <1>16, <1>17, UntouchedChain
  <2>2. Untouched(t, w, Entries \ I)
    BY <1>18, <2>1, UntouchedChain
  <2>3. w \in Trees /\ w.root = t.root /\ w.child = t.child /\ w.parent = t.parent
    BY <1>16, <1>17, <1>18 DEF ColorSet
  <2> QED
    BY <2>2, <2>3 DEF Repainted
<1>20. Turned(t, r, q, d) /\ r.color = w.color /\ IsTree(r, I) /\ Untouched(t, r, Entries \ I)
  BY <1>1, <1>4, <1>15, <1>19, TurnRepainted
<1>21. \A x \in Entries : r.color[x] = IF x = far \/ x = q THEN "black"
                                       ELSE IF x = s THEN t.color[q] ELSE t.color[x]
  <2>1. /\ \A x \in Entries : u.color[x] = IF x = s THEN c ELSE t.color[x]
        /\ \A x \in Entries : v.color[x] = IF x = q THEN "black" ELSE u.color[x]
        /\ \A x \in Entries : w.color[x] = IF x = far THEN "black" ELSE v.color[x]
    BY <1>16, <1>17, <1>18 DEF ColorSet
  <2> QED
    BY <1>10, <1>20, <2>1
<1>22. \E H2 : Heights(r, I, H2, Null, "left") /\ NoRedPair(r, I, {}) /\ Black(r, r.root)
  BY <1>1, <1>2, <1>3, <1>4, <1>5, <1>7, <1>9, <1>20, <1>21, SettleColours
<1> QED
  BY <1>20, <1>22 DEF Sound

(* --- one iteration of the loop in rbtree_erase_fixup ------------------- *)

(* The red sibling is turned up, if it is red. *)
Levelled(t, q, d, t1) ==
  t1 = IF Black(t, t.child[Opp(d)][q]) THEN t
       ELSE RbRotate(Paint(Paint(t, t.child[Opp(d)][q], "black"), q, "red"), q, d)

LEMMA LevelledIs ==
  ASSUME NEW t, NEW I, NEW q, NEW d, NEW z, Deep(t, I, q, d, z),
         NEW t1, Levelled(t, q, d, t1)
  PROVE  /\ Deep(t1, I, q, d, z) /\ Untouched(t, t1, Entries \ I)
         /\ \A m : Sibling(t1, q, d, m) => Black(t1, m)
<1>1. PICK s : Sibling(t, q, d, s)
  BY DEF Sibling
<1>2. CASE Black(t, s)
  <2>1. t1 = t
    BY <1>1, <1>2 DEF Levelled, Sibling
  <2>2. \A m : Sibling(t, q, d, m) => Black(t, m)
    BY <1>1, <1>2 DEF Sibling
  <2> QED
    BY <2>1, <2>2 DEF Untouched
<1>3. CASE ~Black(t, s)
  <2>1. RaisedTo(t, q, d, s, t1)
    BY <1>1, <1>3 DEF Levelled, Sibling, RaisedTo
  <2> QED
    BY <1>1, <1>3, <2>1, RedSiblingIs
<1> QED
  BY <1>2, <1>3

(* The near nephew is turned up, if the far one is black. *)
Leaned(t, d, s, t2) ==
  t2 = IF Black(t, t.child[Opp(d)][s])
       THEN RbRotate(Paint(Paint(t, t.child[d][s], "black"), s, "red"), s, Opp(d)) ELSE t

LEMMA LeanedIs ==
  ASSUME NEW t, NEW I, NEW q, NEW d, NEW z, Deep(t, I, q, d, z),
         NEW s, Sibling(t, q, d, s), Black(t, s),
         ~(Black(t, t.child[d][s]) /\ Black(t, t.child[Opp(d)][s])),
         NEW t2, Leaned(t, d, s, t2)
  PROVE  (\E k, far : RedFar(t2, I, q, d, z, k, far)) /\ Untouched(t, t2, Entries \ I)
<1>1. CASE Black(t, t.child[Opp(d)][s])
  <2>1. PICK near : near = t.child[d][s]
    OBVIOUS
  <2>2. RaisedTo(t, s, Opp(d), near, t2)
    BY <1>1, <2>1 DEF Leaned, RaisedTo
  <2>3. ~Black(t, near)
    BY <1>1, <2>1
  <2>4. RedFar(t2, I, q, d, z, near, s) /\ Untouched(t, t2, Entries \ I)
    BY <1>1, <2>1, <2>2, <2>3, NearIs
  <2> QED
    BY <2>4
<1>2. CASE ~Black(t, t.child[Opp(d)][s])
  <2>1. t2 = t
    BY <1>2 DEF Leaned
  <2>2. PICK far : far = t.child[Opp(d)][s]
    OBVIOUS
  <2>3. RedFar(t, I, q, d, z, s, far)
    BY <1>2, <2>2 DEF RedFar
  <2> QED
    BY <2>1, <2>3 DEF Untouched
<1> QED
  BY <1>1, <1>2

LEMMA SettledIs ==
  ASSUME NEW t, NEW I, NEW q, NEW d, NEW z, \E k, far : RedFar(t, I, q, d, z, k, far),
         NEW s, Sibling(t, q, d, s), NEW r, Settled(t, q, d, s, t.child[Opp(d)][s], r)
  PROVE  Sound(r, I) /\ Untouched(t, r, Entries \ I)
<1>1. PICK k, far : RedFar(t, I, q, d, z, k, far)
  OBVIOUS
<1>2. k = s /\ far = t.child[Opp(d)][s]
  BY <1>1 DEF RedFar, Sibling
<1>3. RedFar(t, I, q, d, z, s, far) /\ Settled(t, q, d, s, far, r)
  BY <1>1, <1>2
<1> QED
  BY <1>3, SettleIs

(* Nothing lacks a black node in a tree at rest. *)
LEMMA SoundLacks ==
  ASSUME NEW t, NEW I, Sound(t, I)
  PROVE  Lacking(t, I, t.root, Null) /\ ~Short(t, t.root)
<1>1. /\ IsTree(t, I) /\ NoRedPair(t, I, {}) /\ Black(t, t.root)
      /\ \E H : Heights(t, I, H, Null, "left")
  BY DEF Sound
<1>2. /\ t.root = Null <=> I = {}
      /\ t.root # Null => t.root \in I /\ t.parent[t.root] = Null
  BY <1>1, TreeFacts
<1>3. PICK z : z = t.root
  OBVIOUS
<1>4. NoRedPair(t, I, {n \in I : n = z \/ t.parent[n] = z})
  BY <1>1, NoRedPairLess
<1>5. \E H, D : Heights(t, I, H, Null, D) /\ (Null # Null => Null \in I /\ D \in Dirs /\ t.child[D][Null] = z)
  BY <1>1
<1>6. Lacking(t, I, z, Null)
  BY <1>1, <1>2, <1>3, <1>4, <1>5 DEF Lacking
<1> QED
  BY <1>3, <1>6 DEF Short

(* --- the end of the loop in rbtree_erase_fixup -------------------------- *)

LEMMA EraseEnds ==
  ASSUME NEW t, NEW I, NEW z, NEW q, Lacking(t, I, z, q), ~Short(t, z),
         NEW r, r = IF z = Null THEN t ELSE Paint(t, z, "black")
  PROVE  Sound(r, I) /\ Untouched(t, r, Entries \ I)
<1>1. /\ IsTree(t, I) /\ NoRedPair(t, I, {n \in I : n = z \/ t.parent[n] = z})
      /\ Black(t, t.root) \/ t.root = z
      /\ z # Null => z \in I /\ q = t.parent[z]
      /\ z = Null /\ q = Null => I = {}
  BY DEF Lacking
<1>2. PICK H, D : Heights(t, I, H, q, D) /\ (q # Null => q \in I /\ D \in Dirs /\ t.child[D][q] = z)
  BY DEF Lacking
<1>3. PICK S : RbTreeOf(t, I, S)
  BY <1>1 DEF IsTree
<1>4. z = t.root \/ ~Black(t, z)
  BY DEF Short
<1>5. t \in Trees /\ I \subseteq Entries /\ Null \notin Entries /\ (t.root = Null <=> I = {})
  BY <1>1, TreeFacts
<1>6. CASE z = Null
  <2>1. I = {} /\ t.root = Null /\ r = t
    BY <1>4, <1>5, <1>6 DEF Black
  <2>2. H \in [Entries -> Nat]
    BY <1>2 DEF Heights
  <2>3. Heights(t, I, H, Null, "left") /\ NoRedPair(t, I, {}) /\ Black(t, t.root)
    BY <2>1, <2>2 DEF Heights, NoRedPair, Black
  <2> QED
    BY <1>1, <2>1, <2>3 DEF Sound, Untouched
<1>7. CASE z # Null
  <2>1. z \in I /\ q = t.parent[z]
    BY <1>1, <1>7
  <2>2. Painted(t, z, "black", r)
    BY <1>7 DEF Painted
  <2>3. ColorSet(t, r, z, "black") /\ IsTree(r, I) /\ Untouched(t, r, Entries \ I)
    BY <1>1, <2>1, <2>2, PaintedIs DEF Painted
  <2>4. z = t.root \/ t.color[z] = "red"
    BY <1>4, <1>5, <2>1, TreeTypes DEF Black
  <2>5. q = Null => z = t.root
    BY <1>3, <2>1, TreeNode
  <2>6. Heights(r, I, H, Null, "left") /\ NoRedPair(r, I, {}) /\ Black(r, r.root)
    BY <1>1, <1>2, <1>3, <2>1, <2>3, <2>4, <2>5, EndColours
  <2> QED
    BY <2>3, <2>6 DEF Sound
<1> QED
  BY <1>6, <1>7

(* --- an entry out of the tree is freed --------------------------------- *)

(* r is t but for the fields of n. *)
ButFor(t, r, n) ==
  /\ r \in Trees /\ r.root = t.root
  /\ \A x \in Entries \ {n} : /\ r.parent[x] = t.parent[x] /\ r.color[x] = t.color[x]
                              /\ \A d \in Dirs : r.child[d][x] = t.child[d][x]

LEMMA FreedIs ==
  ASSUME NEW t \in Trees, NEW n \in Entries, NEW r, r = RbFreed(t, n)
  PROVE  ButFor(t, r, n) /\ Fresh(r, {n})
<1>1. PICK root, parent, child, color : t = [root |-> root, parent |-> parent, child |-> child, color |-> color]
  BY DEF Trees
<1>2. /\ root \in RbNodes /\ parent \in [Entries -> RbNodes]
      /\ child \in [Dirs -> [Entries -> RbNodes]] /\ color \in [Entries -> {"red", "black"}]
  BY <1>1 DEF Trees
<1>3. PICK l : l = child["left"]
  OBVIOUS
<1>4. PICK m : m = child["right"]
  OBVIOUS
<1>5. /\ l \in [Entries -> RbNodes] /\ m \in [Entries -> RbNodes] /\ Dirs = {"left", "right"}
  BY <1>2, <1>3, <1>4 DEF Dirs
<1>6. PICK kids : kids = [d \in Dirs |-> IF d = "left" THEN [l EXCEPT ![n] = Null] ELSE [m EXCEPT ![n] = Null]]
  OBVIOUS
<1>7. r = [root |-> root, parent |-> [parent EXCEPT ![n] = Null], child |-> kids,
           color |-> [color EXCEPT ![n] = "red"]]
  BY <1>1, <1>2, <1>3, <1>4, <1>5, <1>6 DEF RbFreed
<1>8. /\ r.root = root /\ r.parent = [parent EXCEPT ![n] = Null] /\ r.child = kids
      /\ r.color = [color EXCEPT ![n] = "red"]
  BY <1>7
<1>9. /\ Null \in RbNodes
      /\ [parent EXCEPT ![n] = Null] \in [Entries -> RbNodes]
      /\ kids \in [Dirs -> [Entries -> RbNodes]]
      /\ [color EXCEPT ![n] = "red"] \in [Entries -> {"red", "black"}]
  BY <1>2, <1>5, <1>6 DEF RbNodes
<1>10. r \in Trees
  BY <1>2, <1>7, <1>9 DEF Trees
<1>11. \A x \in Entries, d \in Dirs : r.child[d][x] = IF x = n THEN Null ELSE t.child[d][x]
  BY <1>1, <1>3, <1>4, <1>5, <1>6, <1>8
<1>12. \A x \in Entries : /\ r.parent[x] = IF x = n THEN Null ELSE t.parent[x]
                          /\ r.color[x] = IF x = n THEN "red" ELSE t.color[x]
  BY <1>1, <1>2, <1>8
<1>13. r.root = t.root
  BY <1>1, <1>8
<1> QED
  BY <1>10, <1>11, <1>12, <1>13 DEF ButFor, Fresh

LEMMA ButForTree ==
  ASSUME NEW t, NEW I, NEW S, RbTreeOf(t, I, S), NEW n \in Entries \ I, NEW r, ButFor(t, r, n)
  PROVE  RbTreeOf(r, I, S)
<1>1. /\ r \in Trees /\ r.root = t.root
      /\ \A x \in I : /\ r.parent[x] = t.parent[x] /\ \A d \in Dirs : r.child[d][x] = t.child[d][x]
  BY DEF ButFor, RbTreeOf
<1>2. \A x \in I : RbNode(t, I, S, x)
  BY DEF RbTreeOf
<1>3. ASSUME NEW x \in I
      PROVE  RbNode(r, I, S, x)
  <2>1. RbNode(t, I, S, x)
    BY <1>2
  <2>2. /\ "left" \in Dirs /\ "right" \in Dirs
        /\ r.child["left"][x] = t.child["left"][x] /\ r.child["right"][x] = t.child["right"][x]
    BY <1>1 DEF Dirs
  <2>3. \A d \in Dirs : t.child[d][x] # Null =>
          t.child[d][x] \in I /\ r.parent[t.child[d][x]] = x /\ \A m \in S[t.child[d][x]] : Side(d, m, x)
    BY <1>1, <2>1 DEF RbNode
  <2>4. x # r.root => r.parent[x] \in I /\ \E d \in Dirs : r.child[d][r.parent[x]] = x
    BY <1>1, <2>1 DEF RbNode
  <2>5. \A d \in Dirs : r.child[d][x] = t.child[d][x]
    BY <1>1
  <2> QED
    BY <2>1, <2>2, <2>3, <2>4, <2>5 DEF RbNode
<1> QED
  BY <1>1, <1>3 DEF RbTreeOf

LEMMA ButForSound ==
  ASSUME NEW t, NEW I, Sound(t, I), NEW n \in Entries \ I, NEW r, ButFor(t, r, n)
  PROVE  Sound(r, I)
<1>1. IsTree(t, I) /\ NoRedPair(t, I, {}) /\ Black(t, t.root)
  BY DEF Sound
<1>2. PICK H : Heights(t, I, H, Null, "left")
  BY DEF Sound
<1>3. PICK S : RbTreeOf(t, I, S)
  BY <1>1 DEF IsTree
<1>4. RbTreeOf(r, I, S)
  BY <1>3, ButForTree
<1>5. /\ r.root = t.root /\ r \in Trees
      /\ \A x \in I : /\ r.parent[x] = t.parent[x] /\ r.color[x] = t.color[x]
                      /\ \A d \in Dirs : r.child[d][x] = t.child[d][x]
  BY <1>3 DEF ButFor, RbTreeOf
<1>6. \A x \in I : Black(r, x) <=> Black(t, x)
  BY <1>5 DEF Black
<1>7. /\ t.root = Null <=> I = {}
      /\ t.root # Null => t.root \in I /\ t.parent[t.root] = Null
  BY <1>1, TreeFacts
<1>8. Black(r, r.root)
  BY <1>1, <1>5, <1>6, <1>7 DEF Black
<1>9. NoRedPair(r, I, {})
  <2> SUFFICES ASSUME NEW x \in I, x # r.root
               PROVE  Black(r, x) \/ Black(r, r.parent[x])
    BY DEF NoRedPair
  <2>1. x # t.root /\ t.parent[x] \in I
    BY <1>3, <1>5, TreeNode
  <2>2. Black(t, x) \/ Black(t, t.parent[x])
    BY <1>1, <2>1 DEF NoRedPair
  <2> QED
    BY <1>5, <1>6, <2>1, <2>2
<1>10. Heights(r, I, H, Null, "left")
  <2>1. H \in [Entries -> Nat] /\ I \in SUBSET Entries /\ t \in Trees
    BY <1>2, <1>1, TreeFacts DEF Heights
  <2>2. \A x \in I, e \in Dirs : H[x] = Weight(t, H, t.child[e][x])
    BY <1>2, <2>1, EvenHeights
  <2>3. ASSUME NEW x \in I, NEW e \in Dirs
        PROVE  H[x] = Weight(r, H, r.child[e][x])
    <3>1. PICK c : c = t.child[e][x]
      OBVIOUS
    <3>2. c # Null => c \in I
      BY <1>3, <3>1, TreeChild
    <3>3. c # Null => r.color[c] = t.color[c]
      BY <1>5, <3>2
    <3>4. Weight(r, H, c) = Weight(t, H, c)
      BY <3>3 DEF Weight
    <3>5. r.child[e][x] = c /\ H[x] = Weight(t, H, c)
      BY <1>5, <2>2, <3>1
    <3> QED
      BY <3>4, <3>5
  <2> QED
    BY <1>5, <2>1, <2>3, EvenHeights
<1>11. IsTree(r, I)
  BY <1>4 DEF IsTree
<1> QED
  BY <1>8, <1>9, <1>10, <1>11 DEF Sound

LEMMA FreedSound ==
  ASSUME NEW t, NEW I, Sound(t, I), NEW n \in Entries \ I, Fresh(t, Entries \ (I \cup {n})),
         NEW r, r = RbFreed(t, n)
  PROVE  Sound(r, I) /\ Fresh(r, Entries \ I)
<1>1. t \in Trees
  BY TreeFacts DEF Sound
<1>2. ButFor(t, r, n) /\ Fresh(r, {n})
  BY <1>1, FreedIs
<1>3. Sound(r, I)
  BY <1>2, ButForSound
<1>4. Fresh(r, Entries \ I)
  BY <1>2 DEF ButFor, Fresh
<1> QED
  BY <1>3, <1>4

RbFixes == [op : {"idle", "insert", "erase"}, node : RbNodes, parent : RbNodes, gone : RbNodes]

Erasing ==
  /\ \E q : Lacking(rb, rbIn, rbFix.node, q) /\ (Short(rb, rbFix.node) => rbFix.parent = q)
  /\ rbFix.gone \in Entries \ rbIn /\ Fresh(rb, Entries \ (rbIn \cup {rbFix.gone}))

RbHolds ==
  /\ rbFix \in RbFixes
  /\ rbFix.op = "idle" => Sound(rb, rbIn) /\ Fresh(rb, Entries \ rbIn)
  /\ rbFix.op = "insert" => Growing(rb, rbIn, rbFix.node) /\ Fresh(rb, Entries \ rbIn)
  /\ rbFix.op = "erase" => Erasing

LEMMA IdleIs ==
  RbIdle \in RbFixes /\ RbIdle.op = "idle" /\ RbIdle.node = Null
BY DEF RbIdle, RbFixes, RbNodes

LEMMA HoldsIdle ==
  ASSUME rbFix' = RbIdle, Sound(rb', rbIn'), Fresh(rb', Entries \ rbIn')
  PROVE  RbHolds'
BY IdleIs DEF RbHolds

LEMMA HoldsGrowing ==
  ASSUME rbFix' \in RbFixes, rbFix'.op = "insert", Growing(rb', rbIn', rbFix'.node),
         Fresh(rb', Entries \ rbIn')
  PROVE  RbHolds'
BY DEF RbHolds

LEMMA HoldsErasing ==
  ASSUME rbFix' \in RbFixes, rbFix'.op = "erase",
         NEW q, Lacking(rb', rbIn', rbFix'.node, q), Short(rb', rbFix'.node) => rbFix'.parent = q,
         rbFix'.gone \in Entries \ rbIn', Fresh(rb', Entries \ (rbIn' \cup {rbFix'.gone}))
  PROVE  RbHolds'
<1>1. Erasing'
  BY DEF Erasing
<1> QED
  BY <1>1 DEF RbHolds

LEMMA FixNode ==
  ASSUME NEW f \in RbFixes, NEW n \in RbNodes, NEW g, g = [f EXCEPT !.node = n]
  PROVE  g \in RbFixes /\ g.op = f.op /\ g.node = n
BY DEF RbFixes

FixSet(f, n, p, g) == g = [f EXCEPT !.node = n, !.parent = p]

LEMMA FixBoth ==
  ASSUME NEW f \in RbFixes, NEW n \in RbNodes, NEW p \in RbNodes,
         NEW g, FixSet(f, n, p, g)
  PROVE  g \in RbFixes /\ g.op = f.op /\ g.node = n /\ g.parent = p /\ g.gone = f.gone
BY DEF RbFixes, FixSet

LEMMA InsertEndKeeps ==
  ASSUME RbHolds, RbInsertEnd
  PROVE  RbHolds'
<1>1. /\ rbFix.op = "insert" /\ ~RedParent /\ rb' = Paint(rb, rb.root, "black") /\ rbFix' = RbIdle
      /\ rbIn' = rbIn
  BY DEF RbInsertEnd
<1>2. Growing(rb, rbIn, rbFix.node) /\ Fresh(rb, Entries \ rbIn)
  BY <1>1 DEF RbHolds
<1>3. rbFix.node # Null => Black(rb, rb.parent[rbFix.node])
  BY <1>1 DEF RedParent
<1>4. PICK r : r = Paint(rb, rb.root, "black")
  OBVIOUS
<1>5. Sound(r, rbIn) /\ Untouched(rb, r, Entries \ rbIn)
  BY <1>2, <1>3, <1>4, InsertEnds
<1>6. Fresh(r, Entries \ rbIn)
  BY <1>2, <1>5, FreshKept
<1>7. Sound(rb', rbIn') /\ Fresh(rb', Entries \ rbIn')
  BY <1>1, <1>4, <1>5, <1>6
<1> QED
  BY <1>1, <1>7, HoldsIdle

LEMMA EraseEndKeeps ==
  ASSUME RbHolds, RbEraseEnd
  PROVE  RbHolds'
<1>1. /\ rbFix.op = "erase" /\ ~Deficit /\ rbFix' = RbIdle /\ rbIn' = rbIn
      /\ rb' = RbFreed(IF rbFix.node = Null THEN rb ELSE Paint(rb, rbFix.node, "black"), rbFix.gone)
  BY DEF RbEraseEnd
<1>2. Erasing
  BY <1>1 DEF RbHolds
<1>3. PICK q : Lacking(rb, rbIn, rbFix.node, q)
  BY <1>2 DEF Erasing
<1>4. PICK gone : gone = rbFix.gone
  OBVIOUS
<1>5. gone \in Entries \ rbIn /\ Fresh(rb, Entries \ (rbIn \cup {gone}))
  BY <1>2, <1>4 DEF Erasing
<1>6. ~Short(rb, rbFix.node)
  BY <1>1 DEF Short, Deficit
<1>7. PICK t : t = IF rbFix.node = Null THEN rb ELSE Paint(rb, rbFix.node, "black")
  OBVIOUS
<1>8. Sound(t, rbIn) /\ Untouched(rb, t, Entries \ rbIn)
  BY <1>3, <1>6, <1>7, EraseEnds
<1>9. Fresh(t, Entries \ (rbIn \cup {gone}))
  BY <1>5, <1>8 DEF Fresh, Untouched
<1>10. PICK r : r = RbFreed(t, gone)
  OBVIOUS
<1>11. Sound(r, rbIn) /\ Fresh(r, Entries \ rbIn)
  BY <1>5, <1>8, <1>9, <1>10, FreedSound
<1>12. rb' = r
  BY <1>1, <1>4, <1>7, <1>10
<1>13. Sound(rb', rbIn') /\ Fresh(rb', Entries \ rbIn')
  BY <1>1, <1>11, <1>12
<1> QED
  BY <1>1, <1>13, HoldsIdle

LEMMA InsertStepKeeps ==
  ASSUME RbHolds, RbInsertStep
  PROVE  RbHolds'
<1>1. rbFix.op = "insert" /\ RedParent /\ rbIn' = rbIn
  BY DEF RbInsertStep
<1>2. Growing(rb, rbIn, rbFix.node) /\ Fresh(rb, Entries \ rbIn) /\ rbFix \in RbFixes
  BY <1>1 DEF RbHolds
<1>3. PICK z : z = rbFix.node
  OBVIOUS
<1>4. PICK p : p = rb.parent[z]
  OBVIOUS
<1>5. PICK g : g = rb.parent[p]
  OBVIOUS
<1>6. RedPair(rb, z, p, g)
  BY <1>1, <1>3, <1>4, <1>5 DEF RedParent, RedPair
<1>7. Growing(rb, rbIn, z)
  BY <1>2, <1>3
<1>8. /\ z \in rbIn /\ p \in rbIn /\ g \in rbIn /\ \E a \in Dirs : rb.child[a][g] = p
  BY <1>6, <1>7, GrowingFacts
<1>9. PICK d : d = IF p = rb.child["left"][g] THEN "left" ELSE "right"
  OBVIOUS
<1>10. d \in Dirs /\ rb.child[d][g] = p
  BY <1>8, <1>9 DEF Dirs
<1>11. PICK u : u = rb.child[Opp(d)][g]
  OBVIOUS
<1>12. rb \in Trees /\ rbIn \subseteq Entries
  BY <1>7, TreeFacts DEF Growing
<1>13. CASE ~Black(rb, u)
  <2>1. PICK v : Painted(rb, p, "black", v)
    BY DEF Painted
  <2>2. PICK w : Painted(v, u, "black", w)
    BY DEF Painted
  <2>3. PICK r : Painted(w, g, "red", r)
    BY DEF Painted
  <2>4. rb' = r /\ rbFix' = [rbFix EXCEPT !.node = g]
    BY <1>3, <1>4, <1>5, <1>9, <1>11, <1>13, <2>1, <2>2, <2>3 DEF RbInsertStep, Painted
  <2>5. Thrice(rb, p, u, g, v, w, r)
    BY <2>1, <2>2, <2>3 DEF Thrice
  <2>6. RedUncle(rb, g, d, p, u)
    BY <1>10, <1>11, <1>13 DEF RedUncle
  <2>7. Growing(r, rbIn, g) /\ Untouched(rb, r, Entries \ rbIn)
    BY <1>6, <1>7, <2>5, <2>6, InsertRecolours
  <2>8. Fresh(r, Entries \ rbIn)
    BY <1>2, <2>7, FreshKept
  <2>9. rbFix' \in RbFixes /\ rbFix'.op = "insert" /\ rbFix'.node = g
    BY <1>1, <1>2, <1>8, <1>12, <2>4, FixNode DEF RbNodes
  <2>10. Growing(rb', rbIn', rbFix'.node) /\ Fresh(rb', Entries \ rbIn')
    BY <1>1, <2>4, <2>7, <2>8, <2>9
  <2> QED
    BY <2>9, <2>10, HoldsGrowing
<1>14. CASE Black(rb, u)
  <2>1. PICK t1 : t1 = IF z = rb.child[Opp(d)][p] THEN RbRotate(rb, p, d) ELSE rb
    OBVIOUS
  <2>2. PICK top : top = t1.parent[IF z = rb.child[Opp(d)][p] THEN p ELSE z]
    OBVIOUS
  <2>3. PICK r : r = RbRotate(Paint(Paint(t1, top, "black"), g, "red"), g, Opp(d))
    OBVIOUS
  <2>4. rb' = r /\ rbFix' = [rbFix EXCEPT !.node = Null]
    BY <1>3, <1>4, <1>5, <1>9, <1>11, <1>14, <2>1, <2>2, <2>3 DEF RbInsertStep
  <2>5. InsertTurned(rb, z, p, g, d, t1, top, r)
    BY <2>1, <2>2, <2>3 DEF InsertTurned
  <2>6. BlackUncle(rb, g, d, p)
    BY <1>10, <1>11, <1>14 DEF BlackUncle
  <2>7. Sound(r, rbIn) /\ Untouched(rb, r, Entries \ rbIn)
    BY <1>6, <1>7, <2>5, <2>6, InsertTurns
  <2>8. Fresh(r, Entries \ rbIn) /\ Growing(r, rbIn, Null)
    BY <1>2, <2>7, FreshKept, SoundGrows
  <2>9. rbFix' \in RbFixes /\ rbFix'.op = "insert" /\ rbFix'.node = Null
    BY <1>1, <1>2, <2>4, FixNode DEF RbNodes
  <2>10. Growing(rb', rbIn', rbFix'.node) /\ Fresh(rb', Entries \ rbIn')
    BY <1>1, <2>4, <2>7, <2>8, <2>9
  <2> QED
    BY <2>9, <2>10, HoldsGrowing
<1> QED
  BY <1>13, <1>14

(* What one iteration of the loop in rbtree_erase_fixup makes of a tree. *)
EraseTurned(t, p, d, t1, r) ==
  LET s1 == t1.child[Opp(d)][p]
  IN  /\ Levelled(t, p, d, t1)
      /\ ~(Black(t1, t1.child[d][s1]) /\ Black(t1, t1.child[Opp(d)][s1]))
      /\ \E t2 : /\ Leaned(t1, d, s1, t2)
                 /\ Settled(t2, p, d, t2.child[Opp(d)][p], t2.child[Opp(d)][t2.child[Opp(d)][p]], r)

LEMMA EraseTurns ==
  ASSUME NEW t, NEW I, NEW q, NEW d, NEW z, Deep(t, I, q, d, z),
         NEW t1, NEW r, EraseTurned(t, q, d, t1, r)
  PROVE  Sound(r, I) /\ Untouched(t, r, Entries \ I)
<1>1. PICK s1 : Sibling(t1, q, d, s1)
  BY DEF Sibling
<1>2. /\ Levelled(t, q, d, t1)
      /\ ~(Black(t1, t1.child[d][s1]) /\ Black(t1, t1.child[Opp(d)][s1]))
  BY <1>1 DEF EraseTurned, Sibling
<1>3. PICK t2 : /\ Leaned(t1, d, s1, t2)
                /\ Settled(t2, q, d, t2.child[Opp(d)][q], t2.child[Opp(d)][t2.child[Opp(d)][q]], r)
  BY <1>1 DEF EraseTurned, Sibling
<1>4. Deep(t1, I, q, d, z) /\ Untouched(t, t1, Entries \ I) /\ Black(t1, s1)
  BY <1>1, <1>2, LevelledIs
<1>5. (\E k, far : RedFar(t2, I, q, d, z, k, far)) /\ Untouched(t1, t2, Entries \ I)
  BY <1>1, <1>2, <1>3, <1>4, LeanedIs
<1>6. PICK s2 : Sibling(t2, q, d, s2)
  BY DEF Sibling
<1>7. Settled(t2, q, d, s2, t2.child[Opp(d)][s2], r)
  BY <1>3, <1>6 DEF Sibling
<1>8. Sound(r, I) /\ Untouched(t2, r, Entries \ I)
  BY <1>5, <1>6, <1>7, SettledIs
<1>9. Untouched(t, t2, Entries \ I)
  BY <1>4, <1>5, UntouchedChain
<1> QED
  BY <1>8, <1>9, UntouchedChain

ErasePassed(t, p, d, t1, r) ==
  LET s1 == t1.child[Opp(d)][p]
  IN  /\ Levelled(t, p, d, t1)
      /\ Black(t1, t1.child[d][s1]) /\ Black(t1, t1.child[Opp(d)][s1])
      /\ Painted(t1, s1, "red", r)

LEMMA ErasePasses ==
  ASSUME NEW t, NEW I, NEW q, NEW d, NEW z, Deep(t, I, q, d, z),
         NEW t1, NEW r, ErasePassed(t, q, d, t1, r)
  PROVE  Lacking(r, I, q, t1.parent[q]) /\ Untouched(t, r, Entries \ I)
<1>1. PICK s1 : Sibling(t1, q, d, s1)
  BY DEF Sibling
<1>2. /\ Levelled(t, q, d, t1)
      /\ Black(t1, t1.child[d][s1]) /\ Black(t1, t1.child[Opp(d)][s1])
      /\ Painted(t1, s1, "red", r)
  BY <1>1 DEF ErasePassed, Sibling
<1>3. Deep(t1, I, q, d, z) /\ Untouched(t, t1, Entries \ I) /\ Black(t1, s1)
  BY <1>1, <1>2, LevelledIs
<1>4. d \in Dirs
  BY DEF Deep
<1>5. \A e \in Dirs : Black(t1, t1.child[e][s1])
  BY <1>2, <1>4, DirFacts
<1>6. Lacking(r, I, q, r.parent[q]) /\ Untouched(t1, r, Entries \ I) /\ r.parent = t1.parent
  BY <1>1, <1>2, <1>3, <1>5, PassIs
<1>7. Untouched(t, r, Entries \ I)
  BY <1>3, <1>6, UntouchedChain
<1> QED
  BY <1>6, <1>7

LEMMA EraseStepKeeps ==
  ASSUME RbHolds, RbEraseStep
  PROVE  RbHolds'
<1>1. rbFix.op = "erase" /\ Deficit /\ rbIn' = rbIn
  BY DEF RbEraseStep
<1>2. Erasing /\ rbFix \in RbFixes
  BY <1>1 DEF RbHolds
<1>3. PICK z : z = rbFix.node
  OBVIOUS
<1>4. Short(rb, z)
  BY <1>1, <1>3 DEF Deficit, Short
<1>5. PICK p : p = rbFix.parent
  OBVIOUS
<1>6. Lacking(rb, rbIn, z, p)
  BY <1>2, <1>3, <1>4, <1>5 DEF Erasing
<1>7. PICK gone : gone = rbFix.gone
  OBVIOUS
<1>8. gone \in Entries \ rbIn /\ Fresh(rb, Entries \ (rbIn \cup {gone}))
  BY <1>2, <1>7 DEF Erasing
<1>9. PICK d : p \in rbIn /\ Deep(rb, rbIn, p, d, z)
  BY <1>4, <1>6, LackingIsDeep
<1>10. d = IF z = rb.child["left"][p] THEN "left" ELSE "right"
  BY <1>9, SiblingIs
<1>11. p # Null /\ rb.child[Opp(d)][p] # Null /\ rb \in Trees /\ rbIn \subseteq Entries
  BY <1>6, <1>9, SiblingIs, TreeFacts DEF Lacking
<1>12. PICK s : s = rb.child[Opp(d)][p]
  OBVIOUS
<1>d. d \in Dirs
  BY <1>9 DEF Deep
<1>13. PICK t1 : t1 = BlackSibling(rb, p, d)
  OBVIOUS
<1>14. Levelled(rb, p, d, t1)
  BY <1>13 DEF Levelled, BlackSibling
<1>15. PICK s1 : s1 = t1.child[Opp(d)][p]
  OBVIOUS
<1>16. PICK near : near = t1.child[d][s1]
  OBVIOUS
<1>17. PICK far : far = t1.child[Opp(d)][s1]
  OBVIOUS
<1>18. CASE Black(t1, near) /\ Black(t1, far)
  <2>1. PICK r : r = Paint(t1, s1, "red")
    OBVIOUS
  <2>2. PICK a : a = t1.parent[p]
    OBVIOUS
  <2>3. rb' = r /\ rbFix' = [rbFix EXCEPT !.node = p, !.parent = a]
    <3>1. \A c \in Dirs : Black(t1, t1.child[c][s1])
      BY <1>d, <1>16, <1>17, <1>18, DirFacts
    <3> QED
      BY <1>3, <1>5, <1>10, <1>11, <1>13, <1>15, <2>1, <2>2, <3>1 DEF RbEraseStep
  <2>4. ErasePassed(rb, p, d, t1, r)
    BY <1>14, <1>15, <1>16, <1>17, <1>18, <2>1 DEF ErasePassed, Painted
  <2>5. Lacking(r, rbIn, p, a) /\ Untouched(rb, r, Entries \ rbIn)
    BY <1>9, <2>2, <2>4, ErasePasses
  <2>6. a \in RbNodes
    <3>1. Deep(t1, rbIn, p, d, z)
      BY <1>9, <1>14, LevelledIs
    <3>2. t1 \in Trees
      BY <3>1, TreeFacts DEF Deep
    <3> QED
      BY <1>9, <1>11, <2>2, <3>2, TreeTypes
  <2>7. p \in RbNodes
    BY <1>9, <1>11 DEF RbNodes
  <2>8. /\ rbFix' \in RbFixes /\ rbFix'.op = "erase" /\ rbFix'.node = p /\ rbFix'.parent = a
        /\ rbFix'.gone = gone
    <3>1. FixSet(rbFix, p, a, rbFix')
      BY <2>3 DEF FixSet
    <3> QED
      BY <1>1, <1>2, <1>7, <2>6, <2>7, <3>1, FixBoth
  <2>9. Fresh(r, Entries \ (rbIn \cup {gone}))
    BY <1>8, <2>5 DEF Fresh, Untouched
  <2>10. /\ Lacking(rb', rbIn', rbFix'.node, a) /\ rbFix'.gone \in Entries \ rbIn'
         /\ Fresh(rb', Entries \ (rbIn' \cup {rbFix'.gone}))
    BY <1>1, <1>8, <2>3, <2>5, <2>8, <2>9
  <2> QED
    BY <2>8, <2>10, HoldsErasing
<1>19. CASE ~(Black(t1, near) /\ Black(t1, far))
  <2>1. PICK t2 : t2 = RedFarChild(t1, p, d)
    OBVIOUS
  <2>2. PICK s2 : s2 = t2.child[Opp(d)][p]
    OBVIOUS
  <2>3. PICK r : r = Rebalanced(t2, p, d)
    OBVIOUS
  <2>4. rb' = r /\ rbFix' = [rbFix EXCEPT !.node = r.root, !.parent = Null]
    <3>1. ~ \A c \in Dirs : Black(t1, t1.child[c][s1])
      BY <1>d, <1>16, <1>17, <1>19, DirFacts
    <3> QED
      BY <1>3, <1>5, <1>10, <1>11, <1>13, <1>15, <2>1, <2>3, <3>1 DEF RbEraseStep
  <2>5. Leaned(t1, d, s1, t2) /\ Settled(t2, p, d, s2, t2.child[Opp(d)][s2], r)
    <3>1. Leaned(t1, d, s1, t2)
      BY <1>15, <2>1 DEF Leaned, RedFarChild
    <3>2. Settled(t2, p, d, s2, t2.child[Opp(d)][s2], r)
      BY <2>2, <2>3 DEF Settled, Rebalanced
    <3> QED
      BY <3>1, <3>2
  <2>6. EraseTurned(rb, p, d, t1, r)
    BY <1>14, <1>15, <1>16, <1>17, <1>19, <2>2, <2>5 DEF EraseTurned
  <2>7. Sound(r, rbIn) /\ Untouched(rb, r, Entries \ rbIn)
    BY <1>9, <2>6, EraseTurns
  <2>8. r.root \in RbNodes /\ Null \in RbNodes
    BY <2>7, TreeFacts, TreeTypes DEF Sound, RbNodes
  <2>9. /\ rbFix' \in RbFixes /\ rbFix'.op = "erase" /\ rbFix'.node = r.root /\ rbFix'.gone = gone
    <3>1. FixSet(rbFix, r.root, Null, rbFix')
      BY <2>4 DEF FixSet
    <3> QED
      BY <1>1, <1>2, <1>7, <2>8, <3>1, FixBoth
  <2>10. Fresh(r, Entries \ (rbIn \cup {gone}))
    BY <1>8, <2>7 DEF Fresh, Untouched
  <2>11. Lacking(r, rbIn, r.root, Null) /\ ~Short(r, r.root)
    BY <2>7, SoundLacks
  <2>12. /\ Lacking(rb', rbIn', rbFix'.node, Null) /\ ~Short(rb', rbFix'.node)
         /\ rbFix'.gone \in Entries \ rbIn' /\ Fresh(rb', Entries \ (rbIn' \cup {rbFix'.gone}))
    BY <1>1, <1>8, <2>4, <2>9, <2>10, <2>11
  <2> QED
    BY <2>9, <2>12, HoldsErasing
<1> QED
  BY <1>18, <1>19

(* --- the link of an insertion ------------------------------------------ *)

LEMMA RootIs ==
  ASSUME NEW t \in Trees, NEW e \in RbNodes, NEW r, r = [t EXCEPT !.root = e]
  PROVE  r \in Trees /\ r.root = e /\ r.color = t.color /\ r.parent = t.parent /\ r.child = t.child
BY DEF Trees

InsertLinked(t, e, p, d, r) ==
  r = IF p = Null THEN [Adopt(t, e, p) EXCEPT !.root = e] ELSE WithChild(Adopt(t, e, p), p, d, e)

LEMMA LinkedIs ==
  ASSUME NEW t \in Trees, NEW e \in Entries, NEW p \in RbNodes, NEW d \in Dirs,
         NEW r, InsertLinked(t, e, p, d, r)
  PROVE  Linked(t, r, e, p, d)
<1>1. e \in RbNodes /\ Null \notin Entries
  BY EntriesAssumption DEF RbNodes
<1>2. PICK u : u = Adopt(t, e, p)
  OBVIOUS
<1>3. ParentSet(t, u, e, p)
  BY <1>1, <1>2, AdoptIs
<1>4. /\ u \in Trees /\ u.root = t.root /\ u.color = t.color /\ u.child = t.child
      /\ \A x \in Entries : u.parent[x] = IF x = e THEN p ELSE t.parent[x]
  BY <1>3 DEF ParentSet
<1>5. CASE p = Null
  <2>1. r = [u EXCEPT !.root = e]
    BY <1>2, <1>5 DEF InsertLinked
  <2>2. r \in Trees /\ r.root = e /\ r.color = u.color /\ r.parent = u.parent /\ r.child = u.child
    BY <1>1, <1>4, <2>1, RootIs
  <2>3. \A x \in Entries : x # p
    BY <1>1, <1>5
  <2>4. \A a \in Dirs, x \in Entries : r.child[a][x] = IF x = p /\ a = d THEN e ELSE t.child[a][x]
    BY <1>4, <2>2, <2>3
  <2>5. \A x \in Entries : r.parent[x] = IF x = e THEN p ELSE t.parent[x]
    BY <1>4, <2>2
  <2> QED
    BY <1>4, <1>5, <2>2, <2>4, <2>5 DEF Linked
<1>6. CASE p # Null
  <2>1. p \in Entries /\ r = WithChild(u, p, d, e)
    BY <1>2, <1>6 DEF InsertLinked, RbNodes
  <2>2. ChildSet(u, r, p, d, e)
    BY <1>1, <1>4, <2>1, WithChildIs
  <2>3. /\ r \in Trees /\ r.root = t.root /\ r.color = t.color
        /\ \A x \in Entries : r.parent[x] = IF x = e THEN p ELSE t.parent[x]
    BY <1>4, <2>2 DEF ChildSet
  <2>4. \A a \in Dirs, x \in Entries : r.child[a][x] = IF x = p /\ a = d THEN e ELSE t.child[a][x]
    BY <1>4, <2>2 DEF ChildSet
  <2> QED
    BY <1>6, <2>3, <2>4 DEF Linked
<1> QED
  BY <1>5, <1>6

LEMMA RestOf ==
  ASSUME RbHolds, rbFix.op = "idle"
  PROVE  /\ Sound(rb, rbIn) /\ Fresh(rb, Entries \ rbIn) /\ \E S : AtRest(S)
         /\ rb \in Trees /\ rbIn \in SUBSET Entries /\ IsFiniteSet(rbIn) /\ Null \notin rbIn
         /\ rb.root = Null <=> rbIn = {}
         /\ rb.root # Null => rb.root \in rbIn
<1>1. Sound(rb, rbIn) /\ Fresh(rb, Entries \ rbIn)
  BY DEF RbHolds
<1>2. PICK S : RbTreeOf(rb, rbIn, S)
  BY <1>1 DEF Sound, IsTree
<1>3. AtRest(S)
  BY <1>1, <1>2 DEF AtRest
<1>4. IsTree(rb, rbIn)
  BY <1>1 DEF Sound
<1> QED
  BY <1>1, <1>3, <1>4, TreeFacts

(* Where the search for a new key ends. *)
NewPlace(t, I, e, p, d) ==
  /\ d \in Dirs
  /\ p = Null => I = {} /\ t.root = Null
  /\ p # Null => p \in I /\ t.child[d][p] = Null /\ Side(d, e, p)
                 /\ \A m \in I \ {p} : \A a \in Dirs : Side(a, e, m) <=> Side(a, p, m)
  /\ \A m \in I : KeyOf[m] # KeyOf[e]

LEMMA LinkIs ==
  ASSUME NEW t, NEW I, Sound(t, I), NEW e \in Entries \ I, Fresh(t, Entries \ I),
         NEW p, NEW d, NewPlace(t, I, e, p, d), NEW r, Linked(t, r, e, p, d)
  PROVE  Growing(r, I \cup {e}, e) /\ Fresh(r, Entries \ (I \cup {e}))
<1>1. IsTree(t, I) /\ NoRedPair(t, I, {}) /\ Black(t, t.root)
  BY DEF Sound
<1>2. PICK H : Heights(t, I, H, Null, "left")
  BY DEF Sound
<1>3. PICK S : RbTreeOf(t, I, S)
  BY <1>1 DEF IsTree
<1>4. /\ t \in Trees /\ I \in SUBSET Entries /\ Null \notin Entries
      /\ t.root = Null <=> I = {}
      /\ t.root # Null => t.root \in I
  BY <1>1, TreeFacts
<1>5. (\A a \in Dirs : t.child[a][e] = Null) /\ t.color[e] = "red"
  BY DEF Fresh
<1>6. /\ d \in Dirs
      /\ p = Null => I = {} /\ t.root = Null
      /\ p # Null => p \in I /\ t.child[d][p] = Null /\ Side(d, e, p)
                     /\ \A m \in I \ {p} : \A a \in Dirs : Side(a, e, m) <=> Side(a, p, m)
      /\ \A m \in I : KeyOf[m] # KeyOf[e]
  BY DEF NewPlace
<1>7. \E S2 : RbTreeOf(r, I \cup {e}, S2)
  <2>1. CASE p = Null
    <3>1. RbTreeOf(t, {}, S) /\ I \cup {e} = {e} /\ Linked(t, r, e, Null, d)
      BY <1>3, <1>6, <2>1
    <3> QED
      BY <1>5, <3>1, LinkFirst
  <2>2. CASE p # Null
    BY <1>3, <1>5, <1>6, <2>2, LinkTree
  <2> QED
    BY <2>1, <2>2
<1>8. \A x \in I, a \in Dirs : t.child[a][x] # e
  <2> SUFFICES ASSUME NEW x \in I, NEW a \in Dirs, t.child[a][x] = e PROVE FALSE
    OBVIOUS
  <2>1. t.child[a][x] # Null
    BY <1>4
  <2> QED
    BY <1>3, <2>1, TreeChild
<1>9. p = Null \/ (p \in I /\ d \in Dirs /\ t.child[d][p] = Null)
  BY <1>6
<1>l. Linkable(t, I, e, p, d)
  BY <1>4, <1>5, <1>6, <1>8, <1>9 DEF Linkable
<1>10. /\ \E H2 : Heights(r, I \cup {e}, H2, Null, "left")
       /\ NoRedPair(r, I \cup {e}, {e}) /\ (Black(r, r.root) \/ r.root = e) /\ r.color[e] = "red"
  BY <1>1, <1>2, <1>l, LinkColours
<1>11. Growing(r, I \cup {e}, e)
  BY <1>7, <1>10 DEF Growing, IsTree
<1>12. Fresh(r, Entries \ (I \cup {e}))
  <2>1. /\ r.color = t.color
        /\ \A x \in Entries : r.parent[x] = IF x = e THEN p ELSE t.parent[x]
        /\ \A a \in Dirs, x \in Entries : r.child[a][x] = IF x = p /\ a = d THEN e ELSE t.child[a][x]
    BY DEF Linked
  <2>2. \A x \in Entries \ (I \cup {e}) : x # p /\ x # e
    BY <1>4, <1>6
  <2> QED
    BY <2>1, <2>2 DEF Fresh
<1> QED
  BY <1>11, <1>12

LEMMA InsertKeeps ==
  ASSUME RbHolds, NEW e \in Entries, RbInsert(e)
  PROVE  RbHolds'
<1>1. PICK place : place = RbPlace(KeyOf[e])
  OBVIOUS
<1>2. PICK p : p = place.at
  OBVIOUS
<1>3. PICK d : d = place.side
  OBVIOUS
<1>4. /\ rbFix.op = "idle" /\ e \notin rbIn /\ d # "found" /\ rbIn' = rbIn \cup {e}
      /\ rbFix' = [RbIdle EXCEPT !.op = "insert", !.node = e]
  BY <1>1, <1>3 DEF RbInsert, RbFree
<1>5. InsertLinked(rb, e, p, d, rb')
  BY <1>1, <1>2, <1>3 DEF RbInsert, InsertLinked
<1>6. /\ Sound(rb, rbIn) /\ Fresh(rb, Entries \ rbIn) /\ rb \in Trees /\ rbIn \in SUBSET Entries
      /\ rb.root = Null <=> rbIn = {}
      /\ Null \notin rbIn
  BY <1>4, RestOf
<1>7. PICK S : AtRest(S)
  BY <1>4, RestOf
<1>8. NewPlace(rb, rbIn, e, p, d) /\ p \in RbNodes
  <2>1. CASE rb.root = Null
    <3>1. place = [at |-> Null, side |-> "left"]
      BY <1>1, <2>1 DEF RbPlace
    <3>2. p = Null /\ d = "left"
      BY <1>2, <1>3, <3>1
    <3> QED
      BY <1>6, <2>1, <3>2 DEF NewPlace, Dirs, RbNodes
  <2>2. CASE rb.root # Null
    <3>1. Placed(place, e, rbIn)
      BY <1>1, <1>7, <2>2, PlaceIs
    <3>2. /\ p \in rbIn /\ d \in Dirs /\ rb.child[d][p] = Null /\ Side(d, e, p)
          /\ \A m \in rbIn \ {p} : \A a \in Dirs : Side(a, e, m) <=> Side(a, p, m)
      BY <1>2, <1>3, <1>4, <3>1 DEF Placed
    <3>3. \A m \in rbIn : KeyOf[m] # KeyOf[e]
      BY <1>1, <1>3, <1>4, <1>7, <2>2, PlaceIsNew
    <3>4. p # Null /\ p \in RbNodes
      BY <1>6, <3>2 DEF RbNodes
    <3> QED
      BY <3>2, <3>3, <3>4 DEF NewPlace
  <2> QED
    BY <2>1, <2>2
<1>9. d \in Dirs
  BY <1>8 DEF NewPlace
<1>10. Linked(rb, rb', e, p, d)
  BY <1>5, <1>6, <1>8, <1>9, LinkedIs
<1>11. Growing(rb', rbIn \cup {e}, e) /\ Fresh(rb', Entries \ (rbIn \cup {e}))
  BY <1>4, <1>6, <1>8, <1>10, LinkIs
<1>12. rbFix' \in RbFixes /\ rbFix'.op = "insert" /\ rbFix'.node = e
  BY <1>4 DEF RbIdle, RbFixes, RbNodes
<1>13. Growing(rb', rbIn', rbFix'.node) /\ Fresh(rb', Entries \ rbIn')
  BY <1>4, <1>11, <1>12
<1> QED
  BY <1>12, <1>13, HoldsGrowing

(* --- one entry in the place of another --------------------------------- *)

LEMMA RenamedUntouched ==
  ASSUME NEW t, NEW I, NEW S, RbTreeOf(t, I, S), NEW old \in I, NEW s \in Entries \ I,
         NEW u, Renamed(t, u, old, s)
  PROVE  Untouched(t, u, Entries \ (I \cup {s}))
<1>1. /\ Null \notin Entries /\ I \subseteq Entries
      /\ t.parent[old] # Null => t.parent[old] \in I
  BY TreeNode, EntriesAssumption
<1>2. \A a \in Dirs : t.child[a][old] # Null => t.child[a][old] \in I
  BY TreeChild
<1>3. \A x \in Entries \ {s} :
       /\ u.color[x] = t.color[x]
       /\ u.parent[x] = IF \E a \in Dirs : t.child[a][old] = x THEN s ELSE t.parent[x]
       /\ \A a \in Dirs : u.child[a][x] = IF x = t.parent[old] /\ t.child[a][x] = old THEN s ELSE t.child[a][x]
  BY DEF Renamed
<1>4. ASSUME NEW x \in Entries \ (I \cup {s})
      PROVE  /\ u.parent[x] = t.parent[x] /\ u.color[x] = t.color[x]
             /\ \A e \in Dirs : u.child[e][x] = t.child[e][x]
  <2>1. x # t.parent[old] /\ \A a \in Dirs : t.child[a][old] # x
    BY <1>1, <1>2
  <2> QED
    BY <1>3, <2>1
<1> QED
  BY <1>4 DEF Untouched

(* s fits where old is: no key of I lies between theirs. *)
Fits(I, old, s) ==
  \A m \in I \ {old} : KeyOf[m] # KeyOf[s] /\ \A a \in Dirs : Side(a, s, m) <=> Side(a, old, m)

LEMMA ReplacedSound ==
  ASSUME NEW t, NEW I, Sound(t, I), NEW old \in I, NEW s \in Entries \ I, Fits(I, old, s),
         NEW u, u = Transplant(t, old, s)
  PROVE  Sound(u, (I \ {old}) \cup {s}) /\ Untouched(t, u, Entries \ (I \cup {s}))
<1>1. IsTree(t, I) /\ NoRedPair(t, I, {}) /\ Black(t, t.root)
  BY DEF Sound
<1>2. PICK H : Heights(t, I, H, Null, "left")
  BY DEF Sound
<1>3. PICK S : RbTreeOf(t, I, S)
  BY <1>1 DEF IsTree
<1>4. Null \notin Entries /\ I \subseteq Entries
  BY <1>1, TreeFacts
<1>5. Renamed(t, u, old, s)
  BY <1>3, TransplantIs
<1>6. IsTree(u, (I \ {old}) \cup {s})
  BY <1>3, <1>5, TransplantTree DEF Fits, IsTree
<1>7. /\ \E H2 : Heights(u, (I \ {old}) \cup {s}, H2, Null, "left")
      /\ NoRedPair(u, (I \ {old}) \cup {s}, {}) /\ Black(u, u.root)
  <2>1. Null # s /\ Null # old /\ old \notin {}
    BY <1>4
  <2>2. /\ \E H2 : Heights(u, (I \ {old}) \cup {s}, H2, IF Null = old THEN s ELSE Null, "left")
        /\ NoRedPair(u, (I \ {old}) \cup {s}, {}) /\ Black(u, u.root)
    BY <1>1, <1>2, <1>3, <1>5, <2>1, TransplantColours
  <2> QED
    BY <2>1, <2>2
<1>8. Untouched(t, u, Entries \ (I \cup {s}))
  BY <1>3, <1>5, RenamedUntouched
<1> QED
  BY <1>6, <1>7, <1>8 DEF Sound

LEMMA ReplaceKeeps ==
  ASSUME RbHolds, NEW e \in Entries, NEW f \in Entries, RbReplace(e, f)
  PROVE  RbHolds'
<1>1. /\ rbFix.op = "idle" /\ e \in rbIn /\ f \notin rbIn /\ rbFix' = rbFix
      /\ rb' = RbFreed(Transplant(rb, e, f), e) /\ rbIn' = (rbIn \ {e}) \cup {f}
      /\ \A n \in rbIn \ {e} : KeyOf[n] # KeyOf[f] /\ (KeyOf[n] < KeyOf[e] <=> KeyOf[n] < KeyOf[f])
  BY DEF RbReplace, RbFree
<1>2. Sound(rb, rbIn) /\ Fresh(rb, Entries \ rbIn) /\ rbIn \in SUBSET Entries
  BY <1>1, RestOf
<1>3. \A m \in rbIn \ {e} : KeyOf[m] # KeyOf[e]
  <2>1. PICK S : RbTreeOf(rb, rbIn, S)
    BY <1>2 DEF Sound, IsTree
  <2> QED
    BY <1>1, <2>1 DEF RbTreeOf
<1>4. Fits(rbIn, e, f)
  <2> SUFFICES ASSUME NEW m \in rbIn \ {e}
               PROVE  KeyOf[m] # KeyOf[f] /\ \A a \in Dirs : Side(a, f, m) <=> Side(a, e, m)
    BY DEF Fits
  <2>1. KeyOf[m] \in Int /\ KeyOf[e] \in Int /\ KeyOf[f] \in Int
    BY <1>2, EntriesAssumption
  <2>2. KeyOf[m] # KeyOf[f] /\ (KeyOf[m] < KeyOf[e] <=> KeyOf[m] < KeyOf[f]) /\ KeyOf[m] # KeyOf[e]
    BY <1>1, <1>3
  <2>3. KeyOf[f] < KeyOf[m] <=> KeyOf[e] < KeyOf[m]
    BY <2>1, <2>2
  <2> QED
    BY <2>2, <2>3 DEF Side, Dirs
<1>5. PICK u : u = Transplant(rb, e, f)
  OBVIOUS
<1>6. PICK J : J = (rbIn \ {e}) \cup {f}
  OBVIOUS
<1>7. f \in Entries \ rbIn /\ e \in Entries \ J
  BY <1>1, <1>2, <1>6
<1>8. Sound(u, J) /\ Untouched(rb, u, Entries \ (rbIn \cup {f}))
  BY <1>1, <1>2, <1>4, <1>5, <1>6, <1>7, ReplacedSound
<1>9. Fresh(u, Entries \ (J \cup {e}))
  <2>1. \A x \in Entries \ (J \cup {e}) : x \in Entries \ rbIn /\ x \in Entries \ (rbIn \cup {f})
    BY <1>6
  <2> QED
    BY <1>2, <1>8, <2>1 DEF Fresh, Untouched
<1>10. PICK r : r = RbFreed(u, e)
  OBVIOUS
<1>11. Sound(r, J) /\ Fresh(r, Entries \ J)
  BY <1>7, <1>8, <1>9, <1>10, FreedSound
<1>12. rb' = r /\ rbIn' = J
  BY <1>1, <1>5, <1>6, <1>10
<1>13. Sound(rb', rbIn') /\ Fresh(rb', Entries \ rbIn')
  BY <1>11, <1>12
<1> QED
  BY <1>1, <1>13 DEF RbHolds

(* --- the links of an erasure ------------------------------------------- *)

Loose(t, I, n, c, p) == Sound(t, I) /\ n \in I /\ Detached(t, n, c, p)

LEMMA LooseIs ==
  ASSUME NEW t, NEW I, NEW n, NEW c, NEW p, Loose(t, I, n, c, p)
  PROVE  /\ IsTree(t, I) /\ n \in I /\ t \in Trees /\ I \subseteq Entries /\ Null \notin Entries /\ IsTree(t, I)
         /\ p # Null => p \in I \ {n} /\ n # t.root
         /\ p = Null => n = t.root
         /\ c # Null => c \in I \ {n} /\ t.parent[c] = n /\ c # t.root
         /\ c # Null => t.color[c] = "red"
<1>1. /\ Sound(t, I) /\ n \in I /\ c = OnlyChild(t, n) /\ p = t.parent[n]
      /\ \E a \in Dirs : t.child[a][n] = Null
  BY DEF Loose, Detached
<1>d. Detached(t, n, c, p) /\ n \in I
  BY DEF Loose
<1>2. IsTree(t, I) /\ NoRedPair(t, I, {}) /\ Black(t, t.root)
  BY <1>1 DEF Sound
<1>3. PICK H : Heights(t, I, H, Null, "left")
  BY <1>1 DEF Sound
<1>4. PICK S : RbTreeOf(t, I, S)
  BY <1>2 DEF IsTree
<1>5. t \in Trees /\ I \subseteq Entries /\ Null \notin Entries
  BY <1>2, TreeFacts
<1>6. /\ p # Null => p \in I \ {n} /\ n # t.root
      /\ p = Null => n = t.root
  BY <1>1, <1>4, ParentLink, TreeNode
<1>7. c # Null => c \in I /\ c # n /\ t.parent[c] = n /\ c # t.root
  BY <1>1, <1>4, OnlyChildIs
<1>8. PICK r : r = Unlink(t, n)
  OBVIOUS
<1>9. Unlinked(t, r, n, c)
  BY <1>1, <1>4, <1>8, UnlinkIs
<1>10. c # Null => t.color[c] = "red"
  BY <1>2, <1>3, <1>4, <1>9, <1>d, UnlinkColours
<1> QED
  BY <1>1, <1>2, <1>5, <1>6, <1>7, <1>10

LEMMA UnlinkedUntouched ==
  ASSUME NEW t, NEW I, NEW n, NEW c, NEW p, Loose(t, I, n, c, p), NEW r, Unlinked(t, r, n, c)
  PROVE  Untouched(t, r, Entries \ I)
<1>1. /\ Null \notin Entries /\ I \subseteq Entries
      /\ p # Null => p \in I \ {n}
      /\ c # Null => c \in I \ {n}
  BY LooseIs
<1>2. p = t.parent[n]
  BY DEF Loose, Detached
<1>3. /\ r.color = t.color
      /\ \A x \in Entries : r.parent[x] = IF x = c THEN p ELSE t.parent[x]
      /\ \A a \in Dirs, x \in Entries :
           r.child[a][x] = IF x = p /\ t.child[a][x] = n THEN c ELSE t.child[a][x]
  BY <1>2 DEF Unlinked
<1>4. ASSUME NEW x \in Entries \ I
      PROVE  /\ r.parent[x] = t.parent[x] /\ r.color[x] = t.color[x]
             /\ \A e \in Dirs : r.child[e][x] = t.child[e][x]
  <2>1. x # p /\ x # c
    BY <1>1
  <2> QED
    BY <1>3, <2>1
<1> QED
  BY <1>4 DEF Untouched

(* A red node leaves a tree at rest. *)
LEMMA RedUnlinked ==
  ASSUME NEW t, NEW I, NEW n, NEW c, NEW p, Loose(t, I, n, c, p), ~Black(t, n),
         NEW r, r = Unlink(t, n)
  PROVE  Sound(r, I \ {n}) /\ Untouched(t, r, Entries \ I)
<1>1. /\ Sound(t, I) /\ n \in I /\ c = OnlyChild(t, n) /\ p = t.parent[n]
      /\ \E a \in Dirs : t.child[a][n] = Null
  BY DEF Loose, Detached
<1>d. Detached(t, n, c, p) /\ n \in I
  BY DEF Loose
<1>2. IsTree(t, I) /\ NoRedPair(t, I, {}) /\ Black(t, t.root)
  BY <1>1 DEF Sound
<1>3. PICK H : Heights(t, I, H, Null, "left")
  BY <1>1 DEF Sound
<1>4. PICK S : RbTreeOf(t, I, S)
  BY <1>2 DEF IsTree
<1>5. Unlinked(t, r, n, c)
  BY <1>1, <1>4, UnlinkIs
<1>6. IsTree(r, I \ {n})
  BY <1>1, <1>4, <1>5, UnlinkTree DEF IsTree
<1>b. RedGone(r, I \ {n}, H) /\ RootAfter(t, r, c, p)
  BY <1>2, <1>3, <1>4, <1>5, <1>d, UnlinkColours
<1>7. Heights(r, I \ {n}, H, Null, "left") /\ NoRedPair(r, I \ {n}, {})
  BY <1>b DEF RedGone
<1>8. p # Null
  <2>1. p = Null => n = t.root
    BY LooseIs
  <2> QED
    BY <1>2, <2>1
<1>9. Untouched(t, r, Entries \ I)
  BY <1>5, UnlinkedUntouched
<1> QED
  BY <1>6, <1>7, <1>8, <1>9, <1>b DEF Sound, RootAfter

(* A black node leaves a tree whose paths through its child lack one. *)
LEMMA BlackUnlinked ==
  ASSUME NEW t, NEW I, NEW n, NEW c, NEW p, Loose(t, I, n, c, p), Black(t, n),
         NEW r, r = Unlink(t, n)
  PROVE  /\ IsTree(r, I \ {n}) /\ Unlinked(t, r, n, c) /\ RootAfter(t, r, c, p)
         /\ \E H : BlackGone(r, I \ {n}, H, c, p)
<1>1. /\ Sound(t, I) /\ n \in I /\ c = OnlyChild(t, n)
      /\ \E a \in Dirs : t.child[a][n] = Null
  BY DEF Loose, Detached
<1>d. Detached(t, n, c, p) /\ n \in I
  BY DEF Loose
<1>2. IsTree(t, I) /\ NoRedPair(t, I, {}) /\ Black(t, t.root)
  BY <1>1 DEF Sound
<1>3. PICK H : Heights(t, I, H, Null, "left")
  BY <1>1 DEF Sound
<1>4. PICK S : RbTreeOf(t, I, S)
  BY <1>2 DEF IsTree
<1>5. Unlinked(t, r, n, c)
  BY <1>1, <1>4, UnlinkIs
<1>6. IsTree(r, I \ {n})
  BY <1>1, <1>4, <1>5, UnlinkTree DEF IsTree
<1>7. BlackGone(r, I \ {n}, H, c, p) /\ RootAfter(t, r, c, p)
  BY <1>2, <1>3, <1>4, <1>5, <1>d, UnlinkColours
<1> QED
  BY <1>5, <1>6, <1>7

(* Without a successor in its place. *)
LEMMA BlackLacks ==
  ASSUME NEW t, NEW I, NEW n, NEW c, NEW p, Loose(t, I, n, c, p), Black(t, n),
         NEW r, r = Unlink(t, n)
  PROVE  Lacking(r, I \ {n}, c, p)
<1>1. PICK J : J = I \ {n}
  OBVIOUS
<1>2. IsTree(r, J) /\ Unlinked(t, r, n, c) /\ RootAfter(t, r, c, p) /\ \E H : BlackGone(r, J, H, c, p)
  BY <1>1, BlackUnlinked
<1>3. PICK H : BlackGone(r, J, H, c, p)
  BY <1>2
<1>4. PICK D \in Dirs : (p # Null => r.child[D][p] = c) /\ Heights(r, J, H, p, D)
  BY <1>3 DEF BlackGone
<1>5. NoRedPair(r, J, {c})
  BY <1>3 DEF BlackGone
<1>6. /\ Null \notin Entries /\ I \subseteq Entries
      /\ p # Null => p \in I \ {n}
      /\ c # Null => c \in I \ {n}
  BY LooseIs
<1>7. NoRedPair(r, J, {x \in J : x = c \/ r.parent[x] = c})
  <2> SUFFICES ASSUME NEW x \in J, x # r.root, ~(x = c \/ r.parent[x] = c)
               PROVE  Black(r, x) \/ Black(r, r.parent[x])
    BY DEF NoRedPair
  <2> QED
    BY <1>5 DEF NoRedPair
<1>8. Black(r, r.root) \/ r.root = c
  BY <1>2 DEF RootAfter
<1>9. c # Null => c \in J /\ p = r.parent[c]
  <2>1. p = t.parent[n]
    BY DEF Loose, Detached
  <2>2. \A x \in Entries : r.parent[x] = IF x = c THEN p ELSE t.parent[x]
    BY <1>2, <2>1 DEF Unlinked
  <2> QED
    BY <1>1, <1>6, <2>2
<1>10. c = Null /\ p = Null => J = {}
  <2> SUFFICES ASSUME c = Null, p = Null PROVE J = {}
    OBVIOUS
  <2>1. r.root = Null
    BY <1>2 DEF RootAfter
  <2> QED
    BY <1>2, <2>1, TreeFacts
<1>11. p # Null => p \in J /\ D \in Dirs /\ r.child[D][p] = c
  BY <1>1, <1>4, <1>6
<1>12. \E G, E : /\ Heights(r, J, G, p, E)
                 /\ p # Null => p \in J /\ E \in Dirs /\ r.child[E][p] = c
  BY <1>4, <1>11
<1>13. Lacking(r, J, c, p)
  BY <1>2, <1>7, <1>8, <1>9, <1>10, <1>12 DEF Lacking
<1> QED
  BY <1>1, <1>13

(* The successor, black, in the place of the erased node. *)
Movable(t, I, n, c, p, old) ==
  /\ Loose(t, I, n, c, p) /\ p # Null
  /\ old \in I \ {n} /\ old # c /\ Fits(I \ {n}, old, n)

Moved(t, n, old, u) == u = Transplant(Unlink(t, n), old, n)

LackAfter(u, K, c, p, old) ==
  /\ \E q : Lacking(u, K, c, q) /\ (p # old => p = q)
  /\ c # Null => u.color[c] = "red"

LEMMA BlackMoves ==
  ASSUME NEW t, NEW I, NEW n, NEW c, NEW p, NEW old, Movable(t, I, n, c, p, old), Black(t, n),
         NEW u, Moved(t, n, old, u)
  PROVE  LackAfter(u, I \ {old}, c, p, old)
<1> USE DEF Movable
<1>0. PICK t1 : t1 = Unlink(t, n) /\ u = Transplant(t1, old, n)
  BY DEF Moved
<1>1. PICK J : J = I \ {n}
  OBVIOUS
<1>2. PICK K : K = I \ {old}
  OBVIOUS
<1>3. /\ IsTree(t, I) /\ n \in I /\ t \in Trees /\ I \subseteq Entries /\ Null \notin Entries
      /\ p \in J /\ n # t.root
      /\ c # Null => c \in J /\ t.parent[c] = n /\ c # t.root
      /\ c # Null => t.color[c] = "red"
  BY <1>1, LooseIs
<1>4. (J \ {old}) \cup {n} = K /\ n \notin J /\ n \in Entries /\ n \in K /\ old \in J /\ n # old
      /\ n \in Entries \ J
  BY <1>1, <1>2, <1>3
<1>5. IsTree(t1, J) /\ Unlinked(t, t1, n, c) /\ RootAfter(t, t1, c, p) /\ \E H : BlackGone(t1, J, H, c, p)
  BY <1>0, <1>1, BlackUnlinked
<1>6. PICK H : BlackGone(t1, J, H, c, p)
  BY <1>5
<1>7. PICK D \in Dirs : t1.child[D][p] = c /\ Heights(t1, J, H, p, D)
  BY <1>6 DEF BlackGone
<1>8. NoRedPair(t1, J, {c}) /\ t1.root = t.root /\ Black(t1, t1.root)
  BY <1>5, <1>6 DEF BlackGone, RootAfter
<1>9. PICK S : RbTreeOf(t1, J, S)
  BY <1>5 DEF IsTree
<1>10. Renamed(t1, u, old, n)
  BY <1>0, <1>4, <1>9, TransplantIs
<1>11. Fits(J, old, n)
  BY <1>1
<1>12. IsTree(u, K)
  <2>1. \E S2 : RbTreeOf(u, (J \ {old}) \cup {n}, S2)
    BY <1>4, <1>9, <1>10, <1>11, TransplantTree DEF Fits
  <2> QED
    BY <1>4, <2>1 DEF IsTree
<1>13. PICK q : q = IF p = old THEN n ELSE p
  OBVIOUS
<1>14. /\ \E H2 : Heights(u, K, H2, q, D)
       /\ NoRedPair(u, K, {c}) /\ Black(u, u.root)
  <2>1. p # n /\ old \notin {c}
    BY <1>1, <1>3
  <2>2. /\ \E H2 : Heights(u, (J \ {old}) \cup {n}, H2, IF p = old THEN n ELSE p, D)
        /\ NoRedPair(u, (J \ {old}) \cup {n}, {c}) /\ Black(u, u.root)
    BY <1>4, <1>7, <1>8, <1>9, <1>10, <2>1, TransplantColours
  <2> QED
    BY <1>4, <1>13, <2>2
<1>15. q \in K /\ q # Null
  BY <1>1, <1>2, <1>3, <1>4, <1>13
<1>16. u.child[D][q] = c
  <2>1. CASE p = old
    <3>1. \A a \in Dirs : u.child[a][n] = t1.child[a][old]
      BY <1>10 DEF Renamed
    <3> QED
      BY <1>7, <1>13, <2>1, <3>1
  <2>2. CASE p # old
    <3>1. p \in J \ {old}
      BY <1>3, <2>2
    <3>2. \A a \in Dirs : u.child[a][p] = IF t1.child[a][p] = old THEN n ELSE t1.child[a][p]
      BY <1>4, <1>9, <1>10, <3>1, RenamedFacts
    <3> QED
      BY <1>7, <1>13, <2>2, <3>2
  <2> QED
    BY <2>1, <2>2
<1>17. c # Null => c \in K /\ u.parent[c] = q /\ u.color[c] = "red"
  <2> SUFFICES ASSUME c # Null PROVE c \in K /\ u.parent[c] = q /\ u.color[c] = "red"
    OBVIOUS
  <2>1. c \in J \ {old} /\ c \in K /\ c # t1.root
    BY <1>1, <1>2, <1>3, <1>8
  <2>2. p = t.parent[n]
    BY DEF Loose, Detached
  <2>3. t1.parent[c] = p /\ t1.color[c] = "red"
    <3>1. t1.color = t.color /\ \A x \in Entries : t1.parent[x] = IF x = c THEN p ELSE t.parent[x]
      BY <1>5, <2>2 DEF Unlinked
    <3>2. c \in Entries
      BY <1>1, <1>3, <2>1
    <3>3. t.color[c] = "red"
      BY <1>3
    <3> QED
      BY <3>1, <3>2, <3>3
  <2>4. /\ u.color[c] = t1.color[c]
        /\ u.parent[c] = IF t1.parent[c] = old THEN n ELSE t1.parent[c]
    BY <1>4, <1>9, <1>10, <2>1, RenamedFacts
  <2> QED
    BY <1>13, <2>1, <2>3, <2>4
<1>18. NoRedPair(u, K, {x \in K : x = c \/ u.parent[x] = c})
  <2> SUFFICES ASSUME NEW x \in K, x # u.root, ~(x = c \/ u.parent[x] = c)
               PROVE  Black(u, x) \/ Black(u, u.parent[x])
    BY DEF NoRedPair
  <2> QED
    BY <1>14 DEF NoRedPair
<1>19. \E G, E : /\ Heights(u, K, G, q, E)
                 /\ q # Null => q \in K /\ E \in Dirs /\ u.child[E][q] = c
  BY <1>7, <1>14, <1>15, <1>16
<1>20. Lacking(u, K, c, q)
  BY <1>12, <1>14, <1>15, <1>17, <1>18, <1>19 DEF Lacking
<1>21. /\ \E x : Lacking(u, K, c, x) /\ (p # old => p = x)
       /\ c # Null => u.color[c] = "red"
  BY <1>13, <1>17, <1>20
<1> QED
  BY <1>2, <1>21 DEF LackAfter

LEMMA SuccessorIs ==
  ASSUME Sound(rb, rbIn), NEW S, AtRest(S), NEW e \in rbIn, TwoChildren(e), NEW s, s = Successor(e)
  PROVE  /\ s \in rbIn \ {e} /\ rb.child["left"][s] = Null /\ Fits(rbIn \ {s}, e, s)
         /\ OnlyChild(rb, s) = rb.child["right"][s] /\ OnlyChild(rb, s) # e
<1>1. RbTreeOf(rb, rbIn, S) /\ rbIn \subseteq Entries /\ e \in Entries /\ Null \notin Entries
  BY EntriesAssumption DEF AtRest, RbTreeOf
<1>2. "left" \in Dirs /\ "right" \in Dirs
  BY DEF Dirs
<1>3. PICK k : k = rb.child["right"][e]
  OBVIOUS
<1>4. k # Null
  BY <1>2, <1>3 DEF TwoChildren
<1>5. k \in rbIn /\ S[k] \subseteq rbIn
  <2>1. k \in rbIn
    BY <1>1, <1>2, <1>3, <1>4, TreeChild
  <2> QED
    BY <1>1, <2>1, TreeNode
<1>6. s = RbEnd(k, "left")
  BY <1>3 DEF Successor
<1>7. s \in S[k] /\ rb.child["left"][s] = Null
  BY <1>2, <1>5, <1>6, EndIs
<1>8. s \in rbIn /\ s \in Entries
  BY <1>1, <1>5, <1>7
<1>9. RbStep(e, "right") = s
  BY <1>3, <1>4, <1>6 DEF RbStep, Opp
<1>10. Nearest(s, rbIn, e, "right")
  BY <1>2, <1>9, StepIs
<1>11. s # Null
  BY <1>1, <1>8
<1>12. /\ KeyOf[e] < KeyOf[s]
       /\ \A m \in rbIn : KeyOf[e] < KeyOf[m] => m = s \/ KeyOf[s] < KeyOf[m]
  BY <1>10, <1>11 DEF Nearest, Side
<1>13. KeyOf \in [Entries -> Int]
  BY EntriesAssumption
<1>14. s # e
  BY <1>1, <1>8, <1>12, <1>13
<1>15. \A m, n \in rbIn : KeyOf[m] = KeyOf[n] => m = n
  BY <1>1 DEF RbTreeOf
<1>16. Fits(rbIn \ {s}, e, s)
  <2> SUFFICES ASSUME NEW m \in (rbIn \ {s}) \ {e}
               PROVE  KeyOf[m] # KeyOf[s] /\ \A a \in Dirs : Side(a, s, m) <=> Side(a, e, m)
    BY DEF Fits
  <2>1. KeyOf[m] \in Int /\ KeyOf[e] \in Int /\ KeyOf[s] \in Int
    BY <1>1, <1>8, <1>13
  <2>2. KeyOf[m] # KeyOf[s] /\ KeyOf[m] # KeyOf[e]
    BY <1>8, <1>15
  <2>3. KeyOf[e] < KeyOf[m] => KeyOf[s] < KeyOf[m]
    BY <1>12
  <2>4. /\ KeyOf[s] < KeyOf[m] <=> KeyOf[e] < KeyOf[m]
        /\ KeyOf[m] < KeyOf[s] <=> KeyOf[m] < KeyOf[e]
    BY <1>12, <2>1, <2>2, <2>3
  <2> QED
    BY <2>2, <2>4 DEF Side, Dirs
<1>17. OnlyChild(rb, s) = rb.child["right"][s]
  BY <1>7 DEF OnlyChild
<1>18. rb.child["right"][s] # e
  <2> SUFFICES ASSUME rb.child["right"][s] = e PROVE FALSE
    OBVIOUS
  <2>1. rb.child["right"][s] # Null
    BY <1>1
  <2>2. /\ rb.child["right"][s] \in S[rb.child["right"][s]]
        /\ \A m \in S[rb.child["right"][s]] : Side("right", m, s)
    BY <1>1, <1>2, <1>8, <2>1, TreeChild
  <2>3. Side("right", e, s)
    BY <2>2
  <2>4. KeyOf[s] < KeyOf[e]
    BY <2>3 DEF Side
  <2> QED
    BY <1>1, <1>8, <1>12, <1>13, <2>4
<1> QED
  BY <1>7, <1>8, <1>14, <1>16, <1>17, <1>18

(* What an erasure leaves: a tree at rest, or a loop to run. *)
EraseLeft(t, I, c, p, black, e) ==
  /\ Fresh(t, Entries \ (I \cup {e}))
  /\ ~black => Sound(t, I)
  /\ black => \E q : Lacking(t, I, c, q) /\ (Short(t, c) => p = q)

LEMMA EraseHere ==
  ASSUME NEW t, NEW I, NEW e, NEW c, NEW p, Loose(t, I, e, c, p), Fresh(t, Entries \ I),
         NEW r, r = Unlink(t, e)
  PROVE  EraseLeft(r, I \ {e}, c, p, Black(t, e), e)
<1>1. Unlinked(t, r, e, c)
  <2>1. PICK S : RbTreeOf(t, I, S)
    BY DEF Loose, Sound, IsTree
  <2> QED
    BY <2>1, UnlinkIs DEF Loose, Detached
<1>2. Untouched(t, r, Entries \ I)
  BY <1>1, UnlinkedUntouched
<1>3. Fresh(r, Entries \ I)
  BY <1>2, FreshKept
<1>4. Fresh(r, Entries \ ((I \ {e}) \cup {e}))
  BY <1>3 DEF Fresh
<1>5. ~Black(t, e) => Sound(r, I \ {e})
  BY RedUnlinked
<1>6. Black(t, e) => Lacking(r, I \ {e}, c, p)
  BY BlackLacks
<1> QED
  BY <1>4, <1>5, <1>6 DEF EraseLeft

LEMMA LackStarts ==
  ASSUME NEW u, NEW K, NEW c, NEW p, NEW e, LackAfter(u, K, c, p, e), p = e => c # Null
  PROVE  \E q : Lacking(u, K, c, q) /\ (Short(u, c) => p = q)
<1>1. PICK q : Lacking(u, K, c, q) /\ (p # e => p = q)
  BY DEF LackAfter
<1>2. c # Null => u.color[c] = "red"
  BY DEF LackAfter
<1>3. Short(u, c) => p # e
  BY <1>2 DEF Short, Black
<1> QED
  BY <1>1, <1>3

(* The loop would start at the entry that goes. *)
Gone(t, n, c, p, e) == p = e /\ Black(t, n) /\ c = Null

LEMMA EraseThere ==
  ASSUME NEW t, NEW I, NEW n, NEW c, NEW p, NEW e, Movable(t, I, n, c, p, e), Fresh(t, Entries \ I),
         ~Gone(t, n, c, p, e), NEW u, Moved(t, n, e, u)
  PROVE  EraseLeft(u, I \ {e}, c, p, Black(t, n), e)
<1>l. Loose(t, I, n, c, p) /\ e \in I \ {n} /\ e # c /\ Fits(I \ {n}, e, n)
  BY DEF Movable
<1>m. PICK t1 : t1 = Unlink(t, n) /\ u = Transplant(t1, e, n)
  BY DEF Moved
<1>0. n \in I /\ I \subseteq Entries /\ Null \notin Entries
  BY <1>l, LooseIs
<1>1. Unlinked(t, t1, n, c)
  <2>1. PICK S : RbTreeOf(t, I, S)
    BY <1>l DEF Loose, Sound, IsTree
  <2> QED
    BY <1>l, <1>m, <2>1, UnlinkIs DEF Loose, Detached
<1>2. Untouched(t, t1, Entries \ I)
  BY <1>l, <1>1, UnlinkedUntouched
<1>3. Fresh(t1, Entries \ I)
  BY <1>2, FreshKept
<1>4. n \in Entries \ (I \ {n}) /\ ((I \ {n}) \ {e}) \cup {n} = I \ {e} /\ (I \ {n}) \cup {n} = I
  BY <1>0, <1>l
<1>5. IsTree(t1, I \ {n})
  <2>1. CASE Black(t, n)
    BY <1>l, <1>m, <2>1, BlackUnlinked
  <2>2. CASE ~Black(t, n)
    BY <1>l, <1>m, <2>2, RedUnlinked DEF Sound
  <2> QED
    BY <2>1, <2>2
<1>6. Untouched(t1, u, Entries \ I)
  <2>1. PICK S : RbTreeOf(t1, I \ {n}, S)
    BY <1>5 DEF IsTree
  <2>2. Renamed(t1, u, e, n)
    BY <1>4, <1>l, <1>m, <2>1, TransplantIs
  <2>3. Untouched(t1, u, Entries \ ((I \ {n}) \cup {n}))
    BY <1>4, <1>l, <2>1, <2>2, RenamedUntouched
  <2> QED
    BY <1>4, <2>3
<1>7. Fresh(u, Entries \ I)
  BY <1>3, <1>6, FreshKept
<1>8. Fresh(u, Entries \ ((I \ {e}) \cup {e}))
  BY <1>7, <1>l DEF Fresh
<1>9. ASSUME ~Black(t, n)
      PROVE  Sound(u, I \ {e})
  <2>1. Sound(t1, I \ {n})
    BY <1>9, <1>l, <1>m, RedUnlinked
  <2>2. Sound(u, ((I \ {n}) \ {e}) \cup {n})
    BY <1>4, <1>l, <1>m, <2>1, ReplacedSound
  <2> QED
    BY <1>4, <2>2
<1>10. ASSUME Black(t, n)
       PROVE  \E q : Lacking(u, I \ {e}, c, q) /\ (Short(u, c) => p = q)
  <2>1. LackAfter(u, I \ {e}, c, p, e)
    BY <1>10, BlackMoves
  <2>2. p = e => c # Null
    BY <1>10 DEF Gone
  <2> QED
    BY <2>1, <2>2, LackStarts
<1> QED
  BY <1>8, <1>9, <1>10 DEF EraseLeft

(* The loop of an erasure starts with what the links left. *)
LEMMA EraseStarts ==
  ASSUME RbHolds, NEW e \in Entries, NEW s, NEW c \in RbNodes, NEW p \in RbNodes,
         NEW t, EraseLeft(t, rbIn \ {e}, c, p, Black(rb, s), e),
         rb' = (IF Black(rb, s) THEN t ELSE RbFreed(t, e)),
         rbFix' = (IF Black(rb, s) THEN [op |-> "erase", node |-> c, parent |-> p, gone |-> e] ELSE RbIdle),
         rbIn' = rbIn \ {e}
  PROVE  RbHolds'
<1>1. PICK I : I = rbIn \ {e}
  OBVIOUS
<1>2. Fresh(t, Entries \ (I \cup {e})) /\ e \in Entries \ I
  BY <1>1 DEF EraseLeft
<1>3. CASE Black(rb, s)
  <2>1. PICK q : Lacking(t, I, c, q) /\ (Short(t, c) => p = q)
    BY <1>1, <1>3 DEF EraseLeft
  <2>2. rb' = t /\ rbIn' = I /\ rbFix' = [op |-> "erase", node |-> c, parent |-> p, gone |-> e]
    BY <1>1, <1>3
  <2>3. /\ rbFix' \in RbFixes /\ rbFix'.op = "erase" /\ rbFix'.node = c /\ rbFix'.parent = p
        /\ rbFix'.gone = e
    BY <2>2 DEF RbFixes, RbNodes
  <2>4. Lacking(rb', rbIn', rbFix'.node, q) /\ (Short(rb', rbFix'.node) => rbFix'.parent = q)
    BY <2>1, <2>2, <2>3
  <2>5. rbFix'.gone \in Entries \ rbIn' /\ Fresh(rb', Entries \ (rbIn' \cup {rbFix'.gone}))
    BY <1>2, <2>2, <2>3
  <2> QED
    BY <2>3, <2>4, <2>5, HoldsErasing
<1>4. CASE ~Black(rb, s)
  <2>1. Sound(t, I)
    BY <1>1, <1>4 DEF EraseLeft
  <2>2. PICK r : r = RbFreed(t, e)
    OBVIOUS
  <2>3. Sound(r, I) /\ Fresh(r, Entries \ I)
    BY <1>2, <2>1, <2>2, FreedSound
  <2>4. rb' = r /\ rbIn' = I /\ rbFix' = RbIdle
    BY <1>1, <1>4, <2>2
  <2>5. Sound(rb', rbIn') /\ Fresh(rb', Entries \ rbIn')
    BY <2>3, <2>4
  <2> QED
    BY <2>4, <2>5, HoldsIdle
<1> QED
  BY <1>3, <1>4

LEMMA LooseNodes ==
  ASSUME NEW t, NEW I, NEW n, NEW c, NEW p, Loose(t, I, n, c, p)
  PROVE  c \in RbNodes /\ p \in RbNodes
BY LooseIs DEF RbNodes

LEMMA EraseLinksKeep ==
  ASSUME RbHolds, rbFix.op = "idle", RbAnyErase = FALSE, NEW e, RbEraseLinks(e)
  PROVE  RbHolds'
<1>1. PICK s : s = IF TwoChildren(e) THEN Successor(e) ELSE e
  OBVIOUS
<1>2. PICK t : t = IF s = e THEN Unlink(rb, e) ELSE Transplant(Unlink(rb, s), e, s)
  OBVIOUS
<1>3. PICK c : c = OnlyChild(rb, s)
  OBVIOUS
<1>4. PICK p : p = rb.parent[s]
  OBVIOUS
<1>5. /\ e \in rbIn /\ ~ParentGone(e, s)
      /\ rb' = IF Black(rb, s) THEN t ELSE RbFreed(t, e)
      /\ rbFix' = IF Black(rb, s) THEN [op |-> "erase", node |-> c, parent |-> p, gone |-> e] ELSE RbIdle
      /\ rbIn' = rbIn \ {e}
  BY <1>1, <1>2, <1>3, <1>4 DEF RbEraseLinks
<1>6. Sound(rb, rbIn) /\ Fresh(rb, Entries \ rbIn) /\ rbIn \in SUBSET Entries
  BY RestOf
<1>7. PICK S : AtRest(S)
  BY RestOf
<1>8. CASE ~TwoChildren(e)
  <2>1. s = e /\ t = Unlink(rb, e)
    BY <1>1, <1>2, <1>8
  <2>2. \E a \in Dirs : rb.child[a][e] = Null
    BY <1>8 DEF TwoChildren
  <2>3. Loose(rb, rbIn, e, c, p)
    BY <1>3, <1>4, <1>5, <1>6, <2>1, <2>2 DEF Loose, Detached
  <2>4. EraseLeft(t, rbIn \ {e}, c, p, Black(rb, e), e)
    BY <1>6, <2>1, <2>3, EraseHere
  <2>5. c \in RbNodes /\ p \in RbNodes /\ e \in Entries
    BY <1>5, <1>6, <2>3, LooseNodes
  <2>6. EraseLeft(t, rbIn \ {e}, c, p, Black(rb, s), e)
    BY <2>1, <2>4
  <2> QED
    BY <1>5, <2>5, <2>6, EraseStarts
<1>9. CASE TwoChildren(e)
  <2>1. s = Successor(e)
    BY <1>1, <1>9
  <2>2. /\ s \in rbIn \ {e} /\ rb.child["left"][s] = Null /\ Fits(rbIn \ {s}, e, s)
        /\ c = rb.child["right"][s] /\ c # e
    BY <1>3, <1>5, <1>6, <1>7, <1>9, <2>1, SuccessorIs
  <2>3. Loose(rb, rbIn, s, c, p)
    BY <1>3, <1>4, <1>6, <2>2 DEF Loose, Detached, Dirs
  <2>4. p # Null
    <3> SUFFICES ASSUME p = Null PROVE FALSE
      OBVIOUS
    <3>1. s = rb.root
      BY <2>3, LooseIs
    <3>2. PICK k : k = rb.child["right"][e]
      OBVIOUS
    <3>3. k # Null /\ "right" \in Dirs
      BY <1>9, <3>2 DEF TwoChildren, Dirs
    <3>4. RbTreeOf(rb, rbIn, S)
      BY <1>7 DEF AtRest
    <3>5. s = RbEnd(k, "left")
      BY <2>1, <3>2 DEF Successor
    <3>6. k \in rbIn
      BY <1>5, <3>2, <3>3, <3>4, TreeChild
    <3>7. s \in S[k]
      BY <1>7, <3>5, <3>6, EndIs DEF Dirs
    <3>8. Side("right", s, e)
      BY <1>5, <3>2, <3>3, <3>4, <3>7, TreeChild
    <3>9. S[s] = rbIn
      BY <2>2, <3>1, <3>4, TreeNode
    <3>10. RbNode(rb, rbIn, S, s)
      BY <2>2, <3>4 DEF RbTreeOf
    <3>11. c # Null /\ e \in S[c]
      BY <1>5, <2>2, <3>9, <3>10 DEF RbNode, Under
    <3>12. Side("right", e, s)
      BY <2>2, <3>3, <3>4, <3>11, TreeChild
    <3>13. e \in Entries /\ s \in Entries
      BY <1>5, <1>6, <2>2
    <3> QED
      BY <3>8, <3>12, <3>13, EntriesAssumption DEF Side
  <2>5. Movable(rb, rbIn, s, c, p, e)
    BY <1>5, <2>2, <2>3, <2>4 DEF Movable
  <2>6. ~Gone(rb, s, c, p, e)
    BY <1>4, <1>5, <2>2 DEF ParentGone, Gone
  <2>7. Moved(rb, s, e, t)
    BY <1>2, <2>2 DEF Moved
  <2>8. EraseLeft(t, rbIn \ {e}, c, p, Black(rb, s), e)
    BY <1>6, <2>5, <2>6, <2>7, EraseThere
  <2>9. c \in RbNodes /\ p \in RbNodes /\ e \in Entries
    BY <1>5, <1>6, <2>3, LooseNodes
  <2> QED
    BY <1>5, <2>8, <2>9, EraseStarts
<1> QED
  BY <1>8, <1>9

(* --- the walk and the theorems ----------------------------------------- *)

RbInv == RbHolds /\ WalkOK

LEMMA WalkStartKeeps ==
  ASSUME RbInv, RbWalkStart
  PROVE  WalkOK'
<1>1. /\ rbFix.op = "idle" /\ rb.root # Null /\ rbIn' = rbIn
      /\ rbWalk' = [at |-> RbEnd(rb.root, "left"), todo |-> rbIn]
  BY DEF RbWalkStart, RbFree
<1>2. rbIn \in SUBSET Entries /\ Null \notin rbIn /\ rb.root \in rbIn
  BY <1>1, RestOf DEF RbInv
<1>3. PICK S : AtRest(S)
  BY <1>1, RestOf DEF RbInv
<1>4. PICK x : x = RbEnd(rb.root, "left")
  OBVIOUS
<1>5. S[rb.root] = rbIn
  BY <1>2, <1>3 DEF AtRest, RbTreeOf
<1>6. x \in rbIn /\ \A m \in rbIn : m = x \/ KeyOf[x] < KeyOf[m]
  BY <1>2, <1>3, <1>4, <1>5, EndIs, SideIs
<1>7. \A m \in rbIn : KeyOf[m] \in Int
  BY <1>2, EntriesAssumption
<1>8. rbIn = {m \in rbIn : KeyOf[x] <= KeyOf[m]}
  BY <1>6, <1>7
<1>9. rbWalk'.at = x /\ rbWalk'.todo = rbIn
  BY <1>1, <1>4
<1> QED
  BY <1>1, <1>2, <1>6, <1>8, <1>9 DEF WalkOK

LEMMA WalkOnKeeps ==
  ASSUME RbInv, NEW erase \in BOOLEAN, RbWalkOn(erase)
  PROVE  WalkOK'
<1>1. PICK a : a = rbWalk.at
  OBVIOUS
<1>2. PICK b : b = RbStep(a, "right")
  OBVIOUS
<1>3. /\ rbFix.op = "idle" /\ a # Null /\ rbWalk' = [at |-> b, todo |-> rbWalk.todo \ {a}]
      /\ rbIn' = rbIn \/ rbIn' = rbIn \ {a}
  BY <1>1, <1>2 DEF RbWalkOn, RbEraseLinks
<1>4. rbIn \in SUBSET Entries /\ Null \notin rbIn
  BY <1>3, RestOf DEF RbInv
<1>5. PICK S : AtRest(S)
  BY <1>3, RestOf DEF RbInv
<1>6. a \in rbIn /\ rbWalk.todo = {m \in rbIn : KeyOf[a] <= KeyOf[m]}
  BY <1>1, <1>3 DEF RbInv, WalkOK
<1>7. Nearest(b, rbIn, a, "right")
  BY <1>2, <1>5, <1>6, StepIs, SideIs
<1>8. \A m, n \in rbIn : KeyOf[m] = KeyOf[n] => m = n
  BY <1>5 DEF AtRest, RbTreeOf
<1>9. \A m \in rbIn : KeyOf[m] \in Int
  BY <1>4, EntriesAssumption
<1>10. PICK M : M = rbWalk.todo \ {a}
  OBVIOUS
<1>11. M = {m \in rbIn : KeyOf[a] < KeyOf[m]}
  BY <1>6, <1>8, <1>9, <1>10
<1>12. rbWalk'.at = b /\ rbWalk'.todo = M
  BY <1>3, <1>10
<1>13. CASE b = Null
  <2>1. M = {}
    BY <1>7, <1>11, <1>13, SideIs DEF Nearest
  <2> QED
    BY <1>12, <1>13, <2>1 DEF WalkOK
<1>14. CASE b # Null
  <2>1. b \in rbIn /\ KeyOf[a] < KeyOf[b] /\ \A m \in rbIn : KeyOf[a] < KeyOf[m] => m = b \/ KeyOf[b] < KeyOf[m]
    BY <1>7, <1>14, SideIs DEF Nearest
  <2>2. M = {m \in rbIn : KeyOf[b] <= KeyOf[m]}
    BY <1>6, <1>9, <1>11, <2>1
  <2>3. a # b
    BY <1>9, <2>1
  <2>4. b \in rbIn' /\ M = {m \in rbIn' : KeyOf[b] <= KeyOf[m]}
    <3>1. ~(KeyOf[b] <= KeyOf[a])
      BY <1>6, <1>9, <2>1
    <3> QED
      BY <1>3, <2>1, <2>2, <2>3, <3>1
  <2> QED
    BY <1>12, <1>14, <2>4 DEF WalkOK
<1> QED
  BY <1>13, <1>14

(* Without a walk there is nothing to keep. *)
LEMMA NoWalkKeeps ==
  ASSUME WalkOK, RbFree, UNCHANGED rbWalk
  PROVE  WalkOK'
BY DEF WalkOK, RbFree

LEMMA SameWalkKeeps ==
  ASSUME WalkOK, UNCHANGED <<rbIn, rbWalk>>
  PROVE  WalkOK'
BY DEF WalkOK

LEMMA RestKeeps ==
  ASSUME RbHolds, UNCHANGED <<rb, rbFix, rbIn>>
  PROVE  RbHolds'
BY DEF RbHolds, Erasing

LEMMA RbInitHolds ==
  ASSUME RbInit
  PROVE  RbInv
<1>1. /\ rb \in Trees /\ rb.root = Null /\ rbIn = {} /\ rbFix = RbIdle /\ rbWalk.at = Null /\ rbWalk.todo = {}
      /\ \A n \in Entries : rb.parent[n] = Null /\ rb.color[n] = "red" /\ \A d \in Dirs : rb.child[d][n] = Null
  BY DEF RbInit, Trees, RbNodes
<1>2. PICK S : S = [n \in Entries |-> {}]
  OBVIOUS
<1>3. IsFiniteSet({}) /\ S \in [Entries -> SUBSET Entries]
  BY <1>2, FS_EmptySet
<1>4. RbTreeOf(rb, {}, S)
  BY <1>1, <1>3 DEF RbTreeOf
<1>5. PICK H : H = [n \in Entries |-> 0]
  OBVIOUS
<1>6. Heights(rb, {}, H, Null, "left")
  BY <1>5 DEF Heights
<1>7. NoRedPair(rb, {}, {}) /\ Black(rb, rb.root)
  BY <1>1 DEF NoRedPair, Black
<1>8. Sound(rb, {})
  BY <1>4, <1>6, <1>7 DEF Sound, IsTree
<1>9. Fresh(rb, Entries \ {})
  BY <1>1 DEF Fresh
<1>10. RbHolds
  BY <1>1, <1>8, <1>9, IdleIs DEF RbHolds
<1>11. WalkOK
  BY <1>1 DEF WalkOK
<1> QED
  BY <1>10, <1>11 DEF RbInv

LEMMA RbNextKeeps ==
  ASSUME RbAnyErase = FALSE, RbInv, [RbNext]_rbVars
  PROVE  RbInv'
<1>0. RbHolds /\ WalkOK
  BY DEF RbInv
<1> SUFFICES RbHolds' /\ WalkOK'
  BY DEF RbInv
<1>1. ASSUME NEW e \in Entries, RbInsert(e)
      PROVE  RbHolds' /\ WalkOK'
  <2>1. RbFree /\ UNCHANGED rbWalk
    BY <1>1 DEF RbInsert
  <2> QED
    BY <1>0, <1>1, <2>1, InsertKeeps, NoWalkKeeps
<1>2. ASSUME NEW e \in Entries, RbInsertTaken(e)
      PROVE  RbHolds' /\ WalkOK'
  <2>1. UNCHANGED <<rb, rbFix, rbIn, rbWalk>>
    BY <1>2 DEF RbInsertTaken, rbVars
  <2> QED
    BY <1>0, <2>1, RestKeeps, SameWalkKeeps
<1>3. ASSUME NEW e \in Entries, RbErase(e)
      PROVE  RbHolds' /\ WalkOK'
  <2>1. RbFree /\ RbEraseLinks(e) /\ UNCHANGED rbWalk /\ rbFix.op = "idle"
    BY <1>3 DEF RbErase, RbFree
  <2> QED
    BY <1>0, <2>1, EraseLinksKeep, NoWalkKeeps
<1>4. ASSUME RbInsertStep
      PROVE  RbHolds' /\ WalkOK'
  <2>1. UNCHANGED <<rbIn, rbWalk>>
    BY <1>4 DEF RbInsertStep
  <2> QED
    BY <1>0, <1>4, <2>1, InsertStepKeeps, SameWalkKeeps
<1>5. ASSUME RbInsertEnd
      PROVE  RbHolds' /\ WalkOK'
  <2>1. UNCHANGED <<rbIn, rbWalk>>
    BY <1>5 DEF RbInsertEnd
  <2> QED
    BY <1>0, <1>5, <2>1, InsertEndKeeps, SameWalkKeeps
<1>6. ASSUME RbEraseStep
      PROVE  RbHolds' /\ WalkOK'
  <2>1. UNCHANGED <<rbIn, rbWalk>>
    BY <1>6 DEF RbEraseStep
  <2> QED
    BY <1>0, <1>6, <2>1, EraseStepKeeps, SameWalkKeeps
<1>7. ASSUME RbEraseEnd
      PROVE  RbHolds' /\ WalkOK'
  <2>1. UNCHANGED <<rbIn, rbWalk>>
    BY <1>7 DEF RbEraseEnd
  <2> QED
    BY <1>0, <1>7, <2>1, EraseEndKeeps, SameWalkKeeps
<1>8. ASSUME NEW e \in Entries, NEW f \in Entries, RbReplace(e, f)
      PROVE  RbHolds' /\ WalkOK'
  <2>1. RbFree /\ UNCHANGED rbWalk
    BY <1>8 DEF RbReplace
  <2> QED
    BY <1>0, <1>8, <2>1, ReplaceKeeps, NoWalkKeeps
<1>9. ASSUME RbWalkStart
      PROVE  RbHolds' /\ WalkOK'
  <2>1. UNCHANGED <<rb, rbFix, rbIn>>
    BY <1>9 DEF RbWalkStart
  <2> QED
    BY <1>0, <1>9, <2>1, RestKeeps, WalkStartKeeps
<1>10. ASSUME NEW erase \in BOOLEAN, RbWalkOn(erase)
       PROVE  RbHolds' /\ WalkOK'
  <2>1. WalkOK'
    BY <1>10, WalkOnKeeps
  <2>2. rbFix.op = "idle"
    BY <1>10 DEF RbWalkOn
  <2>3. CASE erase
    <3>1. RbEraseLinks(rbWalk.at)
      BY <1>10, <2>3 DEF RbWalkOn
    <3> QED
      BY <1>0, <2>1, <2>2, <3>1, EraseLinksKeep
  <2>4. CASE ~erase
    <3>1. UNCHANGED <<rb, rbFix, rbIn>>
      BY <1>10, <2>4 DEF RbWalkOn
    <3> QED
      BY <1>0, <2>1, <3>1, RestKeeps
  <2> QED
    BY <2>3, <2>4
<1>11. ASSUME UNCHANGED rbVars
       PROVE  RbHolds' /\ WalkOK'
  <2>1. UNCHANGED <<rb, rbFix, rbIn, rbWalk>>
    BY <1>11 DEF rbVars
  <2> QED
    BY <1>0, <2>1, RestKeeps, SameWalkKeeps
<1> QED
  BY <1>1, <1>2, <1>3, <1>4, <1>5, <1>6, <1>7, <1>8, <1>9, <1>10, <1>11 DEF RbNext

LEMMA RbInvShape ==
  ASSUME RbInv
  PROVE  RbShape
<1>1. rbFix.op # "crashed"
  BY DEF RbInv, RbHolds, RbFixes
<1>2. ASSUME rbFix.op = "idle"
      PROVE  LinksAgree /\ SearchOrder /\ ColourRules
  <2>1. Sound(rb, rbIn) /\ \E S : AtRest(S)
    BY <1>2, RestOf DEF RbInv
  <2>2. PICK S : AtRest(S)
    BY <2>1
  <2>3. PICK H : Heights(rb, rbIn, H, Null, "left")
    BY <2>1 DEF Sound
  <2>4. Balanced(H)
    BY <2>1, <2>3 DEF Sound, Balanced
  <2>5. LinksAgree /\ SearchOrder
    BY <2>2, LinksHold
  <2>6. ColourRules
    BY <2>2, <2>4, ColoursHold
  <2> QED
    BY <2>5, <2>6
<1> QED
  BY <1>1, <1>2 DEF RbShape

LEMMA RbInvWalks ==
  ASSUME RbInv
  PROVE  RbWalks
<1>1. CASE rbFix.op = "idle"
  <2>1. PICK S : AtRest(S)
    BY <1>1, RestOf DEF RbInv
  <2> QED
    BY <2>1, WalksHold DEF RbInv
<1>2. CASE rbFix.op # "idle"
  BY <1>2 DEF RbWalks
<1> QED
  BY <1>1, <1>2

(* The tree and its loop: Sound between two calls, Growing while an        *)
(* insertion repairs the colours, Lacking while an erasure does.           *)
LEMMA RbInvHolds == ASSUME RbAnyErase = FALSE PROVE RbSpec => []RbInv
<1>1. RbInit => RbInv
  BY RbInitHolds
<1>2. RbInv /\ [RbNext]_rbVars => RbInv'
  BY RbNextKeeps
<1> QED
  BY <1>1, <1>2, PTL DEF RbSpec

(* Whatever is inserted, erased and replaced, between two calls the links  *)
(* form one search tree of exactly the entries put in and not taken out,   *)
(* no red node is below a red one and every path has as many black nodes,  *)
(* and no fixup follows a NULL (rbtree.h:155-437).  RbAnyErase is FALSE:   *)
(* with the erasures it excludes the property fails.                       *)
THEOREM RbTreeKeepsItsShape == ASSUME RbAnyErase = FALSE PROVE RbSpec => []RbShape
<1>1. RbInv => RbShape
  BY RbInvShape
<1> QED
  BY <1>1, RbInvHolds, PTL

(* first, last, next, prev and find answer as the sorted set of the        *)
(* entries does, and the loop that may erase its node visits every entry   *)
(* once and in order (rbtree.h:69-152, 485-501).                           *)
THEOREM RbTreeWalksInOrder == ASSUME RbAnyErase = FALSE PROVE RbSpec => []RbWalks
<1>1. RbInv => RbWalks
  BY RbInvWalks
<1> QED
  BY <1>1, RbInvHolds, PTL

====
