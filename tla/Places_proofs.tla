---- MODULE Places_proofs ----
(***************************************************************************)
(* Sequences without repetition, and induction over the natural numbers    *)
(* with a set in place of a predicate, so that first-order provers can use *)
(* it.                                                                     *)
(***************************************************************************)
EXTENDS Places, Integers, WellFoundedInduction, SequenceTheorems, TLAPS

(* A set of natural numbers with a member has a least one. *)
LEMMA LeastNumber ==
  ASSUME NEW T \in SUBSET Nat, T # {}
  PROVE  \E x \in T : \A y \in T : x <= y
<1> DEFINE R == OpToRel(<, Nat)
<1>1. IsWellFoundedOn(R, Nat)
  BY NatLessThanWellFounded, Zenon
<1>2. \A x, y \in Nat : x < y => <<x, y>> \in R
  BY DEF OpToRel
<1> HIDE DEF R
<1>3. PICK x \in T : \A y \in T : <<y, x>> \notin R
  BY <1>1, WFMin, Zenon
<1>4. \A y \in T : ~(y < x)
  BY <1>2, <1>3
<1>5. ASSUME NEW y \in T PROVE x <= y
  <2>1. x \in Nat /\ y \in Nat /\ ~(y < x)
    BY <1>4
  <2> QED
    BY <2>1, SMT
<1> QED
  BY <1>5

(* A set that holds zero and the successor of each of its members holds all. *)
LEMMA SetInduction ==
  ASSUME NEW S \in SUBSET Nat, 0 \in S, \A n \in S : n + 1 \in S
  PROVE  S = Nat
<1> SUFFICES ASSUME Nat \ S # {} PROVE FALSE
  OBVIOUS
<1>1. PICK x \in Nat \ S : \A y \in Nat \ S : x <= y
  BY LeastNumber
<1>2. x - 1 \in Nat /\ x - 1 \in S
  BY <1>1
<1> QED
  BY <1>1, <1>2

(* A function can be iterated. *)
Iterates(g, S, f, x) == g \in [Nat -> S] /\ g[0] = x /\ \A i \in Nat : g[i + 1] = f[g[i]]

LEMMA IterateExists ==
  ASSUME NEW S, NEW f \in [S -> S], NEW x \in S
  PROVE  \E g : Iterates(g, S, f, x)
<1> DEFINE Starts(e, n) == e \in [0 .. n -> S] /\ e[0] = x /\ \A i \in 0 .. n - 1 : e[i + 1] = f[e[i]]
           T == {n \in Nat : \E e : Starts(e, n)}
           g == [n \in Nat |-> (CHOOSE e : Starts(e, n))[n]]
<1>1. 0 \in T
  <2> DEFINE e == [i \in 0 .. 0 |-> x]
  <2>1. Starts(e, 0)
    OBVIOUS
  <2> HIDE DEF e
  <2> QED
    BY <2>1
<1>2. ASSUME NEW n \in T PROVE n + 1 \in T
  <2>1. PICK e : Starts(e, n)
    OBVIOUS
  <2>2. n \in Nat
    OBVIOUS
  <2> DEFINE d == [i \in 0 .. n + 1 |-> IF i <= n THEN e[i] ELSE f[e[n]]]
  <2>3. \A i \in 0 .. n : e[i] \in S /\ f[e[i]] \in S /\ d[i] = e[i]
    BY <2>1, <2>2
  <2>4. d[n + 1] = f[e[n]] /\ n \in 0 .. n
    BY <2>2
  <2>5. d \in [0 .. n + 1 -> S]
    <3>1. ASSUME NEW i \in 0 .. n + 1 PROVE d[i] \in S
      <4>1. CASE i = n + 1
        BY <2>3, <2>4, <4>1
      <4>2. CASE i # n + 1
        <5>1. i \in 0 .. n
          BY <2>2, <4>2
        <5> QED
          BY <2>3, <5>1
      <4> QED
        BY <4>1, <4>2
    <3>2. d = [i \in 0 .. n + 1 |-> d[i]]
      OBVIOUS
    <3> HIDE DEF d
    <3> QED
      BY <3>1, <3>2
  <2> HIDE DEF d
  <2>6. d[0] = x
    BY <2>1, <2>2, <2>3
  <2>7. ASSUME NEW i \in 0 .. (n + 1) - 1 PROVE d[i + 1] = f[d[i]]
    <3>1. CASE i = n
      BY <2>3, <2>4, <3>1
    <3>2. CASE i # n
      <4>1. i \in 0 .. n - 1 /\ i \in 0 .. n /\ i + 1 \in 0 .. n
        BY <2>2, <3>2
      <4> QED
        BY <2>1, <2>3, <4>1
    <3> QED
      BY <3>1, <3>2
  <2>8. Starts(d, n + 1)
    BY <2>5, <2>6, <2>7
  <2> HIDE DEF Starts
  <2> QED
    BY <2>2, <2>8
<1>3. T = Nat
  <2>1. T \in SUBSET Nat
    OBVIOUS
  <2> HIDE DEF T
  <2> QED
    BY <1>1, <1>2, <2>1, SetInduction
<1>4. ASSUME NEW n \in Nat, NEW e, NEW d, Starts(e, n), Starts(d, n + 1) PROVE d[n] = e[n]
  <2> DEFINE U == {i \in Nat : i <= n => d[i] = e[i]}
  <2>1. 0 \in U
    BY <1>4
  <2>2. ASSUME NEW i \in U PROVE i + 1 \in U
    <3>1. CASE i + 1 <= n
      <4>1. i \in 0 .. n - 1 /\ i \in 0 .. (n + 1) - 1 /\ i <= n /\ i + 1 \in Nat
        BY <3>1
      <4> QED
        BY <1>4, <4>1
    <3>2. CASE ~(i + 1 <= n)
      BY <3>2
    <3> QED
      BY <3>1, <3>2
  <2>3. U \in SUBSET Nat
    OBVIOUS
  <2> HIDE DEF U
  <2>4. U = Nat
    BY <2>1, <2>2, <2>3, SetInduction
  <2> QED
    BY <2>4 DEF U
<1>5. ASSUME NEW n \in Nat PROVE \E e : Starts(e, n) /\ g[n] = e[n]
  <2>1. \E e : Starts(e, n)
    BY <1>3
  <2> DEFINE c == CHOOSE e : Starts(e, n)
  <2>2. Starts(c, n)
    <3> HIDE DEF Starts
    <3> QED
      BY <2>1
  <2>3. g[n] = c[n]
    OBVIOUS
  <2> HIDE DEF c, g, Starts
  <2> QED
    BY <2>2, <2>3
<1> HIDE DEF g
<1>6. ASSUME NEW n \in Nat PROVE g[n] \in S /\ g[n + 1] = f[g[n]]
  <2>1. PICK e : Starts(e, n) /\ g[n] = e[n]
    BY <1>5
  <2>2. PICK d : Starts(d, n + 1) /\ g[n + 1] = d[n + 1]
    BY <1>5
  <2>3. d[n] = e[n]
    <3> HIDE DEF Starts
    <3> QED
      BY <1>4, <2>1, <2>2
  <2>4. n \in 0 .. n /\ n \in 0 .. (n + 1) - 1
    OBVIOUS
  <2> QED
    BY <2>1, <2>2, <2>3, <2>4
<1>7. g[0] = x
  <2>1. PICK e : Starts(e, 0) /\ g[0] = e[0]
    BY <1>5
  <2> QED
    BY <2>1
<1>8. g \in [Nat -> S]
  <2>1. g = [n \in Nat |-> g[n]]
    BY DEF g
  <2> QED
    BY <1>6, <2>1
<1>9. Iterates(g, S, f, x)
  BY <1>6, <1>7, <1>8 DEF Iterates
<1> QED
  BY <1>9

(* And it is what the recursion says. *)
LEMMA Iterated ==
  ASSUME NEW S, NEW f \in [S -> S], NEW x \in S
  PROVE  LET at[i \in Nat] == IF i = 0 THEN x ELSE f[at[i - 1]]
         IN  at[0] = x /\ \A i \in Nat : at[i + 1] = f[at[i]]
<1>1. PICK g : Iterates(g, S, f, x)
  BY IterateExists
<1> DEFINE F(e) == [i \in Nat |-> IF i = 0 THEN x ELSE f[e[i - 1]]]
           at == CHOOSE e : e = F(e)
<1>2. \A i \in Nat : g[i] = F(g)[i]
  <2> SUFFICES ASSUME NEW i \in Nat PROVE g[i] = F(g)[i]
    OBVIOUS
  <2>1. CASE i = 0
    BY <1>1, <2>1 DEF Iterates
  <2>2. CASE i # 0
    <3>1. i - 1 \in Nat /\ (i - 1) + 1 = i
      BY <2>2
    <3> QED
      BY <1>1, <2>2, <3>1 DEF Iterates
  <2> QED
    BY <2>1, <2>2
<1>3. g = F(g)
  BY <1>1, <1>2 DEF Iterates
<1>4. at = F(at)
  <2> HIDE DEF F
  <2> QED
    BY <1>3, Zenon
<1>5. \A i \in Nat : at[i] = F(at)[i]
  <2> HIDE DEF at, F
  <2> QED
    BY <1>4, Zenon
<1> HIDE DEF at
<1>6. ASSUME NEW i \in Nat PROVE at[i + 1] = f[at[i]]
  <2>1. i + 1 \in Nat /\ i + 1 # 0 /\ (i + 1) - 1 = i
    OBVIOUS
  <2> QED
    BY <1>5, <2>1
<1>7. at[0] = x
  BY <1>5
<1> QED
  BY <1>6, <1>7 DEF at

(***************************************************************************)
(* Sequences without repetition                                            *)
(***************************************************************************)

(* Cut in two they share no member and lose none. *)
LEMMA Cut ==
  ASSUME NEW S, NEW s \in Seq(S), Distinct(s), NEW k \in 0 .. Len(s)
  PROVE  LET a == SubSeq(s, 1, k)
             b == SubSeq(s, k + 1, Len(s))
         IN  /\ a \in Seq(S) /\ Len(a) = k /\ Distinct(a)
             /\ \A i \in 1 .. k : a[i] = s[i]
             /\ b \in Seq(S) /\ Len(b) = Len(s) - k /\ Distinct(b)
             /\ \A i \in 1 .. Len(s) - k : b[i] = s[k + i]
             /\ Members(a) \cap Members(b) = {}
             /\ Members(a) \cup Members(b) = Members(s)
<1> DEFINE a == SubSeq(s, 1, k)
           b == SubSeq(s, k + 1, Len(s))
<1>1. Len(s) \in Nat /\ DOMAIN s = 1 .. Len(s) /\ \A i \in 1 .. Len(s) : s[i] \in S
  OBVIOUS
<1>2. /\ a \in Seq(S) /\ Len(a) = k /\ DOMAIN a = 1 .. k
      /\ \A i \in 1 .. k : a[i] = s[i]
  OBVIOUS
<1>3. /\ b \in Seq(S) /\ Len(b) = Len(s) - k /\ DOMAIN b = 1 .. Len(s) - k
      /\ \A i \in 1 .. Len(s) - k : b[i] = s[k + i]
  OBVIOUS
<1> HIDE DEF a, b
<1>4. /\ \A i \in DOMAIN a : i \in DOMAIN s /\ a[i] = s[i] /\ i <= k
      /\ \A i \in DOMAIN b : k + i \in DOMAIN s /\ b[i] = s[k + i] /\ i > 0 /\ i \in Int
  BY <1>1, <1>2, <1>3
<1>5. Distinct(a)
  BY <1>4 DEF Distinct
<1>6. Distinct(b)
  <2> SUFFICES ASSUME NEW i \in DOMAIN b, NEW j \in DOMAIN b, b[i] = b[j] PROVE i = j
    BY DEF Distinct
  <2>1. k + i = k + j
    BY <1>4 DEF Distinct
  <2> QED
    BY <1>4, <2>1
<1>7. Members(a) \cap Members(b) = {}
  <2> SUFFICES ASSUME NEW i \in DOMAIN a, NEW j \in DOMAIN b, a[i] = b[j] PROVE FALSE
    BY DEF Members
  <2>1. i = k + j
    BY <1>4 DEF Distinct
  <2> QED
    BY <1>4, <2>1
<1>8. Members(a) \cup Members(b) = Members(s)
  <2>1. Members(s) \subseteq Members(a) \cup Members(b)
    <3> SUFFICES ASSUME NEW i \in 1 .. Len(s) PROVE s[i] \in Members(a) \cup Members(b)
      BY <1>1 DEF Members
    <3>1. CASE i <= k
      <4>1. i \in DOMAIN a /\ a[i] = s[i]
        BY <1>1, <1>2, <3>1
      <4> QED
        BY <4>1 DEF Members
    <3>2. CASE i > k
      <4>1. i - k \in DOMAIN b /\ b[i - k] = s[i]
        BY <1>1, <1>3, <3>2
      <4> QED
        BY <4>1 DEF Members
    <3> QED
      BY <1>1, <3>1, <3>2
  <2>2. Members(a) \subseteq Members(s) /\ Members(b) \subseteq Members(s)
    BY <1>4 DEF Members
  <2> QED
    BY <2>1, <2>2
<1> QED
  BY <1>2, <1>3, <1>5, <1>6, <1>7, <1>8 DEF a, b

(* Joined they repeat nothing if they share nothing. *)
LEMMA Join ==
  ASSUME NEW S, NEW a \in Seq(S), NEW b \in Seq(S), Distinct(a), Distinct(b),
         Members(a) \cap Members(b) = {}
  PROVE  /\ a \o b \in Seq(S) /\ Len(a \o b) = Len(a) + Len(b)
         /\ \A i \in 1 .. Len(a) : (a \o b)[i] = a[i]
         /\ \A i \in 1 .. Len(b) : (a \o b)[Len(a) + i] = b[i]
         /\ Distinct(a \o b)
         /\ Members(a \o b) = Members(a) \cup Members(b)
<1> DEFINE c == a \o b
<1>1. /\ Len(a) \in Nat /\ DOMAIN a = 1 .. Len(a)
      /\ Len(b) \in Nat /\ DOMAIN b = 1 .. Len(b)
  OBVIOUS
<1>2. /\ c \in Seq(S) /\ Len(c) = Len(a) + Len(b) /\ DOMAIN c = 1 .. Len(a) + Len(b)
      /\ \A i \in 1 .. Len(a) : c[i] = a[i]
      /\ \A i \in Len(a) + 1 .. Len(a) + Len(b) : c[i] = b[i - Len(a)]
  OBVIOUS
<1> HIDE DEF c
<1>3. \A i \in 1 .. Len(b) : c[Len(a) + i] = b[i]
  BY <1>1, <1>2
<1>4. \A i \in DOMAIN c : \/ i \in DOMAIN a /\ c[i] = a[i]
                          \/ i - Len(a) \in DOMAIN b /\ c[i] = b[i - Len(a)]
  BY <1>1, <1>2
<1>5. Distinct(c)
  <2> SUFFICES ASSUME NEW i \in DOMAIN c, NEW j \in DOMAIN c, c[i] = c[j] PROVE i = j
    BY DEF Distinct
  <2>1. CASE i \in DOMAIN a /\ j \in DOMAIN a
    BY <1>1, <1>2, <2>1 DEF Distinct
  <2>2. CASE i - Len(a) \in DOMAIN b /\ c[i] = b[i - Len(a)] /\ j - Len(a) \in DOMAIN b /\ c[j] = b[j - Len(a)]
    <3>1. i - Len(a) = j - Len(a)
      BY <2>2 DEF Distinct
    <3> QED
      BY <1>1, <1>2, <3>1
  <2> QED
    BY <1>4, <2>1, <2>2 DEF Members
<1>6. Members(c) = Members(a) \cup Members(b)
  <2>1. Members(c) \subseteq Members(a) \cup Members(b)
    BY <1>4 DEF Members
  <2>2. ASSUME NEW i \in DOMAIN a PROVE a[i] \in Members(c)
    BY <1>1, <1>2 DEF Members
  <2>3. ASSUME NEW i \in DOMAIN b PROVE b[i] \in Members(c)
    <3>1. Len(a) + i \in DOMAIN c /\ c[Len(a) + i] = b[i]
      BY <1>1, <1>2, <1>3
    <3> QED
      BY <3>1 DEF Members
  <2> QED
    BY <2>1, <2>2, <2>3 DEF Members
<1> QED
  BY <1>2, <1>3, <1>5, <1>6 DEF c

(* The top of a stack and what is below it. *)
LEMMA Top ==
  ASSUME NEW S, NEW s \in Seq(S), Distinct(s), s # <<>>
  PROVE  LET a == SubSeq(s, 1, Len(s) - 1)
             o == s[Len(s)]
         IN  /\ a \in Seq(S) /\ Len(a) = Len(s) - 1 /\ Distinct(a)
             /\ o \in S /\ o \in Members(s) /\ o \notin Members(a)
             /\ Members(a) \cup {o} = Members(s)
<1>1. Len(s) \in Nat \ {0} /\ DOMAIN s = 1 .. Len(s) /\ s[Len(s)] \in S
  OBVIOUS
<1>2. PICK k \in 0 .. Len(s) : k = Len(s) - 1
  <2>1. Len(s) - 1 \in 0 .. Len(s)
    BY <1>1
  <2> QED
    BY <2>1
<1> DEFINE a == SubSeq(s, 1, k)
           b == SubSeq(s, k + 1, Len(s))
<1>3. /\ a \in Seq(S) /\ Len(a) = k /\ Distinct(a)
      /\ b \in Seq(S) /\ Len(b) = Len(s) - k
      /\ \A i \in 1 .. Len(s) - k : b[i] = s[k + i]
      /\ Members(a) \cap Members(b) = {} /\ Members(a) \cup Members(b) = Members(s)
  BY Cut
<1>4. a = SubSeq(s, 1, Len(s) - 1)
  BY <1>2
<1> HIDE DEF a, b
<1>5. DOMAIN b = {1} /\ b[1] = s[Len(s)]
  BY <1>1, <1>2, <1>3
<1>6. Members(b) = {s[Len(s)]}
  BY <1>5 DEF Members
<1>7. s[Len(s)] \in Members(s)
  BY <1>1 DEF Members
<1> QED
  BY <1>1, <1>2, <1>3, <1>4, <1>6, <1>7

(* A new member on top of a stack. *)
LEMMA Push ==
  ASSUME NEW S, NEW s \in Seq(S), Distinct(s), NEW o \in S, o \notin Members(s)
  PROVE  /\ Append(s, o) \in Seq(S) /\ Len(Append(s, o)) = Len(s) + 1
         /\ Distinct(Append(s, o))
         /\ Members(Append(s, o)) = Members(s) \cup {o}
<1> DEFINE one == <<o>>
<1>1. one \in Seq(S) /\ Len(one) = 1 /\ Distinct(one) /\ Members(one) = {o}
  BY DEF Distinct, Members
<1>2. Append(s, o) = s \o one
  BY AppendIsConcat
<1> HIDE DEF one
<1>3. Members(s) \cap Members(one) = {}
  BY <1>1
<1>4. /\ s \o one \in Seq(S) /\ Len(s \o one) = Len(s) + Len(one)
      /\ Distinct(s \o one) /\ Members(s \o one) = Members(s) \cup Members(one)
  BY <1>1, <1>3, Join
<1> QED
  BY <1>1, <1>2, <1>4

(* The first member and those behind it. *)
LEMMA Shift ==
  ASSUME NEW S, NEW s \in Seq(S), Distinct(s), s # <<>>
  PROVE  /\ Tail(s) \in Seq(S) /\ Len(Tail(s)) = Len(s) - 1
         /\ \A i \in 1 .. Len(s) - 1 : Tail(s)[i] = s[i + 1]
         /\ Distinct(Tail(s))
         /\ Head(s) \in S /\ Head(s) \notin Members(Tail(s))
         /\ Members(Tail(s)) \cup {Head(s)} = Members(s)
<1> DEFINE t == Tail(s)
<1>1. Len(s) \in Nat /\ Len(s) > 0 /\ DOMAIN s = 1 .. Len(s) /\ Head(s) = s[1]
  OBVIOUS
<1>2. /\ t \in Seq(S) /\ Len(t) = Len(s) - 1 /\ DOMAIN t = 1 .. Len(s) - 1
      /\ \A i \in 1 .. Len(s) - 1 : t[i] = s[i + 1]
  OBVIOUS
<1>3. s[1] \in S
  BY <1>1
<1> HIDE DEF t
<1>4. \A i \in DOMAIN t : i \in Int /\ i > 0 /\ i + 1 \in DOMAIN s /\ t[i] = s[i + 1]
  BY <1>1, <1>2
<1>5. Distinct(t)
  <2> SUFFICES ASSUME NEW i \in DOMAIN t, NEW j \in DOMAIN t, t[i] = t[j] PROVE i = j
    BY DEF Distinct
  <2>1. i + 1 = j + 1
    BY <1>4 DEF Distinct
  <2> QED
    BY <1>4, <2>1
<1>6. s[1] \notin Members(t)
  <2> SUFFICES ASSUME NEW i \in DOMAIN t, t[i] = s[1] PROVE FALSE
    BY DEF Members
  <2>1. 1 \in DOMAIN s
    BY <1>1
  <2>2. i + 1 = 1
    BY <1>4, <2>1 DEF Distinct
  <2> QED
    BY <1>4, <2>2
<1>7. Members(t) \cup {s[1]} = Members(s)
  <2>1. Members(t) \subseteq Members(s) /\ s[1] \in Members(s)
    BY <1>1, <1>4 DEF Members
  <2>2. ASSUME NEW i \in DOMAIN s, i # 1 PROVE s[i] \in Members(t)
    <3>1. i - 1 \in DOMAIN t /\ t[i - 1] = s[i]
      BY <1>1, <1>2, <2>2
    <3> QED
      BY <3>1 DEF Members
  <2> QED
    BY <2>1, <2>2 DEF Members
<1> QED
  BY <1>1, <1>2, <1>3, <1>5, <1>6, <1>7 DEF t

====
