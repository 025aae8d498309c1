---- MODULE Coding_proofs ----
(***************************************************************************)
(* Proofs about two parts of coding/: MemPool, for any number of threads   *)
(* and any size of the pool, the caches and the batches, and Mbuf, for any *)
(* owners that run at the same time, any buffers and any strings (the      *)
(* reference counts are exact, packets that share buffers are strings of   *)
(* bytes that only their owners change, and reads return exactly their     *)
(* bytes).  They share no state.                                           *)
(***************************************************************************)
EXTENDS MemPool, Mbuf, Places_proofs, FiniteSetTheorems

(***************************************************************************)
(* The free list                                                           *)
(***************************************************************************)

(* A chain without repetition is no longer than the pool. *)
LEMMA ShortList ==
  ASSUME NEW s \in Seq(Objects), Distinct(s)
  PROVE  Len(s) \in 0 .. PoolSize
<1>1. Len(s) \in Nat /\ s \in [1 .. Len(s) -> Objects] /\ DOMAIN s = 1 .. Len(s)
  OBVIOUS
<1>2. s \in Injection(1 .. Len(s), Objects)
  BY <1>1 DEF Injection, IsInjective, Distinct
<1>3. IsFiniteSet(Objects) /\ Cardinality(Objects) = PoolSize
  BY FS_Interval, PoolAssumption DEF Objects
<1>4. Cardinality(1 .. Len(s)) = Len(s)
  BY <1>1, FS_Interval
<1>5. Cardinality(1 .. Len(s)) <= Cardinality(Objects)
  BY <1>2, <1>3, FS_Injection
<1> QED
  BY <1>1, <1>3, <1>4, <1>5, PoolAssumption

(* Following the links of a chain visits it in order.  The recursion is the *)
(* function g, because g solves its equation and no other function does.    *)
LEMMA WalkList ==
  ASSUME NEW s \in Seq(Objects), Linked(s), NEW n \in Nat
  PROVE  Walk(freeHead, n) = SubSeq(s, 1, IF n <= Len(s) THEN n ELSE Len(s))
<1> DEFINE F(f) == [i \in Nat |-> IF i = 0 THEN freeHead
                                  ELSE IF f[i - 1] \in Objects THEN next[f[i - 1]] ELSE Null]
           at == CHOOSE f : f = F(f)
           g == [i \in Nat |-> IF i < Len(s) THEN s[i + 1] ELSE Null]
<1>1. /\ Len(s) \in Nat /\ DOMAIN s = 1 .. Len(s) /\ \A i \in 1 .. Len(s) : s[i] \in Objects
      /\ Null \notin Objects
  BY PoolAssumption DEF Null, Objects
<1>2. \A i \in Nat : g[i] = F(g)[i]
  <2> SUFFICES ASSUME NEW i \in Nat PROVE g[i] = F(g)[i]
    OBVIOUS
  <2>1. CASE i = 0
    BY <1>1, <2>1 DEF Linked
  <2>2. CASE i # 0
    <3>1. i - 1 \in Nat /\ (i - 1) + 1 = i
      BY <2>2
    <3>2. CASE i <= Len(s)
      <4>1. i \in DOMAIN s /\ g[i - 1] = s[i]
        BY <1>1, <2>2, <3>1, <3>2
      <4>2. F(g)[i] = next[s[i]]
        BY <1>1, <2>2, <4>1
      <4> QED
        BY <1>1, <3>2, <4>1, <4>2 DEF Linked
    <3>3. CASE i > Len(s)
      BY <1>1, <2>2, <3>1, <3>3
    <3> QED
      BY <1>1, <3>2, <3>3
  <2> QED
    BY <2>1, <2>2
<1>3. g = F(g)
  BY <1>2
<1>4. at = F(at)
  <2> HIDE DEF F, g
  <2> QED
    BY <1>3, Zenon
<1>5. \A i \in Nat : at[i] = g[i]
  <2> HIDE DEF g
  <2>1. \A i \in Nat : at[i] = F(at)[i]
    <3> HIDE DEF at, F
    <3> QED
      BY <1>4, Zenon
  <2> HIDE DEF at
  <2> DEFINE S == {i \in Nat : at[i] = g[i]}
  <2>2. 0 \in S
    BY <1>2, <2>1
  <2>3. ASSUME NEW i \in S PROVE i + 1 \in S
    <3>1. i \in Nat /\ i + 1 \in Nat /\ i + 1 # 0 /\ (i + 1) - 1 = i /\ at[i] = g[i]
      OBVIOUS
    <3>2. at[i + 1] = g[i + 1]
      BY <1>2, <2>1, <3>1
    <3> QED
      BY <3>1, <3>2
  <2> HIDE DEF S
  <2>4. S \in SUBSET Nat
    BY DEF S
  <2>5. S = Nat
    BY <2>2, <2>3, <2>4, SetInduction
  <2> QED
    BY <2>5 DEF S
<1> DEFINE m == IF n <= Len(s) THEN n ELSE Len(s)
           Stops(k) == (\A i \in 0 .. k - 1 : at[i] # Null) /\ (k = n \/ at[k] = Null)
           length == CHOOSE k \in 0 .. n : Stops(k)
<1>6. Walk(freeHead, n) = [i \in 1 .. length |-> at[i - 1]]
  BY DEF Walk
<1> HIDE DEF at, F
<1>7. m \in 0 .. n /\ m \in 0 .. Len(s)
  BY <1>1
<1>8. \A i \in 0 .. m - 1 : at[i] = s[i + 1] /\ at[i] # Null
  BY <1>1, <1>5, <1>7
<1>9. m = n \/ at[m] = Null
  BY <1>1, <1>5
<1>10. \A k \in 0 .. n : Stops(k) => k = m
  <2> HIDE DEF m
  <2> SUFFICES ASSUME NEW k \in 0 .. n, Stops(k) PROVE k = m
    OBVIOUS
  <2>1. CASE k < m
    BY <1>7, <1>8, <2>1
  <2>2. CASE m < k
    BY <1>7, <1>9, <2>2
  <2> QED
    BY <1>7, <2>1, <2>2
<1>11. Stops(m)
  BY <1>8, <1>9
<1> HIDE DEF m, Stops
<1>12. length = m
  BY <1>7, <1>10, <1>11
<1> HIDE DEF length
<1>13. Walk(freeHead, n) = [i \in 1 .. m |-> s[i]]
  BY <1>6, <1>7, <1>8, <1>12
<1>14. SubSeq(s, 1, m) = [i \in 1 .. m |-> s[i]]
  BY <1>1, <1>7
<1> QED
  BY <1>13, <1>14 DEF m

(* The chain is what FreeList reads. *)
LEMMA FreeListIs ==
  ASSUME NEW s \in Seq(Objects), Linked(s), Distinct(s)
  PROVE  FreeList = s
<1>1. Len(s) \in 0 .. PoolSize
  BY ShortList
<1>2. PoolSize + 1 \in Nat /\ ~(PoolSize + 1 <= Len(s))
  BY <1>1, PoolAssumption
<1>3. FreeList = SubSeq(s, 1, Len(s))
  BY <1>2, WalkList DEF FreeList
<1>4. SubSeq(s, 1, Len(s)) = s
  BY SubSeqFull
<1> QED
  BY <1>3, <1>4

(***************************************************************************)
(* The objects stay apart                                                  *)
(***************************************************************************)
Held(t) == cache[t] \in Seq(Objects) /\ held[t] \in SUBSET Objects

ListInv == \E list \in Seq(Objects) : Linked(list) /\ Apart(list)

(* Objects that one thread exchanges with the list stay apart from what the  *)
(* others have.                                                              *)
LEMMA Exchange ==
  ASSUME NEW t \in Threads, NEW list, Apart(list), NEW rest, Distinct(rest),
         Distinct(cache'[t]), Members(cache'[t]) \cap held'[t] = {},
         Used(t)' \cap Members(rest) = {},
         Used(t)' \cup Members(rest) = Used(t) \cup Members(list),
         \A u \in Threads \ {t} : cache'[u] = cache[u] /\ held'[u] = held[u]
  PROVE  Apart(rest)'
<1>1. \A u \in Threads \ {t} : Used(u)' = Used(u)
  BY DEF Used
<1>2. \A u \in Threads : Distinct(cache'[u]) /\ Members(cache'[u]) \cap held'[u] = {}
  BY DEF Apart
<1>3. \A u \in Threads \ {t} : Used(u) \cap Used(t) = {} /\ Used(u) \cap Members(list) = {}
  BY DEF Apart
<1>4. \A u \in Threads : Used(u)' \cap Members(rest) = {}
  BY <1>1, <1>3
<1>5. \A u, v \in Threads : u # v => Used(u)' \cap Used(v)' = {}
  <2> SUFFICES ASSUME NEW u \in Threads, NEW v \in Threads, u # v
               PROVE  Used(u)' \cap Used(v)' = {}
    OBVIOUS
  <2>1. CASE u # t /\ v # t
    BY <1>1, <2>1 DEF Apart
  <2>2. CASE u = t
    BY <1>1, <1>3, <2>2
  <2>3. CASE v = t
    BY <1>1, <1>3, <2>3
  <2> QED
    BY <2>1, <2>2, <2>3
<1>6. \A o \in Objects : o \in Members(rest) \/ \E u \in Threads : o \in Used(u)'
  <2> SUFFICES ASSUME NEW o \in Objects, o \notin Members(rest)
               PROVE  \E u \in Threads : o \in Used(u)'
    OBVIOUS
  <2>1. o \in Members(list) \/ \E u \in Threads : o \in Used(u)
    BY DEF Apart
  <2>2. CASE o \in Members(list)
    BY <2>2
  <2>3. CASE \E u \in Threads : o \in Used(u)
    BY <1>1, <2>3
  <2> QED
    BY <2>1, <2>2, <2>3
<1> QED
  BY <1>2, <1>4, <1>5, <1>6 DEF Apart, Distinct, Members

(* An object from the top of s is handed out; s and the rest of the list    *)
(* are what the cache and the list were.                                    *)
LEMMA HandOutApart ==
  ASSUME NEW t \in Threads, cache \in [Threads -> Seq(Objects)], held \in [Threads -> SUBSET Objects],
         NEW s \in Seq(Objects), s # <<>>, Distinct(s), HandOut(t, s),
         NEW list, Apart(list), NEW rest, Distinct(rest),
         Members(s) \cap Members(rest) = {}, Members(s) \cap held[t] = {},
         Members(s) \cup Members(rest) = Members(cache[t]) \cup Members(list)
  PROVE  Apart(rest)'
<1> DEFINE a == SubSeq(s, 1, Len(s) - 1)
           o == s[Len(s)]
<1>1. /\ Distinct(a) /\ o \in Objects /\ o \notin Members(a) /\ Members(a) \cup {o} = Members(s)
  BY Top
<1>2. cache' = [cache EXCEPT ![t] = a] /\ held' = [held EXCEPT ![t] = @ \cup {o}]
  BY DEF HandOut
<1> HIDE DEF a, o
<1>3. cache'[t] = a /\ held'[t] = held[t] \cup {o}
  BY <1>2
<1>4. Used(t)' = Members(a) \cup held[t] \cup {o}
  BY <1>3 DEF Used, Members
<1>5. Used(t) = Members(cache[t]) \cup held[t] /\ held[t] \cap Members(rest) = {}
  <2>1. Used(t) = Members(cache[t]) \cup held[t]
    BY DEF Used
  <2>2. Members(cache[t]) \cap held[t] = {} /\ Used(t) \cap Members(list) = {}
    BY DEF Apart
  <2> QED
    BY <2>1, <2>2
<1>6. \A u \in Threads \ {t} : cache'[u] = cache[u] /\ held'[u] = held[u]
  BY <1>2
<1>7. Members(cache'[t]) \cap held'[t] = {} /\ Distinct(cache'[t])
  BY <1>1, <1>3
<1>8. Used(t)' \cap Members(rest) = {} /\ Used(t)' \cup Members(rest) = Used(t) \cup Members(list)
  BY <1>1, <1>4, <1>5
<1> QED
  BY <1>6, <1>7, <1>8, Exchange

(* A chain put in front of the list leads to it. *)
LEMMA PrependLinked ==
  ASSUME next \in [Objects -> Objects \cup {Null, Junk}],
         NEW list \in Seq(Objects), Linked(list), Distinct(list),
         NEW chain \in Seq(Objects), chain # <<>>, Distinct(chain), Prepend(chain),
         Members(chain) \cap Members(list) = {}
  PROVE  Linked(chain \o list)'
<1> DEFINE c == chain \o list
           At(o) == CHOOSE i \in DOMAIN chain : chain[i] = o
<1>1. /\ Len(chain) \in Nat /\ Len(chain) > 0 /\ DOMAIN chain = 1 .. Len(chain)
      /\ Len(list) \in Nat /\ DOMAIN list = 1 .. Len(list)
      /\ \A i \in DOMAIN chain : chain[i] \in Objects
      /\ \A i \in DOMAIN list : list[i] \in Objects
  OBVIOUS
<1>2. /\ c \in Seq(Objects) /\ Len(c) = Len(chain) + Len(list)
      /\ \A i \in 1 .. Len(chain) : c[i] = chain[i]
      /\ \A i \in 1 .. Len(list) : c[Len(chain) + i] = list[i]
  BY Join
<1>3. DOMAIN c = 1 .. Len(chain) + Len(list) /\ c # <<>>
  BY <1>1, <1>2
<1>4. freeHead' = chain[1]
  BY DEF Prepend
<1>5. ASSUME NEW i \in DOMAIN chain
      PROVE  next'[chain[i]] = IF i = Len(chain) THEN freeHead ELSE chain[i + 1]
  <2>1. At(chain[i]) \in DOMAIN chain /\ chain[At(chain[i])] = chain[i]
    OBVIOUS
  <2>2. At(chain[i]) = i
    BY <2>1 DEF Distinct
  <2>3. chain[i] \in Objects /\ \E j \in DOMAIN chain : chain[j] = chain[i]
    BY <1>1
  <2>4. next'[chain[i]] = IF At(chain[i]) = Len(chain) THEN freeHead ELSE chain[At(chain[i]) + 1]
    BY <2>3 DEF Prepend
  <2> QED
    BY <2>2, <2>4
<1>6. ASSUME NEW i \in DOMAIN list PROVE next'[list[i]] = next[list[i]]
  <2>1. list[i] \in Objects /\ ~ \E j \in DOMAIN chain : chain[j] = list[i]
    BY <1>1 DEF Members
  <2> QED
    BY <2>1 DEF Prepend
<1> HIDE DEF c
<1>7. freeHead' = c[1]
  BY <1>1, <1>2, <1>4
<1>8. ASSUME NEW i \in DOMAIN c PROVE next'[c[i]] = IF i = Len(c) THEN Null ELSE c[i + 1]
  <2>1. CASE i < Len(chain)
    <3>1. i \in DOMAIN chain /\ c[i] = chain[i] /\ c[i + 1] = chain[i + 1] /\ i # Len(c)
      BY <1>1, <1>2, <1>3, <2>1
    <3> QED
      BY <1>5, <2>1, <3>1
  <2>2. CASE i = Len(chain)
    <3>1. i \in DOMAIN chain /\ c[i] = chain[i] /\ next'[c[i]] = freeHead
      BY <1>1, <1>2, <1>5, <2>2
    <3>2. CASE list = <<>>
      BY <1>2, <2>2, <3>1, <3>2 DEF Linked
    <3>3. CASE list # <<>>
      <4>1. Len(list) > 0 /\ 1 \in 1 .. Len(list)
        BY <1>1, <3>3
      <4>2. i # Len(c)
        <5>1. Len(c) = Len(chain) + Len(list)
          BY <1>2
        <5>2. Len(chain) \in Nat /\ Len(list) \in Nat
          OBVIOUS
        <5> QED
          BY <2>2, <4>1, <5>1, <5>2
      <4>3. c[Len(chain) + 1] = list[1]
        BY <1>2, <4>1
      <4> QED
        BY <2>2, <3>1, <3>3, <4>2, <4>3 DEF Linked
    <3> QED
      BY <3>2, <3>3
  <2>3. CASE i > Len(chain)
    <3>1. PICK j \in DOMAIN list : i = Len(chain) + j
      <4>1. i - Len(chain) \in DOMAIN list /\ i = Len(chain) + (i - Len(chain))
        BY <1>1, <1>3, <2>3
      <4> QED
        BY <4>1
    <3>2. c[i] = list[j] /\ next'[c[i]] = next[list[j]]
      BY <1>1, <1>2, <1>6, <3>1
    <3>3. CASE j = Len(list)
      BY <1>2, <3>1, <3>2, <3>3 DEF Linked
    <3>4. CASE j # Len(list)
      <4>1. c[i + 1] = list[j + 1] /\ i # Len(c)
        <5>1. j + 1 \in 1 .. Len(list) /\ i + 1 = Len(chain) + (j + 1)
          BY <1>1, <3>1, <3>4
        <5> QED
          BY <1>1, <1>2, <3>1, <3>4, <5>1
      <4> QED
        BY <3>2, <3>4, <4>1 DEF Linked
    <3> QED
      BY <3>3, <3>4
  <2> QED
    BY <1>1, <1>3, <2>1, <2>2, <2>3
<1> QED
  BY <1>3, <1>7, <1>8 DEF Linked, c

(* Neither the list nor what the threads have changes. *)
LEMMA SameObjects ==
  ASSUME NEW list \in Seq(Objects), Linked(list), Apart(list),
         UNCHANGED <<freeHead, next, cache, held>>
  PROVE  ListInv'
BY DEF ListInv, Linked, Apart, Used

Types ==
  /\ next \in [Objects -> Objects \cup {Null, Junk}]
  /\ cache \in [Threads -> Seq(Objects)]
  /\ held \in [Threads -> SUBSET Objects]

(* An allocation writes to an object that is not on the list. *)
LEMMA AllocList ==
  ASSUME Types, NEW t \in Threads, Alloc(t),
         NEW list \in Seq(Objects), Linked(list), Apart(list)
  PROVE  ListInv'
<1>1. CASE cache[t] = <<>> /\ UNCHANGED <<next, cache, held>>
  BY <1>1, SameObjects DEF Alloc
<1>2. CASE cache[t] # <<>> /\ HandOut(t, cache[t])
  <2> DEFINE s == cache[t]
             o == s[Len(s)]
  <2>1. s \in Seq(Objects) /\ s # <<>> /\ Distinct(s) /\ Members(s) \cap held[t] = {}
    BY <1>2 DEF Types, Apart
  <2>2. Members(s) \cap Members(list) = {}
    BY DEF Apart, Used
  <2>3. o \in Members(s)
    BY <2>1, Top
  <2>4. freeHead' = freeHead /\ next' = [next EXCEPT ![o] = Junk]
    BY <1>2 DEF Alloc, HandOut
  <2>5. Apart(list)'
    <3> HIDE DEF s
    <3>1. HandOut(t, s) /\ Distinct(list) /\ Members(s) = Members(cache[t])
      BY <1>2 DEF Apart, s
    <3> QED
      BY <2>1, <2>2, <3>1, HandOutApart DEF Types
  <2>6. Linked(list)'
    <3> HIDE DEF o, s
    <3>1. ASSUME NEW i \in DOMAIN list PROVE next'[list[i]] = next[list[i]]
      <4>1. list[i] \in Objects /\ list[i] \in Members(list)
        BY DEF Members
      <4>2. list[i] # o
        BY <2>2, <2>3, <4>1
      <4> QED
        BY <2>4, <4>1, <4>2 DEF Types
    <3> QED
      BY <2>4, <3>1 DEF Linked
  <2> QED
    BY <2>5, <2>6 DEF ListInv
<1> QED
  BY <1>1, <1>2 DEF Alloc

(* A refill takes a batch from the front of the list. *)
LEMMA RefillList ==
  ASSUME Types, EmptyHanded, NEW t \in Threads, Refill(t),
         NEW list \in Seq(Objects), Linked(list), Apart(list)
  PROVE  ListInv' /\ Len(cache'[t]) < Batch
<1>1. cache[t] = <<>> /\ freeHead # Null /\ list # <<>>
  BY DEF Refill, EmptyHanded, ToTheList, Linked
<1>2. Len(list) \in Nat /\ Len(list) > 0 /\ Batch \in Nat /\ Batch > 0
  BY <1>1, PoolAssumption
<1>d. DOMAIN list = 1 .. Len(list)
  OBVIOUS
<1>3. PICK k \in 0 .. Len(list) :
        k > 0 /\ k <= Batch /\ k = IF Batch <= Len(list) THEN Batch ELSE Len(list)
  <2>1. CASE Batch <= Len(list)
    <3>1. Batch \in 0 .. Len(list)
      BY <1>2, <2>1
    <3> QED
      BY <1>2, <2>1, <3>1
  <2>2. CASE ~(Batch <= Len(list))
    <3>1. Len(list) \in 0 .. Len(list)
      BY <1>2
    <3> QED
      BY <1>2, <2>2, <3>1
  <2> QED
    BY <2>1, <2>2
<1> DEFINE a == SubSeq(list, 1, k)
           b == SubSeq(list, k + 1, Len(list))
<1>4. k \in 1 .. Len(list)
  BY <1>2, <1>3
<1>5. /\ a \in Seq(Objects) /\ Len(a) = k /\ Distinct(a) /\ \A i \in 1 .. k : a[i] = list[i]
      /\ b \in Seq(Objects) /\ Len(b) = Len(list) - k /\ Distinct(b)
      /\ \A i \in 1 .. Len(list) - k : b[i] = list[k + i]
      /\ Members(a) \cap Members(b) = {} /\ Members(a) \cup Members(b) = Members(list)
  <2>1. Distinct(list)
    BY DEF Apart
  <2> QED
    BY <2>1, Cut
<1>6. Walk(freeHead, Batch) = a
  BY <1>2, <1>3, WalkList
<1>7. freeHead' = next[a[Len(a)]] /\ HandOut(t, cache[t] \o a)
  BY <1>6 DEF Refill
<1> HIDE DEF a, b
<1>8. cache[t] \o a = a /\ a # <<>> /\ a[Len(a)] = list[k]
  BY <1>1, <1>4, <1>5
<1>9. Apart(b)'
  <2>1. Members(a) \cap held[t] = {}
    BY <1>5 DEF Apart, Used
  <2>2. Members(cache[t]) = {}
    BY <1>1 DEF Members
  <2>3. HandOut(t, a) /\ Members(a) \cup Members(b) = Members(cache[t]) \cup Members(list)
    BY <1>5, <1>7, <1>8, <2>2
  <2> QED
    BY <1>5, <1>8, <2>1, <2>3, HandOutApart DEF Types
<1>10. Linked(b)'
  <2>1. next' = [next EXCEPT ![list[k]] = Junk] /\ list[k] \in Members(a)
    <3>1. k \in DOMAIN a
      BY <1>4, <1>5
    <3> QED
      BY <1>5, <1>7, <1>8, <3>1 DEF HandOut, Members
  <2>2. /\ DOMAIN b = 1 .. Len(list) - k
        /\ \A i \in DOMAIN b : k + i \in DOMAIN list /\ b[i] = list[k + i] /\ b[i] \in Members(b)
    BY <1>2, <1>4, <1>5, <1>d DEF Members
  <2>3. ASSUME NEW i \in DOMAIN b PROVE next'[b[i]] = next[list[k + i]]
    <3>1. b[i] \in Objects /\ b[i] # list[k]
      BY <1>5, <2>1, <2>2
    <3> QED
      BY <2>1, <2>2, <3>1 DEF Types
  <2>4. ASSUME NEW i \in DOMAIN b PROVE next'[b[i]] = IF i = Len(b) THEN Null ELSE b[i + 1]
    <3>1. CASE i = Len(b)
      <4>1. k + i = Len(list)
        BY <1>2, <1>4, <1>5, <3>1
      <4> QED
        BY <2>2, <2>3, <3>1, <4>1 DEF Linked
    <3>2. CASE i # Len(b)
      <4>1. i + 1 \in DOMAIN b /\ k + i # Len(list) /\ k + (i + 1) = (k + i) + 1
        BY <1>2, <1>4, <1>5, <2>2, <3>2
      <4> QED
        BY <2>2, <2>3, <3>2, <4>1 DEF Linked
    <3> QED
      BY <3>1, <3>2
  <2>5. freeHead' = IF b = <<>> THEN Null ELSE b[1]
    <3>1. freeHead' = IF k = Len(list) THEN Null ELSE list[k + 1]
      BY <1>2, <1>4, <1>7, <1>8, <1>d DEF Linked
    <3>2. CASE k = Len(list)
      BY <1>2, <1>5, <3>1, <3>2
    <3>3. CASE k # Len(list)
      <4>1. Len(b) = Len(list) - k
        BY <1>5
      <4>2. 1 \in 1 .. Len(list) - k /\ b # <<>>
        BY <1>2, <1>4, <3>3, <4>1
      <4> QED
        BY <1>5, <3>1, <3>3, <4>2
    <3> QED
      BY <3>2, <3>3
  <2> QED
    BY <2>4, <2>5 DEF Linked
<1>11. Len(cache'[t]) < Batch
  <2>1. cache'[t] = SubSeq(a, 1, Len(a) - 1)
    BY <1>7, <1>8 DEF HandOut, Types
  <2>2. Len(a) = k /\ Len(SubSeq(a, 1, Len(a) - 1)) = Len(a) - 1
    BY <1>5, <1>8, Top
  <2> QED
    BY <1>3, <2>1, <2>2
<1> QED
  BY <1>5, <1>9, <1>10, <1>11 DEF ListInv

(* A freed object goes on top of the cache. *)
LEMMA FreeKeepsList ==
  ASSUME Types, NEW t \in Threads, NEW o \in Objects, Free(t, o),
         NEW list \in Seq(Objects), Linked(list), Apart(list)
  PROVE  ListInv'
<1>1. /\ o \in held[t] /\ cache[t] \in Seq(Objects)
      /\ cache' = [cache EXCEPT ![t] = Append(cache[t], o)]
      /\ held' = [held EXCEPT ![t] = held[t] \ {o}]
      /\ UNCHANGED <<freeHead, next>>
  BY DEF Free, Types
<1>2. /\ Distinct(cache[t]) /\ Members(cache[t]) \cap held[t] = {}
      /\ Used(t) \cap Members(list) = {} /\ Distinct(list)
  BY DEF Apart
<1>3. cache'[t] = Append(cache[t], o) /\ held'[t] = held[t] \ {o}
  BY <1>1 DEF Types
<1>4. /\ Distinct(Append(cache[t], o))
      /\ Members(Append(cache[t], o)) = Members(cache[t]) \cup {o}
  BY <1>1, <1>2, Push
<1>5. Distinct(cache'[t]) /\ Members(cache'[t]) = Members(cache[t]) \cup {o}
  BY <1>3, <1>4
<1>6. Used(t) = Members(cache[t]) \cup held[t] /\ Used(t)' = Members(cache'[t]) \cup held'[t]
  BY DEF Used, Members
<1>7. /\ Members(cache'[t]) \cap held'[t] = {}
      /\ Used(t)' \cap Members(list) = {}
      /\ Used(t)' \cup Members(list) = Used(t) \cup Members(list)
  BY <1>1, <1>2, <1>3, <1>5, <1>6
<1>8. \A u \in Threads \ {t} : cache'[u] = cache[u] /\ held'[u] = held[u]
  BY <1>1 DEF Types
<1>9. Apart(list)'
  BY <1>2, <1>5, <1>7, <1>8, Exchange
<1>10. Linked(list)'
  BY <1>1 DEF Linked
<1> QED
  BY <1>9, <1>10 DEF ListInv

(* A flush puts the upper half of a full cache in front of the list. *)
LEMMA FlushList ==
  ASSUME Types, NEW t \in Threads, NEW o \in Objects, FreeFlush(t, o),
         NEW list \in Seq(Objects), Linked(list), Apart(list)
  PROVE  ListInv' /\ Len(cache'[t]) <= CacheCap
<1>s. PICK s \in Seq(Objects) : s = cache[t]
  BY DEF Types
<1>1. s \in Seq(Objects) /\ Len(s) = CacheCap /\ o \in held[t]
  BY <1>s DEF FreeFlush
<1>2. PICK k \in 0 .. Len(s) : k = CacheCap \div 2 /\ k < CacheCap
  <2>1. CacheCap \div 2 \in 0 .. CacheCap /\ CacheCap \div 2 < CacheCap
    BY PoolAssumption
  <2> QED
    BY <1>1, <2>1
<1> DEFINE a == SubSeq(s, 1, k)
           b == SubSeq(s, k + 1, Len(s))
<1>3. /\ cache' = [cache EXCEPT ![t] = Append(a, o)]
      /\ held' = [held EXCEPT ![t] = held[t] \ {o}]
      /\ Prepend(b)
  BY <1>s, <1>2 DEF FreeFlush
<1>4. /\ Distinct(s) /\ Members(s) \cap held[t] = {}
      /\ Used(t) \cap Members(list) = {} /\ Distinct(list)
      /\ Used(t) = Members(s) \cup held[t]
  BY <1>s DEF Apart, Used
<1>5. /\ a \in Seq(Objects) /\ Len(a) = k /\ Distinct(a)
      /\ b \in Seq(Objects) /\ Len(b) = Len(s) - k /\ Distinct(b)
      /\ Members(a) \cap Members(b) = {} /\ Members(a) \cup Members(b) = Members(s)
  <2>1. s \in Seq(Objects) /\ Distinct(s)
    BY <1>1, <1>4
  <2> QED
    BY <2>1, Cut
<1> HIDE DEF a, b
<1>6. b # <<>>
  BY <1>1, <1>2, <1>5
<1>7. cache'[t] = Append(a, o) /\ held'[t] = held[t] \ {o}
  BY <1>3 DEF Types
<1>8. o \notin Members(a)
  BY <1>1, <1>4, <1>5
<1>9. /\ Distinct(Append(a, o)) /\ Len(Append(a, o)) = k + 1
      /\ Members(Append(a, o)) = Members(a) \cup {o}
  BY <1>5, <1>8, Push
<1>10. Distinct(cache'[t]) /\ Members(cache'[t]) = Members(a) \cup {o}
  BY <1>7, <1>9
<1>11. Members(b) \cap Members(list) = {}
  BY <1>4, <1>5
<1>12. /\ b \o list \in Seq(Objects) /\ Distinct(b \o list)
       /\ Members(b \o list) = Members(b) \cup Members(list)
  BY <1>4, <1>5, <1>11, Join
<1>13. Used(t)' = Members(cache'[t]) \cup held'[t]
  BY DEF Used, Members
<1>14. Members(cache'[t]) \cap held'[t] = {}
  BY <1>4, <1>5, <1>7, <1>10
<1>15. Used(t)' \cap Members(b \o list) = {}
  BY <1>1, <1>4, <1>5, <1>7, <1>10, <1>12, <1>13
<1>16. Used(t)' \cup Members(b \o list) = Used(t) \cup Members(list)
  BY <1>1, <1>4, <1>5, <1>7, <1>10, <1>12, <1>13
<1>17. \A u \in Threads \ {t} : cache'[u] = cache[u] /\ held'[u] = held[u]
  BY <1>3 DEF Types
<1>18. Apart(b \o list)'
  <2> DEFINE rest == b \o list
  <2>1. Distinct(rest) /\ Used(t)' \cap Members(rest) = {}
        /\ Used(t)' \cup Members(rest) = Used(t) \cup Members(list)
    BY <1>12, <1>15, <1>16
  <2> HIDE DEF rest
  <2>2. Apart(rest)'
    BY <1>10, <1>14, <1>17, <2>1, Exchange
  <2> QED
    BY <2>2 DEF rest
<1>19. Linked(b \o list)'
  BY <1>3, <1>4, <1>5, <1>6, <1>11, PrependLinked DEF Types
<1>20. Len(cache'[t]) <= CacheCap
  BY <1>2, <1>7, <1>9, PoolAssumption
<1> QED
  BY <1>12, <1>18, <1>19, <1>20 DEF ListInv

(* A thread that ends puts its whole cache in front of the list. *)
LEMMA ExitList ==
  ASSUME Types, NEW t \in Threads, Exit(t),
         NEW list \in Seq(Objects), Linked(list), Apart(list)
  PROVE  ListInv'
<1>s. PICK s \in Seq(Objects) : s = cache[t]
  BY DEF Types
<1>1. s \in Seq(Objects) /\ held' = held /\ cache' = [cache EXCEPT ![t] = <<>>] /\ held[t] = {}
  BY DEF Exit, Types
<1>2. CASE s = <<>>
  <2>1. cache' = cache /\ UNCHANGED <<freeHead, next, held>>
    BY <1>s, <1>1, <1>2 DEF Exit, Types
  <2> QED
    BY <2>1, SameObjects
<1>3. CASE s # <<>>
  <2>1. Prepend(s)
    BY <1>s, <1>3 DEF Exit
  <2>2. /\ Distinct(s) /\ Distinct(list) /\ Members(s) \cap Members(list) = {}
        /\ Used(t) = Members(s)
    BY <1>s, <1>1 DEF Apart, Used
  <2>3. /\ s \o list \in Seq(Objects) /\ Distinct(s \o list)
        /\ Members(s \o list) = Members(s) \cup Members(list)
    BY <1>1, <2>2, Join
  <2>4. cache'[t] = <<>> /\ held'[t] = {}
    BY <1>1 DEF Types
  <2>5. Distinct(cache'[t]) /\ Members(cache'[t]) = {} /\ Used(t)' = {}
    BY <2>4 DEF Distinct, Members, Used
  <2>6. \A u \in Threads \ {t} : cache'[u] = cache[u] /\ held'[u] = held[u]
    BY <1>1 DEF Types
  <2>7. Apart(s \o list)'
    <3> DEFINE rest == s \o list
    <3>1. /\ Distinct(rest) /\ Used(t)' \cap Members(rest) = {}
          /\ Used(t)' \cup Members(rest) = Used(t) \cup Members(list)
          /\ Members(cache'[t]) \cap held'[t] = {}
      BY <2>2, <2>3, <2>5
    <3> HIDE DEF rest
    <3>2. Apart(rest)'
      BY <2>5, <2>6, <3>1, Exchange
    <3> QED
      BY <3>2 DEF rest
  <2>8. Linked(s \o list)'
    BY <1>1, <1>3, <2>1, <2>2, PrependLinked DEF Types
  <2> QED
    BY <2>3, <2>7, <2>8 DEF ListInv
<1> QED
  BY <1>2, <1>3

(***************************************************************************)
(* The inductive invariant                                                 *)
(***************************************************************************)

(* PoolInv with the free list as a sequence that exists, not one that is     *)
(* read by walking.                                                          *)
IInv ==
  /\ Types /\ left \in [Threads -> 0 .. Ops] /\ pc \in [Threads -> Labels]
  /\ WaitersExact /\ CacheFits /\ EmptyHanded
  /\ ListInv

(* A new pool is one chain of all objects; every cache is empty. *)
LEMMA PoolInit == Init => IInv
<1> SUFFICES ASSUME Init PROVE IInv
  OBVIOUS
<1>1. PICK list \in Seq(Objects) : list = [i \in 1 .. PoolSize |-> PoolSize + 1 - i]
  <2>1. PoolSize \in Nat /\ \A i \in 1 .. PoolSize : PoolSize + 1 - i \in Objects
    BY PoolAssumption DEF Objects
  <2>2. [i \in 1 .. PoolSize |-> PoolSize + 1 - i] \in Seq(Objects)
    BY <2>1
  <2> QED
    BY <2>2
<1>2. /\ Len(list) = PoolSize /\ DOMAIN list = 1 .. PoolSize /\ list # <<>>
      /\ \A i \in 1 .. PoolSize : list[i] = PoolSize + 1 - i
  BY <1>1, PoolAssumption
<1>3. Types /\ left \in [Threads -> 0 .. Ops] /\ pc \in [Threads -> Labels]
  BY PoolAssumption DEF Init, Types, Objects, Null, Junk, Labels
<1>4. WaitersExact
  <2>1. {t \in Threads : pc[t] \in {"parked", "woken"}} = {}
    BY DEF Init
  <2> QED
    BY <2>1, FS_EmptySet DEF WaitersExact, Init
<1>5. CacheFits /\ EmptyHanded
  BY PoolAssumption DEF Init, CacheFits, EmptyHanded
<1>6. \A t \in Threads : cache[t] = <<>> /\ held[t] = {} /\ Used(t) = {}
  BY DEF Init, Used, Members
<1>7. Linked(list)
  <2>1. freeHead = list[1]
    BY <1>2, PoolAssumption DEF Init
  <2>2. ASSUME NEW i \in DOMAIN list PROVE next[list[i]] = IF i = Len(list) THEN Null ELSE list[i + 1]
    <3>1. list[i] \in Objects /\ list[i] = PoolSize + 1 - i /\ next[list[i]] = list[i] - 1
      BY <1>2 DEF Init
    <3>2. CASE i = Len(list)
      BY <1>2, <3>1, <3>2, PoolAssumption DEF Null
    <3>3. CASE i # Len(list)
      <4>1. i + 1 \in 1 .. PoolSize
        BY <1>2, <3>3, PoolAssumption
      <4>2. list[i + 1] = PoolSize + 1 - (i + 1)
        BY <1>2, <4>1
      <4> QED
        BY <1>2, <3>1, <3>3, <4>2, PoolAssumption
    <3> QED
      BY <3>2, <3>3
  <2> QED
    BY <1>2, <2>1, <2>2 DEF Linked
<1>8. Apart(list)
  <2>1. Distinct(list)
    BY <1>2, PoolAssumption DEF Distinct
  <2>2. ASSUME NEW o \in Objects PROVE o \in Members(list)
    <3>1. PoolSize + 1 - o \in DOMAIN list /\ list[PoolSize + 1 - o] = o
      BY <1>2, PoolAssumption DEF Objects
    <3> QED
      BY <3>1 DEF Members
  <2>3. \A t \in Threads : Distinct(cache[t]) /\ Members(cache[t]) \cap held[t] = {}
    BY <1>6 DEF Distinct
  <2> QED
    BY <1>6, <2>1, <2>2, <2>3 DEF Apart
<1> QED
  BY <1>3, <1>4, <1>5, <1>7, <1>8 DEF IInv, ListInv

(* waiters counts a thread in when it parks and out when it has woken up;  *)
(* a broadcast moves the threads it wakes but counts none.                 *)
LEMMA WaitersStep == IInv /\ [Next]_vars => WaitersExact'
<1> SUFFICES ASSUME IInv, [Next]_vars PROVE WaitersExact'
  OBVIOUS
<1> DEFINE W == {t \in Threads : pc[t] \in {"parked", "woken"}}
<1>1. waiters = Cardinality(W) /\ IsFiniteSet(W)
  BY PoolAssumption, FS_Subset DEF IInv, WaitersExact
<1>2. SUFFICES waiters' = Cardinality(W')
  BY DEF WaitersExact
<1>3. pc \in [Threads -> Labels]
  BY DEF IInv
<1>4. ASSUME NEW t \in Threads, NEW l \in Labels, pc[t] \notin {"parked", "woken"},
             l \notin {"parked", "woken"}, Goto(t, l), waiters' = waiters
      PROVE  waiters' = Cardinality(W')
  <2>1. W' = W
    BY <1>3, <1>4 DEF Goto
  <2> QED
    BY <1>1, <1>4, <2>1
<1>5. ASSUME NEW t \in Threads, Park(t) PROVE waiters' = Cardinality(W')
  <2>1. W' = W \cup {t} /\ t \notin W
    BY <1>3, <1>5 DEF Park, Goto
  <2> HIDE DEF W
  <2>2. Cardinality(W \cup {t}) = Cardinality(W) + 1
    BY <1>1, <2>1, FS_AddElement
  <2> QED
    BY <1>1, <1>5, <2>1, <2>2 DEF Park
<1>6. ASSUME NEW t \in Threads, Wake(t) PROVE waiters' = Cardinality(W')
  <2>1. W' = W \ {t} /\ t \in W
    BY <1>3, <1>6 DEF Wake, Goto
  <2> HIDE DEF W
  <2>2. Cardinality(W \ {t}) = Cardinality(W) - 1
    BY <1>1, <2>1, FS_RemoveElement
  <2> QED
    BY <1>1, <1>6, <2>1, <2>2 DEF Wake
<1>7. ASSUME NEW t \in Threads, Spurious(t) \/ Signal(t) PROVE waiters' = Cardinality(W')
  <2>1. W' = W
    <3>1. CASE Spurious(t)
      BY <1>3, <3>1 DEF Spurious, Goto
    <3>2. CASE Signal(t)
      <4>1. \A u \in Threads : pc'[u] \in {"parked", "woken"} <=> pc[u] \in {"parked", "woken"}
        BY <1>3, <3>2 DEF Signal
      <4> QED
        BY <4>1
    <3> QED
      BY <1>7, <3>1, <3>2
  <2>2. waiters' = waiters
    BY <1>7 DEF Spurious, Signal
  <2> QED
    BY <1>1, <2>1, <2>2
<1>8. ASSUME NEW t \in Threads, ThreadInit(t) \/ RefillEmpty(t) \/ Refill(t)
      PROVE  waiters' = Cardinality(W')
  BY <1>3, <1>4, <1>8 DEF ThreadInit, RefillEmpty, Refill, Labels
<1>9. ASSUME pc' = pc, waiters' = waiters PROVE waiters' = Cardinality(W')
  BY <1>1, <1>9
<1>10. ASSUME NEW t \in Threads, Alloc(t) PROVE waiters' = Cardinality(W')
  BY <1>4, <1>9, <1>10 DEF Alloc, Labels
<1>11. ASSUME NEW t \in Threads, NEW o \in Objects, Free(t, o) \/ FreeFlush(t, o)
       PROVE  waiters' = Cardinality(W')
  BY <1>4, <1>9, <1>11 DEF Free, FreeFlush, Announce, Labels
<1>12. ASSUME NEW t \in Threads, Exit(t) PROVE waiters' = Cardinality(W')
  BY <1>4, <1>12 DEF Exit, Announce, Labels
<1>13. CASE UNCHANGED vars
  BY <1>9, <1>13 DEF vars
<1> QED
  BY <1>5, <1>6, <1>7, <1>8, <1>10, <1>11, <1>12, <1>13 DEF Next, Step

(* The free list remains a chain, apart from what the threads have. *)
LEMMA ListStep == IInv /\ [Next]_vars => ListInv'
<1> SUFFICES ASSUME IInv, [Next]_vars PROVE ListInv'
  OBVIOUS
<1>1. Types /\ EmptyHanded
  BY DEF IInv
<1>2. PICK list \in Seq(Objects) : Linked(list) /\ Apart(list)
  BY DEF IInv, ListInv
<1>3. ASSUME UNCHANGED <<freeHead, next, cache, held>> PROVE ListInv'
  BY <1>2, <1>3, SameObjects
<1>4. ASSUME NEW t \in Threads, Alloc(t) PROVE ListInv'
  BY <1>1, <1>2, <1>4, AllocList
<1>5. ASSUME NEW t \in Threads, Refill(t) PROVE ListInv'
  BY <1>1, <1>2, <1>5, RefillList
<1>6. ASSUME NEW t \in Threads, NEW o \in Objects, Free(t, o) PROVE ListInv'
  BY <1>1, <1>2, <1>6, FreeKeepsList
<1>7. ASSUME NEW t \in Threads, NEW o \in Objects, FreeFlush(t, o) PROVE ListInv'
  BY <1>1, <1>2, <1>7, FlushList
<1>8. ASSUME NEW t \in Threads, Exit(t) PROVE ListInv'
  BY <1>1, <1>2, <1>8, ExitList
<1>9. ASSUME NEW t \in Threads,
             ThreadInit(t) \/ RefillEmpty(t) \/ Park(t) \/ Wake(t) \/ Spurious(t) \/ Signal(t)
      PROVE  ListInv'
  BY <1>3, <1>9 DEF ThreadInit, RefillEmpty, Park, Wake, Spurious, Signal
<1>10. CASE UNCHANGED vars
  BY <1>3, <1>10 DEF vars
<1> QED
  BY <1>4, <1>5, <1>6, <1>7, <1>8, <1>9, <1>10 DEF Next, Step

(* The head of a list is an object or null. *)
LEMMA HeadType ==
  ASSUME ListInv
  PROVE  freeHead \in Objects \cup {Null}
<1>1. PICK list \in Seq(Objects) : Linked(list)
  BY DEF ListInv
<1>2. list # <<>> => list[1] \in Objects
  OBVIOUS
<1> QED
  BY <1>1, <1>2 DEF Linked

(* What Prepend writes to the links are links. *)
LEMMA PrependType ==
  ASSUME next \in [Objects -> Objects \cup {Null, Junk}], freeHead \in Objects \cup {Null},
         NEW chain \in Seq(Objects), Prepend(chain)
  PROVE  next' \in [Objects -> Objects \cup {Null, Junk}]
<1> DEFINE At(o) == CHOOSE i \in DOMAIN chain : chain[i] = o
           Link(o) == IF \E i \in DOMAIN chain : chain[i] = o
                      THEN IF At(o) = Len(chain) THEN freeHead ELSE chain[At(o) + 1]
                      ELSE next[o]
<1>1. next' = [o \in Objects |-> Link(o)]
  BY DEF Prepend
<1>2. ASSUME NEW o \in Objects, \E i \in DOMAIN chain : chain[i] = o, At(o) # Len(chain)
      PROVE  chain[At(o) + 1] \in Objects
  <2>1. At(o) \in DOMAIN chain
    BY <1>2
  <2>2. Len(chain) \in Nat /\ DOMAIN chain = 1 .. Len(chain)
    OBVIOUS
  <2> HIDE DEF At
  <2>3. At(o) + 1 \in DOMAIN chain
    BY <1>2, <2>1, <2>2
  <2> QED
    BY <2>3
<1> HIDE DEF At
<1>3. \A o \in Objects : Link(o) \in Objects \cup {Null, Junk}
  BY <1>2
<1> QED
  BY <1>1, <1>3

(* Types, caches within their arrays, and nothing in the cache of a thread   *)
(* that goes to the list.                                                    *)
LEMMA ShapeStep ==
  IInv /\ [Next]_vars =>
    /\ Types' /\ left' \in [Threads -> 0 .. Ops] /\ pc' \in [Threads -> Labels]
    /\ CacheFits' /\ EmptyHanded'
<1> DEFINE Shape ==
      /\ Types /\ left \in [Threads -> 0 .. Ops] /\ pc \in [Threads -> Labels]
      /\ CacheFits /\ EmptyHanded
<1> SUFFICES ASSUME IInv, [Next]_vars PROVE Shape'
  OBVIOUS
<1>1. /\ Types /\ left \in [Threads -> 0 .. Ops] /\ pc \in [Threads -> Labels]
      /\ CacheFits /\ EmptyHanded /\ freeHead \in Objects \cup {Null}
  BY HeadType DEF IInv
<1>2. PICK list \in Seq(Objects) : Linked(list) /\ Apart(list)
  BY DEF IInv, ListInv
<1>3. ASSUME NEW t \in Threads, NEW l \in Labels, Goto(t, l), UNCHANGED <<next, cache, held, left>>,
             l \in ToTheList => cache[t] = <<>>
      PROVE  Shape'
  BY <1>1, <1>3 DEF Goto, Types, CacheFits, EmptyHanded
<1>4. ASSUME NEW t \in Threads, ThreadInit(t) \/ RefillEmpty(t) \/ Park(t) \/ Wake(t) \/ Spurious(t)
      PROVE  Shape'
  <2>1. pc[t] \in ToTheList => cache[t] = <<>>
    BY <1>1 DEF EmptyHanded
  <2> QED
    BY <1>3, <1>4, <2>1 DEF ThreadInit, RefillEmpty, Park, Wake, Spurious, Labels, ToTheList
<1>5. ASSUME NEW t \in Threads, Signal(t) PROVE Shape'
  <2>1. pc' \in [Threads -> Labels]
    BY <1>1, <1>5 DEF Signal, Labels
  <2>2. \A u \in Threads : pc'[u] \in ToTheList => pc[u] \in ToTheList
    BY <1>1, <1>5 DEF Signal, ToTheList
  <2> QED
    BY <1>1, <1>5, <2>1, <2>2 DEF Signal, Types, CacheFits, EmptyHanded
<1>6. ASSUME NEW t \in Threads, NEW s \in Seq(Objects), s # <<>>, HandOut(t, s),
             Len(SubSeq(s, 1, Len(s) - 1)) <= CacheCap
      PROVE  Types' /\ CacheFits' /\ \A u \in Threads \ {t} : cache'[u] = cache[u]
  <2>1. s[Len(s)] \in Objects /\ SubSeq(s, 1, Len(s) - 1) \in Seq(Objects)
    BY <1>6
  <2>2. Types'
    BY <1>1, <1>6, <2>1 DEF HandOut, Types
  <2>3. /\ cache'[t] = SubSeq(s, 1, Len(s) - 1)
        /\ \A u \in Threads \ {t} : cache'[u] = cache[u]
    BY <1>1, <1>6 DEF HandOut, Types
  <2> QED
    BY <1>1, <1>6, <2>2, <2>3 DEF CacheFits
<1>7. ASSUME NEW t \in Threads, Alloc(t) PROVE Shape'
  <2>1. left' \in [Threads -> 0 .. Ops]
    <3>1. left' = [left EXCEPT ![t] = left[t] - 1] /\ left[t] > 0 /\ left[t] \in 0 .. Ops
      BY <1>1, <1>7 DEF Alloc
    <3>2. left[t] - 1 \in 0 .. Ops
      BY <3>1, PoolAssumption
    <3> QED
      BY <1>1, <3>1, <3>2
  <2>2. CASE cache[t] = <<>> /\ Goto(t, "refill") /\ UNCHANGED <<next, cache, held>>
    <3>1. pc' \in [Threads -> Labels] /\ EmptyHanded'
      BY <1>1, <2>2 DEF Goto, Labels, EmptyHanded
    <3> QED
      BY <1>1, <2>1, <2>2, <3>1 DEF Types, CacheFits
  <2>3. CASE cache[t] # <<>> /\ HandOut(t, cache[t]) /\ UNCHANGED pc
    <3>1. cache[t] \in Seq(Objects) /\ Len(cache[t]) <= CacheCap /\ CacheCap \in Nat
      BY <1>1, PoolAssumption DEF Types, CacheFits
    <3>2. Len(SubSeq(cache[t], 1, Len(cache[t]) - 1)) <= CacheCap
      BY <2>3, <3>1
    <3>3. Types' /\ CacheFits' /\ \A u \in Threads \ {t} : cache'[u] = cache[u]
      BY <1>6, <2>3, <3>1, <3>2
    <3>4. pc[t] \notin ToTheList
      BY <1>7 DEF Alloc, ToTheList
    <3> QED
      BY <1>1, <2>1, <2>3, <3>3, <3>4 DEF EmptyHanded
  <2> QED
    BY <1>7, <2>2, <2>3 DEF Alloc
<1>8. ASSUME NEW t \in Threads, Refill(t) PROVE Shape'
  <2>1. Len(cache'[t]) < Batch
    BY <1>1, <1>2, <1>8, RefillList
  <2>2. cache[t] = <<>> /\ freeHead # Null /\ list # <<>>
    BY <1>1, <1>2, <1>8 DEF Refill, EmptyHanded, ToTheList, Linked
  <2>3. PICK s \in Seq(Objects) : s # <<>> /\ HandOut(t, s)
    <3> DEFINE k == IF Batch <= Len(list) THEN Batch ELSE Len(list)
               a == SubSeq(list, 1, k)
    <3>1. Walk(freeHead, Batch) = a
      BY <1>2, WalkList, PoolAssumption
    <3>2. Len(list) \in Nat /\ Len(list) > 0 /\ Batch \in Nat /\ Batch > 0
      BY <2>2, PoolAssumption
    <3>3. k \in Nat /\ k > 0 /\ k <= Len(list)
      BY <3>2
    <3> HIDE DEF k
    <3>4. a \in Seq(Objects) /\ Len(a) = k /\ a # <<>>
      BY <3>2, <3>3
    <3> HIDE DEF a
    <3>5. cache[t] \o a = a
      BY <2>2, <3>4
    <3>6. HandOut(t, a)
      BY <1>8, <3>1, <3>5 DEF Refill
    <3> QED
      BY <3>4, <3>6
  <2>4. cache'[t] = SubSeq(s, 1, Len(s) - 1) /\ cache' \in [Threads -> Seq(Objects)]
    BY <1>1, <2>3 DEF HandOut, Types
  <2>5. Len(SubSeq(s, 1, Len(s) - 1)) <= CacheCap
    <3>1. Len(cache'[t]) \in Nat
      BY <2>4
    <3> QED
      BY <2>1, <2>4, <3>1, PoolAssumption
  <2>6. Types' /\ CacheFits' /\ \A u \in Threads \ {t} : cache'[u] = cache[u]
    BY <1>6, <2>3, <2>5
  <2>7. Goto(t, "idle") /\ left' = left
    BY <1>8 DEF Refill
  <2>8. pc' \in [Threads -> Labels] /\ EmptyHanded'
    BY <1>1, <2>6, <2>7 DEF Goto, Labels, EmptyHanded, ToTheList
  <2> QED
    BY <1>1, <2>6, <2>7, <2>8
<1>9. ASSUME NEW t \in Threads, NEW o \in Objects, Free(t, o) PROVE Shape'
  <2>1. cache[t] \in Seq(Objects) /\ Len(cache[t]) < CacheCap /\ CacheCap \in Nat
    BY <1>1, <1>9, PoolAssumption DEF Free, Types
  <2>2. Append(cache[t], o) \in Seq(Objects) /\ Len(Append(cache[t], o)) <= CacheCap
    BY <2>1
  <2>3. /\ cache' = [cache EXCEPT ![t] = Append(cache[t], o)]
        /\ held' = [held EXCEPT ![t] = held[t] \ {o}]
        /\ UNCHANGED <<next, left, pc>> /\ pc[t] \notin ToTheList
    BY <1>9 DEF Free, ToTheList
  <2> QED
    BY <1>1, <2>2, <2>3 DEF Types, CacheFits, EmptyHanded
<1>10. ASSUME NEW t \in Threads, NEW o \in Objects, FreeFlush(t, o) PROVE Shape'
  <2> DEFINE k == CacheCap \div 2
             a == SubSeq(cache[t], 1, k)
             b == SubSeq(cache[t], k + 1, Len(cache[t]))
  <2>1. cache[t] \in Seq(Objects) /\ Len(cache[t]) = CacheCap /\ k \in Nat /\ k < CacheCap
    BY <1>1, <1>10, PoolAssumption DEF FreeFlush, Types
  <2>2. /\ cache' = [cache EXCEPT ![t] = Append(a, o)]
        /\ held' = [held EXCEPT ![t] = held[t] \ {o}]
        /\ Prepend(b) /\ left' = left
        /\ Goto(t, IF freeHead = Null THEN "signal" ELSE "idle")
    BY <1>10 DEF FreeFlush, Announce
  <2> HIDE DEF k
  <2>3. a \in Seq(Objects) /\ b \in Seq(Objects)
    BY <2>1, PoolAssumption
  <2>4. next' \in [Objects -> Objects \cup {Null, Junk}]
    BY <1>1, <2>2, <2>3, PrependType DEF Types
  <2> HIDE DEF a, b
  <2>5. Append(a, o) \in Seq(Objects)
    BY <2>3
  <2>6. Types'
    BY <1>1, <2>2, <2>4, <2>5 DEF Types
  <2>7. CacheFits'
    <3>1. Len(cache'[t]) <= CacheCap
      BY <1>1, <1>2, <1>10, FlushList
    <3> QED
      BY <1>1, <2>2, <3>1 DEF CacheFits, Types
  <2>8. pc' \in [Threads -> Labels] /\ EmptyHanded'
    BY <1>1, <2>2 DEF Goto, Labels, EmptyHanded, ToTheList, Types
  <2> QED
    BY <1>1, <2>2, <2>6, <2>7, <2>8
<1>11. ASSUME NEW t \in Threads, Exit(t) PROVE Shape'
  <2>1. /\ cache' = [cache EXCEPT ![t] = <<>>] /\ UNCHANGED <<held, left>>
        /\ \E l \in {"bye", "done"} : Goto(t, l)
    BY <1>11 DEF Exit, Announce
  <2>2. next' \in [Objects -> Objects \cup {Null, Junk}]
    <3>1. cache[t] \in Seq(Objects)
      BY <1>1 DEF Types
    <3>2. next' = next \/ Prepend(cache[t])
      BY <1>11 DEF Exit
    <3> QED
      BY <1>1, <3>1, <3>2, PrependType DEF Types
  <2>3. Types' /\ CacheFits'
    BY <1>1, <2>1, <2>2, PoolAssumption DEF Types, CacheFits
  <2>4. pc' \in [Threads -> Labels] /\ EmptyHanded'
    BY <1>1, <2>1 DEF Goto, Labels, EmptyHanded, ToTheList, Types
  <2> QED
    BY <1>1, <2>1, <2>3, <2>4
<1>12. CASE UNCHANGED vars
  BY <1>1, <1>12 DEF vars, Types, CacheFits, EmptyHanded
<1> QED
  BY <1>4, <1>5, <1>7, <1>8, <1>9, <1>10, <1>11, <1>12 DEF Next, Step

LEMMA PoolStep == IInv /\ [Next]_vars => IInv'
BY ListStep, ShapeStep, WaitersStep DEF IInv

LEMMA PoolAlways == Spec => []IInv
BY PoolInit, PoolStep, PTL DEF Spec

(***************************************************************************)
(* The properties                                                          *)
(***************************************************************************)

(* waiters never leaves the numbers a set of threads can count to, links     *)
(* and caches hold objects only.                                             *)
LEMMA InvTypes == IInv => TypeOK
<1> SUFFICES ASSUME IInv PROVE TypeOK
  OBVIOUS
<1> DEFINE W == {t \in Threads : pc[t] \in {"parked", "woken"}}
<1>1. Cardinality(W) \in Nat /\ Cardinality(W) <= Cardinality(Threads)
  BY PoolAssumption, FS_Subset, FS_CardinalityType
<1>2. Cardinality(Threads) \in Nat
  BY PoolAssumption, FS_CardinalityType
<1>3. waiters = Cardinality(W)
  BY DEF IInv, WaitersExact
<1> HIDE DEF W
<1>4. waiters \in 0 .. Cardinality(Threads)
  BY <1>1, <1>2, <1>3
<1>5. freeHead \in Objects \cup {Null}
  BY HeadType DEF IInv
<1> QED
  BY <1>4, <1>5 DEF IInv, Types, TypeOK

(* The invariant the run pool_shared checks: the list is a chain that ends,  *)
(* and no two places share an object (coding/pool.c:94-290).                 *)
THEOREM PoolInvariant == Spec => []PoolInv
<1>1. IInv => PoolInv
  <2> SUFFICES ASSUME IInv PROVE PoolInv
    OBVIOUS
  <2>1. PICK list \in Seq(Objects) : Linked(list) /\ Apart(list)
    BY DEF IInv, ListInv
  <2>2. FreeList = list
    BY <2>1, FreeListIs DEF Apart
  <2> QED
    BY <2>1, <2>2, InvTypes DEF PoolInv, IInv
<1> QED
  BY <1>1, PoolAlways, PTL

(* No store of mp_free or cache_refill goes past the end of objects[].       *)
THEOREM CachesFit == Spec => []CacheFits
<1>1. IInv => CacheFits
  BY DEF IInv
<1> QED
  BY <1>1, PoolAlways, PTL

(* A broadcast is skipped (lines 107, 158) only when no thread is between    *)
(* waiters++ and waiters--.                                                  *)
THEOREM WaitersAreExact == Spec => []WaitersExact
<1>1. IInv => WaitersExact
  BY DEF IInv
<1> QED
  BY <1>1, PoolAlways, PTL

(* No object is lost, handed out twice or on the list while it is in use,    *)
(* whatever the threads do and whatever they write to their objects.         *)
THEOREM ObjectsAreConserved == Spec => []EveryObjectOnce
<1>1. IInv => EveryObjectOnce
  <2> SUFFICES ASSUME IInv, NEW o \in Objects
               PROVE  Cardinality({i \in DOMAIN FreeList : FreeList[i] = o})
                      + Cardinality({p \in Threads \X (1 .. CacheCap + 1) :
                                       p[2] \in DOMAIN cache[p[1]] /\ cache[p[1]][p[2]] = o})
                      + Cardinality({t \in Threads : o \in held[t]}) = 1
    BY DEF EveryObjectOnce
  <2>1. PICK list \in Seq(Objects) : Linked(list) /\ Apart(list)
    BY DEF IInv, ListInv
  <2>2. FreeList = list /\ Distinct(list)
    BY <2>1, FreeListIs DEF Apart
  <2> DEFINE F == {i \in DOMAIN list : list[i] = o}
             C == {p \in Threads \X (1 .. CacheCap + 1) :
                     p[2] \in DOMAIN cache[p[1]] /\ cache[p[1]][p[2]] = o}
             H == {t \in Threads : o \in held[t]}
  <2>3. SUFFICES Cardinality(F) + Cardinality(C) + Cardinality(H) = 1
    BY <2>2
  <2>4. /\ \A t \in Threads : Distinct(cache[t]) /\ Members(cache[t]) \cap held[t] = {}
        /\ \A t \in Threads : Used(t) \cap Members(list) = {}
        /\ \A t, u \in Threads : t # u => Used(t) \cap Used(u) = {}
        /\ o \in Members(list) \/ \E t \in Threads : o \in Used(t)
    BY <2>1 DEF Apart
  <2>5. /\ \A t \in H : t \in Threads /\ o \in Used(t)
        /\ \A p \in C : p[1] \in Threads /\ o \in Members(cache[p[1]]) /\ o \in Used(p[1])
    BY DEF Used, Members
  <2>6. Cardinality({}) = 0 /\ \A x : Cardinality({x}) = 1
    BY FS_EmptySet, FS_Singleton
  <2>7. CASE o \in Members(list)
    <3>1. PICK i \in DOMAIN list : list[i] = o
      BY <2>7 DEF Members
    <3>2. F = {i}
      BY <2>2, <3>1 DEF Distinct
    <3>3. C = {} /\ H = {}
      BY <2>4, <2>5, <2>7
    <3> HIDE DEF F, C, H
    <3>4. Cardinality(F) = 1 /\ Cardinality(C) = 0 /\ Cardinality(H) = 0
      BY <2>6, <3>2, <3>3
    <3> QED
      BY <3>4
  <2>8. CASE o \notin Members(list)
    <3>1. F = {}
      BY <2>8 DEF Members
    <3>2. PICK t \in Threads : o \in Used(t)
      BY <2>4, <2>8
    <3>3. /\ \A u \in H : u = t
          /\ \A p \in C : p[1] = t
      BY <2>4, <2>5, <3>2
    <3>4. CASE o \in held[t]
      <4>1. H = {t}
        BY <3>3, <3>4
      <4>2. C = {}
        BY <2>4, <2>5, <3>3, <3>4
      <4> HIDE DEF F, C, H
      <4>3. Cardinality(F) = 0 /\ Cardinality(C) = 0 /\ Cardinality(H) = 1
        BY <2>6, <3>1, <4>1, <4>2
      <4> QED
        BY <4>3
    <3>5. CASE o \in Members(cache[t]) /\ o \notin held[t]
      <4>1. PICK i \in DOMAIN cache[t] : cache[t][i] = o
        BY <3>5 DEF Members
      <4>2. <<t, i>> \in C
        <5>1. i \in 1 .. CacheCap + 1
          BY <4>1, PoolAssumption DEF IInv, Types, CacheFits
        <5> QED
          BY <4>1, <5>1
      <4>3. \A p \in C : p = <<t, i>>
        <5> SUFFICES ASSUME NEW p \in C PROVE p = <<t, i>>
          OBVIOUS
        <5>1. p \in Threads \X (1 .. CacheCap + 1) /\ p[1] = t /\ p[2] \in DOMAIN cache[t] /\ cache[t][p[2]] = o
          BY <3>3
        <5>2. p[2] = i
          BY <2>4, <4>1, <5>1 DEF Distinct
        <5> QED
          BY <5>1, <5>2
      <4> HIDE DEF C
      <4>4. C = {<<t, i>>}
        BY <4>2, <4>3
      <4>5. H = {}
        BY <3>3, <3>5
      <4> HIDE DEF F, H
      <4>6. Cardinality(F) = 0 /\ Cardinality(C) = 1 /\ Cardinality(H) = 0
        BY <2>6, <3>1, <4>4, <4>5
      <4> QED
        BY <4>6
    <3> QED
      BY <3>2, <3>4, <3>5 DEF Used
  <2> QED
    BY <2>7, <2>8
<1> QED
  BY <1>1, PoolAlways, PTL

(***************************************************************************)
(* A pool that is large enough                                             *)
(***************************************************************************)

(* A thread of worker() has at most one batch: what is left of it in its     *)
(* cache, and the one object it uses.                                        *)
InUse(t) == IF held[t] = {} THEN 0 ELSE 1
OneBatch ==
  \A t \in Threads :
    /\ \A o, q \in held[t] : o = q
    /\ Len(cache[t]) + InUse(t) <= Batch
    /\ pc[t] \in ToTheList => held[t] = {}

(* If the list is empty the other threads have all objects, each of them at  *)
(* most a batch: their places in these batches number the objects.           *)
LEMMA NotExhausted ==
  ASSUME PoolSize > (Cardinality(Threads) - 1) * Batch, IInv, OneBatch,
         NEW t \in Threads, pc[t] = "refill"
  PROVE  freeHead # Null
<1> SUFFICES ASSUME freeHead = Null PROVE FALSE
  OBVIOUS
<1>1. PICK list \in Seq(Objects) : Linked(list) /\ Apart(list)
  BY DEF IInv, ListInv
<1>2. list = <<>>
  <2>1. list # <<>> => list[1] \in Objects
    OBVIOUS
  <2> QED
    BY <1>1, <2>1, PoolAssumption DEF Linked, Objects, Null
<1>3. Types /\ cache[t] = <<>> /\ held[t] = {}
  BY DEF IInv, EmptyHanded, OneBatch, ToTheList
<1>4. Used(t) = {} /\ Members(list) = {}
  BY <1>2, <1>3 DEF Used, Members
<1> DEFINE U == Threads \ {t}
           P == U \X (1 .. Batch)
           At(p, o) == \/ p[2] \in DOMAIN cache[p[1]] /\ cache[p[1]][p[2]] = o
                       \/ p[2] = Len(cache[p[1]]) + 1 /\ o \in held[p[1]]
<1>5. ASSUME NEW o \in Objects PROVE \E p \in P : At(p, o)
  <2>1. PICK u \in U : o \in Used(u)
    BY <1>1, <1>4 DEF Apart
  <2>2. cache[u] \in Seq(Objects) /\ Len(cache[u]) + InUse(u) <= Batch /\ Batch \in Nat
    BY <1>3, PoolAssumption DEF Types, OneBatch
  <2>a. Len(cache[u]) \in Nat /\ DOMAIN cache[u] = 1 .. Len(cache[u])
    BY <2>2
  <2>b. InUse(u) \in {0, 1} /\ (o \in held[u] => InUse(u) = 1)
    BY DEF InUse
  <2>3. CASE o \in Members(cache[u])
    <3>1. PICK i \in DOMAIN cache[u] : cache[u][i] = o
      BY <2>3 DEF Members
    <3>2. i \in 1 .. Batch
      BY <2>2, <2>a, <2>b, <3>1
    <3>3. <<u, i>> \in P /\ At(<<u, i>>, o)
      BY <3>1, <3>2
    <3> QED
      BY <3>3
  <2>4. CASE o \in held[u]
    <3>1. Len(cache[u]) + 1 \in 1 .. Batch
      BY <2>2, <2>4, <2>a, <2>b
    <3>2. <<u, Len(cache[u]) + 1>> \in P /\ At(<<u, Len(cache[u]) + 1>>, o)
      BY <2>4, <3>1
    <3> QED
      BY <3>2
  <2> QED
    BY <2>1, <2>3, <2>4 DEF Used
<1>6. ASSUME NEW p \in P, NEW o \in Objects, NEW q \in Objects, At(p, o), At(p, q) PROVE o = q
  <2>1. p[1] \in Threads /\ cache[p[1]] \in Seq(Objects)
    BY <1>3 DEF Types
  <2>2. Len(cache[p[1]]) + 1 \notin DOMAIN cache[p[1]]
    BY <2>1
  <2> QED
    BY <1>6, <2>1, <2>2 DEF OneBatch
<1> DEFINE f == [o \in Objects |-> CHOOSE p \in P : At(p, o)]
<1>7. \A o \in Objects : f[o] \in P /\ At(f[o], o)
  <2> HIDE DEF At, P
  <2> QED
    BY <1>5
<1> HIDE DEF At
<1>8. f \in Injection(Objects, P)
  <2>1. f \in [Objects -> P]
    <3> DEFINE g(o) == CHOOSE p \in P : At(p, o)
    <3>1. \A o \in Objects : g(o) \in P
      BY <1>7
    <3> HIDE DEF g
    <3>2. [o \in Objects |-> g(o)] \in [Objects -> P]
      BY <3>1
    <3> QED
      BY <3>2 DEF g
  <2> HIDE DEF f, P
  <2>2. \A o, q \in Objects : f[o] = f[q] => o = q
    BY <1>6, <1>7
  <2> QED
    BY <2>1, <2>2 DEF Injection, IsInjective
<1> HIDE DEF f
<1>9. IsFiniteSet(U) /\ Cardinality(U) = Cardinality(Threads) - 1
  BY PoolAssumption, FS_RemoveElement
<1> HIDE DEF U
<1>10. IsFiniteSet(P) /\ Cardinality(P) = (Cardinality(Threads) - 1) * Batch
  <2>1. IsFiniteSet(1 .. Batch) /\ Cardinality(1 .. Batch) = Batch
    BY PoolAssumption, FS_Interval
  <2>2. IsFiniteSet(U \X (1 .. Batch)) /\ Cardinality(U \X (1 .. Batch)) = Cardinality(U) * Cardinality(1 .. Batch)
    BY <1>9, <2>1, FS_Product
  <2> QED
    BY <1>9, <2>1, <2>2
<1> HIDE DEF P
<1>11. Cardinality(Objects) = PoolSize
  BY FS_Interval, PoolAssumption DEF Objects
<1>12. Cardinality(Objects) <= Cardinality(P)
  BY <1>8, <1>10, FS_Injection
<1>13. Cardinality(Threads) \in Nat /\ (Cardinality(Threads) - 1) * Batch \in Int /\ PoolSize \in Int
  BY PoolAssumption, FS_CardinalityType
<1> QED
  BY <1>10, <1>11, <1>12, <1>13

(* The list is never found empty, and a batch stays a batch: a refill finds  *)
(* the cache empty, and a flush would need more than one.                    *)
LEMMA RoomyStep ==
  ASSUME MaxHeld = 1, PoolSize > (Cardinality(Threads) - 1) * Batch,
         IInv, OneBatch, NeverEmpty, [Next]_vars
  PROVE  OneBatch' /\ NeverEmpty'
<1>1. Types /\ pc \in [Threads -> Labels] /\ EmptyHanded /\ Batch \in Nat /\ Batch > 0 /\ Batch <= CacheCap
  BY PoolAssumption DEF IInv
<1>2. PICK list \in Seq(Objects) : Linked(list) /\ Apart(list)
  BY DEF IInv, ListInv
<1> DEFINE B(t) == /\ \A o, q \in held[t] : o = q
                   /\ Len(cache[t]) + InUse(t) <= Batch
                   /\ pc[t] \in ToTheList => held[t] = {}
<1>3. \A t \in Threads : B(t) /\ Len(cache[t]) \in Nat /\ InUse(t) \in {0, 1}
  BY <1>1 DEF OneBatch, Types, InUse
<1>4. SUFFICES \A t \in Threads : B(t)' /\ pc'[t] # "park"
  BY DEF OneBatch, NeverEmpty
<1>5. ASSUME NEW t \in Threads, B(t)' /\ pc'[t] # "park",
             \A u \in Threads \ {t} : cache'[u] = cache[u] /\ held'[u] = held[u] /\ pc'[u] = pc[u]
      PROVE  \A u \in Threads : B(u)' /\ pc'[u] # "park"
  <2> SUFFICES ASSUME NEW u \in Threads, u # t PROVE B(u)' /\ pc'[u] # "park"
    BY <1>5
  <2> QED
    BY <1>3, <1>5 DEF InUse, NeverEmpty
<1>6. ASSUME NEW t \in Threads, UNCHANGED <<cache, held>>,
             \A u \in Threads : pc'[u] \in ToTheList => u = t \/ pc[u] \in ToTheList,
             pc'[t] \in ToTheList => held[t] = {},
             \A u \in Threads : pc'[u] # "park"
      PROVE  \A u \in Threads : B(u)' /\ pc'[u] # "park"
  BY <1>3, <1>6 DEF InUse
<1>7. ASSUME NEW t \in Threads, Alloc(t) PROVE \A u \in Threads : B(u)' /\ pc'[u] # "park"
  <2>1. held[t] = {}
    <3>1. held[t] \subseteq Objects /\ IsFiniteSet(Objects)
      BY <1>1, FS_Interval, PoolAssumption DEF Types, Objects
    <3>2. IsFiniteSet(held[t]) /\ Cardinality(held[t]) < 1
      BY <1>7, <3>1, FS_Subset DEF Alloc
    <3> QED
      BY <3>2, FS_CardinalityType, FS_EmptySet
  <2>2. CASE cache[t] = <<>> /\ Goto(t, "refill") /\ UNCHANGED <<next, cache, held>>
    BY <1>1, <1>6, <2>1, <2>2 DEF Goto, Types, NeverEmpty
  <2>3. CASE cache[t] # <<>> /\ HandOut(t, cache[t]) /\ UNCHANGED pc
    <3>1. PICK s \in Seq(Objects) : s = cache[t]
      BY <1>1 DEF Types
    <3>2. Len(SubSeq(s, 1, Len(s) - 1)) = Len(s) - 1
      BY <2>3, <3>1, Top
    <3>3. cache' = [cache EXCEPT ![t] = SubSeq(s, 1, Len(s) - 1)] /\ held' = [held EXCEPT ![t] = held[t] \cup {s[Len(s)]}]
      BY <2>3, <3>1 DEF HandOut
    <3>4. cache'[t] = SubSeq(s, 1, Len(s) - 1) /\ held'[t] = {s[Len(s)]}
      BY <1>1, <2>1, <3>3 DEF Types
    <3>a. Len(s) \in Nat /\ Len(s) <= Batch
      <4>1. Len(cache[t]) + InUse(t) <= Batch /\ Len(cache[t]) \in Nat /\ InUse(t) \in {0, 1}
        BY <1>3
      <4> QED
        BY <1>1, <3>1, <4>1
    <3>b. InUse(t)' = 1
      BY <3>4 DEF InUse
    <3>5. InUse(t)' = 1 /\ Len(cache'[t]) + 1 <= Batch
      BY <1>1, <3>2, <3>4, <3>a, <3>b
    <3>6. pc'[t] = "idle" /\ \A u \in Threads \ {t} : cache'[u] = cache[u] /\ held'[u] = held[u] /\ pc'[u] = pc[u]
      BY <1>1, <1>7, <2>3, <3>3 DEF Alloc, Types
    <3> QED
      BY <1>5, <3>4, <3>5, <3>6 DEF ToTheList
  <2> QED
    BY <1>7, <2>2, <2>3 DEF Alloc
<1>8. ASSUME NEW t \in Threads, RefillEmpty(t) PROVE FALSE
  BY <1>8, NotExhausted DEF RefillEmpty
<1>9. ASSUME NEW t \in Threads, Refill(t) PROVE \A u \in Threads : B(u)' /\ pc'[u] # "park"
  <2>1. Len(cache'[t]) < Batch
    BY <1>1, <1>2, <1>9, RefillList
  <2>2. PICK s : HandOut(t, s)
    BY <1>9 DEF Refill
  <2>3. held[t] = {} /\ Goto(t, "idle")
    BY <1>3, <1>9 DEF Refill, ToTheList
  <2>a. held' = [held EXCEPT ![t] = held[t] \cup {s[Len(s)]}] /\ pc' = [pc EXCEPT ![t] = "idle"]
    BY <2>2, <2>3 DEF HandOut, Goto
  <2>b. held'[t] = held[t] \cup {s[Len(s)]}
    BY <1>1, <2>a DEF Types
  <2>c. pc'[t] = "idle"
    BY <1>1, <2>a DEF Types
  <2>4. held'[t] = {s[Len(s)]} /\ pc'[t] = "idle"
    BY <2>3, <2>b, <2>c
  <2>5. \A u \in Threads \ {t} : cache'[u] = cache[u] /\ held'[u] = held[u] /\ pc'[u] = pc[u]
    BY <1>1, <2>2, <2>3 DEF HandOut, Goto, Types
  <2>6. InUse(t)' = 1
    BY <2>4 DEF InUse
  <2>7. Len(cache'[t]) \in Nat
    <3>1. cache' \in [Threads -> Seq(Objects)]
      BY <1>9, ShapeStep DEF Next, Step, Types
    <3> QED
      BY <3>1
  <2>8. Len(cache'[t]) + 1 <= Batch
    BY <1>1, <2>1, <2>7
  <2> QED
    BY <1>5, <2>4, <2>5, <2>6, <2>8 DEF ToTheList
<1>10. ASSUME NEW t \in Threads, NEW o \in Objects, Free(t, o)
       PROVE  \A u \in Threads : B(u)' /\ pc'[u] # "park"
  <2>1. PICK s \in Seq(Objects) : s = cache[t]
    BY <1>1 DEF Types
  <2>2. cache' = [cache EXCEPT ![t] = Append(s, o)] /\ held' = [held EXCEPT ![t] = held[t] \ {o}] /\ pc' = pc
    BY <1>10, <2>1 DEF Free
  <2>3. InUse(t) = 1 /\ held[t] \ {o} = {}
    BY <1>3, <1>10 DEF InUse, Free
  <2>4. cache'[t] = Append(s, o) /\ held'[t] = {} /\ pc'[t] = "idle"
    BY <1>1, <1>10, <2>2, <2>3 DEF Types, Free
  <2>5. Len(Append(s, o)) = Len(s) + 1 /\ InUse(t)' = 0
    BY <2>4 DEF InUse
  <2>6. Len(s) + 1 <= Batch
    BY <1>3, <2>1, <2>3
  <2>7. Len(cache'[t]) + InUse(t)' <= Batch
    BY <1>1, <2>4, <2>5, <2>6
  <2>8. \A u \in Threads \ {t} : cache'[u] = cache[u] /\ held'[u] = held[u] /\ pc'[u] = pc[u]
    BY <1>1, <2>2 DEF Types
  <2> QED
    BY <1>5, <2>4, <2>7, <2>8 DEF ToTheList
<1>11. ASSUME NEW t \in Threads, NEW o \in Objects, FreeFlush(t, o) PROVE FALSE
  <2>1. InUse(t) = 1 /\ Len(cache[t]) = CacheCap
    BY <1>11 DEF InUse, FreeFlush
  <2> QED
    BY <1>1, <1>3, <2>1, PoolAssumption
<1>12. ASSUME NEW t \in Threads, Exit(t) PROVE \A u \in Threads : B(u)' /\ pc'[u] # "park"
  <2>1. /\ cache' = [cache EXCEPT ![t] = <<>>] /\ held' = held /\ held[t] = {}
        /\ \E l \in {"bye", "done"} : Goto(t, l)
    BY <1>12 DEF Exit, Announce
  <2>a. cache'[t] = <<>> /\ held'[t] = {}
    BY <1>1, <2>1 DEF Types
  <2>b. pc'[t] \notin ToTheList
    <3>1. PICK l \in {"bye", "done"} : Goto(t, l)
      BY <2>1
    <3>2. pc'[t] = l
      BY <1>1, <3>1 DEF Types, Goto
    <3> QED
      BY <3>2 DEF ToTheList
  <2>2. Len(cache'[t]) = 0 /\ held'[t] = {} /\ pc'[t] \notin ToTheList /\ pc'[t] # "park"
    BY <2>a, <2>b DEF ToTheList
  <2>3. \A u \in Threads \ {t} : cache'[u] = cache[u] /\ held'[u] = held[u] /\ pc'[u] = pc[u]
    BY <1>1, <2>1 DEF Types, Goto
  <2>4. InUse(t)' = 0
    BY <2>2 DEF InUse
  <2> QED
    BY <1>1, <1>5, <2>2, <2>3, <2>4 DEF ToTheList
<1>13. ASSUME NEW t \in Threads, Signal(t) PROVE \A u \in Threads : B(u)' /\ pc'[u] # "park"
  BY <1>6, <1>13 DEF Signal, ToTheList, NeverEmpty
<1>14. ASSUME NEW t \in Threads, ThreadInit(t) \/ Park(t) \/ Wake(t) \/ Spurious(t)
       PROVE  \A u \in Threads : B(u)' /\ pc'[u] # "park"
  <2>1. pc[t] # "park" /\ UNCHANGED <<cache, held>>
    BY <1>14 DEF ThreadInit, Park, Wake, Spurious, NeverEmpty
  <2>2. PICK l \in {"idle", "woken", "refill"} :
          Goto(t, l) /\ (l \in ToTheList => pc[t] \in ToTheList)
    BY <1>14, <2>1 DEF ThreadInit, Park, Wake, Spurious, ToTheList
  <2>3. /\ \A u \in Threads : pc'[u] \in ToTheList => u = t \/ pc[u] \in ToTheList
        /\ pc'[t] \in ToTheList => pc[t] \in ToTheList
        /\ \A u \in Threads : pc'[u] # "park"
    BY <1>1, <2>2 DEF Goto, Types, NeverEmpty
  <2>4. pc'[t] \in ToTheList => held[t] = {}
    BY <1>3, <2>3
  <2> HIDE DEF B
  <2> QED
    BY <1>6, <2>1, <2>3, <2>4
<1>15. CASE UNCHANGED vars
  BY <1>3, <1>15 DEF vars, NeverEmpty, InUse
<1> HIDE DEF B
<1> QED
  BY <1>7, <1>8, <1>9, <1>10, <1>11, <1>12, <1>13, <1>14, <1>15 DEF Next, Step

(* If a thread uses one object at a time and the pool holds more than one    *)
(* batch for each other thread, no thread of worker() ever finds the list    *)
(* empty: the benchmark never waits (coding/pool.c:10-14, 293-302).          *)
THEOREM PoolNeverEmpty ==
  ASSUME MaxHeld = 1, PoolSize > (Cardinality(Threads) - 1) * Batch
  PROVE  Spec => []NeverEmpty
<1>1. Init => OneBatch /\ NeverEmpty
  BY PoolAssumption DEF Init, OneBatch, NeverEmpty, InUse, ToTheList
<1>2. OneBatch /\ NeverEmpty /\ IInv /\ [Next]_vars => OneBatch' /\ NeverEmpty'
  BY RoomyStep
<1> QED
  BY <1>1, <1>2, PoolAlways, PTL DEF Spec

(***************************************************************************)
(* Packets and the buffers they use                                        *)
(***************************************************************************)

(* How far the first k views of a chain reach.                             *)
Marks(f, views) ==
  /\ f \in [0 .. Len(views) -> Int] /\ f[0] = 0
  /\ \A k \in 1 .. Len(views) : f[k] = f[k - 1] + (views[k].tail - views[k].data)

(* A chain holds l bytes.                                                  *)
Measures(views, l) == \E f : Marks(f, views) /\ l = f[Len(views)]

(* A view lies in memory that exists.                                      *)
Inside(buf, v) ==
  /\ v.data <= v.tail /\ buf[v.sh] # Nothing
  /\ v.tail <= Len(buf[v.sh].bytes)

(* A packet has at least one view, no two of one buffer, and the length it *)
(* says.                                                                   *)
EachOnce(views) == \A j, k \in DOMAIN views : views[j].sh = views[k].sh => j = k
GoodPacket(buf, p) ==
  /\ p.views # <<>> /\ EachOnce(p.views)
  /\ \A k \in DOMAIN p.views : Inside(buf, p.views[k])
  /\ Measures(p.views, p.len)

(* A packet views a buffer; its share of the count; who else does. *)
Has(p, b) == p # Nothing /\ b \in Shared(p.views)
Uses(p, b) == IF Has(p, b) THEN 1 ELSE 0
HoldersOf(pkt, b) == {o \in Owners : Has(pkt[o], b)}

(* Memory and packets that fit each other.                                 *)
Sound(buf, pkt) ==
  /\ buf \in [Buffers -> Memory \cup {Nothing}]
  /\ pkt \in [Owners -> Packet \cup {Nothing}]
  /\ \A b \in Buffers : buf[b] # Nothing =>
       Len(buf[b].bytes) \in Sizes \cup {FragSize} /\ buf[b].refcnt = Cardinality(HoldersOf(pkt, b))
  /\ \A o \in Owners : pkt[o] # Nothing => GoodPacket(buf, pkt[o])

(* Only owner o's packet differs. *)
Changes(pkt, pkt2, o, p) == \A q \in Owners : pkt2[q] = IF q = o THEN p ELSE pkt[q]

(* Old memory comes into a packet only from the packet of owner o.         *)
Spreads(buf, pkt, pkt2, o) ==
  \A q \in Owners : \A b \in Buffers :
    buf[b] # Nothing /\ Has(pkt2[q], b) => Has(pkt[q], b) \/ Has(pkt[o], b)

(* Memory that stays keeps its bytes; what the owners other than c have    *)
(* and read stays as it is.                                                *)
Untouched(buf, buf2) ==
  \A b \in Buffers : buf[b] # Nothing /\ buf2[b] # Nothing => buf2[b].bytes = buf[b].bytes
Aside(buf, pkt, buf2, pkt2, c) ==
  \A q \in Owners : q # c =>
    pkt2[q] = pkt[q] /\ \A b \in Buffers : Has(pkt[q], b) => buf2[b].bytes = buf[b].bytes

(* How many hold a buffer when one owner's packet changes.                 *)
LEMMA HoldersMove ==
  ASSUME NEW pkt, NEW pkt2, NEW o \in Owners, NEW p, NEW b,
         Changes(pkt, pkt2, o, p)
  PROVE  /\ Cardinality(HoldersOf(pkt, b)) \in Nat
         /\ Cardinality(HoldersOf(pkt2, b))
              = Cardinality(HoldersOf(pkt, b)) + Uses(p, b) - Uses(pkt[o], b)
         /\ Has(pkt[o], b) => Cardinality(HoldersOf(pkt, b)) > 0
         /\ Cardinality(HoldersOf(pkt, b)) = 0 <=> \A q \in Owners : ~Has(pkt[q], b)
         /\ \A q \in Owners : Has(pkt[o], b) /\ Has(pkt[q], b) /\ q # o
                                => Cardinality(HoldersOf(pkt, b)) > 1
<1> DEFINE H == HoldersOf(pkt, b)
           G == HoldersOf(pkt2, b)
<1>1. /\ \A q \in Owners : q \in H <=> Has(pkt[q], b)
      /\ \A q \in Owners : q # o => (q \in G <=> Has(pkt[q], b))
      /\ o \in G <=> Has(p, b)
      /\ H \subseteq Owners /\ G \subseteq Owners
  BY DEF HoldersOf, Changes
<1> HIDE DEF H, G
<1>2. IsFiniteSet(H) /\ IsFiniteSet(H \ {o}) /\ Cardinality(H) \in Nat /\ Cardinality(H \ {o}) \in Nat
  BY <1>1, MbAssumption, FS_Subset, FS_CardinalityType
<1>3. Cardinality(H) = 0 <=> H = {}
  BY <1>2, FS_EmptySet
<1>4. Cardinality(H) = Cardinality(H \ {o}) + Uses(pkt[o], b)
  <2>1. Cardinality(H \ {o}) = IF o \in H THEN Cardinality(H) - 1 ELSE Cardinality(H)
    BY <1>2, FS_RemoveElement
  <2> QED
    BY <1>1, <1>2, <2>1 DEF Uses
<1>5. Cardinality(G) = Cardinality(H \ {o}) + Uses(p, b)
  <2>1. CASE Has(p, b)
    <3>1. G = (H \ {o}) \cup {o}
      BY <1>1, <2>1
    <3>2. Cardinality((H \ {o}) \cup {o}) = Cardinality(H \ {o}) + 1
      BY <1>2, FS_AddElement
    <3> QED
      BY <2>1, <3>1, <3>2 DEF Uses
  <2>2. CASE ~Has(p, b)
    <3>1. G = H \ {o}
      BY <1>1, <2>2
    <3> QED
      BY <1>2, <2>2, <3>1 DEF Uses
  <2> QED
    BY <2>1, <2>2
<1>6. ASSUME NEW q \in Owners, Has(pkt[o], b), Has(pkt[q], b), q # o PROVE Cardinality(H) > 1
  <2>1. H \ {o} # {}
    BY <1>1, <1>6
  <2>2. Cardinality(H \ {o}) # 0
    BY <1>2, <2>1, FS_EmptySet
  <2>3. Uses(pkt[o], b) = 1
    BY <1>6 DEF Uses
  <2> QED
    BY <1>2, <1>4, <2>2, <2>3
<1>7. Uses(p, b) \in {0, 1} /\ Uses(pkt[o], b) \in {0, 1}
  BY DEF Uses
<1>8. /\ Cardinality(H) \in Nat
      /\ Cardinality(G) = Cardinality(H) + Uses(p, b) - Uses(pkt[o], b)
  BY <1>2, <1>4, <1>5, <1>7
<1>9. Has(pkt[o], b) => Cardinality(H) > 0
  BY <1>1, <1>2, <1>3
<1>10. Cardinality(H) = 0 <=> \A q \in Owners : ~Has(pkt[q], b)
  BY <1>1, <1>3
<1> QED
  BY <1>6, <1>8, <1>9, <1>10 DEF H, G

(* What becomes of the buffers when one owner's packet changes: new memory *)
(* is counted once, old memory once more or less for that packet, and only *)
(* memory that this packet alone held is freed.                            *)
Moved(buf, buf2, old, new) ==
  \A b \in Buffers :
    \/ buf[b] = Nothing /\ buf2[b] = Nothing
    \/ /\ buf[b] = Nothing /\ buf2[b] # Nothing /\ buf2[b].refcnt = Uses(new, b)
       /\ Len(buf2[b].bytes) \in Sizes \cup {FragSize}
    \/ /\ buf[b] # Nothing /\ buf2[b] # Nothing
       /\ buf2[b].refcnt = buf[b].refcnt + Uses(new, b) - Uses(old, b)
       /\ Len(buf2[b].bytes) = Len(buf[b].bytes)
    \/ buf[b] # Nothing /\ buf2[b] = Nothing /\ buf[b].refcnt = 1 /\ Has(old, b)

(* Such a change keeps memory and packets fitting.                         *)
LEMMA MovedSound ==
  ASSUME NEW buf, NEW pkt, Sound(buf, pkt), NEW o \in Owners,
         NEW buf2 \in [Buffers -> Memory \cup {Nothing}], NEW p \in Packet \cup {Nothing},
         p # Nothing => GoodPacket(buf2, p), Moved(buf, buf2, pkt[o], p),
         NEW pkt2 \in [Owners -> Packet \cup {Nothing}], Changes(pkt, pkt2, o, p)
  PROVE  Sound(buf2, pkt2)
<1>1. /\ buf \in [Buffers -> Memory \cup {Nothing}] /\ pkt \in [Owners -> Packet \cup {Nothing}]
      /\ \A b \in Buffers : buf[b] # Nothing =>
           Len(buf[b].bytes) \in Sizes \cup {FragSize} /\ buf[b].refcnt = Cardinality(HoldersOf(pkt, b))
      /\ \A q \in Owners : pkt[q] # Nothing => GoodPacket(buf, pkt[q])
  BY DEF Sound
<1>2. pkt2[o] = p /\ \A q \in Owners : q # o => pkt2[q] = pkt[q]
  BY DEF Changes
<1>3. ASSUME NEW q \in Owners, NEW b, Has(pkt[q], b) PROVE b \in Buffers /\ buf[b] # Nothing
  <2>1. pkt[q] \in Packet /\ GoodPacket(buf, pkt[q])
    BY <1>1, <1>3 DEF Has
  <2>2. PICK k \in DOMAIN pkt[q].views : b = pkt[q].views[k].sh
    BY <1>3 DEF Has, Shared
  <2>3. pkt[q].views[k] \in View
    BY <2>1 DEF Packet
  <2> QED
    BY <2>1, <2>2, <2>3 DEF GoodPacket, Inside, View
<1>4. ASSUME NEW b \in Buffers, buf2[b] # Nothing
      PROVE  /\ Len(buf2[b].bytes) \in Sizes \cup {FragSize}
             /\ buf2[b].refcnt = Cardinality(HoldersOf(pkt2, b))
  <2>1. /\ Cardinality(HoldersOf(pkt, b)) \in Nat
        /\ Cardinality(HoldersOf(pkt2, b)) = Cardinality(HoldersOf(pkt, b)) + Uses(p, b) - Uses(pkt[o], b)
        /\ Cardinality(HoldersOf(pkt, b)) = 0 <=> \A q \in Owners : ~Has(pkt[q], b)
    <3>1. Cardinality(HoldersOf(pkt2, b)) = Cardinality(HoldersOf(pkt, b)) + Uses(p, b) - Uses(pkt[o], b)
      BY HoldersMove
    <3>2. /\ Cardinality(HoldersOf(pkt, b)) \in Nat
          /\ Cardinality(HoldersOf(pkt, b)) = 0 <=> \A q \in Owners : ~Has(pkt[q], b)
      BY HoldersMove
    <3> QED
      BY <3>1, <3>2
  <2>2. CASE buf[b] = Nothing
    <3>1. \A q \in Owners : ~Has(pkt[q], b)
      BY <1>3, <2>2
    <3>2. Uses(pkt[o], b) = 0 /\ Uses(p, b) \in {0, 1}
      BY <3>1 DEF Uses
    <3>3. buf2[b].refcnt = Uses(p, b) /\ Len(buf2[b].bytes) \in Sizes \cup {FragSize}
      BY <1>4, <2>2 DEF Moved
    <3> QED
      BY <2>1, <3>1, <3>2, <3>3
  <2>3. CASE buf[b] # Nothing
    BY <1>1, <1>4, <2>1, <2>3 DEF Moved
  <2> QED
    BY <2>2, <2>3
<1>5. ASSUME NEW q \in Owners, pkt2[q] # Nothing PROVE GoodPacket(buf2, pkt2[q])
  <2>1. CASE q = o
    BY <1>2, <1>5, <2>1
  <2>2. CASE q # o
    <3>1. pkt2[q] = pkt[q] /\ pkt[q] \in Packet /\ GoodPacket(buf, pkt[q])
      BY <1>1, <1>2, <1>5, <2>2
    <3>2. ASSUME NEW k \in DOMAIN pkt[q].views PROVE Inside(buf2, pkt[q].views[k])
      <4>1. PICK v : v = pkt[q].views[k]
        OBVIOUS
      <4>2. Inside(buf, v) /\ Has(pkt[q], v.sh)
        BY <1>5, <3>1, <3>2, <4>1 DEF GoodPacket, Has, Shared
      <4>3. v.sh \in Buffers /\ buf[v.sh] # Nothing
        BY <1>3, <4>2
      <4>4. ~(buf[v.sh].refcnt = 1 /\ Has(pkt[o], v.sh))
        <5>1. Has(pkt[o], v.sh) => Cardinality(HoldersOf(pkt, v.sh)) > 1
          BY <2>2, <4>2, HoldersMove
        <5> QED
          BY <1>1, <4>3, <5>1
      <4>5. buf2[v.sh] # Nothing /\ Len(buf2[v.sh].bytes) = Len(buf[v.sh].bytes)
        BY <4>3, <4>4 DEF Moved
      <4> QED
        BY <4>1, <4>2, <4>5 DEF Inside
    <3> QED
      BY <3>1, <3>2 DEF GoodPacket
  <2> QED
    BY <2>1, <2>2
<1> QED
  BY <1>4, <1>5 DEF Sound

(***************************************************************************)
(* Recursion along a chain                                                 *)
(***************************************************************************)

(* A recursion over 1 .. n has a solution.                                 *)
Follows(all, n, x, step) ==
  all[0] = x /\ \A k \in 1 .. n : all[k] = step[<<k, all[k - 1]>>]

(* The recursion has a solution, and only one. *)
LEMMA ChainExists ==
  ASSUME NEW S, NEW n \in Nat, NEW x \in S, NEW step \in [(1 .. n) \X S -> S]
  PROVE  \E all \in [0 .. n -> S] : Follows(all, n, x, step)
<1> DEFINE T == {m \in Nat : m <= n => \E all \in [0 .. m -> S] : Follows(all, m, x, step)}
<1>1. 0 \in T
  <2> DEFINE all == [k \in 0 .. 0 |-> x]
  <2>1. all \in [0 .. 0 -> S] /\ Follows(all, 0, x, step)
    BY DEF Follows
  <2> HIDE DEF all
  <2> QED
    BY <2>1
<1>2. ASSUME NEW m \in T PROVE m + 1 \in T
  <2>1. m \in Nat
    OBVIOUS
  <2> SUFFICES ASSUME m + 1 <= n PROVE \E all \in [0 .. m + 1 -> S] : Follows(all, m + 1, x, step)
    BY <2>1
  <2>2. m <= n
    BY <2>1
  <2>3. PICK old \in [0 .. m -> S] : Follows(old, m, x, step)
    BY <2>2
  <2> DEFINE all == [k \in 0 .. m + 1 |-> IF k <= m THEN old[k] ELSE step[<<m + 1, old[m]>>]]
  <2>4. m \in 0 .. m /\ m + 1 \in 1 .. n /\ old[m] \in S
    BY <2>1, <2>3
  <2>5. step[<<m + 1, old[m]>>] \in S
    BY <2>4
  <2>6. \A k \in 0 .. m + 1 : k \in 0 .. m \/ (k = m + 1 /\ ~(k <= m))
    BY <2>1
  <2>7. all \in [0 .. m + 1 -> S]
    BY <2>3, <2>5, <2>6
  <2>8. (\A k \in 0 .. m : all[k] = old[k]) /\ all[m + 1] = step[<<m + 1, old[m]>>]
    BY <2>1, <2>6
  <2> HIDE DEF all
  <2>9. all[0] = x
    BY <2>1, <2>3, <2>8 DEF Follows
  <2>10. ASSUME NEW k \in 1 .. m + 1 PROVE all[k] = step[<<k, all[k - 1]>>]
    <3>1. k - 1 \in 0 .. m /\ (k \in 1 .. m \/ k = m + 1)
      BY <2>1
    <3>2. CASE k \in 1 .. m
      <4>1. k \in 0 .. m
        BY <2>1, <3>2
      <4> QED
        BY <2>3, <2>8, <3>1, <3>2, <4>1 DEF Follows
    <3>3. CASE k = m + 1
      <4>1. k - 1 = m
        BY <2>1, <3>3
      <4> QED
        BY <2>8, <3>1, <3>3, <4>1
    <3> QED
      BY <3>1, <3>2, <3>3
  <2> QED
    BY <2>7, <2>9, <2>10 DEF Follows
<1>3. T \in SUBSET Nat
  OBVIOUS
<1> HIDE DEF T
<1>4. T = Nat
  BY <1>1, <1>2, <1>3, SetInduction
<1>5. n \in T
  BY <1>4
<1> QED
  BY <1>5 DEF T

(* The marks of a chain rise.                                              *)
LEMMA MarksRise ==
  ASSUME NEW views \in Seq(View), NEW f, Marks(f, views),
         \A k \in DOMAIN views : views[k].data <= views[k].tail
  PROVE  \A i, j \in 0 .. Len(views) : f[i] \in Nat /\ (i <= j => f[i] <= f[j])
<1>1. /\ Len(views) \in Nat /\ DOMAIN views = 1 .. Len(views)
      /\ \A k \in 1 .. Len(views) : views[k].data \in Nat /\ views[k].tail \in Nat
  <2>1. Len(views) \in Nat /\ DOMAIN views = 1 .. Len(views) /\ \A k \in 1 .. Len(views) : views[k] \in View
    OBVIOUS
  <2> QED
    BY <2>1 DEF View
<1>2. /\ \A k \in 0 .. Len(views) : f[k] \in Int
      /\ \A k \in 1 .. Len(views) : f[k] = f[k - 1] + (views[k].tail - views[k].data)
      /\ f[0] = 0
  BY DEF Marks
<1>3. \A k \in 1 .. Len(views) : k - 1 \in 0 .. Len(views) /\ f[k - 1] <= f[k]
  <2> SUFFICES ASSUME NEW k \in 1 .. Len(views) PROVE k - 1 \in 0 .. Len(views) /\ f[k - 1] <= f[k]
    OBVIOUS
  <2>1. k - 1 \in 0 .. Len(views) /\ k \in 0 .. Len(views)
    BY <1>1
  <2>2. f[k - 1] \in Int /\ f[k] \in Int /\ f[k] = f[k - 1] + (views[k].tail - views[k].data)
    BY <1>2, <2>1
  <2> QED
    BY <1>1, <2>1, <2>2
<1> DEFINE T == {d \in Nat : \A i \in 0 .. Len(views) : i + d <= Len(views) => f[i] <= f[i + d]}
<1>4. 0 \in T
  BY <1>1, <1>2
<1>5. ASSUME NEW d \in T PROVE d + 1 \in T
  <2> SUFFICES ASSUME NEW i \in 0 .. Len(views), i + (d + 1) <= Len(views) PROVE f[i] <= f[i + (d + 1)]
    OBVIOUS
  <2>1. d \in Nat /\ i + d <= Len(views) /\ i + d \in 0 .. Len(views) /\ i + (d + 1) \in 1 .. Len(views)
    BY <1>1
  <2>2. f[i] <= f[i + d]
    BY <2>1
  <2>3. (i + (d + 1)) - 1 = i + d
    BY <2>1
  <2>4. f[i + d] <= f[i + (d + 1)]
    BY <1>3, <2>1, <2>3
  <2>5. f[i] \in Int /\ f[i + d] \in Int /\ f[i + (d + 1)] \in Int
    BY <1>1, <1>2, <2>1
  <2> QED
    BY <2>2, <2>4, <2>5
<1>6. T \in SUBSET Nat
  OBVIOUS
<1> HIDE DEF T
<1>7. T = Nat
  BY <1>4, <1>5, <1>6, SetInduction
<1>8. ASSUME NEW i \in 0 .. Len(views), NEW j \in 0 .. Len(views), i <= j PROVE f[i] <= f[j]
  <2>1. j - i \in T /\ i + (j - i) = j /\ i + (j - i) <= Len(views)
    BY <1>1, <1>7, <1>8
  <2> QED
    BY <2>1 DEF T
<1>9. ASSUME NEW i \in 0 .. Len(views) PROVE f[i] \in Nat
  <2>1. 0 \in 0 .. Len(views) /\ 0 <= i
    BY <1>1
  <2>2. f[0] <= f[i]
    BY <1>8, <2>1
  <2> QED
    BY <1>2, <2>2
<1> QED
  BY <1>8, <1>9

(* The bytes of the first views of a packet are as many as their mark.     *)
LEMMA UptoIs ==
  ASSUME Sound(mbBuf, mbPkt), NEW o \in Owners, mbPkt[o] # Nothing,
         NEW f, Marks(f, mbPkt[o].views)
  PROVE  LET views == mbPkt[o].views
         IN  /\ Upto(views)[0] = <<>>
             /\ \A k \in 0 .. Len(views) : Upto(views)[k] \in Seq(Bytes) /\ Len(Upto(views)[k]) = f[k]
             /\ \A k \in 1 .. Len(views) :
                  /\ Upto(views)[k] = Upto(views)[k - 1] \o ViewBytes(views[k])
                  /\ ViewBytes(views[k]) \in Seq(Bytes)
                  /\ Len(ViewBytes(views[k])) = views[k].tail - views[k].data
                  /\ views[k].tail - views[k].data \in Nat
<1>1. PICK views : views = mbPkt[o].views
  OBVIOUS
<1>2. /\ views \in Seq(View) /\ \A k \in DOMAIN views : Inside(mbBuf, views[k])
      /\ mbBuf \in [Buffers -> Memory \cup {Nothing}] /\ Marks(f, views)
  <2>1. mbPkt[o] \in Packet /\ GoodPacket(mbBuf, mbPkt[o]) /\ mbBuf \in [Buffers -> Memory \cup {Nothing}]
    BY DEF Sound
  <2> QED
    BY <1>1, <2>1 DEF Packet, GoodPacket
<1>3. PICK n \in Nat : n = Len(views)
  BY <1>2
<1>4. ASSUME NEW k \in 1 .. n
      PROVE  /\ ViewBytes(views[k]) \in Seq(Bytes)
             /\ Len(ViewBytes(views[k])) = views[k].tail - views[k].data
             /\ views[k].tail - views[k].data \in Nat
  <2>1. PICK v \in View : v = views[k]
    BY <1>2, <1>3
  <2>2. k \in DOMAIN views
    BY <1>2, <1>3
  <2>3. v.sh \in Buffers /\ v.data \in Nat /\ v.tail \in Nat /\ Inside(mbBuf, v)
    BY <1>2, <2>1, <2>2 DEF View
  <2>4. PICK m : m = mbBuf[v.sh].bytes
    OBVIOUS
  <2>5. m \in Seq(Bytes) /\ v.data <= v.tail /\ v.tail <= Len(m)
    BY <1>2, <2>3, <2>4 DEF Inside, Memory
  <2>6. SubSeq(m, v.data + 1, v.tail) \in Seq(Bytes) /\ Len(SubSeq(m, v.data + 1, v.tail)) = v.tail - v.data
    BY <2>3, <2>5
  <2>7. ViewBytes(views[k]) = SubSeq(m, v.data + 1, v.tail)
    BY <2>1, <2>4 DEF ViewBytes
  <2>8. v.tail - v.data \in Nat
    BY <2>3, <2>5
  <2> QED
    BY <2>1, <2>6, <2>7, <2>8
<1> DEFINE step == [p \in (1 .. n) \X Seq(Bytes) |-> p[2] \o ViewBytes(views[p[1]])]
           F(e) == [k \in 0 .. n |-> IF k = 0 THEN <<>> ELSE e[k - 1] \o ViewBytes(views[k])]
<1>5. step \in [(1 .. n) \X Seq(Bytes) -> Seq(Bytes)]
  <2> SUFFICES ASSUME NEW q \in (1 .. n) \X Seq(Bytes) PROVE q[2] \o ViewBytes(views[q[1]]) \in Seq(Bytes)
    OBVIOUS
  <2>1. q[1] \in 1 .. n /\ q[2] \in Seq(Bytes)
    OBVIOUS
  <2> QED
    BY <1>4, <2>1
<1>6. PICK all \in [0 .. n -> Seq(Bytes)] : Follows(all, n, <<>>, step)
  <2>1. <<>> \in Seq(Bytes)
    OBVIOUS
  <2> HIDE DEF step
  <2> QED
    BY <1>5, <2>1, ChainExists
<1>7. all = F(all)
  <2>1. ASSUME NEW k \in 0 .. n PROVE all[k] = F(all)[k]
    <3>1. CASE k = 0
      BY <1>6, <3>1 DEF Follows
    <3>2. CASE k # 0
      <4>1. k \in 1 .. n /\ k - 1 \in 0 .. n
        BY <3>2
      <4>2. all[k - 1] \in Seq(Bytes)
        BY <1>6, <4>1
      <4>3. step[<<k, all[k - 1]>>] = all[k - 1] \o ViewBytes(views[k])
        BY <4>1, <4>2
      <4>4. all[k] = step[<<k, all[k - 1]>>]
        BY <1>6, <4>1 DEF Follows
      <4> QED
        BY <3>2, <4>3, <4>4
    <3> QED
      BY <3>1, <3>2
  <2> HIDE DEF step
  <2> QED
    BY <1>6, <2>1
<1>8. PICK up : up = Upto(views)
  OBVIOUS
<1>9. up = F(up)
  <2>1. Upto(views) = CHOOSE e : e = F(e)
    BY <1>3 DEF Upto
  <2> HIDE DEF F, step
  <2> QED
    BY <1>7, <1>8, <2>1
<1>10. up[0] = <<>> /\ \A k \in 1 .. n : up[k] = up[k - 1] \o ViewBytes(views[k])
  <2>1. \A k \in 0 .. n : up[k] = IF k = 0 THEN <<>> ELSE up[k - 1] \o ViewBytes(views[k])
    BY <1>9
  <2>2. 0 \in 0 .. n /\ \A k \in 1 .. n : k \in 0 .. n /\ k # 0
    OBVIOUS
  <2> QED
    BY <2>1, <2>2
<1> HIDE DEF step, F
<1> DEFINE T == {k \in Nat : k <= n => up[k] \in Seq(Bytes) /\ Len(up[k]) = f[k]}
<1>11. 0 \in T
  <2>1. f[0] = 0 /\ up[0] = <<>>
    BY <1>2, <1>10 DEF Marks
  <2>2. <<>> \in Seq(Bytes) /\ Len(<<>>) = 0
    OBVIOUS
  <2> QED
    BY <2>1, <2>2
<1>12. ASSUME NEW k \in T PROVE k + 1 \in T
  <2> SUFFICES ASSUME k + 1 <= n PROVE up[k + 1] \in Seq(Bytes) /\ Len(up[k + 1]) = f[k + 1]
    OBVIOUS
  <2>1. k \in Nat /\ k <= n /\ k + 1 \in 1 .. n /\ (k + 1) - 1 = k
    OBVIOUS
  <2>2. up[k] \in Seq(Bytes) /\ Len(up[k]) = f[k]
    BY <2>1
  <2>3. up[k + 1] = up[k] \o ViewBytes(views[k + 1])
    BY <1>10, <2>1
  <2>4. f[k + 1] = f[k] + (views[k + 1].tail - views[k + 1].data)
    BY <1>2, <1>3, <2>1 DEF Marks
  <2>5. PICK w : w = ViewBytes(views[k + 1])
    OBVIOUS
  <2>6. w \in Seq(Bytes) /\ Len(w) = views[k + 1].tail - views[k + 1].data
    BY <1>4, <2>1, <2>5
  <2>7. up[k] \o w \in Seq(Bytes) /\ Len(up[k] \o w) = Len(up[k]) + Len(w)
    <3>1. PICK u : u = up[k]
      OBVIOUS
    <3>2. u \in Seq(Bytes) /\ w \in Seq(Bytes)
      BY <2>2, <2>6, <3>1
    <3>3. u \o w \in Seq(Bytes) /\ Len(u \o w) = Len(u) + Len(w)
      BY <3>2
    <3> QED
      BY <3>1, <3>3
  <2> QED
    BY <2>2, <2>3, <2>4, <2>5, <2>6, <2>7
<1>13. T \in SUBSET Nat
  OBVIOUS
<1> HIDE DEF T
<1>14. T = Nat
  BY <1>11, <1>12, <1>13, SetInduction
<1>15. \A k \in 0 .. n : up[k] \in Seq(Bytes) /\ Len(up[k]) = f[k]
  <2> SUFFICES ASSUME NEW k \in 0 .. n PROVE up[k] \in Seq(Bytes) /\ Len(up[k]) = f[k]
    OBVIOUS
  <2>1. k \in T /\ k <= n
    BY <1>14
  <2> QED
    BY <2>1 DEF T
<1> QED
  BY <1>1, <1>3, <1>4, <1>8, <1>10, <1>15

(***************************************************************************)
(* Chains that change                                                      *)
(***************************************************************************)

(* What a view is. *)
LEMMA ViewIs ==
  ASSUME NEW v \in View
  PROVE  v.sh \in Buffers /\ v.data \in Nat /\ v.tail \in Nat /\ v.tail - v.data \in Int
BY DEF View

(* One view of a chain gets longer or shorter by d.                        *)
LEMMA MarksOne ==
  ASSUME NEW views \in Seq(View), NEW f, Marks(f, views), NEW two \in Seq(View),
         Len(two) = Len(views), NEW k \in 1 .. Len(views), NEW d \in Int,
         \A j \in 1 .. Len(views) : j # k => two[j] = views[j],
         two[k].tail - two[k].data = views[k].tail - views[k].data + d
  PROVE  Measures(two, f[Len(views)] + d)
<1> DEFINE g == [j \in 0 .. Len(views) |-> IF j < k THEN f[j] ELSE f[j] + d]
<1>1. Len(views) \in Nat /\ k \in Nat /\ k > 0 /\ k <= Len(views)
  OBVIOUS
<1>2. \A j \in 1 .. Len(views) : /\ views[j] \in View /\ two[j] \in View /\ j - 1 \in 0 .. Len(views)
                                 /\ j \in 0 .. Len(views)
  OBVIOUS
<1>3. \A j \in 1 .. Len(views) : views[j].tail - views[j].data \in Int
  BY <1>2, ViewIs
<1>4. /\ \A j \in 0 .. Len(views) : f[j] \in Int
      /\ \A j \in 1 .. Len(views) : f[j] = f[j - 1] + (views[j].tail - views[j].data)
      /\ f[0] = 0
  BY DEF Marks
<1>5. \A j \in 0 .. Len(views) : g[j] = (IF j < k THEN f[j] ELSE f[j] + d) /\ g[j] \in Int
  BY <1>4
<1>6. g \in [0 .. Len(two) -> Int]
  BY <1>4
<1> HIDE DEF g
<1>7. g[0] = 0 /\ g[Len(two)] = f[Len(views)] + d
  BY <1>1, <1>4, <1>5
<1>8. ASSUME NEW j \in 1 .. Len(two) PROVE g[j] = g[j - 1] + (two[j].tail - two[j].data)
  <2>1. j \in 1 .. Len(views) /\ j \in 0 .. Len(views) /\ j - 1 \in 0 .. Len(views) /\ j \in Int
    BY <1>8
  <2>2. f[j] = f[j - 1] + (views[j].tail - views[j].data) /\ f[j] \in Int /\ f[j - 1] \in Int
    BY <1>4, <2>1
  <2> DEFINE e == views[j].tail - views[j].data
  <2>6. e \in Int /\ f[j] = f[j - 1] + e
    BY <1>3, <2>1, <2>2
  <2> HIDE DEF e
  <2>3. CASE j < k
    <3>1. g[j] = f[j] /\ g[j - 1] = f[j - 1] /\ two[j] = views[j]
      BY <1>1, <1>5, <2>1, <2>3
    <3> QED
      BY <2>2, <3>1
  <2>4. CASE j = k
    <3>1. g[j] = f[j] + d /\ g[j - 1] = f[j - 1]
      BY <1>1, <1>5, <2>1, <2>4
    <3>2. two[j].tail - two[j].data = e + d
      BY <2>4 DEF e
    <3>3. f[j] + d = f[j - 1] + (e + d)
      BY <2>2, <2>6
    <3> QED
      BY <3>1, <3>2, <3>3
  <2>5. CASE j > k
    <3>1. g[j] = f[j] + d /\ g[j - 1] = f[j - 1] + d
      BY <1>1, <1>5, <2>1, <2>5
    <3>2. two[j] = views[j]
      BY <1>1, <2>1, <2>5
    <3>3. f[j] + d = (f[j - 1] + d) + e
      BY <2>2, <2>6
    <3> QED
      BY <3>1, <3>2, <3>3 DEF e
  <2> QED
    BY <1>1, <2>1, <2>3, <2>4, <2>5
<1> QED
  BY <1>6, <1>7, <1>8 DEF Marks, Measures

(* An empty view is added.                                                 *)
LEMMA MarksMore ==
  ASSUME NEW views \in Seq(View), NEW f, Marks(f, views), NEW v \in View, v.data = v.tail
  PROVE  Measures(Append(views, v), f[Len(views)])
<1> DEFINE g == [j \in 0 .. Len(views) + 1 |-> IF j <= Len(views) THEN f[j] ELSE f[Len(views)]]
<1>1. PICK two : two = Append(views, v)
  OBVIOUS
<1>2. /\ Len(two) = Len(views) + 1 /\ two[Len(views) + 1] = v
      /\ \A j \in 1 .. Len(views) : two[j] = views[j]
  BY <1>1
<1>3. Len(views) \in Nat /\ Len(views) \in 0 .. Len(views)
  OBVIOUS
<1>4. /\ f \in [0 .. Len(views) -> Int] /\ f[0] = 0
      /\ \A j \in 1 .. Len(views) : f[j] = f[j - 1] + (views[j].tail - views[j].data)
  BY DEF Marks
<1>5. \A j \in 0 .. Len(views) + 1 : j \in 0 .. Len(views) \/ (j = Len(views) + 1 /\ ~(j <= Len(views)))
  BY <1>3
<1>6. g \in [0 .. Len(two) -> Int]
  BY <1>2, <1>3, <1>4, <1>5
<1>7. (\A j \in 0 .. Len(views) : g[j] = f[j]) /\ g[Len(views) + 1] = f[Len(views)]
  BY <1>3
<1> HIDE DEF g
<1>8. ASSUME NEW j \in 1 .. Len(two) PROVE g[j] = g[j - 1] + (two[j].tail - two[j].data)
  <2>1. CASE j \in 1 .. Len(views)
    <3>1. j \in 0 .. Len(views) /\ j - 1 \in 0 .. Len(views)
      BY <1>3, <2>1
    <3> QED
      BY <1>2, <1>4, <1>7, <2>1, <3>1
  <2>2. CASE j = Len(views) + 1
    <3>1. j - 1 = Len(views) /\ v.tail \in Int /\ v.data \in Int /\ f[Len(views)] \in Int
      BY <1>3, <1>4, <2>2 DEF View
    <3>2. g[j] = f[Len(views)] /\ g[j - 1] = f[Len(views)] /\ two[j] = v
      BY <1>2, <1>3, <1>7, <2>2, <3>1
    <3> QED
      BY <3>1, <3>2
  <2> QED
    BY <1>2, <1>3, <1>8, <2>1, <2>2
<1>9. g[0] = 0 /\ g[Len(two)] = f[Len(views)]
  BY <1>2, <1>3, <1>4, <1>7
<1> QED
  BY <1>1, <1>6, <1>8, <1>9 DEF Marks, Measures

(* A chain is cut within a view.                                           *)
SameBelow(views, two, cut) == \A j \in 1 .. cut - 1 : two[j] = views[j]
EndsAt(f, v2, cut, n) == v2.tail - v2.data = n - f[cut - 1]

(* The marks of a chain that is cut within a view. *)
LEMMA MarksCut ==
  ASSUME NEW views \in Seq(View), NEW f, Marks(f, views), NEW cut \in 1 .. Len(views), NEW n \in Int,
         NEW two \in Seq(View), Len(two) = cut, SameBelow(views, two, cut), EndsAt(f, two[cut], cut, n)
  PROVE  Measures(two, n)
<1>8. /\ \A j \in 1 .. cut - 1 : two[j] = views[j]
      /\ two[cut].tail - two[cut].data = n - f[cut - 1]
  BY DEF SameBelow, EndsAt
<1> DEFINE g == [j \in 0 .. cut |-> IF j < cut THEN f[j] ELSE n]
<1>1. Len(views) \in Nat /\ cut \in Nat /\ cut > 0 /\ cut <= Len(views)
  OBVIOUS
<1>2. /\ \A j \in 0 .. Len(views) : f[j] \in Int
      /\ \A j \in 1 .. Len(views) : f[j] = f[j - 1] + (views[j].tail - views[j].data)
      /\ f[0] = 0
  BY DEF Marks
<1>3. \A j \in 0 .. cut : j \in 0 .. Len(views) /\ f[j] \in Int /\ j \in Int
  BY <1>1, <1>2
<1>4. g \in [0 .. Len(two) -> Int]
  BY <1>3
<1>5. \A j \in 0 .. cut : g[j] = IF j < cut THEN f[j] ELSE n
  OBVIOUS
<1> HIDE DEF g
<1>6. g[0] = 0 /\ g[Len(two)] = n
  BY <1>1, <1>2, <1>5
<1>7. ASSUME NEW j \in 1 .. Len(two) PROVE g[j] = g[j - 1] + (two[j].tail - two[j].data)
  <2>1. j \in 0 .. cut /\ j - 1 \in 0 .. cut /\ j - 1 < cut /\ j \in 1 .. Len(views) /\ j \in Int
    BY <1>1, <1>7
  <2>2. g[j - 1] = f[j - 1] /\ f[j - 1] \in Int
    BY <1>3, <1>5, <2>1
  <2>3. CASE j < cut
    <3>1. j \in 1 .. cut - 1 /\ g[j] = f[j]
      BY <1>1, <1>5, <2>1, <2>3
    <3> QED
      BY <1>2, <1>8, <2>1, <2>2, <3>1
  <2>4. CASE j = cut
    <3>1. g[j] = n
      BY <1>5, <2>1, <2>4
    <3> QED
      BY <1>8, <2>2, <2>4, <3>1
  <2> QED
    BY <1>1, <2>1, <2>3, <2>4
<1> QED
  BY <1>4, <1>6, <1>7 DEF Marks, Measures

(* Where a chain is cut.                                                   *)
CutsAt(f, views, cut, n) ==
  /\ cut \in 1 .. Len(views) /\ f[cut - 1] <= n /\ n < f[cut]

(* A chain longer than n is cut in one of its views. *)
LEMMA CutIs ==
  ASSUME NEW views \in Seq(View), NEW f, Marks(f, views),
         \A k \in DOMAIN views : views[k].data <= views[k].tail,
         NEW n \in Nat, n < f[Len(views)], Len(views) > 0,
         NEW over, over = {k \in DOMAIN views : f[k] > n},
         NEW cut, cut = CHOOSE k \in over : \A j \in over : k <= j
  PROVE  CutsAt(f, views, cut, n)
<1>1. \A i \in 0 .. Len(views) : f[i] \in Nat
  BY MarksRise
<1>2. DOMAIN views = 1 .. Len(views) /\ Len(views) \in Nat /\ f[0] = 0
  BY DEF Marks
<1>3. over \in SUBSET Nat /\ Len(views) \in over
  <2>1. Len(views) \in 1 .. Len(views) /\ Len(views) \in 0 .. Len(views)
    BY <1>2
  <2>2. f[Len(views)] > n
    BY <1>1, <2>1
  <2> QED
    BY <1>2, <2>1, <2>2
<1>4. \E k \in over : \A j \in over : k <= j
  BY <1>3, LeastNumber
<1>5. cut \in over /\ \A j \in over : cut <= j
  BY <1>4
<1>6. cut \in 1 .. Len(views) /\ f[cut] > n /\ cut \in 0 .. Len(views) /\ cut - 1 \in 0 .. Len(views)
  BY <1>2, <1>5
<1>7. f[cut - 1] <= n
  <2>1. CASE cut = 1
    <3>1. cut - 1 = 0 /\ 0 <= n
      BY <2>1
    <3> QED
      BY <1>2, <3>1
  <2>2. CASE cut # 1
    <3>1. cut - 1 \in DOMAIN views /\ ~(cut <= cut - 1)
      BY <1>2, <1>6, <2>2
    <3>2. cut - 1 \notin over
      BY <1>5, <3>1
    <3>3. ~(f[cut - 1] > n)
      BY <3>1, <3>2
    <3> QED
      BY <1>1, <1>6, <3>3
  <2> QED
    BY <2>1, <2>2
<1> QED
  BY <1>1, <1>6, <1>7 DEF CutsAt

(***************************************************************************)
(* The invariant                                                           *)
(***************************************************************************)

(* Who appends has a packet and room for the rest.                         *)
MbWorking ==
  /\ mbWork \in [Owners -> [at : {"idle", "test", "copy", "write"}, rest : Seq(Bytes)]]
  /\ \A o \in Owners :
       /\ mbWork[o].at = "idle" => mbWork[o] = MbIdle
       /\ mbWork[o] # MbIdle => mbPkt[o] # Nothing /\ mbPkt[o].len + Len(mbWork[o].rest) <= MaxBytes

(* Without concurrency one owner at a time is in the middle of a call, a   *)
(* buffer that is about to be copied has another user, and none is kept    *)
(* that nobody uses.                                                       *)
MbAlone ==
  ~mbThreads =>
    /\ \A o, q \in Owners : o # q => mbWork[o] = MbIdle \/ mbWork[q] = MbIdle
    /\ \A o \in Owners : mbWork[o].at = "copy" => mbBuf[MbLast(mbPkt[o].views).sh].refcnt > 1
    /\ \A b \in Buffers : mbBuf[b] # Nothing => mbBuf[b].refcnt > 0

(* Who is about to write is alone with the buffer of its last view: nobody *)
(* else can clone its packet in between.                                   *)
MbWriters ==
  \A o, q \in Owners : mbWork[o].at = "write" /\ q # o => ~Has(mbPkt[q], MbLast(mbPkt[o].views).sh)

(* The inductive invariant.                                                *)
MbInv == Sound(mbBuf, mbPkt) /\ MbWorking /\ MbAlone /\ MbWriters /\ mbThreads \in BOOLEAN

(* What memory is. *)
LEMMA MemoryIs ==
  ASSUME NEW buf, NEW pkt, Sound(buf, pkt), NEW b \in Buffers, buf[b] # Nothing
  PROVE  /\ buf[b] \in Memory /\ buf[b].refcnt \in Nat /\ buf[b].bytes \in Seq(Bytes)
         /\ buf[b] = [refcnt |-> buf[b].refcnt, bytes |-> buf[b].bytes]
         /\ Len(buf[b].bytes) \in Sizes \cup {FragSize}
BY DEF Sound, Memory

(* Fitting memory and packets have their types. *)
LEMMA SoundTypes ==
  ASSUME NEW buf, NEW pkt, Sound(buf, pkt)
  PROVE  buf \in [Buffers -> Memory \cup {Nothing}] /\ pkt \in [Owners -> Packet \cup {Nothing}]
BY DEF Sound

(* What is known of a packet.                                              *)
LEMMA PacketIs ==
  ASSUME NEW buf, NEW pkt, Sound(buf, pkt), NEW o \in Owners, NEW p, p = pkt[o], p # Nothing,
         NEW views, views = p.views
  PROVE  /\ p \in Packet /\ p = [views |-> views, len |-> p.len]
         /\ p.len \in 0 .. MaxBytes /\ MaxBytes \in Nat
         /\ views \in Seq(View) /\ Len(views) \in Nat /\ Len(views) > 0
         /\ DOMAIN views = 1 .. Len(views) /\ EachOnce(views)
         /\ \A k \in 1 .. Len(views) :
              /\ views[k] \in View /\ views[k].sh \in Buffers
              /\ views[k].data \in Nat /\ views[k].tail \in Nat
              /\ views[k].data <= views[k].tail /\ views[k].tail <= Len(buf[views[k].sh].bytes)
              /\ buf[views[k].sh] # Nothing /\ buf[views[k].sh] \in Memory
              /\ Has(p, views[k].sh)
              /\ buf[views[k].sh].refcnt \in Nat /\ buf[views[k].sh].refcnt > 0
         /\ Measures(views, p.len)
<1>2. /\ p \in Packet /\ GoodPacket(buf, p) /\ p # Nothing
      /\ buf \in [Buffers -> Memory \cup {Nothing}]
      /\ \A b \in Buffers : buf[b] # Nothing => buf[b].refcnt = Cardinality(HoldersOf(pkt, b))
  BY DEF Sound
<1>4. views \in Seq(View) /\ p.len \in 0 .. MaxBytes /\ p = [views |-> views, len |-> p.len]
  BY <1>2 DEF Packet
<1>5. Len(views) \in Nat /\ Len(views) > 0 /\ DOMAIN views = 1 .. Len(views) /\ EachOnce(views)
  <2>1. views # <<>> /\ EachOnce(views)
    BY <1>2 DEF GoodPacket
  <2> QED
    BY <1>4, <2>1
<1>6. ASSUME NEW k \in 1 .. Len(views)
      PROVE  /\ views[k] \in View /\ views[k].sh \in Buffers
             /\ views[k].data \in Nat /\ views[k].tail \in Nat
             /\ views[k].data <= views[k].tail /\ views[k].tail <= Len(buf[views[k].sh].bytes)
             /\ buf[views[k].sh] # Nothing /\ buf[views[k].sh] \in Memory
             /\ Has(p, views[k].sh)
             /\ buf[views[k].sh].refcnt \in Nat /\ buf[views[k].sh].refcnt > 0
  <2>1. PICK v \in View : v = views[k]
    BY <1>4
  <2>2. v.sh \in Buffers /\ v.data \in Nat /\ v.tail \in Nat
    BY ViewIs
  <2>3. Inside(buf, v)
    BY <1>2, <1>5, <2>1 DEF GoodPacket
  <2>4. buf[v.sh] # Nothing /\ buf[v.sh] \in Memory
    BY <1>2, <2>2, <2>3 DEF Inside
  <2>5. Has(p, v.sh)
    BY <1>2, <1>5, <2>1 DEF Has, Shared
  <2>6. Cardinality(HoldersOf(pkt, v.sh)) \in Nat /\ Cardinality(HoldersOf(pkt, v.sh)) > 0
    <3>1. Changes(pkt, pkt, o, p)
      BY DEF Changes
    <3> QED
      BY <2>5, <3>1, HoldersMove
  <2>7. buf[v.sh].refcnt = Cardinality(HoldersOf(pkt, v.sh))
    BY <1>2, <2>2, <2>4
  <2> QED
    BY <2>1, <2>2, <2>3, <2>4, <2>5, <2>6, <2>7 DEF Inside
<1>7. Measures(views, p.len)
  BY <1>2 DEF GoodPacket
<1> QED
  BY <1>2, <1>4, <1>5, <1>6, <1>7, MbAssumption

(* A chain is a sequence of views. *)
LEMMA ChainIs ==
  ASSUME NEW buf, NEW pkt, Sound(buf, pkt), NEW o \in Owners, NEW p, p = pkt[o], p # Nothing,
         NEW views, views = p.views
  PROVE  Measures(views, p.len)
BY DEF Sound, GoodPacket

(* Every buffer that an owner's packet uses is there, and counted.         *)
LEMMA SharedIs ==
  ASSUME NEW buf, NEW pkt, Sound(buf, pkt), NEW o \in Owners, NEW p, p = pkt[o], p # Nothing,
         NEW b \in Shared(p.views)
  PROVE  b \in Buffers /\ buf[b] # Nothing /\ buf[b].refcnt \in Nat /\ buf[b].refcnt > 0
<1>1. PICK views : views = p.views
  OBVIOUS
<1>2. PICK k \in DOMAIN views : b = views[k].sh
  BY <1>1 DEF Shared
<1>3. /\ DOMAIN views = 1 .. Len(views)
      /\ \A j \in 1 .. Len(views) :
           /\ views[j].sh \in Buffers /\ buf[views[j].sh] # Nothing
           /\ buf[views[j].sh].refcnt \in Nat /\ buf[views[j].sh].refcnt > 0
  BY <1>1, PacketIs
<1> QED
  BY <1>2, <1>3

(* A buffer that a packet holds is there.                                  *)
LEMMA HasIs ==
  ASSUME NEW buf, NEW pkt, Sound(buf, pkt), NEW o \in Owners, NEW b, Has(pkt[o], b)
  PROVE  b \in Buffers /\ buf[b] # Nothing
<1>1. PICK p : p = pkt[o]
  OBVIOUS
<1>2. p # Nothing /\ b \in Shared(p.views)
  BY <1>1 DEF Has
<1> QED
  BY <1>1, <1>2, SharedIs

(* What a packet gets, from where.                                         *)
LEMMA SpreadsFrom ==
  ASSUME NEW buf, NEW pkt, NEW pkt2, NEW c, NEW p, Changes(pkt, pkt2, c, p), NEW o,
         \A b \in Buffers : buf[b] # Nothing /\ Has(p, b) => Has(pkt[o], b)
  PROVE  Spreads(buf, pkt, pkt2, o)
BY DEF Changes, Spreads

(* Memory that is in use before and after keeps its bytes.                 *)
LEMMA StaysAside ==
  ASSUME NEW buf, NEW pkt, Sound(buf, pkt), NEW buf2, NEW pkt2, Sound(buf2, pkt2),
         NEW c, NEW p, Changes(pkt, pkt2, c, p), Untouched(buf, buf2)
  PROVE  Aside(buf, pkt, buf2, pkt2, c)
<1> SUFFICES ASSUME NEW q \in Owners, q # c
    PROVE  pkt2[q] = pkt[q] /\ \A b \in Buffers : Has(pkt[q], b) => buf2[b].bytes = buf[b].bytes
  BY DEF Aside
<1>1. pkt2[q] = pkt[q]
  BY DEF Changes
<1>2. ASSUME NEW b \in Buffers, Has(pkt[q], b) PROVE buf2[b].bytes = buf[b].bytes
  <2>1. buf[b] # Nothing
    BY <1>2, HasIs
  <2>2. Has(pkt2[q], b)
    BY <1>1, <1>2
  <2>3. buf2[b] # Nothing
    BY <2>2, HasIs
  <2> QED
    BY <2>1, <2>3 DEF Untouched
<1> QED
  BY <1>1, <1>2

(* Fresh memory.                                                           *)
LEMMA FreshIs ==
  ASSUME NEW size \in Sizes \cup {FragSize}
  PROVE  /\ Fresh(size) \in Memory /\ Fresh(size) # Nothing /\ Fresh(size).refcnt = 1
         /\ Len(Fresh(size).bytes) = size /\ size \in Nat
<1>1. size \in Nat
  BY MbAssumption
<1>2. PICK m : m = [i \in 1 .. size |-> Garbage]
  OBVIOUS
<1>3. m \in Seq(Bytes) /\ Len(m) = size
  BY <1>1, <1>2 DEF Bytes
<1>4. Fresh(size) = [refcnt |-> 1, bytes |-> m]
  BY <1>2 DEF Fresh
<1> QED
  BY <1>1, <1>3, <1>4, MbAssumption DEF Memory

(* The buffer that is taken is one that is not in use. *)
LEMMA NewIs ==
  ASSUME Unused # {}
  PROVE  NewBuffer \in Buffers /\ mbBuf[NewBuffer] = Nothing
<1>1. Unused \in SUBSET Nat
  BY MbAssumption DEF Unused
<1>2. \E b \in Unused : \A c \in Unused : b <= c
  BY <1>1, LeastNumber
<1>3. NewBuffer \in Unused
  BY <1>2 DEF NewBuffer
<1> QED
  BY <1>3 DEF Unused

(* An owner in the middle of append_large has a packet, room for the rest, *)
(* and a last view.                                                        *)
LEMMA WorkIs ==
  ASSUME MbInv, NEW o \in Owners, mbWork[o].at # "idle",
         NEW p, p = mbPkt[o], NEW views, views = p.views, NEW n, n = Len(views),
         NEW v, v = views[n]
  PROVE  /\ p # Nothing /\ p \in Packet /\ p = [views |-> views, len |-> p.len]
         /\ mbWork[o] \in [at : {"idle", "test", "copy", "write"}, rest : Seq(Bytes)]
         /\ mbWork[o] = [at |-> mbWork[o].at, rest |-> mbWork[o].rest]
         /\ p.len + Len(mbWork[o].rest) <= MaxBytes
         /\ MbLast(views) = v /\ n \in 1 .. n /\ n \in Nat /\ n > 0
<1>1. mbWork[o] # MbIdle
  BY DEF MbIdle
<1>2. p # Nothing /\ p.len + Len(mbWork[o].rest) <= MaxBytes
  BY <1>1 DEF MbInv, MbWorking
<1>3. mbWork[o] \in [at : {"idle", "test", "copy", "write"}, rest : Seq(Bytes)]
  BY DEF MbInv, MbWorking
<1>4. Sound(mbBuf, mbPkt)
  BY DEF MbInv
<1>5. p \in Packet /\ p = [views |-> views, len |-> p.len] /\ Len(views) \in Nat /\ Len(views) > 0
  BY <1>2, <1>4, PacketIs
<1>6. n \in 1 .. n
  BY <1>5
<1> QED
  BY <1>2, <1>3, <1>5, <1>6 DEF MbLast

(* A step of owner o leaves the others that are about to write alone.      *)
LEMMA StayAlone ==
  ASSUME MbInv, NEW o \in Owners, NEW r \in Owners, r # o, mbWork[r].at = "write",
         mbPkt'[r] = mbPkt[r], Spreads(mbBuf, mbPkt, mbPkt', o),
         NEW q \in Owners, q # r
  PROVE  ~Has(mbPkt'[q], MbLast(mbPkt'[r].views).sh)
<1>1. PICK p, views : p = mbPkt[r] /\ views = p.views
  OBVIOUS
<1>2. PICK n, v : n = Len(views) /\ v = views[n]
  OBVIOUS
<1>8. mbWork[r].at # "idle"
  OBVIOUS
<1>3. /\ p # Nothing /\ p \in Packet /\ p = [views |-> views, len |-> p.len]
      /\ mbWork[r] \in [at : {"idle", "test", "copy", "write"}, rest : Seq(Bytes)]
      /\ mbWork[r] = [at |-> mbWork[r].at, rest |-> mbWork[r].rest]
      /\ p.len + Len(mbWork[r].rest) <= MaxBytes
      /\ MbLast(views) = v /\ n \in 1 .. n /\ n \in Nat /\ n > 0
  BY <1>1, <1>2, <1>8, WorkIs, SMTT(30)
<1>4. Sound(mbBuf, mbPkt)
  BY DEF MbInv
<1>5. v.sh \in Buffers /\ mbBuf[v.sh] # Nothing
  <2>1. \A k \in 1 .. Len(views) : views[k].sh \in Buffers /\ mbBuf[views[k].sh] # Nothing
    BY <1>1, <1>3, <1>4, PacketIs
  <2> QED
    BY <1>2, <1>3, <2>1
<1>6. ~Has(mbPkt[q], v.sh) /\ ~Has(mbPkt[o], v.sh)
  BY <1>1, <1>3 DEF MbInv, MbWriters
<1>7. ~Has(mbPkt'[q], v.sh)
  BY <1>5, <1>6 DEF Spreads
<1> QED
  BY <1>1, <1>3, <1>7

(* A call that is one step leaves the work of everyone as it is.           *)
LEMMA CallKeeps ==
  ASSUME MbInv, NEW o \in Owners, Calls(o), UNCHANGED <<mbWork, mbThreads>>,
         Sound(mbBuf', mbPkt'), Spreads(mbBuf, mbPkt, mbPkt', o),
         \A q \in Owners : q # o /\ mbPkt[q] # Nothing => mbPkt'[q] = mbPkt[q],
         ~mbThreads => \A b \in Buffers : mbBuf'[b] # Nothing => mbBuf'[b].refcnt > 0
  PROVE  MbInv'
<1>1. mbWork[o] = MbIdle /\ (mbThreads \/ \A q \in Owners \ {o} : mbWork[q] = MbIdle)
  BY DEF Calls, Runs
<1>2. MbIdle.at = "idle"
  BY DEF MbIdle
<1>3. ~mbThreads => \A q \in Owners : mbWork[q] = MbIdle /\ mbWork[q].at # "copy"
  BY <1>1, <1>2
<1>4. MbAlone'
  BY <1>3 DEF MbAlone
<1>5. MbWorking'
  BY <1>1 DEF MbInv, MbWorking
<1>6. MbWriters'
  <2> SUFFICES ASSUME NEW r \in Owners, NEW q \in Owners, mbWork[r].at = "write", q # r
      PROVE  ~Has(mbPkt'[q], MbLast(mbPkt'[r].views).sh)
    BY DEF MbWriters
  <2>1. r # o /\ mbWork[r] # MbIdle
    BY <1>1, <1>2
  <2>2. mbPkt'[r] = mbPkt[r]
    BY <2>1 DEF MbInv, MbWorking
  <2> QED
    BY <2>1, <2>2, StayAlone
<1> QED
  BY <1>4, <1>5, <1>6 DEF MbInv

(* A step of append_large changes the work of its owner only.              *)
LEMMA WorkKeeps ==
  ASSUME MbInv, NEW o \in Owners, Runs(o), mbThreads' = mbThreads,
         NEW w \in [at : {"idle", "test", "copy", "write"}, rest : Seq(Bytes)],
         mbWork' = [mbWork EXCEPT ![o] = w],
         Sound(mbBuf', mbPkt'), Spreads(mbBuf, mbPkt, mbPkt', o), w.at = "idle" => w = MbIdle,
         w.at = "write" => \A q \in Owners : q # o => ~Has(mbPkt'[q], MbLast(mbPkt'[o].views).sh),
         \A q \in Owners : q # o => mbPkt'[q] = mbPkt[q],
         w # MbIdle => mbPkt'[o] # Nothing /\ mbPkt'[o].len + Len(w.rest) <= MaxBytes,
         ~mbThreads /\ w.at = "copy" => mbBuf'[MbLast(mbPkt'[o].views).sh].refcnt > 1,
         ~mbThreads => \A b \in Buffers : mbBuf'[b] # Nothing => mbBuf'[b].refcnt > 0
  PROVE  MbInv'
<1>1. mbThreads \/ \A q \in Owners \ {o} : mbWork[q] = MbIdle
  BY DEF Runs
<1>2. MbIdle.at = "idle"
  BY DEF MbIdle
<1>3. mbWork' \in [Owners -> [at : {"idle", "test", "copy", "write"}, rest : Seq(Bytes)]]
  BY DEF MbInv, MbWorking
<1>4. mbWork'[o] = w /\ \A q \in Owners : q # o => mbWork'[q] = mbWork[q]
  BY DEF MbInv, MbWorking
<1>5. \A q \in Owners :
       /\ mbWork'[q].at = "idle" => mbWork'[q] = MbIdle
       /\ mbWork'[q] # MbIdle => mbPkt'[q] # Nothing /\ mbPkt'[q].len + Len(mbWork'[q].rest) <= MaxBytes
  <2> SUFFICES ASSUME NEW q \in Owners
      PROVE /\ mbWork'[q].at = "idle" => mbWork'[q] = MbIdle
            /\ mbWork'[q] # MbIdle => mbPkt'[q] # Nothing /\ mbPkt'[q].len + Len(mbWork'[q].rest) <= MaxBytes
    OBVIOUS
  <2>1. CASE q = o
    BY <1>4, <2>1
  <2>2. CASE q # o
    BY <1>4, <2>2 DEF MbInv, MbWorking
  <2> QED
    BY <2>1, <2>2
<1>6. ASSUME ~mbThreads
      PROVE  /\ \A q, r \in Owners : q # r => mbWork'[q] = MbIdle \/ mbWork'[r] = MbIdle
             /\ \A q \in Owners : mbWork'[q].at = "copy" => mbBuf'[MbLast(mbPkt'[q].views).sh].refcnt > 1
  <2>1. \A q \in Owners : q # o => mbWork'[q] = MbIdle
    BY <1>1, <1>4, <1>6
  <2> QED
    BY <1>2, <1>4, <1>6, <2>1
<1>7. MbWorking'
  BY <1>3, <1>5 DEF MbWorking
<1>8. MbAlone'
  BY <1>6 DEF MbAlone
<1>9. MbWriters'
  <2> SUFFICES ASSUME NEW r \in Owners, NEW q \in Owners, mbWork'[r].at = "write", q # r
      PROVE  ~Has(mbPkt'[q], MbLast(mbPkt'[r].views).sh)
    BY DEF MbWriters
  <2>1. CASE r = o
    BY <1>4, <2>1
  <2>2. CASE r # o
    <3>1. mbWork[r].at = "write" /\ mbPkt'[r] = mbPkt[r]
      BY <1>4, <2>2
    <3> QED
      BY <2>2, <3>1, StayAlone
  <2> QED
    BY <2>1, <2>2
<1> QED
  BY <1>7, <1>8, <1>9 DEF MbInv

(***************************************************************************)
(* What a packet reads                                                     *)
(***************************************************************************)

(* The string s is read, from one view, and from a chain whose views end   *)
(* at the marks f.                                                         *)
ViewReads(bytes, data, s, from, to) ==
  \A i \in from + 1 .. to : s[i] = bytes[data + (i - from)]
Reads(buf, views, f, s) ==
  /\ Marks(f, views) /\ s \in Seq(Bytes) /\ Len(s) = f[Len(views)]
  /\ \A k \in 1 .. Len(views) :
       ViewReads(buf[views[k].sh].bytes, views[k].data, s, f[k - 1], f[k])
Spells(buf, views, s) == \E f : Reads(buf, views, f, s)

(* A chain of views none of which ends before it begins.                   *)
Rising(views) == views \in Seq(View) /\ \A k \in DOMAIN views : views[k].data <= views[k].tail

(* A chain has one sequence of marks.                                      *)
LEMMA MarksAgree ==
  ASSUME NEW views \in Seq(View), NEW f, Marks(f, views), NEW g, Marks(g, views)
  PROVE  \A k \in 0 .. Len(views) : f[k] = g[k]
<1> DEFINE T == {k \in Nat : k <= Len(views) => f[k] = g[k]}
<1>1. Len(views) \in Nat
  OBVIOUS
<1>2. 0 \in T
  BY DEF Marks
<1>3. ASSUME NEW k \in T PROVE k + 1 \in T
  <2> SUFFICES ASSUME k + 1 <= Len(views) PROVE f[k + 1] = g[k + 1]
    OBVIOUS
  <2>1. k \in Nat /\ k <= Len(views) /\ k + 1 \in 1 .. Len(views) /\ (k + 1) - 1 = k
    BY <1>1
  <2>2. f[k] = g[k]
    BY <2>1
  <2>3. f[k + 1] = f[k] + (views[k + 1].tail - views[k + 1].data)
    BY <2>1 DEF Marks
  <2>4. g[k + 1] = g[k] + (views[k + 1].tail - views[k + 1].data)
    BY <2>1 DEF Marks
  <2> QED
    BY <2>2, <2>3, <2>4
<1>4. T \in SUBSET Nat
  OBVIOUS
<1> HIDE DEF T
<1>5. T = Nat
  BY <1>2, <1>3, <1>4, SetInduction
<1> QED
  <2> SUFFICES ASSUME NEW k \in 0 .. Len(views) PROVE f[k] = g[k]
    OBVIOUS
  <2>1. k \in T /\ k <= Len(views)
    BY <1>1, <1>5
  <2> QED
    BY <2>1 DEF T

(* Every byte of a chain is in one of its views.                           *)
LEMMA InSomeView ==
  ASSUME NEW views, Rising(views), NEW f, Marks(f, views), NEW i \in 1 .. f[Len(views)]
  PROVE  \E k \in 1 .. Len(views) : i \in f[k - 1] + 1 .. f[k]
<1>1. views \in Seq(View) /\ Len(views) \in Nat /\ \A k \in DOMAIN views : views[k].data <= views[k].tail
  BY DEF Rising
<1>2. \A k \in 0 .. Len(views) : f[k] \in Nat
  BY <1>1, MarksRise
<1>3. Len(views) \in 0 .. Len(views) /\ f[Len(views)] \in Nat
  BY <1>1, <1>2
<1>4. Len(views) > 0
  <2>1. f[0] = 0
    BY DEF Marks
  <2> QED
    BY <1>1, <1>3, <2>1
<1>5. PICK n \in Nat : n = i - 1 /\ n < f[Len(views)]
  BY <1>3
<1>6. PICK over : over = {k \in DOMAIN views : f[k] > n}
  OBVIOUS
<1>7. PICK cut : cut = CHOOSE k \in over : \A j \in over : k <= j
  OBVIOUS
<1>8. CutsAt(f, views, cut, n)
  BY <1>1, <1>4, <1>5, <1>6, <1>7, CutIs
<1>9. cut \in 1 .. Len(views) /\ f[cut - 1] <= n /\ n < f[cut]
  BY <1>8 DEF CutsAt
<1>10. cut \in 0 .. Len(views) /\ cut - 1 \in 0 .. Len(views)
  BY <1>1, <1>9
<1>11. f[cut] \in Nat /\ f[cut - 1] \in Nat
  BY <1>2, <1>10
<1>12. i \in f[cut - 1] + 1 .. f[cut]
  BY <1>3, <1>5, <1>9, <1>11
<1> QED
  BY <1>9, <1>12

(* A chain spells one string.                                              *)
LEMMA SpellsOnce ==
  ASSUME NEW buf, NEW views, Rising(views), NEW s, Spells(buf, views, s), NEW t, Spells(buf, views, t)
  PROVE  s = t
<1>1. PICK f, g : Reads(buf, views, f, s) /\ Reads(buf, views, g, t)
  BY DEF Spells
<1>2. /\ Marks(f, views) /\ s \in Seq(Bytes) /\ Len(s) = f[Len(views)]
      /\ Marks(g, views) /\ t \in Seq(Bytes) /\ Len(t) = g[Len(views)]
  BY <1>1 DEF Reads
<1>3. views \in Seq(View) /\ Len(views) \in Nat
  BY DEF Rising
<1>4. \A k \in 0 .. Len(views) : f[k] = g[k]
  BY <1>2, <1>3, MarksAgree
<1>5. Len(s) = Len(t) /\ Len(s) \in Nat
  BY <1>2, <1>3, <1>4
<1>6. ASSUME NEW i \in 1 .. Len(s) PROVE s[i] = t[i]
  <2>1. PICK k \in 1 .. Len(views) : i \in f[k - 1] + 1 .. f[k]
    BY <1>2, <1>6, InSomeView
  <2>2. f[k - 1] = g[k - 1] /\ f[k] = g[k]
    BY <1>3, <1>4
  <2>3. s[i] = buf[views[k].sh].bytes[views[k].data + (i - f[k - 1])]
    BY <1>1, <2>1 DEF Reads, ViewReads
  <2>4. t[i] = buf[views[k].sh].bytes[views[k].data + (i - g[k - 1])]
    <3>1. i \in g[k - 1] + 1 .. g[k]
      BY <2>1, <2>2
    <3> QED
      BY <1>1, <3>1 DEF Reads, ViewReads
  <2> QED
    BY <2>2, <2>3, <2>4
<1> QED
  BY <1>2, <1>5, <1>6

(* A position behind the first x of x + y.                                 *)
LEMMA Offset ==
  ASSUME NEW x \in Nat, NEW y \in Nat, NEW i \in x + 1 .. x + y
  PROVE  i - x \in 1 .. y /\ ~(i <= x) /\ i \in 1 .. x + y
OBVIOUS

(* What a view reads.                                                      *)
LEMMA ViewHolds ==
  ASSUME NEW m \in Seq(Bytes), NEW v \in View, v.data <= v.tail, v.tail <= Len(m),
         NEW w, w = SubSeq(m, v.data + 1, v.tail), NEW i \in 1 .. v.tail - v.data
  PROVE  w[i] = m[v.data + i]
<1>1. v.data \in Nat /\ v.tail \in Nat /\ Len(m) \in Nat
  BY ViewIs
<1>2. PICK a, b : a = v.data + 1 /\ b = v.tail
  OBVIOUS
<1>3. a \in 1 .. Len(m) + 1 /\ b \in a - 1 .. Len(m) /\ i \in 1 .. b - a + 1 /\ w = SubSeq(m, a, b)
  BY <1>1, <1>2
<1>4. SubSeq(m, a, b)[i] = m[a + i - 1]
  BY <1>3, SubSeqProperties
<1>5. a + i - 1 = v.data + i
  BY <1>1, <1>2
<1> QED
  BY <1>3, <1>4, <1>5

(* Two strings joined.                                                     *)
LEMMA JoinedIs ==
  ASSUME NEW s \in Seq(Bytes), NEW t \in Seq(Bytes), NEW all, all = s \o t
  PROVE  /\ all \in Seq(Bytes) /\ Len(all) = Len(s) + Len(t)
         /\ \A i \in 1 .. Len(s) + Len(t) : all[i] = IF i <= Len(s) THEN s[i] ELSE t[i - Len(s)]
OBVIOUS

(* What Value returns is what the chain spells.                            *)
LEMMA ValueSpelt ==
  ASSUME Sound(mbBuf, mbPkt), NEW o \in Owners, mbPkt[o] # Nothing
  PROVE  Spells(mbBuf, mbPkt[o].views, Value(mbPkt[o].views))
<1>1. PICK views, up : views = mbPkt[o].views /\ up = Upto(views)
  OBVIOUS
<1>2. PICK p : p = mbPkt[o]
  OBVIOUS
<1>3. /\ views \in Seq(View) /\ Len(views) \in Nat
      /\ \A k \in 1 .. Len(views) :
              /\ views[k] \in View /\ views[k].sh \in Buffers
              /\ views[k].data \in Nat /\ views[k].tail \in Nat
              /\ views[k].data <= views[k].tail /\ views[k].tail <= Len(mbBuf[views[k].sh].bytes)
              /\ mbBuf[views[k].sh] # Nothing
  BY <1>1, <1>2, PacketIs
<1>4. PICK f : Marks(f, views)
  <2>1. Measures(views, p.len)
    BY <1>1, <1>2, ChainIs
  <2> QED
    BY <2>1 DEF Measures
<1>5. /\ \A k \in 0 .. Len(views) : up[k] \in Seq(Bytes) /\ Len(up[k]) = f[k]
      /\ \A k \in 1 .. Len(views) :
                  /\ up[k] = up[k - 1] \o ViewBytes(views[k])
                  /\ ViewBytes(views[k]) \in Seq(Bytes)
                  /\ Len(ViewBytes(views[k])) = views[k].tail - views[k].data
  BY <1>1, <1>4, UptoIs
<1>6. \A k \in 0 .. Len(views) : f[k] \in Nat
  <2>1. \A k \in DOMAIN views : views[k].data <= views[k].tail
    BY <1>3
  <2> QED
    BY <1>3, <1>4, <2>1, MarksRise
<1> DEFINE Byte(j, i) == mbBuf[views[j].sh].bytes[views[j].data + (i - f[j - 1])]
           T == {k \in Nat : k <= Len(views) => \A j \in 1 .. k : \A i \in f[j - 1] + 1 .. f[j] : i <= f[k] /\ up[k][i] = Byte(j, i)}
<1>7. 0 \in T
  OBVIOUS
<1>8. ASSUME NEW k \in T PROVE k + 1 \in T
  <2> SUFFICES ASSUME k + 1 <= Len(views), NEW j \in 1 .. k + 1, NEW i \in f[j - 1] + 1 .. f[j]
      PROVE  i <= f[k + 1] /\ up[k + 1][i] = Byte(j, i)
    OBVIOUS
  <2>1. k \in Nat /\ k <= Len(views) /\ k + 1 \in 1 .. Len(views) /\ (k + 1) - 1 = k
        /\ k \in 0 .. Len(views) /\ k + 1 \in 0 .. Len(views)
    BY <1>3
  <2>2. PICK u, w : u = up[k] /\ w = ViewBytes(views[k + 1])
    OBVIOUS
  <2>3. /\ u \in Seq(Bytes) /\ w \in Seq(Bytes) /\ up[k + 1] = u \o w /\ Len(u) = f[k]
        /\ Len(w) = views[k + 1].tail - views[k + 1].data
    BY <1>5, <2>1, <2>2
  <2>4. f[k + 1] = f[k] + Len(w) /\ f[k] \in Nat /\ f[k + 1] \in Nat /\ Len(w) \in Nat
    BY <1>4, <1>6, <2>1, <2>3 DEF Marks
  <2>8. \A e \in 1 .. Len(u) + Len(w) : (u \o w)[e] = IF e <= Len(u) THEN u[e] ELSE w[e - Len(u)]
    <3>1. u \in Seq(Bytes) /\ w \in Seq(Bytes)
      BY <2>3
    <3> QED
      BY <3>1, JoinedIs
  <2>5. CASE j \in 1 .. k
    <3>1. i <= f[k] /\ u[i] = Byte(j, i)
      BY <2>1, <2>2, <2>5
    <3>2. j - 1 \in 0 .. Len(views) /\ j \in 0 .. Len(views)
      BY <1>3, <2>1, <2>5
    <3>3. f[j - 1] \in Nat /\ f[j] \in Nat
      BY <1>6, <3>2
    <3>4. i \in 1 .. Len(u)
      BY <2>3, <2>4, <3>1, <3>3
    <3>5. (u \o w)[i] = u[i]
      <4>1. i \in 1 .. Len(u) + Len(w) /\ i <= Len(u)
        BY <2>3, <2>4, <3>4
      <4> QED
        BY <2>8, <4>1
    <3>6. i <= f[k + 1]
      BY <2>4, <3>1, <3>3
    <3>7. up[k + 1][i] = u[i]
      BY <2>3, <3>5
    <3> QED
      BY <3>1, <3>6, <3>7
  <2>6. CASE j = k + 1
    <3>1. j - 1 = k /\ i \in f[k] + 1 .. f[k + 1]
      BY <2>1, <2>6
    <3>2. PICK d, x, y : d = i - f[k] /\ x = f[k] /\ y = Len(w)
      OBVIOUS
    <3>3. x \in Nat /\ y \in Nat /\ Len(u) = x /\ i \in x + 1 .. x + y
      BY <2>3, <2>4, <3>1, <3>2
    <3>9. i - x \in 1 .. y /\ ~(i <= x) /\ i \in 1 .. x + y
      BY <3>3, Offset
    <3>4. (u \o w)[i] = w[d] /\ d \in 1 .. Len(w)
      <4>1. (u \o w)[i] = IF i <= Len(u) THEN u[i] ELSE w[i - Len(u)]
        <5>1. i \in 1 .. Len(u) + Len(w)
          BY <3>2, <3>3, <3>9
        <5> QED
          BY <2>8, <5>1
      <4> QED
        BY <3>2, <3>3, <3>9, <4>1
    <3>5. PICK v, m : v = views[k + 1] /\ m = mbBuf[v.sh].bytes
      OBVIOUS
    <3>6. /\ v \in View /\ v.data <= v.tail /\ v.tail <= Len(m) /\ m \in Seq(Bytes)
          /\ w = SubSeq(m, v.data + 1, v.tail) /\ d \in 1 .. v.tail - v.data
      <4>1. v \in View /\ v.data <= v.tail /\ v.tail <= Len(m) /\ v.sh \in Buffers /\ mbBuf[v.sh] # Nothing
        BY <1>3, <2>1, <3>5
      <4>2. m \in Seq(Bytes)
        BY <3>5, <4>1, MemoryIs
      <4>3. w = SubSeq(m, v.data + 1, v.tail)
        BY <2>2, <3>5 DEF ViewBytes
      <4> QED
        BY <2>3, <3>4, <3>5, <4>1, <4>2, <4>3
    <3>7. w[d] = m[v.data + d]
      BY <3>6, ViewHolds
    <3>8. Byte(j, i) = m[v.data + d]
      BY <2>6, <3>1, <3>2, <3>5
    <3> QED
      BY <2>3, <3>1, <3>4, <3>7, <3>8
  <2>7. j \in 1 .. k \/ j = k + 1
    BY <2>1
  <2> QED
    BY <2>5, <2>6, <2>7
<1>9. T \in SUBSET Nat
  OBVIOUS
<1> HIDE DEF T
<1>10. T = Nat
  BY <1>7, <1>8, <1>9, SetInduction
<1>11. PICK n \in Nat : n = Len(views) /\ n \in 0 .. Len(views)
  BY <1>3
<1>12. \A j \in 1 .. n : \A i \in f[j - 1] + 1 .. f[j] : up[n][i] = Byte(j, i)
  <2>1. n \in T /\ n <= Len(views)
    BY <1>10, <1>11
  <2> QED
    BY <2>1 DEF T
<1>13. Value(views) = up[n]
  BY <1>1, <1>11 DEF Value
<1>14. Reads(mbBuf, views, f, up[n])
  BY <1>4, <1>5, <1>11, <1>12 DEF Reads, ViewReads
<1> QED
  BY <1>1, <1>13, <1>14 DEF Spells

(* The same views, of buffers that hold the same.                          *)
AlikeViews(buf, views, buf2, two) ==
  /\ Len(two) = Len(views)
  /\ \A k \in 1 .. Len(views) :
       /\ two[k].data = views[k].data /\ two[k].tail = views[k].tail
       /\ buf2[two[k].sh].bytes = buf[views[k].sh].bytes

(* What a change of memory and views does to the string they spell.        *)
KeepsValue(buf, views, buf2, two) == \A s : Spells(buf, views, s) => Spells(buf2, two, s)
AddsValue(buf, views, buf2, two, t) == \A s : Spells(buf, views, s) => Spells(buf2, two, s \o t)
DropsValue(buf, views, buf2, two, n) ==
  \A s : Spells(buf, views, s) => Spells(buf2, two, SubSeq(s, n + 1, Len(s)))
CutsValue(buf, views, buf2, two, n) == \A s : Spells(buf, views, s) => Spells(buf2, two, SubSeq(s, 1, n))

(* They spell the same.                                                    *)
LEMMA SpellsAlike ==
  ASSUME NEW buf, NEW views, NEW buf2, NEW two, AlikeViews(buf, views, buf2, two)
  PROVE  KeepsValue(buf, views, buf2, two)
<1> SUFFICES ASSUME NEW s, Spells(buf, views, s) PROVE Spells(buf2, two, s)
  BY DEF KeepsValue
<1>1. PICK f : Reads(buf, views, f, s)
  BY DEF Spells
<1>2. /\ Len(two) = Len(views)
      /\ \A k \in 1 .. Len(views) :
           /\ two[k].data = views[k].data /\ two[k].tail = views[k].tail
           /\ buf2[two[k].sh].bytes = buf[views[k].sh].bytes
  BY DEF AlikeViews
<1>3. Marks(f, two)
  BY <1>1, <1>2 DEF Reads, Marks
<1>4. Reads(buf2, two, f, s)
  BY <1>1, <1>2, <1>3 DEF Reads
<1> QED
  BY <1>4 DEF Spells

(* An empty view adds nothing.                                             *)
LEMMA SpellsEmptyView ==
  ASSUME NEW buf, NEW views \in Seq(View), NEW buf2, NEW v \in View, v.data = v.tail,
         \A k \in 1 .. Len(views) : buf2[views[k].sh].bytes = buf[views[k].sh].bytes,
         NEW two, two = Append(views, v)
  PROVE  KeepsValue(buf, views, buf2, two)
<1> SUFFICES ASSUME NEW s, Spells(buf, views, s) PROVE Spells(buf2, two, s)
  BY DEF KeepsValue
<1>1. PICK f : Reads(buf, views, f, s)
  BY DEF Spells
<1>2. PICK n \in Nat : n = Len(views)
  OBVIOUS
<1>3. Len(two) = n + 1 /\ two[n + 1] = v /\ \A k \in 1 .. n : two[k] = views[k]
  BY <1>2
<1>4. /\ f \in [0 .. n -> Int] /\ f[0] = 0
      /\ \A k \in 1 .. n : f[k] = f[k - 1] + (views[k].tail - views[k].data)
      /\ s \in Seq(Bytes) /\ Len(s) = f[n]
      /\ \A k \in 1 .. n : ViewReads(buf[views[k].sh].bytes, views[k].data, s, f[k - 1], f[k])
  BY <1>1, <1>2 DEF Reads, Marks
<1>5. PICK g : g = [j \in 0 .. n + 1 |-> IF j <= n THEN f[j] ELSE f[n]]
  OBVIOUS
<1>6. g \in [0 .. n + 1 -> Int] /\ g[n + 1] = f[n] /\ f[n] \in Int
  BY <1>4, <1>5
<1>7. \A j \in 0 .. n : g[j] = f[j]
  BY <1>5
<1>8. ASSUME NEW k \in 1 .. n + 1
      PROVE  /\ g[k] = g[k - 1] + (two[k].tail - two[k].data)
             /\ ViewReads(buf2[two[k].sh].bytes, two[k].data, s, g[k - 1], g[k])
  <2>1. CASE k \in 1 .. n
    <3>1. k - 1 \in 0 .. n /\ k \in 0 .. n
      BY <2>1
    <3>2. g[k] = f[k] /\ g[k - 1] = f[k - 1] /\ two[k] = views[k]
      BY <1>3, <1>7, <2>1, <3>1
    <3> QED
      BY <1>2, <1>4, <2>1, <3>2
  <2>2. CASE k = n + 1
    <3>1. g[k] = f[n] /\ g[k - 1] = f[n] /\ two[k] = v
      BY <1>3, <1>6, <1>7, <2>2
    <3>2. v.tail - v.data = 0
      BY ViewIs
    <3> QED
      BY <1>6, <3>1, <3>2 DEF ViewReads
  <2>3. k \in 1 .. n \/ k = n + 1
    OBVIOUS
  <2> QED
    BY <2>1, <2>2, <2>3
<1>9. Marks(g, two)
  BY <1>3, <1>4, <1>6, <1>7, <1>8 DEF Marks
<1>10. Reads(buf2, two, g, s)
  BY <1>3, <1>4, <1>6, <1>8, <1>9 DEF Reads
<1> QED
  BY <1>10 DEF Spells

(* A position in a string that is joined to another.                       *)
LEMMA Joined ==
  ASSUME NEW s \in Seq(Bytes), NEW t \in Seq(Bytes), NEW l, l = Len(s)
  PROVE  /\ s \o t \in Seq(Bytes) /\ Len(s \o t) = l + Len(t)
         /\ \A i \in 1 .. l : (s \o t)[i] = s[i]
         /\ \A i \in 1 .. Len(t) : (s \o t)[l + i] = t[i]
<1>1. PICK c : c = s \o t
  OBVIOUS
<1>2. /\ c \in Seq(Bytes) /\ Len(c) = Len(s) + Len(t)
      /\ \A i \in 1 .. Len(s) + Len(t) : c[i] = IF i <= Len(s) THEN s[i] ELSE t[i - Len(s)]
  BY <1>1, ConcatProperties
<1>3. Len(s) \in Nat /\ Len(t) \in Nat
  OBVIOUS
<1>4. \A i \in 1 .. l : c[i] = s[i]
  BY <1>2, <1>3
<1>5. ASSUME NEW i \in 1 .. Len(t) PROVE c[l + i] = t[i]
  <2>1. l + i \in 1 .. Len(s) + Len(t) /\ ~(l + i <= Len(s)) /\ (l + i) - Len(s) = i
    BY <1>3
  <2> QED
    BY <1>2, <2>1
<1> QED
  BY <1>1, <1>2, <1>4, <1>5

(* Where a position behind below falls when d positions join those from a  *)
(* to b.                                                                   *)
LEMMA Behind ==
  ASSUME NEW a \in Nat, NEW b \in Nat, a <= b, NEW below \in Nat, NEW l, l = below + (b - a),
         NEW d \in Nat, NEW i \in below + 1 .. l + d
  PROVE  /\ i <= l => i \in below + 1 .. l /\ i \in 1 .. l /\ a + (i - below) \in a + 1 .. b
         /\ ~(i <= l) => i - l \in 1 .. d /\ i = l + (i - l) /\ a + (i - below) = b + (i - l)
<1>1. l \in Nat
  OBVIOUS
<1>2. ASSUME i <= l PROVE i \in below + 1 .. l /\ i \in 1 .. l /\ a + (i - below) \in a + 1 .. b
  BY <1>1, <1>2
<1>3. ASSUME ~(i <= l) PROVE i - l \in 1 .. d /\ i = l + (i - l) /\ a + (i - below) = b + (i - l)
  BY <1>1, <1>3
<1> QED
  BY <1>2, <1>3

(* What lies behind the tail of a view, and is written there.              *)
WritesBehind(old, new, v, t) ==
  /\ \A i \in v.data + 1 .. v.tail : new[i] = old[i]
  /\ \A i \in 1 .. Len(t) : new[v.tail + i] = t[i]

(* The last view gets longer by the string written behind it.              *)
LEMMA SpellsMore ==
  ASSUME NEW buf, NEW views \in Seq(View), NEW n \in Nat \ {0}, n = Len(views), Rising(views), NEW buf2,
         NEW two \in Seq(View), Len(two) = n, NEW t \in Seq(Bytes),
         \A k \in 1 .. n : k # n => two[k] = views[k] /\ buf2[two[k].sh].bytes = buf[views[k].sh].bytes,
         two[n].data = views[n].data, two[n].tail = views[n].tail + Len(t),
         WritesBehind(buf[views[n].sh].bytes, buf2[two[n].sh].bytes, views[n], t)
  PROVE  AddsValue(buf, views, buf2, two, t)
<1> SUFFICES ASSUME NEW s, Spells(buf, views, s) PROVE Spells(buf2, two, s \o t)
  BY DEF AddsValue
<1>1. PICK f : Reads(buf, views, f, s)
  BY DEF Spells
<1>2. PICK c, l : c = s \o t /\ l = f[n]
  OBVIOUS
<1>3. /\ Marks(f, views) /\ f \in [0 .. n -> Int] /\ f[0] = 0
      /\ \A k \in 1 .. n : f[k] = f[k - 1] + (views[k].tail - views[k].data)
      /\ s \in Seq(Bytes) /\ Len(s) = l
      /\ \A k \in 1 .. n : ViewReads(buf[views[k].sh].bytes, views[k].data, s, f[k - 1], f[k])
  BY <1>1, <1>2 DEF Reads, Marks
<1>4. \A i, j \in 0 .. n : f[i] \in Nat /\ (i <= j => f[i] <= f[j])
  BY <1>3, MarksRise DEF Rising
<1>5. /\ c \in Seq(Bytes) /\ Len(c) = l + Len(t)
      /\ \A i \in 1 .. l : c[i] = s[i]
      /\ \A i \in 1 .. Len(t) : c[l + i] = t[i]
  <2>1. s \in Seq(Bytes) /\ l = Len(s)
    BY <1>3
  <2>2. c \in Seq(Bytes) /\ Len(c) = l + Len(t)
    BY <1>2, <2>1, Joined
  <2>3. \A i \in 1 .. l : c[i] = s[i]
    BY <1>2, <2>1, Joined
  <2>4. \A i \in 1 .. Len(t) : c[l + i] = t[i]
    BY <1>2, <2>1, Joined
  <2> QED
    BY <2>2, <2>3, <2>4
<1>6. PICK d \in Nat : d = Len(t)
  OBVIOUS
<1>7. PICK g : g = [j \in 0 .. n |-> IF j = n THEN l + d ELSE f[j]]
  OBVIOUS
<1>8. n \in 0 .. n /\ l \in Nat /\ g[n] = l + d /\ g \in [0 .. n -> Int] /\ g[0] = 0
  <2>1. n \in 0 .. n /\ l \in Nat
    BY <1>2, <1>4
  <2> QED
    BY <1>3, <1>7, <2>1
<1>9. ASSUME NEW k \in 1 .. n, k # n
      PROVE  /\ g[k] = g[k - 1] + (two[k].tail - two[k].data)
             /\ ViewReads(buf2[two[k].sh].bytes, two[k].data, c, g[k - 1], g[k])
  <2>1. k - 1 \in 0 .. n /\ k \in 0 .. n /\ k - 1 # n /\ k <= n
    BY <1>9
  <2>2. g[k] = f[k] /\ g[k - 1] = f[k - 1] /\ two[k] = views[k] /\ f[k] <= l /\ f[k] \in Nat /\ f[k - 1] \in Nat
    BY <1>2, <1>4, <1>7, <1>8, <1>9, <2>1
  <2>3. ViewReads(buf[views[k].sh].bytes, views[k].data, s, f[k - 1], f[k])
    BY <1>3
  <2>4. \A i \in f[k - 1] + 1 .. f[k] : c[i] = s[i]
    BY <1>5, <1>8, <2>2
  <2>5. buf2[two[k].sh].bytes = buf[views[k].sh].bytes
    BY <1>9
  <2>6. ViewReads(buf2[two[k].sh].bytes, two[k].data, c, g[k - 1], g[k])
    BY <2>2, <2>3, <2>4, <2>5 DEF ViewReads
  <2>7. f[k] = f[k - 1] + (views[k].tail - views[k].data)
    BY <1>3
  <2> QED
    BY <2>2, <2>6, <2>7
<1>10. PICK v, below : v = views[n] /\ below = f[n - 1]
  OBVIOUS
<1>11. /\ v \in View /\ v.data \in Nat /\ v.tail \in Nat /\ v.data <= v.tail /\ below \in Nat
       /\ l = below + (v.tail - v.data) /\ g[n - 1] = below
  <2>1. n \in 1 .. n /\ n - 1 \in 0 .. n /\ n - 1 # n /\ n \in DOMAIN views
    OBVIOUS
  <2>2. v \in View /\ v.data <= v.tail
    BY <1>10, <2>1 DEF Rising
  <2> QED
    BY <1>2, <1>3, <1>4, <1>7, <1>10, <2>1, <2>2, ViewIs
<1>12. PICK old, new : old = buf[v.sh].bytes /\ new = buf2[two[n].sh].bytes
  OBVIOUS
<1>13. PICK a, b : a = v.data /\ b = v.tail
  OBVIOUS
<1>14. a \in Nat /\ b \in Nat /\ a <= b /\ below \in Nat /\ l = below + (b - a) /\ d \in Nat
  BY <1>6, <1>11, <1>13
<1>15. ViewReads(new, v.data, c, below, l + d)
  <2> SUFFICES ASSUME NEW i \in below + 1 .. l + d PROVE c[i] = new[a + (i - below)]
    BY <1>13 DEF ViewReads
  <2>1. /\ \A j \in a + 1 .. b : new[j] = old[j]
        /\ \A j \in 1 .. d : new[b + j] = t[j]
    BY <1>6, <1>10, <1>12, <1>13 DEF WritesBehind
  <2>2. CASE i <= l
    <3>1. i \in below + 1 .. l /\ i \in 1 .. l /\ a + (i - below) \in a + 1 .. b
      BY <1>14, <2>2, Behind
    <3>2. s[i] = old[a + (i - below)]
      <4>1. ViewReads(old, a, s, below, l)
        BY <1>2, <1>3, <1>10, <1>12, <1>13
      <4> QED
        BY <3>1, <4>1 DEF ViewReads
    <3> QED
      BY <1>5, <2>1, <3>1, <3>2
  <2>3. CASE ~(i <= l)
    <3>1. PICK j : j = i - l
      OBVIOUS
    <3>2. j \in 1 .. d /\ i = l + j /\ a + (i - below) = b + j
      BY <1>14, <2>3, <3>1, Behind
    <3> QED
      BY <1>5, <1>6, <2>1, <3>2
  <2> QED
    BY <2>2, <2>3
<1>16. ASSUME NEW k \in 1 .. n
       PROVE  /\ g[k] = g[k - 1] + (two[k].tail - two[k].data)
              /\ ViewReads(buf2[two[k].sh].bytes, two[k].data, c, g[k - 1], g[k])
  <2>1. CASE k # n
    BY <1>9, <2>1
  <2>2. CASE k = n
    <3>1. two[n].data = v.data /\ two[n].tail = v.tail + d
      BY <1>6, <1>10
    <3>2. g[n] = l + d /\ g[n - 1] = below
      BY <1>8, <1>11
    <3>3. l + d = below + ((v.tail + d) - v.data)
      BY <1>8, <1>11, SMTT(30)
    <3> QED
      BY <1>12, <1>15, <2>2, <3>1, <3>2, <3>3
  <2> QED
    BY <2>1, <2>2
<1>17. Marks(g, two)
  BY <1>8, <1>16 DEF Marks
<1>18. Reads(buf2, two, g, c)
  BY <1>5, <1>6, <1>8, <1>16, <1>17 DEF Reads
<1> QED
  BY <1>2, <1>18 DEF Spells

(* A piece of a string.                                                    *)
LEMMA PieceIs ==
  ASSUME NEW s \in Seq(Bytes), NEW a \in Nat, NEW b \in Nat, a <= b, b <= Len(s),
         NEW t, t = SubSeq(s, a + 1, b)
  PROVE  /\ t \in Seq(Bytes) /\ Len(t) = b - a
         /\ \A i \in 1 .. b - a : t[i] = s[a + i]
<1>1. PICK m \in Int : m = a + 1
  OBVIOUS
<1>2. \A i \in m .. b : s[i] \in Bytes
  BY <1>1
<1>3. /\ t \in Seq(Bytes) /\ Len(t) = IF m <= b THEN b - m + 1 ELSE 0
      /\ \A i \in 1 .. b - m + 1 : t[i] = s[m + i - 1]
  BY <1>1, <1>2, SubSeqProperties
<1>4. b - m + 1 = b - a /\ \A i \in Int : m + i - 1 = a + i
  BY <1>1
<1>5. Len(t) = b - a
  BY <1>1, <1>3
<1>6. \A i \in 1 .. b - a : t[i] = s[a + i]
  BY <1>3, <1>4
<1> QED
  BY <1>3, <1>5, <1>6

(* Where a position falls when the first d are left out.                   *)
LEMMA Ahead ==
  ASSUME NEW d \in Nat, NEW lo \in Nat, NEW hi \in Nat, NEW l \in Nat, NEW x \in Nat,
         d <= lo, hi <= l, NEW i \in (lo - d) + 1 .. hi - d
  PROVE  d + i \in lo + 1 .. hi /\ i \in 1 .. l - d /\ x + ((d + i) - lo) = x + (i - (lo - d))
<1>1. lo - d \in Nat /\ i \in Int
  OBVIOUS
<1>2. i >= (lo - d) + 1 /\ i <= hi - d
  OBVIOUS
<1>3. d + i \in lo + 1 .. hi
  BY <1>1, <1>2
<1>4. i \in 1 .. l - d
  BY <1>1, <1>2
<1>5. x + ((d + i) - lo) = x + (i - (lo - d))
  BY <1>1
<1> QED
  BY <1>3, <1>4, <1>5

(* The first view begins d bytes later.                                    *)
LEMMA SpellsLater ==
  ASSUME NEW buf, NEW views \in Seq(View), NEW n \in Nat \ {0}, n = Len(views), Rising(views), NEW buf2,
         NEW two \in Seq(View), Len(two) = n, NEW d \in Nat, d <= views[1].tail - views[1].data,
         \A k \in 1 .. n : /\ k # 1 => two[k] = views[k]
                           /\ buf2[two[k].sh].bytes = buf[views[k].sh].bytes,
         two[1].data = views[1].data + d, two[1].tail = views[1].tail
  PROVE  DropsValue(buf, views, buf2, two, d)
<1> SUFFICES ASSUME NEW s, Spells(buf, views, s) PROVE Spells(buf2, two, SubSeq(s, d + 1, Len(s)))
  BY DEF DropsValue
<1>1. PICK f : Reads(buf, views, f, s)
  BY DEF Spells
<1>2. PICK c, l : c = SubSeq(s, d + 1, l) /\ l = Len(s)
  OBVIOUS
<1>3. /\ Marks(f, views) /\ f \in [0 .. n -> Int] /\ f[0] = 0
      /\ \A k \in 1 .. n : f[k] = f[k - 1] + (views[k].tail - views[k].data)
      /\ s \in Seq(Bytes) /\ l = f[n]
      /\ \A k \in 1 .. n : ViewReads(buf[views[k].sh].bytes, views[k].data, s, f[k - 1], f[k])
  BY <1>1, <1>2 DEF Reads, Marks
<1>4. \A i, j \in 0 .. n : f[i] \in Nat /\ (i <= j => f[i] <= f[j])
  BY <1>3, MarksRise DEF Rising
<1>5. PICK a, b : a = views[1].data /\ b = views[1].tail
  OBVIOUS
<1>6. a \in Nat /\ b \in Nat /\ a <= b /\ d <= b - a /\ f[1] = b - a
  <2>1. 1 \in 1 .. n /\ 1 \in DOMAIN views
    OBVIOUS
  <2>2. views[1] \in View /\ views[1].data <= views[1].tail
    BY <2>1 DEF Rising
  <2>3. a \in Nat /\ b \in Nat /\ a <= b /\ d <= b - a
    BY <1>5, <2>2, ViewIs
  <2>4. f[1] = f[1 - 1] + (b - a)
    BY <1>3, <1>5, <2>1
  <2> QED
    BY <1>3, <2>3, <2>4
<1>7. \A k \in 1 .. n : k \in 0 .. n /\ f[k] \in Nat /\ d <= f[k] /\ f[k] <= l
  <2> SUFFICES ASSUME NEW k \in 1 .. n PROVE k \in 0 .. n /\ f[k] \in Nat /\ d <= f[k] /\ f[k] <= l
    OBVIOUS
  <2>1. k \in 0 .. n /\ 1 \in 0 .. n /\ 1 <= k /\ n \in 0 .. n /\ k <= n
    OBVIOUS
  <2>2. f[1] <= f[k] /\ f[k] <= f[n] /\ f[k] \in Nat /\ f[n] \in Nat
    BY <1>4, <2>1
  <2> QED
    BY <1>3, <1>6, <2>1, <2>2
<1>8. /\ c \in Seq(Bytes) /\ Len(c) = l - d
      /\ \A i \in 1 .. l - d : c[i] = s[d + i]
  <2>1. n \in 1 .. n
    OBVIOUS
  <2>2. l \in Nat /\ d <= l
    BY <1>3, <1>7, <2>1
  <2>5. l <= Len(s)
    BY <1>2, <2>2
  <2>3. c \in Seq(Bytes) /\ Len(c) = l - d
    <3>1. c \in Seq(Bytes)
      BY <1>2, <1>3, <2>2, <2>5, PieceIs
    <3>2. Len(c) = l - d
      BY <1>2, <1>3, <2>2, <2>5, PieceIs
    <3> QED
      BY <3>1, <3>2
  <2>4. \A i \in 1 .. l - d : c[i] = s[d + i]
    BY <1>2, <1>3, <2>2, PieceIs
  <2> QED
    BY <2>3, <2>4
<1>9. PICK g : g = [j \in 0 .. n |-> IF j = 0 THEN 0 ELSE f[j] - d]
  OBVIOUS
<1>10. g \in [0 .. n -> Int] /\ g[0] = 0 /\ \A j \in 1 .. n : g[j] = f[j] - d
  <2>1. \A j \in 0 .. n : f[j] - d \in Int
    BY <1>4
  <2>2. 0 \in 0 .. n /\ \A j \in 1 .. n : j \in 0 .. n /\ j # 0
    OBVIOUS
  <2> QED
    BY <1>9, <2>1, <2>2
<1>11. ASSUME NEW k \in 1 .. n
       PROVE  /\ g[k] = g[k - 1] + (two[k].tail - two[k].data)
              /\ ViewReads(buf2[two[k].sh].bytes, two[k].data, c, g[k - 1], g[k])
  <2>1. PICK m : m = buf[views[k].sh].bytes /\ m = buf2[two[k].sh].bytes
    OBVIOUS
  <2>2. ViewReads(m, views[k].data, s, f[k - 1], f[k])
    BY <1>3, <2>1
  <2>3. PICK hi \in Nat : hi = f[k] /\ d <= hi /\ hi <= l /\ g[k] = hi - d
    BY <1>7, <1>10
  <2>4. l \in Nat
    BY <1>3, <1>4
  <2>5. CASE k = 1
    <3>1. ViewReads(m, a, s, 0, hi) /\ hi = b - a /\ g[k - 1] = 0 /\ two[k].data = a + d /\ two[k].tail = b
      BY <1>3, <1>5, <1>6, <1>10, <2>2, <2>3, <2>5
    <3>2. ASSUME NEW i \in 0 + 1 .. hi - d PROVE c[i] = m[(a + d) + (i - 0)]
      <4>1. d + i \in 0 + 1 .. hi /\ i \in 1 .. l - d /\ a + ((d + i) - 0) = (a + d) + (i - 0)
        BY <1>6, <2>3, <2>4, <3>2
      <4>2. s[d + i] = m[a + ((d + i) - 0)]
        BY <3>1, <4>1 DEF ViewReads
      <4> QED
        BY <1>8, <4>1, <4>2
    <3>3. ViewReads(m, a + d, c, 0, hi - d)
      BY <3>2 DEF ViewReads
    <3>4. hi - d = 0 + (b - (a + d))
      BY <1>6, <3>1
    <3> QED
      BY <2>1, <2>3, <3>1, <3>3, <3>4
  <2>6. CASE k # 1
    <3>1. k - 1 \in 1 .. n
      BY <2>6
    <3>2. PICK lo \in Nat : lo = f[k - 1] /\ d <= lo /\ g[k - 1] = lo - d
      BY <1>7, <1>10, <3>1
    <3>3. PICK x, y : x = views[k].data /\ y = views[k].tail
      OBVIOUS
    <3>4. x \in Nat /\ y \in Nat
      <4>1. k \in DOMAIN views
        OBVIOUS
      <4>2. PICK v : v = views[k] /\ v \in View
        BY <4>1
      <4>3. v.data \in Nat /\ v.tail \in Nat
        BY <4>2, ViewIs
      <4> QED
        BY <3>3, <4>2, <4>3
    <3>5. two[k] = views[k] /\ k \in 1 .. n
      BY <2>6
    <3>6. ViewReads(m, x, s, lo, hi) /\ hi = lo + (y - x) /\ two[k].data = x /\ two[k].tail = y
      <4>1. ViewReads(m, x, s, lo, hi)
        BY <2>2, <2>3, <3>2, <3>3
      <4>2. hi = lo + (y - x)
        BY <1>3, <2>3, <3>2, <3>3, <3>5
      <4> QED
        BY <3>3, <3>5, <4>1, <4>2
    <3>7. ASSUME NEW i \in (lo - d) + 1 .. hi - d PROVE c[i] = m[x + (i - (lo - d))]
      <4>1. d + i \in lo + 1 .. hi /\ i \in 1 .. l - d
        BY <2>3, <2>4, <3>2, <3>4, <3>7, Ahead
      <4>2. x + ((d + i) - lo) = x + (i - (lo - d))
        BY <2>3, <2>4, <3>2, <3>4, <3>7, Ahead
      <4>3. s[d + i] = m[x + ((d + i) - lo)]
        BY <3>6, <4>1 DEF ViewReads
      <4> QED
        BY <1>8, <4>1, <4>2, <4>3
    <3>8. ViewReads(m, x, c, lo - d, hi - d)
      BY <3>7 DEF ViewReads
    <3>9. hi - d = (lo - d) + (y - x)
      BY <2>3, <3>2, <3>4, <3>6
    <3> QED
      BY <2>1, <2>3, <3>2, <3>6, <3>8, <3>9
  <2> QED
    BY <2>5, <2>6
<1>12. Marks(g, two)
  BY <1>10, <1>11 DEF Marks
<1>13. n \in 1 .. n /\ g[n] = l - d
  BY <1>3, <1>10
<1>14. Reads(buf2, two, g, c)
  BY <1>8, <1>11, <1>12, <1>13 DEF Reads
<1> QED
  BY <1>2, <1>14 DEF Spells

(* What a piece of a chain reads is what the chain does there.             *)
LEMMA ReadsPiece ==
  ASSUME NEW m, NEW data, NEW s, NEW t, NEW from \in Nat, NEW to \in Nat, NEW n \in Nat, n <= to,
         ViewReads(m, data, s, from, to), \A i \in 1 .. n : t[i] = s[i]
  PROVE  ViewReads(m, data, t, from, n)
<1> SUFFICES ASSUME NEW i \in from + 1 .. n PROVE t[i] = m[data + (i - from)]
  BY DEF ViewReads
<1>1. i \in from + 1 .. to /\ i \in 1 .. n
  OBVIOUS
<1>2. s[i] = m[data + (i - from)]
  BY <1>1 DEF ViewReads
<1> QED
  BY <1>1, <1>2

(* The chain is cut.                                                       *)
LEMMA SpellsCut ==
  ASSUME NEW buf, NEW views, Rising(views), NEW f, Marks(f, views), NEW cut \in 1 .. Len(views), NEW n \in Nat,
         f[cut - 1] <= n, n <= f[cut], NEW buf2, NEW two \in Seq(View), Len(two) = cut,
         \A k \in 1 .. cut : /\ k # cut => two[k] = views[k]
                             /\ buf2[two[k].sh].bytes = buf[views[k].sh].bytes,
         two[cut].data = views[cut].data, two[cut].tail - two[cut].data = n - f[cut - 1]
  PROVE  CutsValue(buf, views, buf2, two, n)
<1> SUFFICES ASSUME NEW s, Spells(buf, views, s) PROVE Spells(buf2, two, SubSeq(s, 1, n))
  BY DEF CutsValue
<1>1. PICK h : Reads(buf, views, h, s)
  BY DEF Spells
<1>2. views \in Seq(View) /\ Len(views) \in Nat /\ \A k \in DOMAIN views : views[k].data <= views[k].tail
  BY DEF Rising
<1>3. /\ Marks(h, views) /\ s \in Seq(Bytes) /\ Len(s) = h[Len(views)]
      /\ \A k \in 1 .. Len(views) :
           ViewReads(buf[views[k].sh].bytes, views[k].data, s, h[k - 1], h[k])
  BY <1>1 DEF Reads
<1>4. \A k \in 0 .. Len(views) : h[k] = f[k]
  BY <1>2, <1>3, MarksAgree
<1>5. \A i, j \in 0 .. Len(views) : f[i] \in Nat /\ (i <= j => f[i] <= f[j])
  BY <1>2, MarksRise
<1>6. /\ f[0] = 0 /\ cut \in Nat /\ cut - 1 \in 0 .. Len(views) /\ cut \in 0 .. Len(views)
      /\ Len(views) \in 0 .. Len(views) /\ 0 \in 0 .. Len(views)
      /\ \A k \in 1 .. Len(views) : f[k] = f[k - 1] + (views[k].tail - views[k].data)
  BY <1>2 DEF Marks
<1>7. n <= Len(s)
  <2>1. f[cut] <= f[Len(views)] /\ f[cut] \in Nat /\ f[Len(views)] \in Nat /\ Len(s) = f[Len(views)]
    BY <1>2, <1>3, <1>4, <1>5, <1>6
  <2> QED
    BY <2>1
<1>8. PICK c : c = SubSeq(s, 1, n)
  OBVIOUS
<1>9. c \in Seq(Bytes) /\ Len(c) = n /\ \A i \in 1 .. n : c[i] = s[i]
  <2>1. c = SubSeq(s, 0 + 1, n) /\ 0 <= n /\ n - 0 = n /\ \A i \in 1 .. n : 0 + i = i
    BY <1>8
  <2>2. c \in Seq(Bytes) /\ Len(c) = n - 0 /\ \A i \in 1 .. n - 0 : c[i] = s[0 + i]
    BY <1>3, <1>7, <2>1, PieceIs
  <2> QED
    BY <2>1, <2>2
<1>10. PICK g : g = [j \in 0 .. cut |-> IF j < cut THEN f[j] ELSE n]
  OBVIOUS
<1>11. g \in [0 .. cut -> Int] /\ g[0] = 0 /\ g[cut] = n /\ \A j \in 0 .. cut - 1 : g[j] = f[j]
  <2>1. \A j \in 0 .. cut : j \in 0 .. Len(views)
    BY <1>2
  <2>2. \A j \in 0 .. cut : f[j] \in Int
    BY <1>5, <2>1
  <2>3. cut \in 0 .. cut /\ ~(cut < cut) /\ 0 \in 0 .. cut - 1 /\ \A j \in 0 .. cut - 1 : j \in 0 .. cut /\ j < cut
    BY <1>6
  <2> QED
    BY <1>6, <1>10, <2>2, <2>3
<1>12. ASSUME NEW k \in 1 .. cut
       PROVE  /\ g[k] = g[k - 1] + (two[k].tail - two[k].data)
              /\ ViewReads(buf2[two[k].sh].bytes, two[k].data, c, g[k - 1], g[k])
  <2>1. k \in 1 .. Len(views) /\ k - 1 \in 0 .. cut - 1 /\ k - 1 \in 0 .. Len(views) /\ k \in 0 .. Len(views)
    BY <1>2
  <2>2. PICK m, data : m = buf[views[k].sh].bytes /\ data = views[k].data
    OBVIOUS
  <2>3. PICK from \in Nat : from = f[k - 1] /\ g[k - 1] = from
    BY <1>5, <1>11, <2>1
  <2>4. PICK to \in Nat : to = f[k]
    BY <1>5, <2>1
  <2>5. ViewReads(m, data, s, from, to)
    BY <1>3, <1>4, <2>1, <2>2, <2>3, <2>4
  <2>6. buf2[two[k].sh].bytes = m
    BY <2>2
  <2>7. CASE k = cut
    <3>1. two[k].data = data /\ two[k].tail - two[k].data = n - from /\ from <= n /\ n <= to /\ g[k] = n
      <4>1. two[k].data = data /\ g[k] = n
        BY <1>11, <2>2, <2>7
      <4>2. two[k].tail - two[k].data = n - from
        BY <2>3, <2>7
      <4>3. from <= n /\ n <= to
        BY <2>3, <2>4, <2>7
      <4> QED
        BY <4>1, <4>2, <4>3
    <3>2. ViewReads(m, data, c, from, n)
      <4>1. n <= to /\ \A i \in 1 .. n : c[i] = s[i]
        BY <1>9, <3>1
      <4> QED
        BY <2>5, <4>1, ReadsPiece
    <3>3. n = from + (n - from)
      OBVIOUS
    <3> QED
      BY <2>3, <2>6, <3>1, <3>2, <3>3
  <2>8. CASE k # cut
    <3>1. k \in 0 .. cut - 1 /\ k <= cut - 1
      BY <1>6, <2>8
    <3>2. g[k] = to /\ two[k] = views[k] /\ to = from + (two[k].tail - two[k].data)
      BY <1>6, <1>11, <2>1, <2>3, <2>4, <2>8, <3>1
    <3>3. to <= n
      <4>1. f[k] <= f[cut - 1] /\ f[cut - 1] \in Nat
        BY <1>5, <1>6, <2>1, <3>1
      <4> QED
        BY <2>4, <4>1
    <3>4. \A i \in 1 .. to : c[i] = s[i]
      BY <1>9, <3>3
    <3>5. ViewReads(m, data, c, from, to)
      BY <2>5, <3>4, ReadsPiece
    <3> QED
      BY <2>2, <2>3, <2>6, <3>2, <3>5
  <2> QED
    BY <2>7, <2>8
<1>13. Marks(g, two)
  BY <1>11, <1>12 DEF Marks
<1>14. Reads(buf2, two, g, c)
  BY <1>9, <1>11, <1>12, <1>13 DEF Reads
<1> QED
  BY <1>8, <1>14 DEF Spells

(* One empty view spells nothing.                                          *)
LEMMA SpellsNothing ==
  ASSUME NEW buf, NEW v \in View, v.data = v.tail, NEW views, views = <<v>>
  PROVE  Spells(buf, views, <<>>)
<1>1. PICK f : f = [j \in 0 .. 1 |-> 0]
  OBVIOUS
<1>2. Len(views) = 1 /\ views[1] = v /\ v.tail - v.data = 0
  BY ViewIs
<1>3. f \in [0 .. 1 -> Int] /\ f[0] = 0 /\ f[1] = 0
  BY <1>1
<1>4. \A k \in 1 .. 1 : k = 1 /\ k - 1 = 0
  OBVIOUS
<1>5. Marks(f, views)
  BY <1>2, <1>3, <1>4 DEF Marks
<1>6. <<>> \in Seq(Bytes) /\ Len(<<>>) = 0
  OBVIOUS
<1>7. Reads(buf, views, f, <<>>)
  BY <1>2, <1>3, <1>4, <1>5, <1>6 DEF Reads, ViewReads
<1> QED
  BY <1>7 DEF Spells

(***************************************************************************)
(* The operations                                                          *)
(***************************************************************************)

(* A new packet is alone with a new buffer. *)
LEMMA AllocKeeps ==
  ASSUME MbInv, NEW o \in Owners, NEW size \in Sizes, MbAlloc(o, size)
  PROVE  /\ MbInv' /\ Aside(mbBuf, mbPkt, mbBuf', mbPkt', o)
         /\ mbPkt'[o] # Nothing /\ Spells(mbBuf', mbPkt'[o].views, <<>>)
<1>1. PICK nb : nb = NewBuffer
  OBVIOUS
<1>2. PICK p : p = [views |-> <<Whole(nb)>>, len |-> 0]
  OBVIOUS
<1>3. PICK fresh : fresh = Fresh(size)
  OBVIOUS
<1>4. /\ Calls(o) /\ mbPkt[o] = Nothing /\ mbBuf' = [mbBuf EXCEPT ![nb] = fresh]
      /\ mbPkt' = [mbPkt EXCEPT ![o] = p] /\ UNCHANGED <<mbWork, mbThreads>>
      /\ nb \in Buffers /\ mbBuf[nb] = Nothing
  BY <1>1, <1>2, <1>3, NewIs DEF MbAlloc
<1>5. fresh \in Memory /\ fresh # Nothing /\ fresh.refcnt = 1 /\ Len(fresh.bytes) = size
  BY <1>3, FreshIs
<1>6. Sound(mbBuf, mbPkt) /\ mbBuf \in [Buffers -> Memory \cup {Nothing}]
      /\ mbPkt \in [Owners -> Packet \cup {Nothing}]
  BY SoundTypes DEF MbInv
<1>7. PICK buf2 : buf2 = mbBuf'
  OBVIOUS
<1>8. PICK pkt2 : pkt2 = mbPkt'
  OBVIOUS
<1>9. /\ buf2 \in [Buffers -> Memory \cup {Nothing}] /\ buf2[nb] = fresh
      /\ \A b \in Buffers : b # nb => buf2[b] = mbBuf[b]
  BY <1>4, <1>5, <1>6, <1>7
<1>10. PICK v : v = Whole(nb)
  OBVIOUS
<1>11. v \in View /\ v.sh = nb /\ v.data = 0 /\ v.tail = 0
  BY <1>4, <1>10 DEF Whole, View
<1>12. PICK views : views = <<v>>
  OBVIOUS
<1>13. views \in Seq(View) /\ Len(views) = 1 /\ DOMAIN views = {1} /\ views[1] = v /\ views # <<>>
  BY <1>11, <1>12
<1>14. p \in Packet /\ p # Nothing /\ p.views = views /\ p.len = 0
  <2>1. p = [views |-> views, len |-> 0]
    BY <1>2, <1>10, <1>12
  <2>2. 0 \in 0 .. MaxBytes
    BY MbAssumption
  <2>3. p \in Packet
    BY <1>13, <2>1, <2>2 DEF Packet
  <2> QED
    BY <2>1, <2>3, MbAssumption
<1>15. \A b : Has(p, b) <=> b = nb
  BY <1>11, <1>13, <1>14 DEF Has, Shared
<1>16. GoodPacket(buf2, p)
  <2> DEFINE f == [k \in 0 .. 1 |-> 0]
  <2>1. Marks(f, views) /\ f[Len(views)] = 0
    BY <1>11, <1>13 DEF Marks
  <2> HIDE DEF f
  <2>2. Measures(p.views, p.len)
    BY <1>14, <2>1 DEF Measures
  <2>3. Len(fresh.bytes) \in Nat
    BY <1>5, MbAssumption
  <2>4. Inside(buf2, v)
    BY <1>5, <1>9, <1>11, <2>3 DEF Inside
  <2> QED
    BY <1>13, <1>14, <2>2, <2>4 DEF GoodPacket, EachOnce
<1>17. Moved(mbBuf, buf2, mbPkt[o], p)
  <2> SUFFICES ASSUME NEW b \in Buffers
      PROVE  \/ mbBuf[b] = Nothing /\ buf2[b] = Nothing
             \/ /\ mbBuf[b] = Nothing /\ buf2[b] # Nothing /\ buf2[b].refcnt = Uses(p, b)
                /\ Len(buf2[b].bytes) \in Sizes \cup {FragSize}
             \/ /\ mbBuf[b] # Nothing /\ buf2[b] # Nothing
                /\ buf2[b].refcnt = mbBuf[b].refcnt + Uses(p, b) - Uses(mbPkt[o], b)
                /\ Len(buf2[b].bytes) = Len(mbBuf[b].bytes)
    BY DEF Moved
  <2>1. CASE b = nb
    BY <1>4, <1>5, <1>9, <1>15, <2>1 DEF Uses
  <2>2. CASE b # nb
    <3>1. Uses(p, b) = 0 /\ Uses(mbPkt[o], b) = 0 /\ buf2[b] = mbBuf[b]
      BY <1>4, <1>9, <1>15, <2>2 DEF Uses, Has
    <3>2. mbBuf[b] # Nothing => mbBuf[b].refcnt \in Nat
      BY <1>6, MemoryIs
    <3> QED
      BY <3>1, <3>2
  <2> QED
    BY <2>1, <2>2
<1>18. Sound(buf2, pkt2)
  <2>1. pkt2 \in [Owners -> Packet \cup {Nothing}] /\ Changes(mbPkt, pkt2, o, p)
    BY <1>4, <1>6, <1>8, <1>14 DEF Changes
  <2>2. \A b \in Buffers : Has(p, b) => buf2[b] # Nothing
    BY <1>5, <1>9, <1>15
  <2> QED
    BY <1>6, <1>9, <1>14, <1>16, <1>17, <2>1, <2>2, MovedSound
<1>19. ~mbThreads => \A b \in Buffers : buf2[b] # Nothing => buf2[b].refcnt > 0
  BY <1>5, <1>9 DEF MbInv, MbAlone
<1>20. \A q \in Owners : q # o /\ mbPkt[q] # Nothing => mbPkt'[q] = mbPkt[q]
  BY <1>4, <1>6
<1>21. Changes(mbPkt, pkt2, o, p) /\ pkt2[o] = p
  BY <1>4, <1>6, <1>8 DEF Changes
<1>22. Spreads(mbBuf, mbPkt, pkt2, o)
  <2>1. \A b \in Buffers : mbBuf[b] # Nothing /\ Has(p, b) => Has(mbPkt[o], b)
    BY <1>4, <1>15
  <2> QED
    BY <1>21, <2>1, SpreadsFrom
<1>23. Aside(mbBuf, mbPkt, buf2, pkt2, o)
  <2>1. Untouched(mbBuf, buf2)
    BY <1>4, <1>9 DEF Untouched
  <2> QED
    BY <1>6, <1>18, <1>21, <2>1, StaysAside
<1>24. pkt2[o] # Nothing /\ Spells(buf2, pkt2[o].views, <<>>)
  <2>1. Spells(buf2, views, <<>>)
    BY <1>11, <1>12, SpellsNothing
  <2> QED
    BY <1>14, <1>21, <2>1
<1>25. MbInv'
  BY <1>4, <1>7, <1>8, <1>18, <1>19, <1>20, <1>22, CallKeeps
<1> QED
  BY <1>7, <1>8, <1>23, <1>24, <1>25

(* What it means to give up some views of a packet.                        *)
LEMMA ReleaseIs ==
  ASSUME NEW buf \in [Buffers -> Memory \cup {Nothing}], NEW views,
         \A b \in Shared(views) : b \in Buffers /\ buf[b] # Nothing /\ buf[b].refcnt > 0,
         NEW two, two = Release(buf, views)
  PROVE  /\ two \in [Buffers -> Memory \cup {Nothing}]
         /\ \A b \in Buffers :
              /\ b \notin Shared(views) => two[b] = buf[b]
              /\ b \in Shared(views) /\ buf[b].refcnt = 1 => two[b] = Nothing
              /\ b \in Shared(views) /\ buf[b].refcnt # 1 =>
                   /\ two[b] = [refcnt |-> buf[b].refcnt - 1, bytes |-> buf[b].bytes]
                   /\ two[b] # Nothing
                   /\ two[b].refcnt = buf[b].refcnt - 1
                   /\ two[b].bytes = buf[b].bytes
<1>2. \A b \in Buffers : two[b] = IF b \notin Shared(views) THEN buf[b]
                                  ELSE IF buf[b].refcnt = 1 THEN Nothing ELSE [buf[b] EXCEPT !.refcnt = @ - 1]
  BY DEF Release
<1>3. ASSUME NEW b \in Buffers, b \in Shared(views), buf[b].refcnt # 1
      PROVE  /\ two[b] = [refcnt |-> buf[b].refcnt - 1, bytes |-> buf[b].bytes] /\ two[b] \in Memory
             /\ two[b].refcnt = buf[b].refcnt - 1 /\ two[b].bytes = buf[b].bytes
  <2>1. PICK m \in Memory : m = buf[b]
    BY <1>3
  <2>2. m = [refcnt |-> m.refcnt, bytes |-> m.bytes] /\ m.refcnt \in Nat /\ m.bytes \in Seq(Bytes)
    BY DEF Memory
  <2>3. m.refcnt - 1 \in Nat
    BY <1>3, <2>1, <2>2
  <2>4. two[b] = [m EXCEPT !.refcnt = @ - 1]
    BY <1>2, <1>3, <2>1
  <2>5. two[b] = [refcnt |-> m.refcnt - 1, bytes |-> m.bytes]
    BY <2>2, <2>4
  <2>6. two[b] \in Memory
    BY <2>2, <2>3, <2>5 DEF Memory
  <2> QED
    BY <2>1, <2>5, <2>6
<1>4. \A b \in Buffers : two[b] \in Memory \cup {Nothing}
  BY <1>2, <1>3
<1>5. two = [b \in Buffers |-> two[b]]
  BY DEF Release
<1>6. two \in [Buffers -> Memory \cup {Nothing}]
  BY <1>4, <1>5
<1> QED
  BY <1>2, <1>3, <1>6, MbAssumption

(* An owner that gives up some views of its packet and keeps the others.   *)
LEMMA GivesUp ==
  ASSUME NEW buf, NEW pkt, Sound(buf, pkt), NEW o \in Owners, pkt[o] # Nothing,
         NEW views, Shared(views) \subseteq Shared(pkt[o].views),
         NEW two, two = Release(buf, views),
         NEW p, \A b \in Buffers : Has(p, b) <=> Has(pkt[o], b) /\ b \notin Shared(views)
  PROVE  /\ two \in [Buffers -> Memory \cup {Nothing}]
         /\ Moved(buf, two, pkt[o], p)
         /\ \A b \in Buffers : b \notin Shared(views) => two[b] = buf[b]
         /\ \A b \in Buffers : two[b] # Nothing => buf[b] # Nothing
         /\ \A b \in Buffers : two[b] # Nothing /\ buf[b].refcnt > 0 => two[b].refcnt > 0
         /\ Untouched(buf, two)
<1>1. buf \in [Buffers -> Memory \cup {Nothing}]
  BY SoundTypes
<1>2. \A b \in Shared(views) : /\ b \in Buffers /\ buf[b] # Nothing /\ buf[b].refcnt > 0
                               /\ buf[b].refcnt \in Nat /\ Has(pkt[o], b)
  <2> SUFFICES ASSUME NEW b \in Shared(views)
               PROVE  /\ b \in Buffers /\ buf[b] # Nothing /\ buf[b].refcnt > 0
                      /\ buf[b].refcnt \in Nat /\ Has(pkt[o], b)
    OBVIOUS
  <2>1. PICK p0, old : p0 = pkt[o] /\ old = p0.views
    OBVIOUS
  <2>2. PICK k \in DOMAIN old : b = old[k].sh
    BY <2>1 DEF Shared
  <2>3. /\ DOMAIN old = 1 .. Len(old)
        /\ \A j \in 1 .. Len(old) :
             /\ old[j].sh \in Buffers /\ buf[old[j].sh] # Nothing /\ Has(p0, old[j].sh)
             /\ buf[old[j].sh].refcnt \in Nat /\ buf[old[j].sh].refcnt > 0
    BY <2>1, PacketIs
  <2> QED
    BY <2>1, <2>2, <2>3
<1>3. \A b \in Shared(views) : b \in Buffers /\ buf[b] # Nothing /\ buf[b].refcnt > 0
  BY <1>2
<1>4. /\ two \in [Buffers -> Memory \cup {Nothing}]
      /\ \A b \in Buffers :
           /\ b \notin Shared(views) => two[b] = buf[b]
           /\ b \in Shared(views) /\ buf[b].refcnt = 1 => two[b] = Nothing
           /\ b \in Shared(views) /\ buf[b].refcnt # 1 =>
                /\ two[b] # Nothing /\ two[b].refcnt = buf[b].refcnt - 1
                /\ two[b].bytes = buf[b].bytes
  <2>1. two \in [Buffers -> Memory \cup {Nothing}]
    BY <1>1, <1>3, ReleaseIs
  <2>2. \A b \in Buffers :
           /\ b \notin Shared(views) => two[b] = buf[b]
           /\ b \in Shared(views) /\ buf[b].refcnt = 1 => two[b] = Nothing
           /\ b \in Shared(views) /\ buf[b].refcnt # 1 =>
                /\ two[b] = [refcnt |-> buf[b].refcnt - 1, bytes |-> buf[b].bytes]
                /\ two[b] # Nothing
                /\ two[b].refcnt = buf[b].refcnt - 1
                /\ two[b].bytes = buf[b].bytes
    BY <1>1, <1>3, ReleaseIs
  <2> QED
    BY <2>1, <2>2
<1>5. ASSUME NEW b \in Buffers
      PROVE  /\ \/ buf[b] = Nothing /\ two[b] = Nothing
                \/ /\ buf[b] = Nothing /\ two[b] # Nothing /\ two[b].refcnt = Uses(p, b)
                   /\ Len(two[b].bytes) \in Sizes \cup {FragSize}
                \/ /\ buf[b] # Nothing /\ two[b] # Nothing
                   /\ two[b].refcnt = buf[b].refcnt + Uses(p, b) - Uses(pkt[o], b)
                   /\ Len(two[b].bytes) = Len(buf[b].bytes)
                \/ buf[b] # Nothing /\ two[b] = Nothing /\ buf[b].refcnt = 1 /\ Has(pkt[o], b)
             /\ two[b] # Nothing => buf[b] # Nothing
             /\ two[b] # Nothing /\ buf[b].refcnt > 0 => two[b].refcnt > 0
  <2>1. CASE b \notin Shared(views)
    <3>1. Uses(p, b) = Uses(pkt[o], b) /\ Uses(p, b) \in {0, 1} /\ two[b] = buf[b]
      BY <1>4, <2>1 DEF Uses
    <3>2. buf[b] # Nothing => buf[b].refcnt \in Nat
      BY MemoryIs
    <3> QED
      BY <3>1, <3>2
  <2>2. CASE b \in Shared(views)
    <3>1. Uses(p, b) = 0 /\ Uses(pkt[o], b) = 1
      BY <1>2, <2>2 DEF Uses
    <3> QED
      BY <1>2, <1>4, <2>2, <3>1
  <2> QED
    BY <2>1, <2>2
<1>6. Moved(buf, two, pkt[o], p)
  BY <1>5 DEF Moved
<1>7. Untouched(buf, two)
  BY <1>4 DEF Untouched
<1> QED
  BY <1>4, <1>5, <1>6, <1>7

(* A packet gives up all its views. *)
LEMMA FreeKeeps ==
  ASSUME MbInv, NEW o \in Owners, MbFree(o)
  PROVE  MbInv' /\ Aside(mbBuf, mbPkt, mbBuf', mbPkt', o) /\ mbPkt'[o] = Nothing
<1>1. /\ Calls(o) /\ mbPkt[o] # Nothing /\ mbBuf' = Release(mbBuf, mbPkt[o].views)
      /\ mbPkt' = [mbPkt EXCEPT ![o] = Nothing] /\ UNCHANGED <<mbWork, mbThreads>>
  BY DEF MbFree, Holds
<1>2. Sound(mbBuf, mbPkt) /\ mbPkt \in [Owners -> Packet \cup {Nothing}]
  BY SoundTypes DEF MbInv
<1>3. PICK buf2 : buf2 = mbBuf'
  OBVIOUS
<1>4. PICK pkt2 : pkt2 = mbPkt'
  OBVIOUS
<1>5. \A b \in Buffers : Has(Nothing, b) <=> Has(mbPkt[o], b) /\ b \notin Shared(mbPkt[o].views)
  BY <1>1 DEF Has
<1>6. PICK views : views = mbPkt[o].views
  OBVIOUS
<1>7. /\ buf2 = Release(mbBuf, views) /\ Shared(views) \subseteq Shared(mbPkt[o].views)
      /\ \A b \in Buffers : Has(Nothing, b) <=> Has(mbPkt[o], b) /\ b \notin Shared(views)
  BY <1>1, <1>3, <1>5, <1>6
<1>8. /\ buf2 \in [Buffers -> Memory \cup {Nothing}] /\ Moved(mbBuf, buf2, mbPkt[o], Nothing)
      /\ \A b \in Buffers : buf2[b] # Nothing => mbBuf[b] # Nothing
      /\ \A b \in Buffers : buf2[b] # Nothing /\ mbBuf[b].refcnt > 0 => buf2[b].refcnt > 0
      /\ Untouched(mbBuf, buf2)
  BY <1>1, <1>2, <1>7, GivesUp
<1>9. pkt2 \in [Owners -> Packet \cup {Nothing}] /\ Changes(mbPkt, pkt2, o, Nothing)
  BY <1>1, <1>2, <1>4 DEF Changes
<1>10. Sound(buf2, pkt2)
  BY <1>2, <1>8, <1>9, MovedSound
<1>11. ~mbThreads => \A b \in Buffers : buf2[b] # Nothing => buf2[b].refcnt > 0
  BY <1>8 DEF MbInv, MbAlone
<1>12. \A q \in Owners : q # o /\ mbPkt[q] # Nothing => mbPkt'[q] = mbPkt[q]
  BY <1>1, <1>2
<1>13. Spreads(mbBuf, mbPkt, pkt2, o)
  BY <1>5, <1>9, SpreadsFrom
<1>14. Aside(mbBuf, mbPkt, buf2, pkt2, o)
  BY <1>2, <1>8, <1>9, <1>10, StaysAside
<1>15. MbInv'
  BY <1>1, <1>3, <1>4, <1>10, <1>11, <1>12, <1>13, CallKeeps
<1>16. pkt2[o] = Nothing
  BY <1>9 DEF Changes
<1> QED
  BY <1>3, <1>4, <1>14, <1>15, <1>16

(* What it means to take views of a packet once more.                      *)
LEMMA RetainIs ==
  ASSUME NEW buf \in [Buffers -> Memory \cup {Nothing}], NEW views,
         \A b \in Shared(views) : b \in Buffers /\ buf[b] # Nothing,
         NEW two, two = Retain(buf, views)
  PROVE  /\ two \in [Buffers -> Memory \cup {Nothing}]
         /\ \A b \in Buffers :
              /\ b \notin Shared(views) => two[b] = buf[b]
              /\ b \in Shared(views) =>
                   /\ two[b] = [refcnt |-> buf[b].refcnt + 1, bytes |-> buf[b].bytes]
                   /\ two[b] # Nothing
                   /\ two[b].refcnt = buf[b].refcnt + 1
                   /\ two[b].bytes = buf[b].bytes
<1>1. \A b \in Buffers : two[b] = IF b \in Shared(views) THEN [buf[b] EXCEPT !.refcnt = @ + 1] ELSE buf[b]
  BY DEF Retain
<1>2. ASSUME NEW b \in Buffers, b \in Shared(views)
      PROVE  /\ two[b] = [refcnt |-> buf[b].refcnt + 1, bytes |-> buf[b].bytes] /\ two[b] \in Memory
             /\ two[b].refcnt = buf[b].refcnt + 1 /\ two[b].bytes = buf[b].bytes
  <2>1. PICK m \in Memory : m = buf[b]
    BY <1>2
  <2>2. m = [refcnt |-> m.refcnt, bytes |-> m.bytes] /\ m.refcnt \in Nat /\ m.bytes \in Seq(Bytes)
    BY DEF Memory
  <2>3. two[b] = [m EXCEPT !.refcnt = @ + 1]
    BY <1>1, <1>2, <2>1
  <2>4. two[b] = [refcnt |-> m.refcnt + 1, bytes |-> m.bytes]
    BY <2>2, <2>3
  <2>5. two[b] \in Memory
    BY <2>2, <2>4 DEF Memory
  <2> QED
    BY <2>1, <2>4, <2>5
<1>3. \A b \in Buffers : two[b] \in Memory \cup {Nothing}
  BY <1>1, <1>2
<1>4. two = [b \in Buffers |-> two[b]]
  BY DEF Retain
<1>5. two \in [Buffers -> Memory \cup {Nothing}]
  BY <1>3, <1>4
<1> QED
  BY <1>1, <1>2, <1>5, MbAssumption

(* A packet stays good while its memory keeps its size.                    *)
LEMMA GoodStays ==
  ASSUME NEW buf, NEW buf2, NEW p, GoodPacket(buf, p),
         \A b \in Shared(p.views) : buf[b] # Nothing => buf2[b] # Nothing /\ Len(buf2[b].bytes) = Len(buf[b].bytes)
  PROVE  GoodPacket(buf2, p)
<1>1. ASSUME NEW k \in DOMAIN p.views PROVE Inside(buf2, p.views[k])
  <2>1. p.views[k].sh \in Shared(p.views) /\ Inside(buf, p.views[k])
    BY DEF GoodPacket, Shared
  <2> QED
    BY <2>1 DEF Inside
<1> QED
  BY <1>1 DEF GoodPacket

(* A clone that succeeds counts each view once more, one that fails gives  *)
(* back what it has counted.                                               *)
LEMMA CloneKeeps ==
  ASSUME MbInv, NEW o \in Owners, NEW q \in Owners, MbClone(o, q)
  PROVE  /\ MbInv'
         /\ \/ mbBuf' = mbBuf /\ mbPkt' = mbPkt
            \/ Aside(mbBuf, mbPkt, mbBuf', mbPkt', q) /\ mbPkt'[q] = mbPkt[o]
<1>1. Calls(o) /\ mbPkt[o] # Nothing /\ mbPkt[q] = Nothing /\ UNCHANGED <<mbWork, mbThreads>>
  BY DEF MbClone, Holds
<1>2. /\ Sound(mbBuf, mbPkt) /\ mbPkt \in [Owners -> Packet \cup {Nothing}]
      /\ mbBuf \in [Buffers -> Memory \cup {Nothing}]
  BY SoundTypes DEF MbInv
<1>3. PICK p, views : p = mbPkt[o] /\ views = p.views
  OBVIOUS
<1>4. p \in Packet /\ p # Nothing /\ GoodPacket(mbBuf, p)
  BY <1>1, <1>2, <1>3 DEF Sound
<1>5. views \in Seq(View) /\ Len(views) \in Nat /\ DOMAIN views = 1 .. Len(views)
  BY <1>1, <1>2, <1>3, PacketIs
<1>6. \A b \in Shared(views) : b \in Buffers /\ mbBuf[b] # Nothing /\ mbBuf[b].refcnt \in Nat /\ mbBuf[b].refcnt > 0
  BY <1>1, <1>2, <1>3, SharedIs
<1>7. PICK k \in 0 .. Len(views) :
        IF k = Len(views)
        THEN mbBuf' = Retain(mbBuf, SubSeq(views, 1, k)) /\ mbPkt' = [mbPkt EXCEPT ![q] = mbPkt[o]]
        ELSE mbBuf' = Release(Retain(mbBuf, SubSeq(views, 1, k)), SubSeq(views, 1, k)) /\ mbPkt' = mbPkt
  BY <1>3 DEF MbClone
<1>8. PICK done : done = SubSeq(views, 1, k)
  OBVIOUS
<1>9. done \in Seq(View) /\ Len(done) = k /\ \A j \in 1 .. k : done[j] = views[j]
  BY <1>5, <1>8
<1>10. Shared(done) \subseteq Shared(views)
  <2>1. DOMAIN done = 1 .. k /\ 1 .. k \subseteq 1 .. Len(views)
    BY <1>5, <1>9
  <2> QED
    BY <1>5, <1>9, <2>1 DEF Shared
<1>11. PICK buf2 : buf2 = mbBuf'
  OBVIOUS
<1>12. PICK pkt2 : pkt2 = mbPkt'
  OBVIOUS
<1>13. PICK raised : raised = Retain(mbBuf, done)
  OBVIOUS
<1>14. \A b \in Shared(done) : b \in Buffers /\ mbBuf[b] # Nothing
  BY <1>6, <1>10
<1>15. /\ raised \in [Buffers -> Memory \cup {Nothing}]
       /\ \A b \in Buffers :
            /\ b \notin Shared(done) => raised[b] = mbBuf[b]
            /\ b \in Shared(done) =>
                 /\ raised[b] = [refcnt |-> mbBuf[b].refcnt + 1, bytes |-> mbBuf[b].bytes]
                 /\ raised[b] # Nothing
                 /\ raised[b].refcnt = mbBuf[b].refcnt + 1
                 /\ raised[b].bytes = mbBuf[b].bytes
  BY <1>2, <1>13, <1>14, RetainIs
<1>16. \A r \in Owners : r # o /\ mbPkt[r] # Nothing => mbPkt'[r] = mbPkt[r]
  BY <1>1, <1>2, <1>7
<1>17. CASE k = Len(views)
  <2>1. done = views
    BY <1>5, <1>8, <1>17
  <2>2. buf2 = raised /\ pkt2 = [mbPkt EXCEPT ![q] = p]
    BY <1>3, <1>7, <1>8, <1>11, <1>12, <1>13, <1>17
  <2>3. pkt2 \in [Owners -> Packet \cup {Nothing}] /\ Changes(mbPkt, pkt2, q, p)
    BY <1>2, <1>4, <2>2 DEF Changes
  <2>4. \A b : Has(p, b) <=> b \in Shared(views)
    BY <1>3, <1>4 DEF Has
  <2>5. \A b : ~Has(mbPkt[q], b)
    BY <1>1 DEF Has
  <2>6. Moved(mbBuf, buf2, mbPkt[q], p)
    <3> SUFFICES ASSUME NEW b \in Buffers
        PROVE  \/ mbBuf[b] = Nothing /\ buf2[b] = Nothing
               \/ /\ mbBuf[b] = Nothing /\ buf2[b] # Nothing /\ buf2[b].refcnt = Uses(p, b)
                  /\ Len(buf2[b].bytes) \in Sizes \cup {FragSize}
               \/ /\ mbBuf[b] # Nothing /\ buf2[b] # Nothing
                  /\ buf2[b].refcnt = mbBuf[b].refcnt + Uses(p, b) - Uses(mbPkt[q], b)
                  /\ Len(buf2[b].bytes) = Len(mbBuf[b].bytes)
      BY DEF Moved
    <3>1. Uses(mbPkt[q], b) = 0
      BY <2>5 DEF Uses
    <3>2. CASE b \in Shared(views)
      <4>1. Uses(p, b) = 1
        BY <2>4, <3>2 DEF Uses
      <4> QED
        BY <1>6, <1>15, <2>1, <2>2, <3>1, <3>2, <4>1
    <3>3. CASE b \notin Shared(views)
      <4>1. Uses(p, b) = 0
        BY <2>4, <3>3 DEF Uses
      <4>2. buf2[b] = mbBuf[b] /\ (mbBuf[b] # Nothing => mbBuf[b].refcnt \in Nat)
        BY <1>2, <1>15, <2>1, <2>2, <3>3, MemoryIs
      <4> QED
        BY <3>1, <4>1, <4>2
    <3> QED
      BY <3>2, <3>3
  <2>7. GoodPacket(buf2, p)
    <3>1. \A b \in Shared(p.views) : mbBuf[b] # Nothing => buf2[b] # Nothing /\ Len(buf2[b].bytes) = Len(mbBuf[b].bytes)
      BY <1>3, <1>6, <1>15, <2>1, <2>2
    <3> QED
      BY <1>4, <3>1, GoodStays
  <2>8. Sound(buf2, pkt2)
    BY <1>2, <1>4, <1>15, <2>2, <2>3, <2>6, <2>7, MovedSound
  <2>9. ~mbThreads => \A b \in Buffers : buf2[b] # Nothing => buf2[b].refcnt > 0
    <3>1. \A b \in Buffers : b \in Shared(done) => buf2[b].refcnt > 0
      BY <1>6, <1>15, <2>1, <2>2
    <3>2. \A b \in Buffers : b \notin Shared(done) => buf2[b] = mbBuf[b]
      BY <1>15, <2>2
    <3> QED
      BY <3>1, <3>2 DEF MbInv, MbAlone
  <2>10. Spreads(mbBuf, mbPkt, pkt2, o)
    BY <1>3, <2>3, SpreadsFrom
  <2>11. Aside(mbBuf, mbPkt, buf2, pkt2, q)
    <3>1. \A b \in Buffers : buf2[b].bytes = mbBuf[b].bytes
      BY <1>15, <2>2
    <3>2. Untouched(mbBuf, buf2)
      BY <3>1 DEF Untouched
    <3> QED
      BY <1>2, <2>3, <2>8, <3>2, StaysAside
  <2>12. MbInv'
    BY <1>1, <1>11, <1>12, <1>16, <2>8, <2>9, <2>10, CallKeeps
  <2>13. pkt2[q] = mbPkt[o]
    BY <1>3, <2>3 DEF Changes
  <2> QED
    BY <1>11, <1>12, <2>11, <2>12, <2>13
<1>18. CASE k # Len(views)
  <2>1. buf2 = Release(raised, done) /\ pkt2 = mbPkt
    BY <1>7, <1>8, <1>11, <1>12, <1>13, <1>18
  <2>2. \A b \in Shared(done) : b \in Buffers /\ raised[b] # Nothing /\ raised[b].refcnt > 0
    BY <1>6, <1>10, <1>15
  <2>3. buf2 \in [Buffers -> Memory \cup {Nothing}]
    BY <1>15, <2>1, <2>2, ReleaseIs
  <2>4. \A b \in Buffers :
              /\ b \notin Shared(done) => buf2[b] = raised[b]
              /\ b \in Shared(done) /\ raised[b].refcnt = 1 => buf2[b] = Nothing
              /\ b \in Shared(done) /\ raised[b].refcnt # 1 =>
                   /\ buf2[b] = [refcnt |-> raised[b].refcnt - 1, bytes |-> raised[b].bytes]
                   /\ buf2[b] # Nothing
                   /\ buf2[b].refcnt = raised[b].refcnt - 1
                   /\ buf2[b].bytes = raised[b].bytes
    BY <1>15, <2>1, <2>2, ReleaseIs
  <2>5. ASSUME NEW b \in Buffers PROVE buf2[b] = mbBuf[b]
    <3>1. CASE b \in Shared(done)
      <4>1. mbBuf[b] # Nothing /\ mbBuf[b].refcnt \in Nat /\ mbBuf[b].refcnt > 0
        BY <1>6, <1>10, <3>1
      <4>2. mbBuf[b] = [refcnt |-> mbBuf[b].refcnt, bytes |-> mbBuf[b].bytes]
        BY <1>2, <4>1, MemoryIs
      <4>3. raised[b] = [refcnt |-> mbBuf[b].refcnt + 1, bytes |-> mbBuf[b].bytes]
        BY <1>15, <3>1
      <4>4. raised[b].refcnt = mbBuf[b].refcnt + 1 /\ raised[b].bytes = mbBuf[b].bytes
        BY <4>3
      <4>5. buf2[b] = [refcnt |-> raised[b].refcnt - 1, bytes |-> raised[b].bytes]
        BY <2>4, <3>1, <4>1, <4>4
      <4>6. raised[b].refcnt - 1 = mbBuf[b].refcnt
        BY <4>1, <4>4
      <4> QED
        BY <4>2, <4>4, <4>5, <4>6
    <3>2. CASE b \notin Shared(done)
      BY <1>15, <2>4, <3>2
    <3> QED
      BY <3>1, <3>2
  <2>6. buf2 = mbBuf
    BY <1>2, <2>3, <2>5
  <2>7. Sound(mbBuf', mbPkt')
    BY <1>2, <1>11, <1>12, <2>1, <2>6
  <2>8. ~mbThreads => \A b \in Buffers : mbBuf'[b] # Nothing => mbBuf'[b].refcnt > 0
    BY <1>11, <2>6 DEF MbInv, MbAlone
  <2>9. Spreads(mbBuf, mbPkt, mbPkt', o)
    BY <1>12, <2>1 DEF Spreads
  <2>10. MbInv'
    BY <1>1, <1>16, <2>7, <2>8, <2>9, CallKeeps
  <2> QED
    BY <1>11, <1>12, <2>1, <2>6, <2>10
<1> QED
  BY <1>17, <1>18

(* A call of append_large begins. *)
LEMMA AppendKeeps ==
  ASSUME MbInv, NEW o \in Owners, NEW s \in Inputs, MbAppend(o, s)
  PROVE  MbInv'
<1>1. /\ Runs(o) /\ mbPkt[o] # Nothing /\ mbPkt[o].len + Len(s) <= MaxBytes
      /\ mbWork' = [mbWork EXCEPT ![o] = [at |-> "test", rest |-> s]]
      /\ mbBuf' = mbBuf /\ mbPkt' = mbPkt /\ mbThreads' = mbThreads
  BY DEF MbAppend, Holds, Calls
<1>2. PICK w : w = [at |-> "test", rest |-> s]
  OBVIOUS
<1>3. w.at = "test" /\ w.rest = s /\ w \in [at : {"idle", "test", "copy", "write"}, rest : Seq(Bytes)]
  BY <1>2, MbAssumption
<1>4. Sound(mbBuf', mbPkt')
  BY <1>1 DEF MbInv
<1>5. ~mbThreads => \A b \in Buffers : mbBuf'[b] # Nothing => mbBuf'[b].refcnt > 0
  BY <1>1 DEF MbInv, MbAlone
<1>6. /\ mbWork' = [mbWork EXCEPT ![o] = w] /\ (w.at = "idle" => w = MbIdle)
      /\ \A q \in Owners : q # o => mbPkt'[q] = mbPkt[q]
      /\ w # MbIdle => mbPkt'[o] # Nothing /\ mbPkt'[o].len + Len(w.rest) <= MaxBytes
      /\ ~mbThreads /\ w.at = "copy" => mbBuf'[MbLast(mbPkt'[o].views).sh].refcnt > 1
      /\ w.at = "write" => \A q \in Owners : q # o => ~Has(mbPkt'[q], MbLast(mbPkt'[o].views).sh)
      /\ Spreads(mbBuf, mbPkt, mbPkt', o)
  BY <1>1, <1>2, <1>3 DEF Spreads
<1> QED
  BY <1>1, <1>3, <1>4, <1>5, <1>6, WorkKeeps

(* A count that is not 1 is that of a buffer another packet views. *)
LEMMA TestKeeps ==
  ASSUME MbInv, NEW o \in Owners, MbTest(o)
  PROVE  MbInv'
<1>1. PICK p, views : p = mbPkt[o] /\ views = p.views
  OBVIOUS
<1>2. PICK n, v : n = Len(views) /\ v = views[n]
  OBVIOUS
<1>3. PICK at : at = IF mbBuf[v.sh].refcnt = 1 THEN "write" ELSE "copy"
  OBVIOUS
<1>4. mbWork[o].at = "test" /\ Runs(o) /\ mbBuf' = mbBuf /\ mbPkt' = mbPkt /\ mbThreads' = mbThreads
  BY DEF MbTest
<1>5. /\ p # Nothing /\ mbWork[o] \in [at : {"idle", "test", "copy", "write"}, rest : Seq(Bytes)]
      /\ mbWork[o] = [at |-> mbWork[o].at, rest |-> mbWork[o].rest]
      /\ p.len + Len(mbWork[o].rest) <= MaxBytes
      /\ MbLast(views) = v /\ n \in 1 .. n
  BY <1>1, <1>2, <1>4, WorkIs
<1>6. PICK w : w = [at |-> at, rest |-> mbWork[o].rest]
  OBVIOUS
<1>7. mbWork' = [mbWork EXCEPT ![o] = w]
  <2>1. mbWork' = [mbWork EXCEPT ![o].at = at]
    BY <1>1, <1>3, <1>5 DEF MbTest
  <2>2. mbWork \in [Owners -> [at : {"idle", "test", "copy", "write"}, rest : Seq(Bytes)]]
    BY DEF MbInv, MbWorking
  <2>3. [mbWork[o] EXCEPT !.at = at] = w
    BY <1>5, <1>6
  <2> QED
    BY <2>1, <2>2, <2>3
<1>8. w.at = at /\ w.rest = mbWork[o].rest /\ at \in {"write", "copy"}
      /\ w \in [at : {"idle", "test", "copy", "write"}, rest : Seq(Bytes)]
  BY <1>3, <1>5, <1>6
<1>9. Sound(mbBuf, mbPkt)
  BY DEF MbInv
<1>10. mbBuf[v.sh].refcnt \in Nat /\ mbBuf[v.sh].refcnt > 0
  <2>1. \A k \in 1 .. Len(views) : mbBuf[views[k].sh].refcnt \in Nat /\ mbBuf[views[k].sh].refcnt > 0
    BY <1>1, <1>5, <1>9, PacketIs
  <2> QED
    BY <1>2, <1>5, <2>1
<1>11. ~mbThreads => \A b \in Buffers : mbBuf'[b] # Nothing => mbBuf'[b].refcnt > 0
  BY <1>4 DEF MbInv, MbAlone
<1>12. w.at = "copy" => mbBuf'[MbLast(mbPkt'[o].views).sh].refcnt > 1
  BY <1>1, <1>3, <1>4, <1>5, <1>8, <1>10
<1>13. /\ (w.at = "idle" => w = MbIdle)
       /\ \A q \in Owners : q # o => mbPkt'[q] = mbPkt[q]
       /\ w # MbIdle => mbPkt'[o] # Nothing /\ mbPkt'[o].len + Len(w.rest) <= MaxBytes
       /\ Sound(mbBuf', mbPkt')
  BY <1>1, <1>4, <1>5, <1>8, <1>9
<1>14. ASSUME w.at = "write", NEW q \in Owners, q # o PROVE ~Has(mbPkt'[q], MbLast(mbPkt'[o].views).sh)
  <2>1. PICK b : b = v.sh
    OBVIOUS
  <2>2. mbBuf[b].refcnt = 1
    BY <1>3, <1>8, <1>14, <2>1
  <2>3. b \in Buffers /\ mbBuf[b] # Nothing /\ Has(p, b)
    <3>1. \A k \in 1 .. Len(views) : /\ views[k].sh \in Buffers /\ mbBuf[views[k].sh] # Nothing
                                      /\ Has(p, views[k].sh)
      BY <1>1, <1>5, <1>9, PacketIs
    <3> QED
      BY <1>2, <1>5, <2>1, <3>1
  <2>4. mbBuf[b].refcnt = Cardinality(HoldersOf(mbPkt, b))
    BY <1>9, <2>3 DEF Sound
  <2>5. Changes(mbPkt, mbPkt, o, p)
    BY <1>1 DEF Changes
  <2>6. Has(mbPkt[q], b) => Cardinality(HoldersOf(mbPkt, b)) > 1
    BY <1>1, <1>14, <2>3, <2>5, HoldersMove
  <2>7. ~Has(mbPkt[q], b)
    BY <2>2, <2>4, <2>6
  <2> QED
    BY <1>1, <1>4, <1>5, <2>1, <2>7
<1>15. Spreads(mbBuf, mbPkt, mbPkt', o)
  BY <1>4 DEF Spreads
<1> QED
  BY <1>4, <1>7, <1>8, <1>11, <1>12, <1>13, <1>14, <1>15, WorkKeeps

(* The packet leaves the old buffer to its other users and is alone with   *)
(* the copy.                                                               *)
LEMMA CopyKeeps ==
  ASSUME MbInv, NEW o \in Owners, MbCopy(o)
  PROVE  /\ MbInv' /\ Aside(mbBuf, mbPkt, mbBuf', mbPkt', o) /\ mbPkt[o] # Nothing /\ mbPkt'[o] # Nothing
         /\ KeepsValue(mbBuf, mbPkt[o].views, mbBuf', mbPkt'[o].views)
         /\ mbWork'[o].rest = mbWork[o].rest
<1>1. PICK p, views : p = mbPkt[o] /\ views = p.views
  OBVIOUS
<1>2. PICK n, v : n = Len(views) /\ v = views[n]
  OBVIOUS
<1>3. PICK nb, old : nb = NewBuffer /\ old = v.sh
  OBVIOUS
<1>4. /\ mbWork[o].at = "copy" /\ Runs(o) /\ Unused # {} /\ mbThreads' = mbThreads
      /\ mbWork' = [mbWork EXCEPT ![o].at = "write"]
  BY DEF MbCopy
<1>5. /\ p # Nothing /\ p \in Packet /\ p = [views |-> views, len |-> p.len]
      /\ mbWork[o] \in [at : {"idle", "test", "copy", "write"}, rest : Seq(Bytes)]
      /\ mbWork[o] = [at |-> mbWork[o].at, rest |-> mbWork[o].rest]
      /\ p.len + Len(mbWork[o].rest) <= MaxBytes
      /\ MbLast(views) = v /\ n \in 1 .. n /\ n \in Nat /\ n > 0
  BY <1>1, <1>2, <1>4, WorkIs, SMTT(30)
<1>6. /\ Sound(mbBuf, mbPkt) /\ mbPkt \in [Owners -> Packet \cup {Nothing}]
      /\ mbBuf \in [Buffers -> Memory \cup {Nothing}]
      /\ mbWork \in [Owners -> [at : {"idle", "test", "copy", "write"}, rest : Seq(Bytes)]]
  BY SoundTypes DEF MbInv, MbWorking
<1>7. /\ views \in Seq(View) /\ DOMAIN views = 1 .. n /\ EachOnce(views) /\ p.len \in 0 .. MaxBytes
      /\ \A k \in 1 .. n :
              /\ views[k] \in View /\ views[k].sh \in Buffers
              /\ views[k].data \in Nat /\ views[k].tail \in Nat
              /\ views[k].data <= views[k].tail /\ views[k].tail <= Len(mbBuf[views[k].sh].bytes)
              /\ mbBuf[views[k].sh] # Nothing /\ mbBuf[views[k].sh] \in Memory
              /\ Has(p, views[k].sh)
              /\ mbBuf[views[k].sh].refcnt \in Nat /\ mbBuf[views[k].sh].refcnt > 0
  <2>1. /\ views \in Seq(View) /\ DOMAIN views = 1 .. Len(views) /\ EachOnce(views) /\ p.len \in 0 .. MaxBytes
        /\ \A k \in 1 .. Len(views) :
              /\ views[k] \in View /\ views[k].sh \in Buffers
              /\ views[k].data \in Nat /\ views[k].tail \in Nat
              /\ views[k].data <= views[k].tail /\ views[k].tail <= Len(mbBuf[views[k].sh].bytes)
              /\ mbBuf[views[k].sh] # Nothing /\ mbBuf[views[k].sh] \in Memory
              /\ Has(p, views[k].sh)
              /\ mbBuf[views[k].sh].refcnt \in Nat /\ mbBuf[views[k].sh].refcnt > 0
    BY <1>1, <1>5, <1>6, PacketIs, SMTT(30)
  <2> QED
    BY <1>2, <2>1
<1>8. Measures(views, p.len)
  BY <1>1, <1>5, <1>6, ChainIs
<1>9. nb \in Buffers /\ mbBuf[nb] = Nothing
  BY <1>3, <1>4, NewIs
<1>10. PICK m : m = mbBuf[old]
  OBVIOUS
<1>11. /\ old \in Buffers /\ old # nb /\ m # Nothing /\ m \in Memory /\ m.refcnt \in Nat /\ m.refcnt > 0
       /\ v \in View /\ v.data \in Nat /\ v.tail \in Nat /\ v.data <= v.tail /\ v.tail <= Len(m.bytes)
  BY <1>2, <1>3, <1>5, <1>7, <1>9, <1>10
<1>12. m = [refcnt |-> m.refcnt, bytes |-> m.bytes] /\ m.bytes \in Seq(Bytes)
       /\ Len(m.bytes) \in Sizes \cup {FragSize} /\ Len(m.bytes) \in Nat
  <2>1. /\ m = [refcnt |-> m.refcnt, bytes |-> m.bytes] /\ m.bytes \in Seq(Bytes)
        /\ Len(m.bytes) \in Sizes \cup {FragSize}
    BY <1>6, <1>10, <1>11, MemoryIs
  <2> QED
    BY <2>1, MbAssumption
<1>13. PICK new, less : new = [refcnt |-> 1, bytes |-> m.bytes] /\ less = [refcnt |-> m.refcnt - 1, bytes |-> m.bytes]
  OBVIOUS
<1>14. /\ new \in Memory /\ less \in Memory /\ new # Nothing /\ less # Nothing
       /\ new.refcnt = 1 /\ less.refcnt = m.refcnt - 1 /\ new.bytes = m.bytes /\ less.bytes = m.bytes
  <2>1. m.refcnt - 1 \in Nat /\ 1 \in Nat
    BY <1>11
  <2>2. new \in Memory /\ less \in Memory
    BY <1>12, <1>13, <2>1 DEF Memory
  <2> QED
    BY <1>13, <2>2, MbAssumption
<1>15. PICK buf2, pkt2 : buf2 = mbBuf' /\ pkt2 = mbPkt'
  OBVIOUS
<1>16. buf2 = [mbBuf EXCEPT ![nb] = new, ![old] = less]
  <2>1. buf2 = [mbBuf EXCEPT ![nb] = [m EXCEPT !.refcnt = 1], ![old].refcnt = @ - 1]
    BY <1>1, <1>3, <1>5, <1>10, <1>15 DEF MbCopy
  <2>2. [m EXCEPT !.refcnt = 1] = new /\ [m EXCEPT !.refcnt = @ - 1] = less
    BY <1>12, <1>13
  <2>3. PICK half : half = [mbBuf EXCEPT ![nb] = new]
    OBVIOUS
  <2>4. half[old] = m
    BY <1>6, <1>10, <1>11, <2>3
  <2>5. buf2 = [half EXCEPT ![old] = [half[old] EXCEPT !.refcnt = @ - 1]]
    <3>1. buf2 = [mbBuf EXCEPT ![nb] = new, ![old].refcnt = @ - 1]
      BY <2>1, <2>2
    <3>2. mbBuf[old] = half[old]
      BY <1>10, <2>4
    <3> QED
      BY <1>6, <2>3, <3>1, <3>2
  <2> QED
    BY <2>2, <2>3, <2>4, <2>5
<1>17. /\ buf2 \in [Buffers -> Memory \cup {Nothing}] /\ buf2[nb] = new /\ buf2[old] = less
       /\ \A b \in Buffers : b # nb /\ b # old => buf2[b] = mbBuf[b]
  BY <1>6, <1>9, <1>11, <1>14, <1>16
<1>18. PICK v2 : v2 = [sh |-> nb, data |-> v.data, tail |-> v.tail]
  OBVIOUS
<1>19. v2 \in View /\ v2.sh = nb /\ v2.data = v.data /\ v2.tail = v.tail
  BY <1>9, <1>11, <1>18 DEF View
<1>20. PICK two : two = [views EXCEPT ![n] = v2]
  OBVIOUS
<1>21. /\ two \in Seq(View) /\ Len(two) = n /\ DOMAIN two = 1 .. n /\ two[n] = v2
       /\ \A k \in 1 .. n : k # n => two[k] = views[k]
  BY <1>2, <1>5, <1>7, <1>19, <1>20
<1>22. PICK p2 : p2 = [views |-> two, len |-> p.len]
  OBVIOUS
<1>23. p2 \in Packet /\ p2.views = two /\ p2.len = p.len /\ p2 # Nothing
  <2>1. p2 \in Packet
    BY <1>7, <1>21, <1>22 DEF Packet
  <2> QED
    BY <1>22, <2>1, MbAssumption
<1>24. pkt2 = [mbPkt EXCEPT ![o] = p2]
  <2>1. pkt2 = [mbPkt EXCEPT ![o].views[n].sh = nb]
    BY <1>1, <1>2, <1>3, <1>15 DEF MbCopy
  <2>2. [v EXCEPT !.sh = nb] = v2
    BY <1>11, <1>18 DEF View
  <2>3. [views EXCEPT ![n].sh = nb] = two
    BY <1>2, <1>20, <2>2
  <2>4. [p EXCEPT !.views[n].sh = nb] = p2
    BY <1>5, <1>22, <2>3
  <2> QED
    BY <1>1, <2>1, <2>4
<1>25. pkt2 \in [Owners -> Packet \cup {Nothing}] /\ Changes(mbPkt, pkt2, o, p2) /\ pkt2[o] = p2
  BY <1>6, <1>23, <1>24 DEF Changes
<1>26. ASSUME NEW b PROVE Has(p2, b) <=> b = nb \/ (b # old /\ Has(p, b))
  <2>1. Has(p2, b) <=> \E k \in 1 .. n : b = two[k].sh
    BY <1>21, <1>23 DEF Has, Shared
  <2>2. Has(p, b) <=> \E k \in 1 .. n : b = views[k].sh
    BY <1>1, <1>5, <1>7 DEF Has, Shared
  <2>3. \A k \in 1 .. n : k # n => views[k].sh # old
    BY <1>2, <1>3, <1>5, <1>7 DEF EachOnce
  <2>4. two[n].sh = nb /\ views[n].sh = old /\ \A k \in 1 .. n : k # n => two[k].sh = views[k].sh
    BY <1>2, <1>3, <1>19, <1>21
  <2> QED
    BY <1>5, <2>1, <2>2, <2>3, <2>4
<1>27. Has(p, old) /\ ~Has(p, nb)
  <2>1. Has(p, old)
    BY <1>2, <1>3, <1>5, <1>7
  <2>2. ASSUME Has(p, nb) PROVE FALSE
    <3>1. PICK k \in 1 .. n : nb = views[k].sh
      BY <1>1, <1>7, <2>2 DEF Has, Shared
    <3> QED
      BY <1>7, <1>9, <3>1
  <2> QED
    BY <2>1, <2>2
<1>28. Moved(mbBuf, buf2, mbPkt[o], p2)
  <2> SUFFICES ASSUME NEW b \in Buffers
      PROVE  \/ mbBuf[b] = Nothing /\ buf2[b] = Nothing
             \/ /\ mbBuf[b] = Nothing /\ buf2[b] # Nothing /\ buf2[b].refcnt = Uses(p2, b)
                /\ Len(buf2[b].bytes) \in Sizes \cup {FragSize}
             \/ /\ mbBuf[b] # Nothing /\ buf2[b] # Nothing
                /\ buf2[b].refcnt = mbBuf[b].refcnt + Uses(p2, b) - Uses(p, b)
                /\ Len(buf2[b].bytes) = Len(mbBuf[b].bytes)
    BY <1>1 DEF Moved
  <2>1. CASE b = nb
    <3>1. Uses(p2, b) = 1
      BY <1>26, <2>1 DEF Uses
    <3> QED
      BY <1>9, <1>12, <1>14, <1>17, <2>1, <3>1
  <2>2. CASE b = old
    <3>1. Uses(p2, b) = 0 /\ Uses(p, b) = 1
      BY <1>11, <1>26, <1>27, <2>2 DEF Uses
    <3> QED
      BY <1>10, <1>11, <1>14, <1>17, <2>2, <3>1
  <2>3. CASE b # nb /\ b # old
    <3>1. Uses(p2, b) = Uses(p, b) /\ Uses(p, b) \in {0, 1} /\ buf2[b] = mbBuf[b]
      BY <1>17, <1>26, <2>3 DEF Uses
    <3>2. mbBuf[b] # Nothing => mbBuf[b].refcnt \in Nat
      BY <1>6, MemoryIs
    <3> QED
      BY <3>1, <3>2
  <2> QED
    BY <2>1, <2>2, <2>3
<1>29. GoodPacket(buf2, p2)
  <2>1. EachOnce(two)
    <3> SUFFICES ASSUME NEW j \in 1 .. n, NEW k \in 1 .. n, two[j].sh = two[k].sh PROVE j = k
      BY <1>21 DEF EachOnce
    <3>1. \A i \in 1 .. n : views[i].sh # nb
      BY <1>7, <1>9
    <3>2. \A i \in 1 .. n : i # n => two[i].sh = views[i].sh
      BY <1>21
    <3>3. two[n].sh = nb
      BY <1>19, <1>21
    <3>4. views[j].sh = views[k].sh => j = k
      BY <1>7 DEF EachOnce
    <3> QED
      BY <3>1, <3>2, <3>3, <3>4
  <2>2. ASSUME NEW k \in 1 .. n PROVE Inside(buf2, two[k])
    <3>1. CASE k = n
      BY <1>11, <1>14, <1>17, <1>19, <1>21, <3>1 DEF Inside
    <3>2. CASE k # n
      <4>1. two[k] = views[k] /\ views[k].sh # nb /\ views[k].sh # old /\ views[k].sh \in Buffers
        BY <1>2, <1>3, <1>5, <1>7, <1>9, <1>21, <3>2 DEF EachOnce
      <4>2. buf2[views[k].sh] = mbBuf[views[k].sh]
        BY <1>17, <4>1
      <4> QED
        BY <1>7, <4>1, <4>2 DEF Inside
    <3> QED
      BY <3>1, <3>2
  <2>3. Measures(two, p2.len)
    <3>1. PICK f : Marks(f, views) /\ p.len = f[Len(views)]
      BY <1>8 DEF Measures
    <3>2. \A k \in 1 .. n : two[k].tail - two[k].data = views[k].tail - views[k].data
      BY <1>2, <1>19, <1>21
    <3>3. Marks(f, two)
      BY <1>2, <1>21, <3>1, <3>2 DEF Marks
    <3> QED
      BY <1>2, <1>21, <1>23, <3>1, <3>3 DEF Measures
  <2> QED
    BY <1>5, <1>21, <1>23, <2>1, <2>2, <2>3 DEF GoodPacket
<1>30. Sound(buf2, pkt2)
  BY <1>6, <1>17, <1>23, <1>25, <1>28, <1>29, MovedSound
<1>31. PICK w : w = [at |-> "write", rest |-> mbWork[o].rest]
  OBVIOUS
<1>32. mbWork' = [mbWork EXCEPT ![o] = w]
  <2>1. [mbWork[o] EXCEPT !.at = "write"] = w
    BY <1>5, <1>31
  <2> QED
    BY <1>4, <1>6, <2>1
<1>33. w.at = "write" /\ w.rest = mbWork[o].rest
       /\ w \in [at : {"idle", "test", "copy", "write"}, rest : Seq(Bytes)]
  BY <1>5, <1>31
<1>34. ~mbThreads => \A b \in Buffers : buf2[b] # Nothing => buf2[b].refcnt > 0
  <2>1. ~mbThreads => m.refcnt > 1
    BY <1>1, <1>3, <1>4, <1>5, <1>10 DEF MbInv, MbAlone
  <2>2. ~mbThreads => less.refcnt > 0
    BY <1>11, <1>14, <2>1
  <2> QED
    BY <1>14, <1>17, <2>2 DEF MbInv, MbAlone
<1>35. /\ (w.at = "idle" => w = MbIdle)
       /\ \A q \in Owners : q # o => mbPkt'[q] = mbPkt[q]
       /\ w # MbIdle => mbPkt'[o] # Nothing /\ mbPkt'[o].len + Len(w.rest) <= MaxBytes
       /\ ~mbThreads /\ w.at = "copy" => mbBuf'[MbLast(mbPkt'[o].views).sh].refcnt > 1
  BY <1>5, <1>15, <1>23, <1>25, <1>33 DEF Changes
<1>36. Spreads(mbBuf, mbPkt, pkt2, o)
  <2>1. \A b \in Buffers : mbBuf[b] # Nothing /\ Has(p2, b) => Has(mbPkt[o], b)
    BY <1>1, <1>9, <1>26
  <2> QED
    BY <1>25, <2>1, SpreadsFrom
<1>37. Aside(mbBuf, mbPkt, buf2, pkt2, o)
  <2>1. Untouched(mbBuf, buf2)
    BY <1>9, <1>10, <1>14, <1>17 DEF Untouched
  <2> QED
    BY <1>6, <1>25, <1>30, <2>1, StaysAside
<1>38. ASSUME NEW q \in Owners, q # o PROVE ~Has(pkt2[q], MbLast(pkt2[o].views).sh)
  <2>1. MbLast(pkt2[o].views).sh = nb
    BY <1>19, <1>21, <1>23, <1>25 DEF MbLast
  <2>2. pkt2[q] = mbPkt[q]
    BY <1>25, <1>38 DEF Changes
  <2>3. ~Has(mbPkt[q], nb)
    BY <1>6, <1>9, HasIs
  <2> QED
    BY <2>1, <2>2, <2>3
<1>39. KeepsValue(mbBuf, views, buf2, two)
  <2>1. ASSUME NEW k \in 1 .. n
        PROVE  /\ two[k].data = views[k].data /\ two[k].tail = views[k].tail
               /\ buf2[two[k].sh].bytes = mbBuf[views[k].sh].bytes
    <3>1. CASE k = n
      BY <1>2, <1>3, <1>10, <1>14, <1>17, <1>19, <1>21, <3>1
    <3>2. CASE k # n
      <4>1. two[k] = views[k] /\ views[k].sh # nb /\ views[k].sh # old /\ views[k].sh \in Buffers
        BY <1>2, <1>3, <1>5, <1>7, <1>9, <1>21, <3>2 DEF EachOnce
      <4> QED
        BY <1>17, <4>1
    <3> QED
      BY <3>1, <3>2
  <2>2. AlikeViews(mbBuf, views, buf2, two)
    BY <1>2, <1>21, <2>1 DEF AlikeViews
  <2> QED
    BY <2>2, SpellsAlike
<1>40. MbInv'
  BY <1>4, <1>15, <1>30, <1>32, <1>33, <1>34, <1>35, <1>36, <1>38, WorkKeeps
<1>41. mbWork'[o].rest = mbWork[o].rest
  BY <1>6, <1>32, <1>33
<1> QED
  BY <1>1, <1>5, <1>15, <1>23, <1>25, <1>37, <1>39, <1>40, <1>41

(* A view of the same buffer that is d longer, and a chain that has it in  *)
(* the place of another.                                                   *)
Longer(v, v2, d) == v2.sh = v.sh /\ v2.tail - v2.data = v.tail - v.data + d
Replaces(views, two, k, v2) == two = [views EXCEPT ![k] = v2]

(* The chain when one of its views gets longer or shorter by d.            *)
LEMMA ChainOne ==
  ASSUME NEW views \in Seq(View), NEW k \in 1 .. Len(views), NEW v, v = views[k], NEW v2 \in View,
         NEW two, Replaces(views, two, k, v2), NEW l, Measures(views, l),
         NEW d \in Int, Longer(v, v2, d)
  PROVE  /\ two \in Seq(View) /\ Len(two) = Len(views) /\ two[k] = v2
         /\ \A j \in 1 .. Len(views) : j # k => two[j] = views[j]
         /\ Shared(two) = Shared(views) /\ (EachOnce(views) => EachOnce(two))
         /\ Measures(two, l + d)
<1>1. /\ two \in Seq(View) /\ Len(two) = Len(views) /\ two[k] = v2
      /\ DOMAIN two = DOMAIN views
      /\ \A j \in DOMAIN views : j # k => two[j] = views[j]
  BY DEF Replaces
<1>2. \A j \in DOMAIN views : two[j].sh = views[j].sh
  BY <1>1 DEF Longer
<1>3. Shared(two) = Shared(views)
  BY <1>1, <1>2 DEF Shared
<1>4. EachOnce(views) => EachOnce(two)
  BY <1>1, <1>2 DEF EachOnce
<1>5. DOMAIN views = 1 .. Len(views)
  OBVIOUS
<1>6. PICK f : Marks(f, views) /\ l = f[Len(views)]
  BY DEF Measures
<1>7. /\ two[k].tail - two[k].data = views[k].tail - views[k].data + d
      /\ \A j \in 1 .. Len(views) : j # k => two[j] = views[j]
  BY <1>1, <1>5 DEF Longer
<1>8. Measures(two, l + d)
  BY <1>1, <1>6, <1>7, MarksOne
<1> QED
  BY <1>1, <1>3, <1>4, <1>5, <1>8

(* Memory of the same sizes, used by as many.                              *)
Alike(buf, buf2) ==
  \A b \in Buffers : /\ buf2[b] = Nothing <=> buf[b] = Nothing
                     /\ buf[b] # Nothing => /\ buf2[b].refcnt = buf[b].refcnt
                                            /\ Len(buf2[b].bytes) = Len(buf[b].bytes)

(* One view of a packet gets longer or shorter by d and stays in its       *)
(* buffer; buffers keep their counts and sizes.                            *)
Shifts(pkt, pkt2, o, k, v2, d) ==
  LET p == pkt[o]
  IN  pkt2 = [pkt EXCEPT ![o] = [views |-> [p.views EXCEPT ![k] = v2], len |-> p.len + d]]

(* Its length follows. *)
Shifted(pkt, pkt2, o, d) ==
  /\ pkt2[o] # Nothing /\ pkt2[o].len = pkt[o].len + d
  /\ \A q \in Owners : q # o => pkt2[q] = pkt[q]
  /\ \A b : Has(pkt2[o], b) <=> Has(pkt[o], b)

(* Moving an end of one view keeps memory and packets fitting. *)
LEMMA OneView ==
  ASSUME NEW buf, NEW pkt, Sound(buf, pkt), NEW o \in Owners, pkt[o] # Nothing,
         NEW k \in 1 .. Len(pkt[o].views), NEW v2 \in View, NEW d \in Int,
         Longer(pkt[o].views[k], v2, d), Inside(buf, v2), pkt[o].len + d \in 0 .. MaxBytes,
         NEW buf2 \in [Buffers -> Memory \cup {Nothing}], Alike(buf, buf2),
         NEW pkt2, Shifts(pkt, pkt2, o, k, v2, d)
  PROVE  Sound(buf2, pkt2) /\ Shifted(pkt, pkt2, o, d)
<1>13. PICK p, views : p = pkt[o] /\ views = p.views
  OBVIOUS
<1>14. PICK v, two : v = views[k] /\ Replaces(views, two, k, v2)
  BY DEF Replaces
<1>15. PICK p2 : p2 = [views |-> two, len |-> p.len + d]
  OBVIOUS
<1>16. /\ p # Nothing /\ k \in 1 .. Len(views) /\ Longer(v, v2, d) /\ p.len + d \in 0 .. MaxBytes
       /\ v2.data <= v2.tail /\ v2.tail <= Len(buf[v.sh].bytes) /\ pkt2 = [pkt EXCEPT ![o] = p2]
  BY <1>13, <1>14, <1>15 DEF Longer, Inside, Shifts, Replaces
<1>1. pkt \in [Owners -> Packet \cup {Nothing}]
  BY SoundTypes
<1>2. views \in Seq(View) /\ Len(views) \in Nat /\ DOMAIN views = 1 .. Len(views) /\ EachOnce(views)
  BY <1>13, <1>16, PacketIs
<1>11. \A j \in 1 .. Len(views) :
              /\ views[j] \in View /\ views[j].sh \in Buffers
              /\ views[j].data \in Nat /\ views[j].tail \in Nat
              /\ views[j].data <= views[j].tail /\ views[j].tail <= Len(buf[views[j].sh].bytes)
              /\ buf[views[j].sh] # Nothing
  BY <1>13, <1>16, PacketIs, SMTT(30)
<1>12. Measures(views, p.len)
  BY <1>13, <1>16, ChainIs
<1>3. /\ two \in Seq(View) /\ Len(two) = Len(views) /\ DOMAIN two = 1 .. Len(views) /\ two[k] = v2
      /\ \A j \in 1 .. Len(views) : j # k => two[j] = views[j]
  <2>1. /\ two \in Seq(View) /\ Len(two) = Len(views) /\ two[k] = v2
        /\ \A j \in 1 .. Len(views) : j # k => two[j] = views[j]
    BY <1>2, <1>12, <1>14, <1>16, ChainOne, SMTT(30)
  <2>2. DOMAIN two = 1 .. Len(two)
    BY <2>1
  <2> QED
    BY <2>1, <2>2
<1>4. Shared(two) = Shared(views) /\ EachOnce(two) /\ Measures(two, p.len + d)
  <2>1. Shared(two) = Shared(views)
    BY <1>2, <1>12, <1>14, <1>16, ChainOne
  <2>2. EachOnce(views) => EachOnce(two)
    BY <1>2, <1>12, <1>14, <1>16, ChainOne
  <2>3. Measures(two, p.len + d)
    BY <1>2, <1>12, <1>14, <1>16, ChainOne
  <2> QED
    BY <1>2, <2>1, <2>2, <2>3
<1>5. p2 \in Packet /\ p2.views = two /\ p2.len = p.len + d /\ p2 # Nothing
  <2>1. p2 \in Packet
    BY <1>3, <1>15, <1>16 DEF Packet
  <2> QED
    BY <1>15, <2>1, MbAssumption
<1>6. pkt2 \in [Owners -> Packet \cup {Nothing}] /\ Changes(pkt, pkt2, o, p2)
  BY <1>1, <1>5, <1>16 DEF Changes
<1>7. \A b : Has(p2, b) <=> Has(p, b)
  BY <1>4, <1>5, <1>13, <1>16 DEF Has
<1>8. Moved(buf, buf2, pkt[o], p2)
  <2> SUFFICES ASSUME NEW b \in Buffers
      PROVE  \/ buf[b] = Nothing /\ buf2[b] = Nothing
             \/ /\ buf[b] # Nothing /\ buf2[b] # Nothing
                /\ buf2[b].refcnt = buf[b].refcnt + Uses(p2, b) - Uses(p, b)
                /\ Len(buf2[b].bytes) = Len(buf[b].bytes)
    BY <1>13 DEF Moved
  <2>1. Uses(p2, b) = Uses(p, b) /\ Uses(p, b) \in {0, 1}
    BY <1>7 DEF Uses
  <2>2. buf[b] # Nothing => buf[b].refcnt \in Nat
    BY MemoryIs
  <2> QED
    BY <2>1, <2>2 DEF Alike
<1>9. GoodPacket(buf2, p2)
  <2>2. ASSUME NEW j \in 1 .. Len(views) PROVE Inside(buf2, two[j])
    <3>1. /\ buf2[views[j].sh] # Nothing
          /\ Len(buf2[views[j].sh].bytes) = Len(buf[views[j].sh].bytes)
      BY <1>11 DEF Alike
    <3>2. CASE j = k
      BY <1>3, <1>14, <1>16, <3>1, <3>2 DEF Inside, Longer
    <3>3. CASE j # k
      <4>1. two[j] = views[j] /\ views[j].data <= views[j].tail /\ views[j].tail <= Len(buf[views[j].sh].bytes)
        BY <1>3, <1>11, <3>3
      <4> QED
        BY <3>1, <4>1 DEF Inside
    <3> QED
      BY <3>2, <3>3
  <2>3. Measures(two, p2.len)
    BY <1>4, <1>5
  <2>4. two # <<>>
    <3>1. 1 .. Len(two) # {}
      BY <1>3, <1>16
    <3> QED
      BY <3>1
  <2> QED
    BY <1>3, <1>4, <1>5, <2>2, <2>3, <2>4 DEF GoodPacket
<1>10. Sound(buf2, pkt2)
  BY <1>5, <1>6, <1>8, <1>9, MovedSound
<1> QED
  BY <1>5, <1>6, <1>7, <1>10, <1>13 DEF Changes, Shifted

(* No memory comes into a packet that only moves the ends of its views.    *)
LEMMA ShiftedSpreads ==
  ASSUME NEW buf, NEW pkt, NEW pkt2, NEW o, NEW d, Shifted(pkt, pkt2, o, d)
  PROVE  Spreads(buf, pkt, pkt2, o)
BY DEF Shifted, Spreads

(* A pull moves the beginning of the first view. *)
LEMMA PullKeeps ==
  ASSUME MbInv, NEW o \in Owners, NEW n \in 0 .. MaxBytes, MbPull(o, n)
  PROVE  /\ MbInv' /\ Aside(mbBuf, mbPkt, mbBuf', mbPkt', o) /\ mbPkt[o] # Nothing /\ mbPkt'[o] # Nothing
         /\ n <= mbPkt[o].len /\ DropsValue(mbBuf, mbPkt[o].views, mbBuf', mbPkt'[o].views, n)
<1>1. PICK p, views : p = mbPkt[o] /\ views = p.views
  OBVIOUS
<1>2. PICK v : v = views[1]
  OBVIOUS
<1>3. /\ Calls(o) /\ p # Nothing /\ n <= v.tail - v.data /\ mbBuf' = mbBuf
      /\ UNCHANGED <<mbWork, mbThreads>>
  BY <1>1, <1>2 DEF MbPull, Holds, ViewLen
<1>4. /\ Sound(mbBuf, mbPkt) /\ mbPkt \in [Owners -> Packet \cup {Nothing}]
      /\ mbBuf \in [Buffers -> Memory \cup {Nothing}]
  BY SoundTypes DEF MbInv
<1>5. /\ p \in Packet /\ p = [views |-> views, len |-> p.len]
      /\ p.len \in 0 .. MaxBytes /\ MaxBytes \in Nat
      /\ views \in Seq(View) /\ Len(views) \in Nat /\ Len(views) > 0
      /\ DOMAIN views = 1 .. Len(views)
      /\ \A k \in 1 .. Len(views) :
              /\ views[k] \in View /\ views[k].sh \in Buffers
              /\ views[k].data \in Nat /\ views[k].tail \in Nat
              /\ views[k].data <= views[k].tail /\ views[k].tail <= Len(mbBuf[views[k].sh].bytes)
              /\ mbBuf[views[k].sh] # Nothing
  BY <1>1, <1>3, <1>4, PacketIs
<1>6. /\ mbBuf[v.sh] # Nothing
      /\ v \in View /\ v.data \in Nat /\ v.tail \in Nat /\ v.data <= v.tail /\ v.sh \in Buffers
      /\ v.tail <= Len(mbBuf[v.sh].bytes) /\ 1 \in 1 .. Len(views)
  BY <1>2, <1>5
<1>7. n \in Nat /\ p.len - n \in 0 .. MaxBytes
  <2>1. PICK f : Marks(f, views) /\ p.len = f[Len(views)]
    BY <1>1, <1>3, <1>4, ChainIs DEF Measures
  <2>2. \A i, j \in 0 .. Len(views) : f[i] \in Nat /\ (i <= j => f[i] <= f[j])
    BY <1>5, <2>1, MarksRise
  <2>3. 1 \in 0 .. Len(views) /\ Len(views) \in 0 .. Len(views) /\ 1 <= Len(views)
    BY <1>5
  <2>4. f[1] <= f[Len(views)] /\ f[1] \in Nat
    BY <2>2, <2>3
  <2>5. f[1] = v.tail - v.data
    <3>1. f[0] = 0 /\ f[1] = f[0] + (v.tail - v.data)
      BY <1>2, <1>6, <2>1 DEF Marks
    <3> QED
      BY <1>6, <3>1
  <2> QED
    BY <1>3, <1>5, <1>6, <2>1, <2>4, <2>5
<1>8. PICK d : d = 0 - n
  OBVIOUS
<1>9. d \in Int /\ p.len + d \in 0 .. MaxBytes /\ p.len + d = p.len - n
  BY <1>5, <1>7, <1>8
<1>10. PICK v2 : v2 = [sh |-> v.sh, data |-> v.data + n, tail |-> v.tail]
  OBVIOUS
<1>11. /\ v2 \in View /\ v2.sh = v.sh /\ v2.data <= v2.tail /\ v2.tail <= Len(mbBuf[v.sh].bytes)
       /\ Longer(v, v2, d)
  BY <1>3, <1>6, <1>7, <1>8, <1>10 DEF View, Longer
<1>12. PICK pkt2 : pkt2 = mbPkt'
  OBVIOUS
<1>13. Shifts(mbPkt, pkt2, o, 1, v2, d)
  <2>1. pkt2 = [mbPkt EXCEPT ![o].views[1].data = @ + n, ![o].len = @ - n]
    BY <1>12 DEF MbPull
  <2>2. PICK two, l : two = [views EXCEPT ![1] = v2] /\ l = p.len
    OBVIOUS
  <2>3. [v EXCEPT !.data = @ + n] = v2
    BY <1>6, <1>10 DEF View
  <2>4. [views EXCEPT ![1].data = @ + n] = two
    BY <1>2, <2>2, <2>3
  <2>5. p = [views |-> views, len |-> l] /\ p.views = views /\ l - n = l + d
    BY <1>1, <1>5, <1>9, <2>2
  <2>6. PICK q : q = [p EXCEPT !.views[1].data = @ + n]
    OBVIOUS
  <2>7. q = [views |-> two, len |-> l]
    BY <2>4, <2>5, <2>6
  <2>8. q.len = p.len
    BY <2>2, <2>7
  <2>9. [q EXCEPT !.len = @ - n] = [views |-> two, len |-> l - n]
    BY <2>7
  <2>10. [p EXCEPT !.views[1].data = @ + n, !.len = @ - n] = [q EXCEPT !.len = @ - n]
    BY <2>6, <2>8
  <2>11. pkt2 = [mbPkt EXCEPT ![o] = [views |-> two, len |-> l - n]]
    BY <1>1, <2>1, <2>9, <2>10
  <2> QED
    BY <1>1, <2>2, <2>5, <2>11 DEF Shifts
<1>14. Alike(mbBuf, mbBuf)
  BY DEF Alike
<1>15. Inside(mbBuf, v2)
  BY <1>6, <1>11, <1>3, <1>1, <1>4, <1>5 DEF Inside, Longer
<1>16. mbPkt[o] # Nothing /\ 1 \in 1 .. Len(mbPkt[o].views) /\ Longer(mbPkt[o].views[1], v2, d)
       /\ mbPkt[o].len + d \in 0 .. MaxBytes
  BY <1>1, <1>2, <1>3, <1>6, <1>9, <1>11
<1>17. Sound(mbBuf, pkt2) /\ Shifted(mbPkt, pkt2, o, d) /\ pkt2[o] # Nothing
       /\ \A q \in Owners : q # o => pkt2[q] = mbPkt[q]
  <2>1. Sound(mbBuf, pkt2)
    BY <1>4, <1>9, <1>11, <1>13, <1>14, <1>15, <1>16, OneView
  <2>2. Shifted(mbPkt, pkt2, o, d)
    BY <1>4, <1>9, <1>11, <1>13, <1>14, <1>15, <1>16, OneView
  <2> QED
    BY <2>1, <2>2 DEF Shifted
<1>18. ~mbThreads => \A b \in Buffers : mbBuf'[b] # Nothing => mbBuf'[b].refcnt > 0
  BY <1>3 DEF MbInv, MbAlone
<1>19. \A q \in Owners : q # o /\ mbPkt[q] # Nothing => mbPkt'[q] = mbPkt[q]
  BY <1>12, <1>17
<1>20. MbInv'
  <2>1. Spreads(mbBuf, mbPkt, pkt2, o)
    BY <1>17, ShiftedSpreads
  <2> QED
    BY <1>3, <1>12, <1>17, <1>18, <1>19, <2>1, CallKeeps
<1>21. Aside(mbBuf, mbPkt, mbBuf, pkt2, o)
  BY <1>17 DEF Aside
<1>22. PICK two, k : two = [views EXCEPT ![1] = v2] /\ k = Len(views)
  OBVIOUS
<1>23. /\ two \in Seq(View) /\ Len(two) = k /\ two[1] = v2 /\ k \in Nat \ {0}
       /\ \A j \in 1 .. k : j # 1 => two[j] = views[j]
  BY <1>5, <1>11, <1>22
<1>24. pkt2[o].views = two
  <2>1. pkt2 = [mbPkt EXCEPT ![o] = [views |-> two, len |-> mbPkt[o].len + d]]
    BY <1>1, <1>13, <1>22 DEF Shifts
  <2>2. pkt2[o] = [views |-> two, len |-> mbPkt[o].len + d]
    BY <1>4, <2>1
  <2> QED
    BY <2>2
<1>25. DropsValue(mbBuf, views, mbBuf, two, n)
  <2>1. Rising(views)
    BY <1>5 DEF Rising
  <2>2. ASSUME NEW j \in 1 .. k
        PROVE  (j # 1 => two[j] = views[j]) /\ mbBuf[two[j].sh].bytes = mbBuf[views[j].sh].bytes
    <3>1. j # 1 => two[j] = views[j]
      BY <1>23
    <3>2. two[j].sh = views[j].sh
      BY <1>2, <1>11, <1>23, <3>1
    <3> QED
      BY <3>1, <3>2
  <2>3. two[1].data = views[1].data + n /\ two[1].tail = views[1].tail /\ n <= views[1].tail - views[1].data
    BY <1>2, <1>3, <1>10, <1>23
  <2> QED
    BY <1>5, <1>7, <1>22, <1>23, <2>1, <2>2, <2>3, SpellsLater
<1>26. n <= p.len
  BY <1>5, <1>7
<1> QED
  BY <1>1, <1>3, <1>12, <1>17, <1>20, <1>21, <1>24, <1>25, <1>26

(* A write moves the end of the last view. *)
LEMMA WriteKeeps ==
  ASSUME MbInv, NEW o \in Owners, MbWrite(o)
  PROVE  /\ MbInv' /\ Aside(mbBuf, mbPkt, mbBuf', mbPkt', o) /\ mbPkt[o] # Nothing /\ mbPkt'[o] # Nothing
         /\ \E n \in 0 .. Len(mbWork[o].rest) :
              /\ AddsValue(mbBuf, mbPkt[o].views, mbBuf', mbPkt'[o].views, SubSeq(mbWork[o].rest, 1, n))
              /\ mbWork'[o].rest = SubSeq(mbWork[o].rest, n + 1, Len(mbWork[o].rest))
<1>1. PICK p, views : p = mbPkt[o] /\ views = p.views
  OBVIOUS
<1>2. PICK k, v : k = Len(views) /\ v = views[k]
  OBVIOUS
<1>3. PICK rest, m : rest = mbWork[o].rest /\ m = mbBuf[v.sh]
  OBVIOUS
<1>4. PICK room : room = Len(m.bytes) - v.tail
  OBVIOUS
<1>5. PICK n : n = IF Len(rest) < room THEN Len(rest) ELSE room
  OBVIOUS
<1>6. mbWork[o].at = "write" /\ Runs(o) /\ mbThreads' = mbThreads
  BY DEF MbWrite
<1>7. /\ p # Nothing /\ p \in Packet /\ p = [views |-> views, len |-> p.len]
      /\ mbWork[o] \in [at : {"idle", "test", "copy", "write"}, rest : Seq(Bytes)]
      /\ mbWork[o] = [at |-> mbWork[o].at, rest |-> mbWork[o].rest]
      /\ p.len + Len(mbWork[o].rest) <= MaxBytes
      /\ MbLast(views) = v /\ k \in 1 .. k /\ k \in Nat /\ k > 0
  BY <1>1, <1>2, <1>6, WorkIs
<1>8. /\ Sound(mbBuf, mbPkt) /\ mbPkt \in [Owners -> Packet \cup {Nothing}]
      /\ mbBuf \in [Buffers -> Memory \cup {Nothing}]
      /\ mbWork \in [Owners -> [at : {"idle", "test", "copy", "write"}, rest : Seq(Bytes)]]
  BY SoundTypes DEF MbInv, MbWorking
<1>9. views \in Seq(View) /\ p.len \in 0 .. MaxBytes /\ MaxBytes \in Nat
  BY <1>1, <1>7, MbAssumption DEF Packet
<1>10. \A j \in 1 .. Len(views) :
              /\ views[j] \in View /\ views[j].sh \in Buffers
              /\ views[j].data \in Nat /\ views[j].tail \in Nat
              /\ views[j].data <= views[j].tail /\ views[j].tail <= Len(mbBuf[views[j].sh].bytes)
              /\ mbBuf[views[j].sh] # Nothing /\ mbBuf[views[j].sh] \in Memory
  BY <1>1, <1>7, <1>8, PacketIs
<1>11. /\ v \in View /\ v.sh \in Buffers /\ v.data \in Nat /\ v.tail \in Nat
       /\ v.data <= v.tail /\ v.tail <= Len(m.bytes) /\ m # Nothing /\ m \in Memory
  BY <1>2, <1>3, <1>7, <1>10
<1>12. m = [refcnt |-> m.refcnt, bytes |-> m.bytes] /\ m.bytes \in Seq(Bytes) /\ m.refcnt \in Nat
       /\ Len(m.bytes) \in Nat /\ rest \in Seq(Bytes) /\ Len(rest) \in Nat
  <2>1. /\ m = [refcnt |-> m.refcnt, bytes |-> m.bytes] /\ m.bytes \in Seq(Bytes) /\ m.refcnt \in Nat
    BY <1>3, <1>8, <1>11, MemoryIs
  <2>2. rest \in Seq(Bytes)
    BY <1>3, <1>7
  <2> QED
    BY <2>1, <2>2
<1>13. room > 0 /\ room \in Nat
  <2>1. Room(v) = room
    BY <1>3, <1>4 DEF Room
  <2>2. room > 0
    BY <1>1, <1>7, <2>1 DEF MbWrite
  <2> QED
    BY <1>4, <1>11, <1>12, <2>2
<1>14. n \in Nat /\ n <= Len(rest) /\ v.tail + n <= Len(m.bytes) /\ n \in Int
  BY <1>4, <1>5, <1>11, <1>12, <1>13
<1>15. p.len + n \in 0 .. MaxBytes /\ p.len \in Nat
  BY <1>3, <1>7, <1>9, <1>12, <1>14
<1>16. PICK bytes : bytes = [i \in DOMAIN m.bytes |->
                               IF i \in v.tail + 1 .. v.tail + n THEN rest[i - v.tail] ELSE m.bytes[i]]
  OBVIOUS
<1>17. bytes \in Seq(Bytes) /\ Len(bytes) = Len(m.bytes)
  <2>1. PICK l \in Nat : l = Len(m.bytes) /\ DOMAIN m.bytes = 1 .. l
    BY <1>12
  <2>2. ASSUME NEW i \in 1 .. l PROVE bytes[i] \in Bytes
    <3>1. CASE i \in v.tail + 1 .. v.tail + n
      <4>1. i - v.tail \in 1 .. Len(rest)
        BY <1>11, <1>12, <1>14, <3>1
      <4> QED
        BY <1>12, <1>16, <2>1, <3>1, <4>1
    <3>2. CASE i \notin v.tail + 1 .. v.tail + n
      BY <1>12, <1>16, <2>1, <3>2
    <3> QED
      BY <3>1, <3>2
  <2>3. bytes = [i \in 1 .. l |-> bytes[i]]
    BY <1>16, <2>1
  <2>4. bytes \in [1 .. l -> Bytes]
    BY <2>2, <2>3
  <2> QED
    BY <2>1, <2>4
<1>18. PICK m2 : m2 = [refcnt |-> m.refcnt, bytes |-> bytes]
  OBVIOUS
<1>19. m2 \in Memory /\ m2 # Nothing /\ m2.refcnt = m.refcnt /\ Len(m2.bytes) = Len(m.bytes)
  <2>1. m2 \in Memory
    BY <1>12, <1>17, <1>18 DEF Memory
  <2> QED
    BY <1>17, <1>18, <2>1, MbAssumption
<1>20. PICK buf2, pkt2 : buf2 = mbBuf' /\ pkt2 = mbPkt'
  OBVIOUS
<1>21. buf2 = [mbBuf EXCEPT ![v.sh] = m2]
  <2>1. buf2 = [mbBuf EXCEPT ![v.sh].bytes =
                     [i \in DOMAIN @ |-> IF i \in v.tail + 1 .. v.tail + n THEN rest[i - v.tail] ELSE @[i]]]
    BY <1>1, <1>3, <1>4, <1>5, <1>7, <1>20 DEF MbWrite, Room
  <2>2. buf2 = [mbBuf EXCEPT ![v.sh] = [m EXCEPT !.bytes = bytes]]
    BY <1>3, <1>16, <2>1
  <2>3. [m EXCEPT !.bytes = bytes] = m2
    BY <1>12, <1>18
  <2> QED
    BY <2>2, <2>3
<1>22. buf2 \in [Buffers -> Memory \cup {Nothing}] /\ Alike(mbBuf, buf2)
  BY <1>3, <1>8, <1>11, <1>19, <1>21 DEF Alike
<1>23. PICK v2 : v2 = [sh |-> v.sh, data |-> v.data, tail |-> v.tail + n]
  OBVIOUS
<1>24. v2 \in View /\ Longer(v, v2, n) /\ Inside(mbBuf, v2)
  BY <1>3, <1>11, <1>14, <1>23 DEF View, Longer, Inside
<1>25. Shifts(mbPkt, pkt2, o, k, v2, n)
  <2>1. pkt2 = [mbPkt EXCEPT ![o].views[k].tail = @ + n, ![o].len = @ + n]
    BY <1>1, <1>2, <1>3, <1>4, <1>5, <1>7, <1>20 DEF MbWrite, Room
  <2>2. PICK two, l : two = [views EXCEPT ![k] = v2] /\ l = p.len
    OBVIOUS
  <2>3. [v EXCEPT !.tail = @ + n] = v2
    BY <1>11, <1>23 DEF View
  <2>4. [views EXCEPT ![k].tail = @ + n] = two
    BY <1>2, <2>2, <2>3
  <2>5. p = [views |-> views, len |-> l] /\ p.views = views
    BY <1>1, <1>7, <2>2
  <2>6. PICK q : q = [p EXCEPT !.views[k].tail = @ + n]
    OBVIOUS
  <2>7. q = [views |-> two, len |-> l]
    BY <2>4, <2>5, <2>6
  <2>8. q.len = p.len
    BY <2>2, <2>7
  <2>9. [q EXCEPT !.len = @ + n] = [views |-> two, len |-> l + n]
    BY <2>7
  <2>10. [p EXCEPT !.views[k].tail = @ + n, !.len = @ + n] = [q EXCEPT !.len = @ + n]
    BY <2>6, <2>8
  <2>11. pkt2 = [mbPkt EXCEPT ![o] = [views |-> two, len |-> l + n]]
    BY <1>1, <2>1, <2>9, <2>10
  <2> QED
    BY <1>1, <2>2, <2>11 DEF Shifts
<1>26. mbPkt[o] # Nothing /\ k \in 1 .. Len(mbPkt[o].views) /\ Longer(mbPkt[o].views[k], v2, n)
       /\ mbPkt[o].len + n \in 0 .. MaxBytes
  BY <1>1, <1>2, <1>7, <1>15, <1>24
<1>27. Sound(buf2, pkt2) /\ pkt2[o] # Nothing /\ pkt2[o].len = mbPkt[o].len + n
       /\ Shifted(mbPkt, pkt2, o, n) /\ \A q \in Owners : q # o => pkt2[q] = mbPkt[q]
  <2>1. Sound(buf2, pkt2)
    BY <1>8, <1>14, <1>22, <1>24, <1>25, <1>26, OneView
  <2>2. Shifted(mbPkt, pkt2, o, n)
    BY <1>8, <1>14, <1>22, <1>24, <1>25, <1>26, OneView
  <2> QED
    BY <2>1, <2>2 DEF Shifted
<1>28. ~mbThreads => \A b \in Buffers : buf2[b] # Nothing => buf2[b].refcnt > 0
  BY <1>22 DEF MbInv, MbAlone, Alike
<1>29. PICK w : w = IF n = Len(rest) THEN MbIdle ELSE [at |-> "test", rest |-> SubSeq(rest, n + 1, Len(rest))]
  OBVIOUS
<1>30. mbWork' = [mbWork EXCEPT ![o] = w]
  BY <1>1, <1>3, <1>4, <1>5, <1>7, <1>29 DEF MbWrite, Room
<1>31. /\ w \in [at : {"idle", "test", "copy", "write"}, rest : Seq(Bytes)]
       /\ w.at \in {"idle", "test"} /\ (w.at = "idle" => w = MbIdle)
       /\ w # MbIdle => Len(w.rest) = Len(rest) - n
  <2>1. CASE n = Len(rest)
    BY <1>29, <2>1 DEF MbIdle
  <2>2. CASE n # Len(rest)
    <3>1. PICK tail : tail = SubSeq(rest, n + 1, Len(rest))
      OBVIOUS
    <3>2. tail \in Seq(Bytes) /\ Len(tail) = Len(rest) - n
      BY <1>12, <1>14, <2>2, <3>1
    <3>3. w = [at |-> "test", rest |-> tail]
      BY <1>29, <2>2, <3>1
    <3> QED
      BY <3>2, <3>3
  <2> QED
    BY <2>1, <2>2
<1>32. /\ w # MbIdle => mbPkt'[o] # Nothing /\ mbPkt'[o].len + Len(w.rest) <= MaxBytes
       /\ ~mbThreads /\ w.at = "copy" => mbBuf'[MbLast(mbPkt'[o].views).sh].refcnt > 1
       /\ \A q \in Owners : q # o => mbPkt'[q] = mbPkt[q]
  <2>1. mbPkt'[o] # Nothing /\ mbPkt'[o].len = p.len + n /\ \A q \in Owners : q # o => mbPkt'[q] = mbPkt[q]
    BY <1>1, <1>20, <1>27
  <2>2. w # MbIdle => p.len + n + Len(w.rest) <= MaxBytes
    BY <1>3, <1>7, <1>9, <1>12, <1>14, <1>15, <1>31
  <2>3. w.at # "copy"
    BY <1>31
  <2> QED
    BY <2>1, <2>2, <2>3
<1>33. MbInv'
  <2>1. Spreads(mbBuf, mbPkt, pkt2, o)
    BY <1>27, ShiftedSpreads
  <2>2. w.at # "write"
    BY <1>31
  <2> QED
    BY <1>6, <1>20, <1>27, <1>28, <1>30, <1>31, <1>32, <2>1, <2>2, WorkKeeps
<1>34. Aside(mbBuf, mbPkt, buf2, pkt2, o)
  <2> SUFFICES ASSUME NEW q \in Owners, q # o
      PROVE  pkt2[q] = mbPkt[q] /\ \A b \in Buffers : Has(mbPkt[q], b) => buf2[b].bytes = mbBuf[b].bytes
    BY DEF Aside
  <2>1. pkt2[q] = mbPkt[q]
    BY <1>27
  <2>2. ~Has(mbPkt[q], v.sh)
    BY <1>1, <1>6, <1>7 DEF MbInv, MbWriters
  <2>3. \A b \in Buffers : b # v.sh => buf2[b] = mbBuf[b]
    BY <1>8, <1>21
  <2> QED
    BY <2>1, <2>2, <2>3
<1>35. PICK two : two = [views EXCEPT ![k] = v2]
  OBVIOUS
<1>36. /\ two \in Seq(View) /\ Len(two) = k /\ two[k] = v2 /\ k \in Nat \ {0}
       /\ \A j \in 1 .. k : j # k => two[j] = views[j]
  BY <1>2, <1>7, <1>9, <1>24, <1>35
<1>37. pkt2[o].views = two
  <2>1. pkt2 = [mbPkt EXCEPT ![o] = [views |-> two, len |-> mbPkt[o].len + n]]
    BY <1>1, <1>25, <1>35 DEF Shifts
  <2>2. pkt2[o] = [views |-> two, len |-> mbPkt[o].len + n]
    BY <1>8, <2>1
  <2> QED
    BY <2>2
<1>38. PICK t : t = SubSeq(rest, 1, n)
  OBVIOUS
<1>39. t \in Seq(Bytes) /\ Len(t) = n /\ \A i \in 1 .. n : t[i] = rest[i]
  BY <1>12, <1>14, <1>38
<1>40. AddsValue(mbBuf, views, buf2, two, t)
  <2>1. Rising(views)
    BY <1>9, <1>10 DEF Rising
  <2>2. ASSUME NEW j \in 1 .. k, j # k
        PROVE  two[j] = views[j] /\ buf2[two[j].sh].bytes = mbBuf[views[j].sh].bytes
    <3>1. two[j] = views[j] /\ views[j].sh \in Buffers
      BY <1>2, <1>10, <1>36, <2>2
    <3>2. views[j].sh # v.sh
      <4>1. EachOnce(views) /\ DOMAIN views = 1 .. k
        BY <1>1, <1>2, <1>7, <1>8, PacketIs
      <4> QED
        BY <1>2, <1>7, <2>2, <4>1 DEF EachOnce
    <3> QED
      BY <1>8, <1>21, <3>1, <3>2
  <2>3. two[k].data = views[k].data /\ two[k].tail = views[k].tail + Len(t)
    BY <1>2, <1>23, <1>36, <1>39
  <2>4. buf2[two[k].sh].bytes = bytes /\ mbBuf[views[k].sh].bytes = m.bytes
    BY <1>2, <1>3, <1>8, <1>11, <1>18, <1>21, <1>23, <1>36
  <2>5. WritesBehind(m.bytes, bytes, v, t)
    <3>1. PICK l \in Nat : l = Len(m.bytes) /\ DOMAIN m.bytes = 1 .. l
      BY <1>12
    <3>2. ASSUME NEW i \in v.data + 1 .. v.tail PROVE bytes[i] = m.bytes[i]
      <4>1. i \in 1 .. l /\ i \notin v.tail + 1 .. v.tail + n
        BY <1>11, <1>14, <3>1
      <4> QED
        BY <1>16, <3>1, <4>1
    <3>3. ASSUME NEW i \in 1 .. n PROVE bytes[v.tail + i] = t[i]
      <4>1. v.tail + i \in 1 .. l /\ v.tail + i \in v.tail + 1 .. v.tail + n /\ (v.tail + i) - v.tail = i
        BY <1>11, <1>14, <3>1
      <4> QED
        BY <1>16, <1>39, <3>1, <4>1
    <3> QED
      BY <1>39, <3>2, <3>3 DEF WritesBehind
  <2>6. WritesBehind(mbBuf[views[k].sh].bytes, buf2[two[k].sh].bytes, views[k], t)
    BY <1>2, <2>4, <2>5
  <2>7. \A j \in 1 .. k : j # k => two[j] = views[j] /\ buf2[two[j].sh].bytes = mbBuf[views[j].sh].bytes
    BY <2>2
  <2> QED
    BY <1>2, <1>9, <1>36, <1>39, <2>1, <2>3, <2>6, <2>7, SpellsMore
<1>41. mbWork'[o].rest = SubSeq(rest, n + 1, Len(rest))
  <2>1. mbWork'[o] = w
    BY <1>8, <1>30
  <2>2. CASE n = Len(rest)
    <3>1. w.rest = <<>>
      BY <1>29, <2>2 DEF MbIdle
    <3>2. SubSeq(rest, n + 1, Len(rest)) = <<>>
      BY <1>12, <2>2
    <3> QED
      BY <2>1, <3>1, <3>2
  <2>3. CASE n # Len(rest)
    <3>1. PICK tail : tail = SubSeq(rest, n + 1, Len(rest))
      OBVIOUS
    <3>2. w = [at |-> "test", rest |-> tail]
      BY <1>29, <2>3, <3>1
    <3>3. w.rest = tail
      BY <3>2
    <3> QED
      BY <2>1, <3>1, <3>3
  <2> QED
    BY <2>2, <2>3
<1>42. n \in 0 .. Len(rest)
  BY <1>12, <1>14
<1>43. \E i \in 0 .. Len(rest) : /\ AddsValue(mbBuf, views, buf2, two, SubSeq(rest, 1, i))
                                 /\ mbWork'[o].rest = SubSeq(rest, i + 1, Len(rest))
  BY <1>38, <1>40, <1>41, <1>42
<1> QED
  BY <1>1, <1>3, <1>7, <1>20, <1>27, <1>33, <1>34, <1>37, <1>43

(* The chain when an empty view of new memory is added.                    *)
LEMMA ChainMore ==
  ASSUME NEW views \in Seq(View), NEW v \in View, v.data = v.tail, EachOnce(views),
         \A k \in 1 .. Len(views) : views[k].sh # v.sh,
         NEW l, Measures(views, l), NEW two, two = Append(views, v)
  PROVE  /\ two \in Seq(View) /\ Len(two) = Len(views) + 1 /\ two[Len(views) + 1] = v
         /\ \A k \in 1 .. Len(views) : two[k] = views[k]
         /\ EachOnce(two) /\ Measures(two, l)
<1>1. /\ two \in Seq(View) /\ Len(two) = Len(views) + 1 /\ two[Len(views) + 1] = v
      /\ \A k \in 1 .. Len(views) : two[k] = views[k]
  OBVIOUS
<1>2. PICK n \in Nat : n = Len(views) /\ DOMAIN views = 1 .. n /\ DOMAIN two = 1 .. n + 1
  BY <1>1
<1>3. ASSUME NEW i \in 1 .. n + 1, NEW j \in 1 .. n + 1, two[i].sh = two[j].sh PROVE i = j
  <2>1. (i \in 1 .. n \/ i = n + 1) /\ (j \in 1 .. n \/ j = n + 1)
    OBVIOUS
  <2>2. CASE i \in 1 .. n /\ j \in 1 .. n
    <3>1. two[i] = views[i] /\ two[j] = views[j]
      BY <1>1, <1>2, <2>2
    <3> QED
      BY <1>2, <1>3, <2>2, <3>1 DEF EachOnce
  <2>3. CASE i = n + 1 /\ j \in 1 .. n
    BY <1>1, <1>2, <1>3, <2>3
  <2>4. CASE i \in 1 .. n /\ j = n + 1
    BY <1>1, <1>2, <1>3, <2>4
  <2> QED
    BY <2>1, <2>2, <2>3, <2>4
<1>4. EachOnce(two)
  BY <1>2, <1>3 DEF EachOnce
<1>5. PICK f : Marks(f, views) /\ l = f[Len(views)]
  BY DEF Measures
<1>6. Measures(two, l)
  BY <1>5, MarksMore
<1> QED
  BY <1>1, <1>4, <1>6

(* A fragment is an empty view of new memory. *)
LEMMA GrowKeeps ==
  ASSUME MbInv, NEW o \in Owners, MbGrow(o)
  PROVE  /\ MbInv' /\ Aside(mbBuf, mbPkt, mbBuf', mbPkt', o) /\ mbPkt[o] # Nothing /\ mbPkt'[o] # Nothing
         /\ KeepsValue(mbBuf, mbPkt[o].views, mbBuf', mbPkt'[o].views)
         /\ mbWork'[o].rest = mbWork[o].rest
<1>1. PICK p, views : p = mbPkt[o] /\ views = p.views
  OBVIOUS
<1>2. PICK k, last : k = Len(views) /\ last = views[k]
  OBVIOUS
<1>3. PICK nb, v : nb = NewBuffer /\ v = Whole(nb)
  OBVIOUS
<1>4. PICK fresh : fresh = Fresh(FragSize)
  OBVIOUS
<1>5. /\ mbWork[o].at = "write" /\ Runs(o) /\ Unused # {} /\ mbThreads' = mbThreads
      /\ mbBuf' = [mbBuf EXCEPT ![nb] = fresh] /\ mbWork' = [mbWork EXCEPT ![o].at = "test"]
  BY <1>3, <1>4 DEF MbGrow
<1>6. /\ p # Nothing /\ p \in Packet /\ p = [views |-> views, len |-> p.len]
      /\ mbWork[o] \in [at : {"idle", "test", "copy", "write"}, rest : Seq(Bytes)]
      /\ mbWork[o] = [at |-> mbWork[o].at, rest |-> mbWork[o].rest]
      /\ p.len + Len(mbWork[o].rest) <= MaxBytes
      /\ MbLast(views) = last /\ k \in 1 .. k /\ k \in Nat /\ k > 0
  BY <1>1, <1>2, <1>5, WorkIs
<1>7. /\ Sound(mbBuf, mbPkt) /\ mbPkt \in [Owners -> Packet \cup {Nothing}]
      /\ mbBuf \in [Buffers -> Memory \cup {Nothing}]
      /\ mbWork \in [Owners -> [at : {"idle", "test", "copy", "write"}, rest : Seq(Bytes)]]
  BY SoundTypes DEF MbInv, MbWorking
<1>8. views \in Seq(View) /\ DOMAIN views = 1 .. Len(views) /\ p.len \in 0 .. MaxBytes /\ MaxBytes \in Nat
  BY <1>1, <1>6, MbAssumption DEF Packet
<1>9. GoodPacket(mbBuf, p)
  BY <1>1, <1>6, <1>7 DEF Sound
<1>10. nb \in Buffers /\ mbBuf[nb] = Nothing
  BY <1>3, <1>5, NewIs
<1>11. /\ fresh \in Memory /\ fresh # Nothing /\ fresh.refcnt = 1 /\ Len(fresh.bytes) = FragSize
       /\ FragSize \in Nat /\ FragSize \in Sizes \cup {FragSize}
  BY <1>4, FreshIs
<1>12. v \in View /\ v.sh = nb /\ v.data = 0 /\ v.tail = 0 /\ v.data = v.tail
  BY <1>3, <1>10 DEF Whole, View
<1>13. PICK two : two = Append(views, v)
  OBVIOUS
<1>14. EachOnce(views) /\ Measures(views, p.len) /\ \A j \in 1 .. Len(views) : Inside(mbBuf, views[j])
  BY <1>1, <1>8, <1>9 DEF GoodPacket
<1>15. \A j \in 1 .. Len(views) : views[j].sh # v.sh
  BY <1>10, <1>12, <1>14 DEF Inside
<1>16. /\ two \in Seq(View) /\ Len(two) = Len(views) + 1 /\ two[Len(views) + 1] = v
       /\ \A j \in 1 .. Len(views) : two[j] = views[j]
  BY <1>8, <1>12, <1>13
<1>17. EachOnce(two) /\ Measures(two, p.len)
  <2>1. EachOnce(two)
    BY <1>8, <1>12, <1>13, <1>14, <1>15, ChainMore
  <2>2. Measures(two, p.len)
    BY <1>8, <1>12, <1>13, <1>14, <1>15, ChainMore
  <2> QED
    BY <2>1, <2>2
<1>18. /\ Len(two) = k + 1 /\ DOMAIN two = 1 .. k + 1 /\ DOMAIN views = 1 .. k /\ two[k + 1] = v
       /\ \A j \in 1 .. k : two[j] = views[j]
  <2>1. Len(two) = k + 1 /\ DOMAIN two = 1 .. Len(two)
    BY <1>2, <1>16
  <2> QED
    BY <1>2, <1>8, <1>16, <2>1
<1>19. \A j \in 1 .. k + 1 : j \in 1 .. k \/ j = k + 1
  BY <1>6
<1>20. PICK buf2, pkt2 : buf2 = mbBuf' /\ pkt2 = mbPkt'
  OBVIOUS
<1>21. /\ buf2 \in [Buffers -> Memory \cup {Nothing}] /\ buf2[nb] = fresh
       /\ \A b \in Buffers : b # nb => buf2[b] = mbBuf[b]
  BY <1>5, <1>7, <1>10, <1>11, <1>20
<1>22. PICK p2 : p2 = [views |-> two, len |-> p.len]
  OBVIOUS
<1>23. p2 \in Packet /\ p2.views = two /\ p2.len = p.len /\ p2 # Nothing
  <2>1. p2 \in Packet
    BY <1>8, <1>16, <1>22 DEF Packet
  <2> QED
    BY <1>22, <2>1, MbAssumption
<1>24. pkt2 = [mbPkt EXCEPT ![o] = p2]
  <2>1. pkt2 = [mbPkt EXCEPT ![o].views = Append(@, v)]
    BY <1>3, <1>20 DEF MbGrow
  <2>2. [p EXCEPT !.views = Append(@, v)] = p2
    <3>1. PICK l : l = p.len
      OBVIOUS
    <3>2. p = [views |-> views, len |-> l] /\ p2 = [views |-> two, len |-> l] /\ p.views = views
      BY <1>1, <1>6, <1>22, <3>1
    <3>3. Append(p.views, v) = two
      BY <1>13, <3>2
    <3>4. [p EXCEPT !.views = two] = p2
      BY <3>2
    <3> QED
      BY <3>3, <3>4
  <2> QED
    BY <1>1, <2>1, <2>2
<1>25. pkt2 \in [Owners -> Packet \cup {Nothing}] /\ Changes(mbPkt, pkt2, o, p2) /\ pkt2[o] = p2
  BY <1>7, <1>23, <1>24 DEF Changes
<1>26. ASSUME NEW b PROVE Has(p2, b) <=> b = nb \/ Has(p, b)
  <2>1. Has(p2, b) <=> \E j \in 1 .. k + 1 : b = two[j].sh
    BY <1>18, <1>23 DEF Has, Shared
  <2>2. Has(p, b) <=> \E j \in 1 .. k : b = views[j].sh
    BY <1>1, <1>6, <1>18 DEF Has, Shared
  <2>3. \A j \in 1 .. k : j \in 1 .. k + 1
    BY <1>6
  <2>4. k + 1 \in 1 .. k + 1
    BY <1>6
  <2> QED
    BY <1>12, <1>18, <1>19, <2>1, <2>2, <2>3, <2>4
<1>27. ~Has(p, nb)
  BY <1>1, <1>2, <1>8, <1>12, <1>15 DEF Has, Shared
<1>28. Moved(mbBuf, buf2, mbPkt[o], p2)
  <2> SUFFICES ASSUME NEW b \in Buffers
      PROVE  \/ mbBuf[b] = Nothing /\ buf2[b] = Nothing
             \/ /\ mbBuf[b] = Nothing /\ buf2[b] # Nothing /\ buf2[b].refcnt = Uses(p2, b)
                /\ Len(buf2[b].bytes) \in Sizes \cup {FragSize}
             \/ /\ mbBuf[b] # Nothing /\ buf2[b] # Nothing
                /\ buf2[b].refcnt = mbBuf[b].refcnt + Uses(p2, b) - Uses(p, b)
                /\ Len(buf2[b].bytes) = Len(mbBuf[b].bytes)
    BY <1>1 DEF Moved
  <2>1. CASE b = nb
    <3>1. Uses(p2, b) = 1
      BY <1>26, <2>1 DEF Uses
    <3> QED
      BY <1>10, <1>11, <1>21, <2>1, <3>1
  <2>2. CASE b # nb
    <3>1. Uses(p2, b) = Uses(p, b) /\ Uses(p, b) \in {0, 1} /\ buf2[b] = mbBuf[b]
      BY <1>21, <1>26, <2>2 DEF Uses
    <3>2. mbBuf[b] # Nothing => mbBuf[b].refcnt \in Nat
      BY <1>7, MemoryIs
    <3> QED
      BY <3>1, <3>2
  <2> QED
    BY <2>1, <2>2
<1>29. GoodPacket(buf2, p2)
  <2>1. ASSUME NEW j \in 1 .. k + 1 PROVE Inside(buf2, two[j])
    <3>1. CASE j = k + 1
      BY <1>11, <1>12, <1>18, <1>21, <3>1 DEF Inside
    <3>2. CASE j \in 1 .. k
      <4>1. two[j] = views[j] /\ Inside(mbBuf, views[j]) /\ views[j].sh # nb /\ views[j].sh \in Buffers
        <5>1. views[j] \in View
          BY <1>2, <1>8, <3>2
        <5> QED
          BY <1>2, <1>12, <1>14, <1>15, <1>18, <3>2, <5>1, ViewIs
      <4>2. buf2[views[j].sh] = mbBuf[views[j].sh]
        BY <1>21, <4>1
      <4> QED
        BY <4>1, <4>2 DEF Inside
    <3> QED
      BY <1>19, <3>1, <3>2
  <2>2. two # <<>>
    BY <1>6, <1>18
  <2> QED
    BY <1>17, <1>18, <1>23, <2>1, <2>2 DEF GoodPacket
<1>30. Sound(buf2, pkt2)
  BY <1>7, <1>21, <1>23, <1>25, <1>28, <1>29, MovedSound
<1>31. PICK w : w = [at |-> "test", rest |-> mbWork[o].rest]
  OBVIOUS
<1>32. mbWork' = [mbWork EXCEPT ![o] = w]
  <2>1. [mbWork[o] EXCEPT !.at = "test"] = w
    BY <1>6, <1>31
  <2> QED
    BY <1>5, <1>7, <2>1
<1>33. w.at = "test" /\ w.rest = mbWork[o].rest
       /\ w \in [at : {"idle", "test", "copy", "write"}, rest : Seq(Bytes)]
  BY <1>6, <1>31
<1>34. ~mbThreads => \A b \in Buffers : buf2[b] # Nothing => buf2[b].refcnt > 0
  BY <1>11, <1>21 DEF MbInv, MbAlone
<1>35. /\ (w.at = "idle" => w = MbIdle)
       /\ \A q \in Owners : q # o => mbPkt'[q] = mbPkt[q]
       /\ w # MbIdle => mbPkt'[o] # Nothing /\ mbPkt'[o].len + Len(w.rest) <= MaxBytes
       /\ ~mbThreads /\ w.at = "copy" => mbBuf'[MbLast(mbPkt'[o].views).sh].refcnt > 1
  BY <1>6, <1>20, <1>23, <1>25, <1>33 DEF Changes
<1>36. Spreads(mbBuf, mbPkt, pkt2, o)
  <2>1. \A b \in Buffers : mbBuf[b] # Nothing /\ Has(p2, b) => Has(mbPkt[o], b)
    BY <1>1, <1>10, <1>26
  <2> QED
    BY <1>25, <2>1, SpreadsFrom
<1>37. Aside(mbBuf, mbPkt, buf2, pkt2, o)
  <2>1. Untouched(mbBuf, buf2)
    BY <1>10, <1>21 DEF Untouched
  <2> QED
    BY <1>7, <1>25, <1>30, <2>1, StaysAside
<1>38. KeepsValue(mbBuf, views, buf2, two)
  <2>1. ASSUME NEW j \in 1 .. Len(views) PROVE buf2[views[j].sh].bytes = mbBuf[views[j].sh].bytes
    <3>1. views[j] \in View
      BY <1>8
    <3>2. views[j].sh \in Buffers /\ views[j].sh # nb
      BY <1>12, <1>15, <3>1, ViewIs
    <3> QED
      BY <1>21, <3>2
  <2> QED
    BY <1>8, <1>12, <1>13, <2>1, SpellsEmptyView
<1>39. MbInv'
  BY <1>5, <1>20, <1>30, <1>32, <1>33, <1>34, <1>35, <1>36, WorkKeeps
<1>40. mbWork'[o].rest = mbWork[o].rest
  BY <1>7, <1>32, <1>33
<1> QED
  BY <1>1, <1>6, <1>20, <1>23, <1>25, <1>37, <1>38, <1>39, <1>40

(* The chain that is left when it is cut, and the views after the cut.     *)
IsCut(views, two, rest, cut, v2) ==
  /\ two = [SubSeq(views, 1, cut) EXCEPT ![cut] = v2]
  /\ rest = SubSeq(views, cut + 1, Len(views))
Splits(views, two, rest) ==
  /\ \A b : b \in Shared(two) <=> b \in Shared(views) /\ b \notin Shared(rest)
  /\ Shared(rest) \subseteq Shared(views)

(* A chain that is cut at n measures n. *)
LEMMA ChainCut ==
  ASSUME NEW views \in Seq(View), NEW f, Marks(f, views), EachOnce(views), NEW n \in Int, NEW cut \in 1 .. Len(views),
         NEW v2 \in View, v2.sh = views[cut].sh, EndsAt(f, v2, cut, n),
         NEW two, NEW rest, IsCut(views, two, rest, cut, v2)
  PROVE  /\ two \in Seq(View) /\ Len(two) = cut /\ two[cut] = v2 /\ SameBelow(views, two, cut)
         /\ EachOnce(two) /\ Measures(two, n) /\ Splits(views, two, rest)
<1>1. Len(views) \in Nat /\ cut \in Nat /\ cut > 0 /\ cut <= Len(views) /\ DOMAIN views = 1 .. Len(views)
  OBVIOUS
<1>2. PICK head : head = SubSeq(views, 1, cut)
  OBVIOUS
<1>3. head \in Seq(View) /\ Len(head) = cut /\ \A j \in 1 .. cut : head[j] = views[j]
  BY <1>1, <1>2
<1>4. two = [head EXCEPT ![cut] = v2] /\ cut \in DOMAIN head
  BY <1>1, <1>2, <1>3 DEF IsCut
<1>5. /\ two \in Seq(View) /\ Len(two) = cut /\ two[cut] = v2 /\ DOMAIN two = 1 .. cut
      /\ \A j \in 1 .. cut : j # cut => two[j] = head[j]
  <2>1. DOMAIN head = 1 .. cut
    BY <1>3
  <2>2. two \in Seq(View) /\ Len(two) = Len(head) /\ DOMAIN two = DOMAIN head
    BY <1>3, <1>4
  <2>3. two[cut] = v2 /\ \A j \in DOMAIN head : j # cut => two[j] = head[j]
    BY <1>3, <1>4
  <2> QED
    BY <1>3, <2>1, <2>2, <2>3
<1>6. \A j \in 1 .. cut - 1 : two[j] = views[j] /\ j \in 1 .. cut /\ j # cut
  BY <1>1, <1>3, <1>5
<1>7. \A j \in 1 .. cut : two[j].sh = views[j].sh /\ j \in 1 .. Len(views)
  BY <1>1, <1>3, <1>5
<1>8. /\ DOMAIN rest = 1 .. Len(views) - cut
      /\ \A j \in 1 .. Len(views) - cut : rest[j] = views[j + cut]
  BY <1>1 DEF IsCut
<1>9. \A b : b \in Shared(two) <=> \E j \in 1 .. cut : b = views[j].sh
  BY <1>5, <1>7 DEF Shared
<1>10. \A b : b \in Shared(rest) <=> \E j \in 1 .. Len(views) : j > cut /\ b = views[j].sh
  <2> SUFFICES ASSUME NEW b
               PROVE  b \in Shared(rest) <=> \E j \in 1 .. Len(views) : j > cut /\ b = views[j].sh
    OBVIOUS
  <2>1. ASSUME b \in Shared(rest) PROVE \E j \in 1 .. Len(views) : j > cut /\ b = views[j].sh
    <3>1. PICK i \in 1 .. Len(views) - cut : b = rest[i].sh
      BY <1>8, <2>1 DEF Shared
    <3>2. i + cut \in 1 .. Len(views) /\ i + cut > cut
      BY <1>1, <3>1
    <3> QED
      BY <1>8, <3>1, <3>2
  <2>2. ASSUME NEW j \in 1 .. Len(views), j > cut, b = views[j].sh PROVE b \in Shared(rest)
    <3>1. PICK i : i = j - cut
      OBVIOUS
    <3>2. i \in 1 .. Len(views) - cut /\ i + cut = j
      BY <1>1, <2>2, <3>1
    <3>3. rest[i] = views[j]
      BY <1>8, <3>2
    <3> QED
      BY <1>8, <2>2, <3>2, <3>3 DEF Shared
  <2> QED
    BY <2>1, <2>2
<1>11. \A b : b \in Shared(views) <=> \E j \in 1 .. Len(views) : b = views[j].sh
  BY <1>1 DEF Shared
<1>12. \A i, j \in 1 .. Len(views) : views[i].sh = views[j].sh => i = j
  BY <1>1 DEF EachOnce
<1>13. \A j \in 1 .. Len(views) : j \in 1 .. cut \/ j > cut
  BY <1>1
<1>14. \A j \in 1 .. cut : ~(j > cut)
  BY <1>1
<1>15. ASSUME NEW b PROVE b \in Shared(two) <=> b \in Shared(views) /\ b \notin Shared(rest)
  <2>1. ASSUME NEW j \in 1 .. cut, b = views[j].sh PROVE b \in Shared(views) /\ b \notin Shared(rest)
    <3>1. j \in 1 .. Len(views) /\ ~(j > cut)
      BY <1>7, <1>14
    <3>2. \A i \in 1 .. Len(views) : b = views[i].sh => i = j
      BY <1>12, <2>1, <3>1
    <3> QED
      BY <1>10, <1>11, <2>1, <3>1, <3>2
  <2>2. ASSUME NEW j \in 1 .. Len(views), b = views[j].sh, b \notin Shared(rest) PROVE b \in Shared(two)
    BY <1>9, <1>10, <1>13, <2>2
  <2> QED
    BY <1>9, <1>11, <2>1, <2>2
<1>16. Shared(rest) \subseteq Shared(views)
  BY <1>10, <1>11
<1>17. EachOnce(two)
  BY <1>5, <1>7, <1>12 DEF EachOnce
<1>18. SameBelow(views, two, cut)
  BY <1>6 DEF SameBelow
<1>19. Measures(two, n)
  BY <1>5, <1>18, MarksCut
<1> QED
  BY <1>5, <1>15, <1>16, <1>17, <1>18, <1>19 DEF Splits

(* A trim gives up the views after the cut. *)
LEMMA TrimKeeps ==
  ASSUME MbInv, NEW o \in Owners, NEW n \in 0 .. MaxBytes, MbTrim(o, n)
  PROVE  /\ MbInv' /\ Aside(mbBuf, mbPkt, mbBuf', mbPkt', o) /\ mbPkt[o] # Nothing /\ mbPkt'[o] # Nothing
         /\ n <= mbPkt[o].len /\ CutsValue(mbBuf, mbPkt[o].views, mbBuf', mbPkt'[o].views, n)
<1>1. PICK p, views : p = mbPkt[o] /\ views = p.views
  OBVIOUS
<1>2. Calls(o) /\ p # Nothing /\ n < p.len /\ UNCHANGED <<mbWork, mbThreads>>
  BY <1>1 DEF MbTrim, Holds
<1>3. /\ Sound(mbBuf, mbPkt) /\ mbPkt \in [Owners -> Packet \cup {Nothing}]
      /\ mbBuf \in [Buffers -> Memory \cup {Nothing}]
  BY SoundTypes DEF MbInv
<1>4. p \in Packet /\ GoodPacket(mbBuf, p) /\ mbPkt[o] # Nothing
  BY <1>1, <1>2, <1>3 DEF Sound
<1>5. /\ views \in Seq(View) /\ DOMAIN views = 1 .. Len(views) /\ p.len \in 0 .. MaxBytes
      /\ MaxBytes \in Nat /\ n \in Nat /\ n \in Int
  BY <1>1, <1>4, MbAssumption DEF Packet
<1>6. EachOnce(views) /\ views # <<>> /\ Measures(views, p.len) /\ \A k \in DOMAIN views : Inside(mbBuf, views[k])
  BY <1>1, <1>4 DEF GoodPacket
<1>7. Len(views) > 0 /\ \A k \in DOMAIN views : views[k].data <= views[k].tail
  BY <1>5, <1>6 DEF Inside
<1>8. PICK f : Marks(f, views) /\ p.len = f[Len(views)]
  BY <1>6 DEF Measures
<1>9. \A k \in 0 .. Len(views) : Len(Upto(views)[k]) = f[k]
  BY <1>1, <1>3, <1>4, <1>8, UptoIs
<1>10. PICK over : over = {k \in DOMAIN views : f[k] > n}
  OBVIOUS
<1>11. PICK cut : cut = CHOOSE k \in over : \A j \in over : k <= j
  OBVIOUS
<1>12. over = {k \in DOMAIN views : Len(Upto(views)[k]) > n}
  <2>1. \A k \in DOMAIN views : Len(Upto(views)[k]) = f[k]
    BY <1>5, <1>9
  <2> QED
    BY <1>10, <2>1
<1>13. CutsAt(f, views, cut, n)
  BY <1>2, <1>5, <1>7, <1>8, <1>10, <1>11, CutIs
<1>14. /\ cut \in 1 .. Len(views) /\ f[cut - 1] <= n /\ n < f[cut] /\ cut - 1 \in 0 .. Len(views)
       /\ f[cut - 1] \in Int /\ f[cut] = f[cut - 1] + (views[cut].tail - views[cut].data)
  <2>1. cut \in 1 .. Len(views) /\ f[cut - 1] <= n /\ n < f[cut]
    BY <1>13 DEF CutsAt
  <2>2. cut - 1 \in 0 .. Len(views)
    BY <1>5, <2>1
  <2>3. f[cut - 1] \in Int /\ f[cut] = f[cut - 1] + (views[cut].tail - views[cut].data)
    BY <1>8, <2>1, <2>2 DEF Marks
  <2> QED
    BY <2>1, <2>2, <2>3
<1>15. PICK v, below : v = views[cut] /\ below = f[cut - 1]
  OBVIOUS
<1>16. /\ v \in View /\ v.sh \in Buffers /\ v.data \in Nat /\ v.tail \in Nat /\ Inside(mbBuf, v)
       /\ below \in Int /\ below <= n /\ n < below + (v.tail - v.data)
  <2>1. v \in View /\ Inside(mbBuf, v)
    BY <1>5, <1>6, <1>14, <1>15
  <2> QED
    BY <1>14, <1>15, <2>1, ViewIs
<1>17. PICK v2 : v2 = [sh |-> v.sh, data |-> v.data, tail |-> v.data + n - below]
  OBVIOUS
<1>18. /\ v2 \in View /\ v2.sh = v.sh /\ v2.tail - v2.data = n - below /\ v2.data <= v2.tail
       /\ v2.tail <= v.tail
  <2>1. v.data + n - below \in Nat /\ v.data + n - below <= v.tail /\ v.data <= v.data + n - below
        /\ (v.data + n - below) - v.data = n - below
    BY <1>5, <1>16
  <2>2. v2 \in View
    BY <1>16, <1>17, <2>1 DEF View
  <2> QED
    BY <1>17, <2>1, <2>2
<1>19. PICK two, rest : IsCut(views, two, rest, cut, v2)
  BY DEF IsCut
<1>20. v2.sh = views[cut].sh /\ EndsAt(f, v2, cut, n)
  BY <1>15, <1>18 DEF EndsAt
<1>21. two \in Seq(View) /\ Len(two) = cut /\ two[cut] = v2 /\ \A j \in 1 .. cut - 1 : two[j] = views[j]
  <2>1. two \in Seq(View) /\ Len(two) = cut /\ two[cut] = v2
    BY <1>5, <1>6, <1>8, <1>14, <1>18, <1>19, <1>20, ChainCut
  <2>2. SameBelow(views, two, cut)
    BY <1>5, <1>6, <1>8, <1>14, <1>18, <1>19, <1>20, ChainCut
  <2> QED
    BY <2>1, <2>2 DEF SameBelow
<1>22. EachOnce(two) /\ Measures(two, n)
  <2>1. EachOnce(two)
    BY <1>5, <1>6, <1>8, <1>14, <1>18, <1>19, <1>20, ChainCut
  <2>2. Measures(two, n)
    BY <1>5, <1>6, <1>8, <1>14, <1>18, <1>19, <1>20, ChainCut
  <2> QED
    BY <2>1, <2>2
<1>23. Splits(views, two, rest)
  BY <1>5, <1>6, <1>8, <1>14, <1>18, <1>19, <1>20, ChainCut
<1>24. /\ \A b : b \in Shared(two) <=> b \in Shared(views) /\ b \notin Shared(rest)
       /\ Shared(rest) \subseteq Shared(views)
  BY <1>23 DEF Splits
<1>25. PICK p2 : p2 = [views |-> two, len |-> n]
  OBVIOUS
<1>26. p2 \in Packet /\ p2.views = two /\ p2.len = n /\ p2 # Nothing
  <2>1. p2 \in Packet
    BY <1>21, <1>25 DEF Packet
  <2> QED
    BY <1>25, <2>1, MbAssumption
<1>27. PICK buf2, pkt2 : buf2 = mbBuf' /\ pkt2 = mbPkt'
  OBVIOUS
<1>28. buf2 = Release(mbBuf, rest) /\ pkt2 = [mbPkt EXCEPT ![o] = p2]
  <2>1. Len(Upto(views)[cut - 1]) = below
    BY <1>9, <1>14, <1>15
  <2>2. buf2 = Release(mbBuf, SubSeq(views, cut + 1, Len(views)))
    BY <1>1, <1>11, <1>12, <1>27 DEF MbTrim
  <2>3. pkt2 = [mbPkt EXCEPT ![o] = [views |-> [SubSeq(views, 1, cut) EXCEPT ![cut].tail = v.data + n - below], len |-> n]]
    BY <1>1, <1>11, <1>12, <1>15, <1>27, <2>1 DEF MbTrim
  <2>4. [SubSeq(views, 1, cut) EXCEPT ![cut].tail = v.data + n - below] = two
    <3>1. PICK head : head = SubSeq(views, 1, cut)
      OBVIOUS
    <3>2. head[cut] = v
      BY <1>5, <1>14, <1>15, <3>1
    <3>3. [v EXCEPT !.tail = v.data + n - below] = v2
      BY <1>16, <1>17 DEF View
    <3> QED
      BY <1>19, <3>1, <3>2, <3>3 DEF IsCut
  <2> QED
    BY <1>19, <1>25, <2>2, <2>3, <2>4 DEF IsCut
<1>29. \A b \in Buffers : Has(p2, b) <=> Has(mbPkt[o], b) /\ b \notin Shared(rest)
  BY <1>1, <1>4, <1>24, <1>26 DEF Has
<1>30. Shared(rest) \subseteq Shared(mbPkt[o].views)
  BY <1>1, <1>24
<1>31. /\ buf2 \in [Buffers -> Memory \cup {Nothing}] /\ Moved(mbBuf, buf2, mbPkt[o], p2)
       /\ \A b \in Buffers : b \notin Shared(rest) => buf2[b] = mbBuf[b]
       /\ \A b \in Buffers : buf2[b] # Nothing => mbBuf[b] # Nothing
       /\ \A b \in Buffers : buf2[b] # Nothing /\ mbBuf[b].refcnt > 0 => buf2[b].refcnt > 0
       /\ Untouched(mbBuf, buf2)
  BY <1>3, <1>4, <1>28, <1>29, <1>30, GivesUp
<1>32. GoodPacket(buf2, p2)
  <2>1. ASSUME NEW j \in 1 .. cut PROVE Inside(buf2, two[j])
    <3>1. PICK u : u = two[j]
      OBVIOUS
    <3>2. u.sh \in Shared(two)
      <4>1. j \in DOMAIN two
        BY <1>21
      <4> QED
        BY <3>1, <4>1 DEF Shared
    <3>3. Inside(mbBuf, u)
      <4>1. CASE j = cut
        <5>1. u = v2 /\ v.tail <= Len(mbBuf[v.sh].bytes) /\ mbBuf[v.sh] # Nothing /\ v2.tail \in Nat
          BY <1>16, <1>18, <1>21, <3>1, <4>1 DEF Inside, View
        <5>2. Len(mbBuf[v.sh].bytes) \in Nat
          BY <1>3, <1>16, <5>1, MemoryIs
        <5> QED
          BY <1>16, <1>18, <5>1, <5>2 DEF Inside
      <4>2. CASE j # cut
        <5>1. j \in 1 .. cut - 1 /\ j \in DOMAIN views
          BY <1>5, <1>14, <4>2
        <5> QED
          BY <1>6, <1>21, <3>1, <5>1
      <4> QED
        BY <4>1, <4>2
    <3>4. u.sh \in Buffers
      <4>1. two[j] \in View
        BY <1>21
      <4> QED
        BY <3>1, <4>1, ViewIs
    <3>5. buf2[u.sh] = mbBuf[u.sh]
      BY <1>24, <1>31, <3>2, <3>4
    <3> QED
      BY <3>1, <3>3, <3>5 DEF Inside
  <2>2. two # <<>> /\ DOMAIN two = 1 .. cut
    BY <1>14, <1>21
  <2> QED
    BY <1>22, <1>26, <2>1, <2>2 DEF GoodPacket
<1>33. pkt2 \in [Owners -> Packet \cup {Nothing}] /\ Changes(mbPkt, pkt2, o, p2)
  BY <1>3, <1>26, <1>28 DEF Changes
<1>34. Sound(buf2, pkt2)
  BY <1>3, <1>26, <1>31, <1>32, <1>33, MovedSound
<1>35. ~mbThreads => \A b \in Buffers : buf2[b] # Nothing => buf2[b].refcnt > 0
  BY <1>31 DEF MbInv, MbAlone
<1>36. \A q \in Owners : q # o /\ mbPkt[q] # Nothing => mbPkt'[q] = mbPkt[q]
  BY <1>27, <1>33 DEF Changes
<1>37. MbInv'
  <2>1. \A b \in Buffers : mbBuf[b] # Nothing /\ Has(p2, b) => Has(mbPkt[o], b)
    BY <1>29
  <2>2. Spreads(mbBuf, mbPkt, pkt2, o)
    BY <1>33, <2>1, SpreadsFrom
  <2> QED
    BY <1>2, <1>27, <1>34, <1>35, <1>36, <2>2, CallKeeps
<1>38. Aside(mbBuf, mbPkt, buf2, pkt2, o)
  BY <1>3, <1>31, <1>33, <1>34, StaysAside
<1>39. CutsValue(mbBuf, views, buf2, two, n)
  <2>1. Rising(views)
    BY <1>5, <1>7 DEF Rising
  <2>2. ASSUME NEW j \in 1 .. cut
        PROVE  (j # cut => two[j] = views[j]) /\ buf2[two[j].sh].bytes = mbBuf[views[j].sh].bytes
    <3>1. j # cut => two[j] = views[j]
      <4>1. j # cut => j \in 1 .. cut - 1
        BY <1>14
      <4> QED
        BY <1>21, <4>1
    <3>2. two[j].sh = views[j].sh
      BY <1>15, <1>18, <1>21, <3>1
    <3>3. two[j].sh \in Shared(two) /\ two[j].sh \in Buffers
      <4>1. two[j] \in View /\ j \in DOMAIN two
        BY <1>21
      <4> QED
        BY <4>1, ViewIs DEF Shared
    <3>4. buf2[two[j].sh] = mbBuf[two[j].sh]
      BY <1>24, <1>31, <3>3
    <3> QED
      BY <3>1, <3>2, <3>4
  <2>3. two[cut].data = views[cut].data /\ two[cut].tail - two[cut].data = n - f[cut - 1]
    BY <1>15, <1>17, <1>18, <1>21
  <2>4. f[cut - 1] <= n /\ n <= f[cut]
    BY <1>5, <1>14, <1>15, <1>16
  <2> QED
    BY <1>5, <1>8, <1>14, <1>21, <2>1, <2>2, <2>3, <2>4, SpellsCut
<1>40. n <= p.len
  BY <1>2, <1>5
<1>41. pkt2[o] = p2
  BY <1>33 DEF Changes
<1> QED
  BY <1>1, <1>2, <1>26, <1>27, <1>37, <1>38, <1>39, <1>40, <1>41

(***************************************************************************)
(* The theorem                                                             *)
(***************************************************************************)

(* At the start there is no memory and no packet.                          *)
LEMMA MbInitially == MbInit => MbInv
<1> SUFFICES ASSUME MbInit PROVE MbInv
  OBVIOUS
<1>1. /\ mbBuf = [b \in Buffers |-> Nothing] /\ mbPkt = [o \in Owners |-> Nothing]
      /\ mbWork = [o \in Owners |-> MbIdle] /\ mbThreads \in BOOLEAN
  BY DEF MbInit
<1>2. Sound(mbBuf, mbPkt)
  BY <1>1 DEF Sound
<1>3. MbIdle \in [at : {"idle", "test", "copy", "write"}, rest : Seq(Bytes)] /\ MbIdle.at = "idle"
  BY DEF MbIdle
<1>4. MbWorking
  BY <1>1, <1>3 DEF MbWorking
<1>5. MbAlone
  BY <1>1, <1>3 DEF MbAlone
<1>6. MbWriters
  BY <1>1, <1>3 DEF MbWriters
<1> QED
  BY <1>1, <1>2, <1>4, <1>5, <1>6 DEF MbInv

(* Every operation keeps the invariant.                                    *)
LEMMA MbStep == MbInv /\ [MbNext]_mbVars => MbInv'
<1> SUFFICES ASSUME MbInv, [MbNext]_mbVars PROVE MbInv'
  OBVIOUS
<1>1. ASSUME NEW o \in Owners, NEW size \in Sizes, MbAlloc(o, size) PROVE MbInv'
  BY <1>1, AllocKeeps
<1>2. ASSUME NEW o \in Owners, MbFree(o) PROVE MbInv'
  BY <1>2, FreeKeeps
<1>3. ASSUME NEW o \in Owners, NEW q \in Owners, MbClone(o, q) PROVE MbInv'
  BY <1>3, CloneKeeps
<1>4. ASSUME NEW o \in Owners, NEW s \in Inputs, MbAppend(o, s) PROVE MbInv'
  BY <1>4, AppendKeeps
<1>5. ASSUME NEW o \in Owners, MbTest(o) PROVE MbInv'
  BY <1>5, TestKeeps
<1>6. ASSUME NEW o \in Owners, MbCopy(o) PROVE MbInv'
  BY <1>6, CopyKeeps
<1>7. ASSUME NEW o \in Owners, MbWrite(o) PROVE MbInv'
  BY <1>7, WriteKeeps
<1>8. ASSUME NEW o \in Owners, MbGrow(o) PROVE MbInv'
  BY <1>8, GrowKeeps
<1>9. ASSUME NEW o \in Owners, NEW n \in 0 .. MaxBytes, MbPull(o, n) PROVE MbInv'
  BY <1>9, PullKeeps
<1>10. ASSUME NEW o \in Owners, NEW n \in 0 .. MaxBytes, MbTrim(o, n) PROVE MbInv'
  BY <1>10, TrimKeeps
<1>11. CASE UNCHANGED mbVars
  BY <1>11 DEF mbVars, MbInv, MbWorking, MbAlone, MbWriters
<1>12. CASE MbNext
  BY <1>1, <1>2, <1>3, <1>4, <1>5, <1>6, <1>7, <1>8, <1>9, <1>10, <1>12 DEF MbNext
<1> QED
  BY <1>11, <1>12

(* A buffer has one user per packet that holds it.                         *)
LEMMA UsersAreHolders ==
  ASSUME Sound(mbBuf, mbPkt), NEW b \in Buffers
  PROVE  Cardinality(Users(b)) = Cardinality(HoldersOf(mbPkt, b))
<1> DEFINE H == HoldersOf(mbPkt, b)
           Where(o) == CHOOSE k \in DOMAIN mbPkt[o].views : mbPkt[o].views[k].sh = b
           f == [o \in H |-> <<o, Where(o)>>]
<1>1. ASSUME NEW o \in H
      PROVE  /\ o \in Owners /\ mbPkt[o] # Nothing /\ Where(o) \in DOMAIN mbPkt[o].views
             /\ mbPkt[o].views[Where(o)].sh = b
  <2>1. o \in Owners /\ Has(mbPkt[o], b)
    BY DEF HoldersOf
  <2>2. \E k \in DOMAIN mbPkt[o].views : mbPkt[o].views[k].sh = b
    BY <2>1 DEF Has, Shared
  <2> QED
    BY <2>1, <2>2 DEF Has
<1>2. \A o \in H : \A j, k \in DOMAIN mbPkt[o].views : mbPkt[o].views[j].sh = mbPkt[o].views[k].sh => j = k
  BY <1>1 DEF Sound, GoodPacket, EachOnce
<1>3. \A x : x \in Users(b) <=> \E o \in H : \E k \in DOMAIN mbPkt[o].views : mbPkt[o].views[k].sh = b /\ x = <<o, k>>
  BY DEF Users, HoldersOf, Has, Shared
<1>4. \A x : x \in Users(b) <=> \E o \in H : x = <<o, Where(o)>>
  <2> HIDE DEF H, Where
  <2> SUFFICES ASSUME NEW x PROVE x \in Users(b) <=> \E o \in H : x = <<o, Where(o)>>
    OBVIOUS
  <2>1. ASSUME x \in Users(b) PROVE \E o \in H : x = <<o, Where(o)>>
    <3>1. PICK o \in H : \E k \in DOMAIN mbPkt[o].views : mbPkt[o].views[k].sh = b /\ x = <<o, k>>
      BY <1>3, <2>1
    <3>2. PICK k \in DOMAIN mbPkt[o].views : mbPkt[o].views[k].sh = b /\ x = <<o, k>>
      BY <3>1
    <3>3. k = Where(o)
      BY <1>1, <1>2, <3>2
    <3> QED
      BY <3>2, <3>3
  <2>2. ASSUME NEW o \in H, x = <<o, Where(o)>> PROVE x \in Users(b)
    <3>1. Where(o) \in DOMAIN mbPkt[o].views /\ mbPkt[o].views[Where(o)].sh = b
      BY <1>1
    <3> QED
      BY <1>3, <2>2, <3>1
  <2> QED
    BY <2>1, <2>2
<1>5. f \in Bijection(H, Users(b))
  <2>1. \A o \in H : f[o] = <<o, Where(o)>>
    OBVIOUS
  <2>2. DOMAIN f = H
    OBVIOUS
  <2> HIDE DEF H, Where, f
  <2>3. f \in [H -> Users(b)]
    <3>1. f = [o \in H |-> f[o]]
      BY DEF f
    <3> QED
      BY <1>4, <2>1, <3>1
  <2>4. \A o, q \in H : f[o] = f[q] => o = q
    BY <2>1
  <2>5. \A x \in Users(b) : \E o \in H : f[o] = x
    BY <1>4, <2>1
  <2> QED
    BY <2>3, <2>4, <2>5 DEF Bijection, Injection, Surjection, IsInjective
<1>6. IsFiniteSet(H)
  <2>1. H \subseteq Owners
    BY DEF HoldersOf
  <2> QED
    BY <2>1, FS_Subset, MbAssumption
<1> HIDE DEF H, f
<1>7. ExistsBijection(H, Users(b))
  BY <1>5 DEF ExistsBijection
<1>8. Cardinality(Users(b)) = Cardinality(H)
  BY <1>6, <1>7, FS_Bijection
<1> QED
  BY <1>8 DEF H

(* The counts follow from the invariant.                                   *)
LEMMA CountsAreExact == MbInv => MbCounts
<1> SUFFICES ASSUME MbInv PROVE MbCounts
  OBVIOUS
<1>1. Sound(mbBuf, mbPkt)
  BY DEF MbInv
<1>2. ASSUME NEW o \in Owners, mbPkt[o] # Nothing, NEW b \in Shared(mbPkt[o].views) PROVE mbBuf[b] # Nothing
  <2>1. PICK p : p = mbPkt[o]
    OBVIOUS
  <2> QED
    BY <1>1, <1>2, <2>1, SharedIs
<1>3. ASSUME NEW b \in Buffers, mbBuf[b] # Nothing
      PROVE  mbBuf[b].refcnt = Cardinality(Users(b)) /\ (mbBuf[b].refcnt = 0 => mbThreads)
  <2>1. mbBuf[b].refcnt = Cardinality(HoldersOf(mbPkt, b))
    BY <1>1, <1>3 DEF Sound
  <2>2. mbBuf[b].refcnt = Cardinality(Users(b))
    BY <1>1, <2>1, UsersAreHolders
  <2>3. mbBuf[b].refcnt = 0 => mbThreads
    BY <1>3 DEF MbInv, MbAlone
  <2> QED
    BY <2>2, <2>3
<1> QED
  BY <1>2, <1>3 DEF MbCounts

(* The inductive invariant holds of every state.                           *)
THEOREM MbInvariant == MbSpec => []MbInv
BY MbInitially, MbStep, PTL DEF MbSpec

(* Reference counts are exact: no packet views memory that was freed, and  *)
(* refcnt is the number of views, whoever clones, appends, trims, pulls or *)
(* frees, and however the owners of clones interleave                      *)
(* (packet.c:39-283).                                                      *)
THEOREM CountsHold == MbSpec => []MbCounts
BY CountsAreExact, MbInvariant, PTL

(***************************************************************************)
(* Packets are strings of bytes                                            *)
(***************************************************************************)

(* The bytes of each owner's packet, and with those still to append.       *)
Val == [o \in Owners |-> IF mbPkt[o] = Nothing THEN <<>> ELSE Value(mbPkt[o].views)]
Packets == [o \in Owners |->
              IF mbPkt[o] = Nothing THEN Nothing ELSE Value(mbPkt[o].views) \o mbWork[o].rest]

(* A packet says s. *)
Says(buf, p, s) ==
  /\ Rising(p.views) /\ Spells(buf, p.views, s)
  /\ s \in Seq(Bytes) /\ Len(s) = p.len
AllSay == \A o \in Owners : mbPkt[o] # Nothing => Says(mbBuf, mbPkt[o], Val[o])

(* Every packet says its value.                                            *)
LEMMA PacketsSay == MbInv => AllSay
<1> SUFFICES ASSUME MbInv, NEW o \in Owners, mbPkt[o] # Nothing PROVE Says(mbBuf, mbPkt[o], Val[o])
  BY DEF AllSay
<1>1. Sound(mbBuf, mbPkt)
  BY DEF MbInv
<1>2. PICK p, views, s : p = mbPkt[o] /\ views = p.views /\ s = Val[o]
  OBVIOUS
<1>3. s = Value(views)
  BY <1>2 DEF Val
<1>4. /\ views \in Seq(View) /\ Len(views) \in Nat /\ DOMAIN views = 1 .. Len(views)
      /\ \A k \in 1 .. Len(views) : views[k].data <= views[k].tail
      /\ Measures(views, p.len)
  BY <1>1, <1>2, PacketIs
<1>5. Rising(views)
  BY <1>4 DEF Rising
<1>6. Spells(mbBuf, views, s)
  BY <1>1, <1>2, <1>3, ValueSpelt
<1>7. PICK f : Marks(f, views) /\ p.len = f[Len(views)]
  BY <1>4 DEF Measures
<1>8. \A k \in 0 .. Len(views) : Upto(views)[k] \in Seq(Bytes) /\ Len(Upto(views)[k]) = f[k]
  BY <1>1, <1>2, <1>7, UptoIs
<1>9. s \in Seq(Bytes) /\ Len(s) = p.len
  <2>1. Len(views) \in 0 .. Len(views)
    BY <1>4
  <2> QED
    BY <1>3, <1>7, <1>8, <2>1 DEF Value
<1> QED
  BY <1>2, <1>5, <1>6, <1>9 DEF Says

(* Also after a step.                                                      *)
LEMMA PacketsSayNext == MbInv' => AllSay'
BY PacketsSay, PTL

(* What an abstract packet is.                                             *)
LEMMA PacketsAre ==
  ASSUME MbInv, NEW o \in Owners
  PROVE  /\ mbPkt[o] = Nothing => Packets[o] = Nothing
         /\ mbPkt[o] # Nothing =>
              /\ Packets[o] = Val[o] \o mbWork[o].rest /\ Packets[o] # Nothing
              /\ Val[o] \in Seq(Bytes) /\ mbWork[o].rest \in Seq(Bytes) /\ Len(Val[o]) = mbPkt[o].len
<1>1. ASSUME mbPkt[o] # Nothing
      PROVE  /\ Packets[o] = Val[o] \o mbWork[o].rest /\ Packets[o] # Nothing
             /\ Val[o] \in Seq(Bytes) /\ mbWork[o].rest \in Seq(Bytes) /\ Len(Val[o]) = mbPkt[o].len
  <2>1. Says(mbBuf, mbPkt[o], Val[o])
    BY <1>1, PacketsSay DEF AllSay
  <2>2. PICK s, t : s = Val[o] /\ t = mbWork[o].rest
    OBVIOUS
  <2>3. s \in Seq(Bytes) /\ Len(s) = mbPkt[o].len
    BY <2>1, <2>2 DEF Says
  <2>4. t \in Seq(Bytes)
    BY <2>2 DEF MbInv, MbWorking
  <2>5. s \o t \in Seq(Bytes)
    BY <2>3, <2>4
  <2>6. Packets[o] = s \o t
    BY <1>1, <2>2 DEF Packets, Val
  <2> QED
    BY <2>2, <2>3, <2>4, <2>5, <2>6, MbAssumption
<1>2. mbPkt[o] = Nothing => Packets[o] = Nothing
  BY DEF Packets
<1> QED
  BY <1>1, <1>2

(* What it is after a step, when it says s then.                           *)
LEMMA NextSays ==
  ASSUME MbInv', NEW o \in Owners, mbPkt'[o] # Nothing, NEW s, Spells(mbBuf', mbPkt'[o].views, s)
  PROVE  Val'[o] = s
<1>1. PICK buf2, pkt2, val2 : buf2 = mbBuf' /\ pkt2 = mbPkt' /\ val2 = Val'
  OBVIOUS
<1>2. Says(buf2, pkt2[o], val2[o])
  BY <1>1, PacketsSayNext DEF AllSay
<1>3. Rising(pkt2[o].views) /\ Spells(buf2, pkt2[o].views, val2[o])
  BY <1>2 DEF Says
<1>4. Spells(buf2, pkt2[o].views, s)
  BY <1>1
<1>5. val2[o] = s
  BY <1>3, <1>4, SpellsOnce
<1> QED
  BY <1>1, <1>5

(* The bytes of the owners that stay aside stay as they are.               *)
LEMMA OthersSay ==
  ASSUME MbInv, MbInv', NEW c, Aside(mbBuf, mbPkt, mbBuf', mbPkt', c), NEW q \in Owners, q # c
  PROVE  mbPkt'[q] = mbPkt[q] /\ (mbPkt[q] # Nothing => Val'[q] = Val[q])
<1>1. PICK p, views, s : p = mbPkt[q] /\ views = p.views /\ s = Val[q]
  OBVIOUS
<1>2. PICK buf2 : buf2 = mbBuf'
  OBVIOUS
<1>3. mbPkt'[q] = p /\ \A b \in Buffers : Has(p, b) => buf2[b].bytes = mbBuf[b].bytes
  BY <1>1, <1>2 DEF Aside
<1>4. ASSUME p # Nothing PROVE Val'[q] = s
  <2>1. Says(mbBuf, p, s)
    BY <1>1, <1>4, PacketsSay DEF AllSay
  <2>2. Sound(mbBuf, mbPkt)
    BY DEF MbInv
  <2>3. \A k \in 1 .. Len(views) : views[k].sh \in Buffers /\ Has(p, views[k].sh)
    BY <1>1, <1>4, <2>2, PacketIs
  <2>4. AlikeViews(mbBuf, views, buf2, views)
    BY <1>3, <2>3 DEF AlikeViews
  <2>5. Spells(mbBuf, views, s)
    BY <1>1, <2>1 DEF Says
  <2>6. Spells(buf2, views, s)
    BY <2>4, <2>5, SpellsAlike DEF KeepsValue
  <2> QED
    BY <1>1, <1>2, <1>3, <1>4, <2>6, NextSays
<1> QED
  BY <1>1, <1>3, <1>4

(* A step of one owner, seen from outside.                                 *)
LEMMA OneSays ==
  ASSUME MbInv, MbInv', NEW c \in Owners, Aside(mbBuf, mbPkt, mbBuf', mbPkt', c),
         \A q \in Owners : q # c => mbWork'[q] = mbWork[q],
         NEW t, t = IF mbPkt'[c] = Nothing THEN Nothing ELSE Val'[c] \o mbWork'[c].rest
  PROVE  Packets' = [Packets EXCEPT ![c] = t]
<1>1. PICK pack, pack2 : pack = Packets /\ pack2 = Packets'
  OBVIOUS
<1>2. pack = [o \in Owners |-> pack[o]] /\ pack2 = [o \in Owners |-> pack2[o]]
  BY <1>1 DEF Packets
<1>3. pack2[c] = t
  BY <1>1 DEF Packets, Val
<1>4. ASSUME NEW q \in Owners, q # c PROVE pack2[q] = pack[q]
  <2>1. mbPkt'[q] = mbPkt[q] /\ mbWork'[q] = mbWork[q]
    BY <1>4, OthersSay
  <2>2. CASE mbPkt[q] = Nothing
    BY <1>1, <2>1, <2>2 DEF Packets
  <2>3. CASE mbPkt[q] # Nothing
    <3>1. Val'[q] = Val[q]
      BY <1>4, <2>3, OthersSay
    <3>2. pack[q] = Val[q] \o mbWork[q].rest
      BY <1>1, <2>3 DEF Packets, Val
    <3>3. pack2[q] = Val'[q] \o mbWork'[q].rest
      BY <1>1, <2>1, <2>3 DEF Packets, Val
    <3> QED
      BY <2>1, <3>1, <3>2, <3>3
  <2> QED
    BY <2>2, <2>3
<1>5. pack2 = [pack EXCEPT ![c] = t]
  BY <1>2, <1>3, <1>4
<1> QED
  BY <1>1, <1>5

(* A string in two parts, joined to another one.                           *)
LEMMA JoinedAgain ==
  ASSUME NEW s \in Seq(Bytes), NEW t \in Seq(Bytes), NEW n \in 0 .. Len(t)
  PROVE  (s \o SubSeq(t, 1, n)) \o SubSeq(t, n + 1, Len(t)) = s \o t
<1>1. PICK head, tail : head = SubSeq(t, 1, n) /\ tail = SubSeq(t, n + 1, Len(t))
  OBVIOUS
<1>2. /\ head \in Seq(Bytes) /\ Len(head) = n /\ \A i \in 1 .. n : head[i] = t[i]
      /\ n \in Nat /\ Len(t) \in Nat /\ Len(s) \in Nat /\ n <= Len(t)
  BY <1>1
<1>3. tail \in Seq(Bytes) /\ Len(tail) = Len(t) - n /\ \A i \in 1 .. Len(t) - n : tail[i] = t[n + i]
  BY <1>1, <1>2
<1>4. PICK two, whole, all : two = s \o head /\ whole = two \o tail /\ all = s \o t
  OBVIOUS
<1>5. /\ two \in Seq(Bytes) /\ Len(two) = Len(s) + n
      /\ \A i \in 1 .. Len(s) + n : two[i] = IF i <= Len(s) THEN s[i] ELSE head[i - Len(s)]
  <2>1. /\ two \in Seq(Bytes) /\ Len(two) = Len(s) + Len(head)
        /\ \A i \in 1 .. Len(s) + Len(head) : two[i] = IF i <= Len(s) THEN s[i] ELSE head[i - Len(s)]
    BY <1>2, <1>4, JoinedIs
  <2> QED
    BY <1>2, <2>1
<1>6. /\ whole \in Seq(Bytes) /\ Len(whole) = Len(s) + Len(t)
      /\ \A i \in 1 .. Len(s) + Len(t) : whole[i] = IF i <= Len(s) + n THEN two[i] ELSE tail[i - (Len(s) + n)]
  <2>1. /\ whole \in Seq(Bytes) /\ Len(whole) = Len(two) + Len(tail)
        /\ \A i \in 1 .. Len(two) + Len(tail) : whole[i] = IF i <= Len(two) THEN two[i] ELSE tail[i - Len(two)]
    <3>1. two \in Seq(Bytes) /\ tail \in Seq(Bytes) /\ whole = two \o tail
      BY <1>3, <1>4, <1>5
    <3> QED
      BY <3>1, JoinedIs
  <2>2. Len(two) = Len(s) + n /\ Len(two) + Len(tail) = Len(s) + Len(t)
    BY <1>2, <1>3, <1>5
  <2> QED
    BY <2>1, <2>2
<1>7. /\ all \in Seq(Bytes) /\ Len(all) = Len(s) + Len(t)
      /\ \A i \in 1 .. Len(s) + Len(t) : all[i] = IF i <= Len(s) THEN s[i] ELSE t[i - Len(s)]
  BY <1>2, <1>4
<1>8. ASSUME NEW i \in 1 .. Len(s) + Len(t) PROVE whole[i] = all[i]
  <2>1. CASE i <= Len(s)
    <3>1. i <= Len(s) + n /\ i \in 1 .. Len(s) + n
      BY <1>2, <2>1
    <3> QED
      BY <1>5, <1>6, <1>7, <2>1, <3>1
  <2>2. CASE ~(i <= Len(s)) /\ i <= Len(s) + n
    <3>1. i \in 1 .. Len(s) + n /\ i - Len(s) \in 1 .. n
      BY <1>2, <2>2
    <3> QED
      BY <1>2, <1>5, <1>6, <1>7, <2>2, <3>1
  <2>3. CASE ~(i <= Len(s) + n)
    <3>1. i - (Len(s) + n) \in 1 .. Len(t) - n /\ n + (i - (Len(s) + n)) = i - Len(s) /\ ~(i <= Len(s))
      BY <1>2, <2>3
    <3> QED
      BY <1>3, <1>6, <1>7, <2>3, <3>1
  <2> QED
    BY <2>1, <2>2, <2>3
<1>9. whole = all
  BY <1>6, <1>7, <1>8
<1> QED
  BY <1>1, <1>4, <1>9

(* An owner that is not appending has nothing left to append.              *)
LEMMA IdleRests ==
  ASSUME NEW o, Calls(o)
  PROVE  mbWork[o].rest = <<>>
BY DEF Calls, MbIdle

(* The empty string adds nothing.                                          *)
LEMMA AddsNothing ==
  ASSUME NEW s \in Seq(Bytes), NEW t, t = <<>>
  PROVE  s \o t = s /\ <<>> \o <<>> = <<>>
OBVIOUS

(* A new packet is empty.                                                  *)
LEMMA AllocSays ==
  ASSUME MbInv, NEW o \in Owners, NEW size \in Sizes, MbAlloc(o, size)
  PROVE  Strings!Create(o)
<1>1. /\ MbInv' /\ Aside(mbBuf, mbPkt, mbBuf', mbPkt', o)
      /\ mbPkt'[o] # Nothing /\ Spells(mbBuf', mbPkt'[o].views, <<>>)
  BY AllocKeeps
<1>2. Calls(o) /\ mbPkt[o] = Nothing /\ mbWork' = mbWork
  BY DEF MbAlloc
<1>3. Val'[o] = <<>>
  BY <1>1, NextSays
<1>4. mbWork'[o].rest = <<>>
  BY <1>2, IdleRests
<1>5. PICK t : t = IF mbPkt'[o] = Nothing THEN Nothing ELSE Val'[o] \o mbWork'[o].rest
  OBVIOUS
<1>6. t = <<>>
  <2>1. t = <<>> \o <<>>
    BY <1>1, <1>3, <1>4, <1>5
  <2> QED
    BY <2>1, AddsNothing
<1>7. Packets' = [Packets EXCEPT ![o] = <<>>]
  BY <1>1, <1>2, <1>5, <1>6, OneSays
<1>8. Packets[o] = Nothing
  BY <1>2, PacketsAre
<1> QED
  BY <1>7, <1>8 DEF Strings!Create, Strings!Has, Packets

(* A freed packet is gone. *)
LEMMA FreeSays ==
  ASSUME MbInv, NEW o \in Owners, MbFree(o)
  PROVE  Strings!Free(o)
<1>1. MbInv' /\ Aside(mbBuf, mbPkt, mbBuf', mbPkt', o) /\ mbPkt'[o] = Nothing
  BY FreeKeeps
<1>2. mbPkt[o] # Nothing /\ mbWork' = mbWork
  BY DEF MbFree, Holds
<1>3. Packets' = [Packets EXCEPT ![o] = Nothing]
  <2>1. PICK t : t = IF mbPkt'[o] = Nothing THEN Nothing ELSE Val'[o] \o mbWork'[o].rest
    OBVIOUS
  <2>2. t = Nothing
    BY <1>1, <2>1
  <2> QED
    BY <1>1, <1>2, <2>1, <2>2, OneSays
<1>4. Packets[o] # Nothing
  BY <1>2, PacketsAre
<1> QED
  BY <1>3, <1>4 DEF Strings!Free, Strings!Has, Packets

(* A step that leaves one owner's bytes as they are, and what it appends.  *)
LEMMA KeepsPackets ==
  ASSUME MbInv, MbInv', NEW c \in Owners, Aside(mbBuf, mbPkt, mbBuf', mbPkt', c),
         \A q \in Owners : q # c => mbWork'[q] = mbWork[q],
         mbPkt[c] # Nothing, mbPkt'[c] # Nothing,
         KeepsValue(mbBuf, mbPkt[c].views, mbBuf', mbPkt'[c].views)
  PROVE  /\ Packets' = [Packets EXCEPT ![c] = Val[c] \o mbWork'[c].rest]
         /\ mbWork'[c].rest = mbWork[c].rest => Packets' = Packets
<1>1. Spells(mbBuf, mbPkt[c].views, Val[c])
  BY PacketsSay DEF AllSay, Says
<1>2. Spells(mbBuf', mbPkt'[c].views, Val[c])
  BY <1>1 DEF KeepsValue
<1>3. Val'[c] = Val[c]
  BY <1>2, NextSays
<1>4. PICK t : t = IF mbPkt'[c] = Nothing THEN Nothing ELSE Val'[c] \o mbWork'[c].rest
  OBVIOUS
<1>5. Packets' = [Packets EXCEPT ![c] = t]
  BY <1>4, OneSays
<1>6. t = Val[c] \o mbWork'[c].rest
  BY <1>3, <1>4
<1>7. ASSUME mbWork'[c].rest = mbWork[c].rest PROVE Packets' = Packets
  <2>1. Packets[c] = t
    BY <1>6, <1>7, PacketsAre
  <2>2. Packets = [o \in Owners |-> Packets[o]]
    BY DEF Packets
  <2> QED
    BY <1>5, <2>1, <2>2
<1> QED
  BY <1>5, <1>6, <1>7

(* A step that changes neither memory nor packets.                         *)
LEMMA StaysPackets ==
  ASSUME MbInv, MbInv', mbBuf' = mbBuf, mbPkt' = mbPkt, NEW c \in Owners, mbPkt[c] # Nothing,
         \A q \in Owners : q # c => mbWork'[q] = mbWork[q]
  PROVE  /\ Packets' = [Packets EXCEPT ![c] = Val[c] \o mbWork'[c].rest]
         /\ mbWork'[c].rest = mbWork[c].rest => Packets' = Packets
<1>1. Aside(mbBuf, mbPkt, mbBuf', mbPkt', c)
  BY DEF Aside
<1>2. KeepsValue(mbBuf, mbPkt[c].views, mbBuf', mbPkt'[c].views)
  BY DEF KeepsValue
<1>3. mbPkt'[c] # Nothing
  OBVIOUS
<1>4. Packets' = [Packets EXCEPT ![c] = Val[c] \o mbWork'[c].rest]
  BY <1>1, <1>2, <1>3, KeepsPackets
<1>5. mbWork'[c].rest = mbWork[c].rest => Packets' = Packets
  BY <1>1, <1>2, <1>3, KeepsPackets
<1> QED
  BY <1>4, <1>5

(* A clone says what its packet says.                                      *)
LEMMA CloneSays ==
  ASSUME MbInv, NEW o \in Owners, NEW q \in Owners, MbClone(o, q)
  PROVE  Strings!Clone(o, q) \/ Packets' = Packets
<1>1. /\ MbInv'
      /\ \/ mbBuf' = mbBuf /\ mbPkt' = mbPkt
         \/ Aside(mbBuf, mbPkt, mbBuf', mbPkt', q) /\ mbPkt'[q] = mbPkt[o]
  BY CloneKeeps
<1>2. Calls(o) /\ mbPkt[o] # Nothing /\ mbPkt[q] = Nothing /\ mbWork' = mbWork
  BY DEF MbClone, Holds
<1>3. CASE mbBuf' = mbBuf /\ mbPkt' = mbPkt
  BY <1>1, <1>2, <1>3, StaysPackets
<1>4. CASE Aside(mbBuf, mbPkt, mbBuf', mbPkt', q) /\ mbPkt'[q] = mbPkt[o]
  <2>1. o # q
    BY <1>2
  <2>2. mbPkt'[o] = mbPkt[o] /\ Val'[o] = Val[o]
    BY <1>1, <1>2, <1>4, <2>1, OthersSay
  <2>3. Spells(mbBuf', mbPkt'[o].views, Val'[o])
    <3>1. AllSay'
      BY <1>1, PacketsSayNext
    <3> QED
      BY <1>2, <2>2, <3>1 DEF AllSay, Says
  <2>4. Val'[q] = Val[o]
    BY <1>1, <1>2, <1>4, <2>2, <2>3, NextSays
  <2>5. mbWork[q].rest = <<>>
    <3>1. mbWork[q] = MbIdle
      BY <1>2 DEF MbInv, MbWorking
    <3> QED
      BY <3>1 DEF MbIdle
  <2>6. Packets[o] = Val[o] \o mbWork[o].rest /\ mbWork[o].rest = <<>> /\ Packets[o] # Nothing
    BY <1>2, PacketsAre, IdleRests
  <2>7. PICK t : t = IF mbPkt'[q] = Nothing THEN Nothing ELSE Val'[q] \o mbWork'[q].rest
    OBVIOUS
  <2>8. t = Packets[o]
    BY <1>2, <1>4, <2>4, <2>5, <2>6, <2>7
  <2>9. Packets' = [Packets EXCEPT ![q] = Packets[o]]
    BY <1>1, <1>2, <1>4, <2>7, <2>8, OneSays
  <2>10. Packets[q] = Nothing
    BY <1>2, PacketsAre
  <2>11. Strings!Clone(o, q)
    BY <2>6, <2>9, <2>10 DEF Strings!Clone, Strings!Has, Packets
  <2> QED
    BY <2>11
<1> QED
  BY <1>1, <1>3, <1>4

(* A call of append_large shows at once: its bytes are the packet's.       *)
LEMMA AppendSays ==
  ASSUME MbInv, NEW o \in Owners, NEW s \in Inputs, MbAppend(o, s)
  PROVE  Strings!Append_(o, s)
<1>1. MbInv'
  BY AppendKeeps
<1>2. /\ Calls(o) /\ mbPkt[o] # Nothing /\ mbBuf' = mbBuf /\ mbPkt' = mbPkt
      /\ mbWork' = [mbWork EXCEPT ![o] = [at |-> "test", rest |-> s]]
  BY DEF MbAppend, Holds
<1>3. mbWork'[o].rest = s /\ \A q \in Owners : q # o => mbWork'[q] = mbWork[q]
  BY <1>2 DEF MbInv, MbWorking
<1>4. Packets' = [Packets EXCEPT ![o] = Val[o] \o s]
  BY <1>1, <1>2, <1>3, StaysPackets
<1>5. /\ Packets[o] = Val[o] \o mbWork[o].rest /\ mbWork[o].rest = <<>> /\ Packets[o] # Nothing
      /\ Val[o] \in Seq(Bytes)
  BY <1>2, PacketsAre, IdleRests
<1>6. Packets[o] = Val[o]
  BY <1>5, AddsNothing
<1>7. Packets' = [Packets EXCEPT ![o] = Packets[o] \o s]
  BY <1>4, <1>6
<1> QED
  BY <1>5, <1>7 DEF Strings!Append_, Strings!Has, Packets

(* The steps of append_large do not show.                                  *)
LEMMA TestSays ==
  ASSUME MbInv, NEW o \in Owners, MbTest(o)
  PROVE  Packets' = Packets
<1>1. MbInv'
  BY TestKeeps
<1>2. mbWork[o].at = "test" /\ mbBuf' = mbBuf /\ mbPkt' = mbPkt
  BY DEF MbTest
<1>3. PICK at : mbWork' = [mbWork EXCEPT ![o].at = at]
  BY DEF MbTest
<1>4. mbWork'[o].rest = mbWork[o].rest /\ \A q \in Owners : q # o => mbWork'[q] = mbWork[q]
  <2>1. mbWork \in [Owners -> [at : {"idle", "test", "copy", "write"}, rest : Seq(Bytes)]]
    BY DEF MbInv, MbWorking
  <2> QED
    BY <1>3, <2>1
<1>5. mbPkt[o] # Nothing
  <2>1. mbWork[o] # MbIdle
    BY <1>2 DEF MbIdle
  <2> QED
    BY <2>1 DEF MbInv, MbWorking
<1> QED
  BY <1>1, <1>2, <1>4, <1>5, StaysPackets

(* Neither does a copy. *)
LEMMA CopySays ==
  ASSUME MbInv, NEW o \in Owners, MbCopy(o)
  PROVE  Packets' = Packets
<1>1. /\ MbInv' /\ Aside(mbBuf, mbPkt, mbBuf', mbPkt', o) /\ mbPkt[o] # Nothing /\ mbPkt'[o] # Nothing
      /\ KeepsValue(mbBuf, mbPkt[o].views, mbBuf', mbPkt'[o].views)
      /\ mbWork'[o].rest = mbWork[o].rest
  BY CopyKeeps
<1>2. \A q \in Owners : q # o => mbWork'[q] = mbWork[q]
  BY DEF MbCopy, MbInv, MbWorking
<1> QED
  BY <1>1, <1>2, KeepsPackets

(* Nor a fragment, which is empty. *)
LEMMA GrowSays ==
  ASSUME MbInv, NEW o \in Owners, MbGrow(o)
  PROVE  Packets' = Packets
<1>1. /\ MbInv' /\ Aside(mbBuf, mbPkt, mbBuf', mbPkt', o) /\ mbPkt[o] # Nothing /\ mbPkt'[o] # Nothing
      /\ KeepsValue(mbBuf, mbPkt[o].views, mbBuf', mbPkt'[o].views)
      /\ mbWork'[o].rest = mbWork[o].rest
  BY GrowKeeps
<1>2. \A q \in Owners : q # o => mbWork'[q] = mbWork[q]
  BY DEF MbGrow, MbInv, MbWorking
<1> QED
  BY <1>1, <1>2, KeepsPackets

(* What is written moves from the rest to the packet.                      *)
LEMMA WriteSays ==
  ASSUME MbInv, NEW o \in Owners, MbWrite(o)
  PROVE  Packets' = Packets
<1>1. /\ MbInv' /\ Aside(mbBuf, mbPkt, mbBuf', mbPkt', o) /\ mbPkt[o] # Nothing /\ mbPkt'[o] # Nothing
      /\ \E n \in 0 .. Len(mbWork[o].rest) :
           /\ AddsValue(mbBuf, mbPkt[o].views, mbBuf', mbPkt'[o].views, SubSeq(mbWork[o].rest, 1, n))
           /\ mbWork'[o].rest = SubSeq(mbWork[o].rest, n + 1, Len(mbWork[o].rest))
  BY WriteKeeps
<1>2. PICK s, rest : s = Val[o] /\ rest = mbWork[o].rest
  OBVIOUS
<1>3. PICK n \in 0 .. Len(rest) :
        /\ AddsValue(mbBuf, mbPkt[o].views, mbBuf', mbPkt'[o].views, SubSeq(rest, 1, n))
        /\ mbWork'[o].rest = SubSeq(rest, n + 1, Len(rest))
  BY <1>1, <1>2
<1>4. Packets[o] = s \o rest /\ s \in Seq(Bytes) /\ rest \in Seq(Bytes)
  BY <1>1, <1>2, PacketsAre
<1>5. Spells(mbBuf, mbPkt[o].views, s)
  BY <1>1, <1>2, PacketsSay DEF AllSay, Says
<1>6. Spells(mbBuf', mbPkt'[o].views, s \o SubSeq(rest, 1, n))
  BY <1>3, <1>5 DEF AddsValue
<1>7. Val'[o] = s \o SubSeq(rest, 1, n)
  BY <1>1, <1>6, NextSays
<1>8. PICK t : t = IF mbPkt'[o] = Nothing THEN Nothing ELSE Val'[o] \o mbWork'[o].rest
  OBVIOUS
<1>9. t = Packets[o]
  <2>1. t = (s \o SubSeq(rest, 1, n)) \o SubSeq(rest, n + 1, Len(rest))
    BY <1>1, <1>3, <1>7, <1>8
  <2> QED
    BY <1>4, <2>1, JoinedAgain
<1>10. \A q \in Owners : q # o => mbWork'[q] = mbWork[q]
  BY DEF MbWrite, MbInv, MbWorking
<1>11. Packets' = [Packets EXCEPT ![o] = t]
  BY <1>1, <1>8, <1>10, OneSays
<1>12. Packets = [q \in Owners |-> Packets[q]]
  BY DEF Packets
<1> QED
  BY <1>9, <1>11, <1>12

(* The bytes of a packet that is called: nothing is left to append.        *)
LEMMA HeldSays ==
  ASSUME MbInv, NEW o \in Owners, Holds(o)
  PROVE  /\ Packets[o] = Val[o] /\ Packets[o] # Nothing
         /\ Val[o] \in Seq(Bytes) /\ Len(Val[o]) = mbPkt[o].len
         /\ Spells(mbBuf, mbPkt[o].views, Val[o])
<1>1. Calls(o) /\ mbPkt[o] # Nothing
  BY DEF Holds
<1>2. /\ Packets[o] = Val[o] \o mbWork[o].rest /\ mbWork[o].rest = <<>> /\ Packets[o] # Nothing
      /\ Val[o] \in Seq(Bytes) /\ Len(Val[o]) = mbPkt[o].len
  BY <1>1, PacketsAre, IdleRests
<1>3. Packets[o] = Val[o]
  BY <1>2, AddsNothing
<1>4. Spells(mbBuf, mbPkt[o].views, Val[o])
  BY <1>1, PacketsSay DEF AllSay, Says
<1> QED
  BY <1>2, <1>3, <1>4

(* A call on a packet that leaves the bytes t. *)
LEMMA CallSays ==
  ASSUME MbInv, MbInv', NEW o \in Owners, Holds(o), mbWork' = mbWork,
         Aside(mbBuf, mbPkt, mbBuf', mbPkt', o), mbPkt'[o] # Nothing,
         NEW s \in Seq(Bytes), Spells(mbBuf', mbPkt'[o].views, s)
  PROVE  Packets' = [Packets EXCEPT ![o] = s]
<1>1. Val'[o] = s
  BY NextSays
<1>2. mbWork'[o].rest = <<>>
  BY IdleRests DEF Holds
<1>3. PICK t : t = IF mbPkt'[o] = Nothing THEN Nothing ELSE Val'[o] \o mbWork'[o].rest
  OBVIOUS
<1>4. t = s
  <2>1. t = s \o <<>>
    BY <1>1, <1>2, <1>3
  <2> QED
    BY <2>1, AddsNothing
<1> QED
  BY <1>3, <1>4, OneSays

(* A pull drops the first bytes.                                           *)
LEMMA PullSays ==
  ASSUME MbInv, NEW o \in Owners, NEW n \in 0 .. MaxBytes, MbPull(o, n)
  PROVE  Strings!Has(o) /\ n \in 0 .. Len(Packets[o]) /\ Strings!Pull(o, n)
<1>1. /\ MbInv' /\ Aside(mbBuf, mbPkt, mbBuf', mbPkt', o) /\ mbPkt[o] # Nothing /\ mbPkt'[o] # Nothing
      /\ n <= mbPkt[o].len /\ DropsValue(mbBuf, mbPkt[o].views, mbBuf', mbPkt'[o].views, n)
  BY PullKeeps
<1>2. Holds(o) /\ mbWork' = mbWork
  BY DEF MbPull
<1>3. PICK s, l : s = Val[o] /\ l = mbPkt[o].len
  OBVIOUS
<1>4. /\ Packets[o] = s /\ Packets[o] # Nothing /\ s \in Seq(Bytes) /\ Len(s) = l
      /\ Spells(mbBuf, mbPkt[o].views, s)
  BY <1>2, <1>3, HeldSays
<1>5. Spells(mbBuf', mbPkt'[o].views, SubSeq(s, n + 1, Len(s)))
  BY <1>1, <1>4 DEF DropsValue
<1>6. n \in Nat /\ n \in 0 .. Len(s) /\ SubSeq(s, n + 1, Len(s)) \in Seq(Bytes)
  <2>1. n \in Nat
    BY MbAssumption
  <2>2. n \in 0 .. Len(s)
    BY <1>1, <1>3, <1>4, <2>1
  <2> QED
    BY <1>4, <2>1, <2>2
<1>7. Packets' = [Packets EXCEPT ![o] = SubSeq(s, n + 1, Len(s))]
  BY <1>1, <1>2, <1>5, <1>6, CallSays
<1>8. Packets' = [Packets EXCEPT ![o] = SubSeq(Packets[o], n + 1, Len(Packets[o]))]
  BY <1>4, <1>7
<1>9. Strings!Has(o)
  BY <1>4 DEF Strings!Has, Packets
<1>10. Strings!Pull(o, n)
  BY <1>4, <1>8 DEF Strings!Pull, Strings!Has, Packets
<1> QED
  BY <1>4, <1>6, <1>9, <1>10

(* A trim keeps the first bytes.                                           *)
LEMMA TrimSays ==
  ASSUME MbInv, NEW o \in Owners, NEW n \in 0 .. MaxBytes, MbTrim(o, n)
  PROVE  Strings!Has(o) /\ n \in 0 .. Len(Packets[o]) /\ Strings!Trim(o, n)
<1>1. /\ MbInv' /\ Aside(mbBuf, mbPkt, mbBuf', mbPkt', o) /\ mbPkt[o] # Nothing /\ mbPkt'[o] # Nothing
      /\ n <= mbPkt[o].len /\ CutsValue(mbBuf, mbPkt[o].views, mbBuf', mbPkt'[o].views, n)
  BY TrimKeeps
<1>2. Holds(o) /\ mbWork' = mbWork
  BY DEF MbTrim
<1>3. PICK s, l : s = Val[o] /\ l = mbPkt[o].len
  OBVIOUS
<1>4. /\ Packets[o] = s /\ Packets[o] # Nothing /\ s \in Seq(Bytes) /\ Len(s) = l
      /\ Spells(mbBuf, mbPkt[o].views, s)
  BY <1>2, <1>3, HeldSays
<1>5. Spells(mbBuf', mbPkt'[o].views, SubSeq(s, 1, n))
  BY <1>1, <1>4 DEF CutsValue
<1>6. n \in Nat /\ n \in 0 .. Len(s) /\ SubSeq(s, 1, n) \in Seq(Bytes)
  <2>1. n \in Nat
    BY MbAssumption
  <2>2. n \in 0 .. Len(s)
    BY <1>1, <1>3, <1>4, <2>1
  <2> QED
    BY <1>4, <2>1, <2>2
<1>7. Packets' = [Packets EXCEPT ![o] = SubSeq(s, 1, n)]
  BY <1>1, <1>2, <1>5, <1>6, CallSays
<1>8. Packets' = [Packets EXCEPT ![o] = SubSeq(Packets[o], 1, n)]
  BY <1>4, <1>7
<1>9. Strings!Has(o)
  BY <1>4 DEF Strings!Has, Packets
<1>10. Strings!Trim(o, n)
  BY <1>4, <1>8 DEF Strings!Trim, Strings!Has, Packets
<1> QED
  BY <1>4, <1>6, <1>9, <1>10

(* At the start nobody has a packet.                                       *)
LEMMA StringsInitially == MbInit => Strings!Init
BY DEF MbInit, Strings!Init

(* Every step is one of strings, or does not show. *)
LEMMA StringsStep == MbInv /\ [MbNext]_mbVars => Strings!Next \/ Packets' = Packets
<1> SUFFICES ASSUME MbInv, [MbNext]_mbVars PROVE Strings!Next \/ Packets' = Packets
  OBVIOUS
<1>1. ASSUME NEW o \in Owners, NEW size \in Sizes, MbAlloc(o, size) PROVE Strings!Next
  BY <1>1, AllocSays DEF Strings!Next
<1>2. ASSUME NEW o \in Owners, MbFree(o) PROVE Strings!Next
  BY <1>2, FreeSays DEF Strings!Next
<1>3. ASSUME NEW o \in Owners, NEW q \in Owners, MbClone(o, q) PROVE Strings!Next \/ Packets' = Packets
  BY <1>3, CloneSays DEF Strings!Next
<1>4. ASSUME NEW o \in Owners, NEW s \in Inputs, MbAppend(o, s) PROVE Strings!Next
  BY <1>4, AppendSays DEF Strings!Next
<1>5. ASSUME NEW o \in Owners, MbTest(o) PROVE Packets' = Packets
  BY <1>5, TestSays
<1>6. ASSUME NEW o \in Owners, MbCopy(o) PROVE Packets' = Packets
  BY <1>6, CopySays
<1>7. ASSUME NEW o \in Owners, MbWrite(o) PROVE Packets' = Packets
  BY <1>7, WriteSays
<1>8. ASSUME NEW o \in Owners, MbGrow(o) PROVE Packets' = Packets
  BY <1>8, GrowSays
<1>9. ASSUME NEW o \in Owners, NEW n \in 0 .. MaxBytes, MbPull(o, n) PROVE Strings!Next
  BY <1>9, PullSays DEF Strings!Next, Packets
<1>10. ASSUME NEW o \in Owners, NEW n \in 0 .. MaxBytes, MbTrim(o, n) PROVE Strings!Next
  BY <1>10, TrimSays DEF Strings!Next, Packets
<1>11. CASE UNCHANGED mbVars
  <2>1. MbInv' /\ mbBuf' = mbBuf /\ mbPkt' = mbPkt /\ mbWork' = mbWork
    BY <1>11, MbStep DEF mbVars
  <2>2. Packets = [q \in Owners |-> Packets[q]] /\ Packets' = [q \in Owners |-> Packets'[q]]
    BY DEF Packets
  <2>3. ASSUME NEW q \in Owners PROVE Packets'[q] = Packets[q]
    <3>1. CASE mbPkt[q] = Nothing
      BY <2>1, <3>1 DEF Packets
    <3>2. CASE mbPkt[q] # Nothing
      BY <2>1, <3>2, StaysPackets
    <3> QED
      BY <3>1, <3>2
  <2> QED
    BY <2>2, <2>3
<1>12. CASE MbNext
  BY <1>1, <1>2, <1>3, <1>4, <1>5, <1>6, <1>7, <1>8, <1>9, <1>10, <1>12 DEF MbNext
<1> QED
  BY <1>11, <1>12

(* Copies, clones, fragments and reference counts do not show: each owner  *)
(* has a string of bytes that only its own calls change, also while other  *)
(* owners append to clones of its packet at the same time                  *)
(* (packet.c:39-283).                                                      *)
THEOREM PacketsAreValues == MbSpec => MbPacketsAreValues
<1>1. MbInv /\ [MbNext]_mbVars => [Strings!Next]_Packets
  BY StringsStep
<1> QED
  BY <1>1, StringsInitially, MbInvariant, PTL DEF MbSpec, MbPacketsAreValues, Strings!Spec, Packets

(***************************************************************************)
(* What reads return                                                       *)
(***************************************************************************)

(* t is the n entries of s that follow the first a.                        *)
PieceOf(t, s, a, n) == t \in Seq(Bytes) /\ Len(t) = n /\ \A i \in 1 .. n : t[i] = s[a + i]

(* The first bytes of s, at most len.                                      *)
Short(s, len) == SubSeq(s, 1, IF Len(s) < len THEN Len(s) ELSE len)
AtMost(len, x) == IF len < x THEN len ELSE x

(* A piece that lies in s is what SubSeq takes out of it.                  *)
LEMMA PieceIsSubSeq ==
  ASSUME NEW s \in Seq(Bytes), NEW a \in Nat, NEW n \in Nat, a + n <= Len(s), NEW t, PieceOf(t, s, a, n)
  PROVE  t = SubSeq(s, a + 1, a + n)
<1>1. PICK b \in Nat : b = a + n
  OBVIOUS
<1>2. PICK u : u = SubSeq(s, a + 1, b)
  OBVIOUS
<1>3. u \in Seq(Bytes) /\ Len(u) = b - a /\ \A i \in 1 .. b - a : u[i] = s[a + i]
  <2>1. a <= b /\ b <= Len(s)
    BY <1>1
  <2> QED
    BY <1>2, <2>1, PieceIs
<1>4. b - a = n
  BY <1>1
<1>5. t \in Seq(Bytes) /\ Len(t) = n /\ \A i \in 1 .. n : t[i] = s[a + i]
  BY DEF PieceOf
<1>6. t = u
  <2>1. \A i \in 1 .. n : t[i] = u[i]
    BY <1>3, <1>4, <1>5
  <2>2. t \in Seq(Bytes) /\ u \in Seq(Bytes) /\ Len(t) = n /\ Len(u) = n
    BY <1>3, <1>4, <1>5
  <2> QED
    BY <2>1, <2>2
<1> QED
  BY <1>1, <1>2, <1>6

(* The beginning of a piece.                                               *)
LEMMA ShortIs ==
  ASSUME NEW s \in Seq(Bytes), NEW len \in Nat
  PROVE  /\ Short(s, len) \in Seq(Bytes) /\ Len(Short(s, len)) = AtMost(len, Len(s))
         /\ \A i \in 1 .. AtMost(len, Len(s)) : Short(s, len)[i] = s[i]
<1>1. PICK b : b = AtMost(len, Len(s))
  OBVIOUS
<1>2. b \in Nat /\ b <= Len(s) /\ b = IF Len(s) < len THEN Len(s) ELSE len
  BY <1>1 DEF AtMost
<1>3. PICK t : t = SubSeq(s, 1, b)
  OBVIOUS
<1>4. t \in Seq(Bytes) /\ Len(t) = b /\ \A i \in 1 .. b : t[i] = s[i]
  BY <1>2, <1>3
<1>5. Short(s, len) = t
  BY <1>2, <1>3 DEF Short
<1> QED
  BY <1>1, <1>4, <1>5

(* Adding the next piece, and keeping at most len.                         *)
LEMMA PieceGrows ==
  ASSUME NEW s, NEW a \in Nat, NEW len \in Nat, NEW x \in Nat, NEW y \in Nat,
         NEW t, PieceOf(t, s, a, AtMost(len, x)), NEW u, PieceOf(u, s, a + x, y)
  PROVE  PieceOf(Short(t \o u, len), s, a, AtMost(len, x + y))
<1>1. PICK n : n = AtMost(len, x)
  OBVIOUS
<1>2. n \in Nat /\ n <= len /\ n <= x /\ (n = len \/ n = x)
  BY <1>1 DEF AtMost
<1>3. /\ t \in Seq(Bytes) /\ Len(t) = n /\ \A i \in 1 .. n : t[i] = s[a + i]
      /\ u \in Seq(Bytes) /\ Len(u) = y /\ \A i \in 1 .. y : u[i] = s[(a + x) + i]
  BY <1>1 DEF PieceOf
<1>4. PICK w : w = t \o u
  OBVIOUS
<1>5. /\ w \in Seq(Bytes) /\ Len(w) = n + y
      /\ \A i \in 1 .. n + y : w[i] = IF i <= n THEN t[i] ELSE u[i - n]
  <2>1. t \in Seq(Bytes) /\ u \in Seq(Bytes)
    BY <1>3
  <2>2. /\ w \in Seq(Bytes) /\ Len(w) = Len(t) + Len(u)
        /\ \A i \in 1 .. Len(t) + Len(u) : w[i] = IF i <= Len(t) THEN t[i] ELSE u[i - Len(t)]
    BY <1>4, <2>1, JoinedIs
  <2> QED
    BY <1>3, <2>2
<1>6. PICK r, m : r = Short(w, len) /\ m = AtMost(len, x + y)
  OBVIOUS
<1>7. AtMost(len, n + y) = m /\ m \in Nat /\ m <= n + y /\ (m <= n \/ n = x)
  <2>1. m = IF len < x + y THEN len ELSE x + y
    BY <1>6 DEF AtMost
  <2>2. m \in Nat /\ m <= n + y /\ (m <= n \/ n = x)
    BY <1>2, <2>1
  <2>3. (IF len < n + y THEN len ELSE n + y) = m
    BY <1>2, <2>1
  <2> QED
    BY <2>2, <2>3 DEF AtMost
<1>8. r \in Seq(Bytes) /\ Len(r) = m /\ \A i \in 1 .. m : r[i] = w[i]
  <2>1. w \in Seq(Bytes) /\ Len(w) = n + y
    BY <1>5
  <2>2. AtMost(len, Len(w)) = m /\ Short(w, len) = r
    BY <1>6, <1>7, <2>1
  <2>3. /\ Short(w, len) \in Seq(Bytes) /\ Len(Short(w, len)) = AtMost(len, Len(w))
        /\ \A i \in 1 .. AtMost(len, Len(w)) : Short(w, len)[i] = w[i]
    BY <2>1, ShortIs
  <2> QED
    BY <2>2, <2>3
<1>9. ASSUME NEW i \in 1 .. m PROVE r[i] = s[a + i]
  <2>1. i \in 1 .. n + y /\ r[i] = w[i]
    BY <1>7, <1>8, <1>2
  <2>2. CASE i <= n
    <3>1. i \in 1 .. n
      BY <1>2, <2>2
    <3> QED
      BY <1>3, <1>5, <2>1, <2>2, <3>1
  <2>3. CASE ~(i <= n)
    <3>1. n = x /\ i - n \in 1 .. y /\ (a + x) + (i - n) = a + i
      BY <1>2, <1>7, <2>1, <2>3
    <3> QED
      BY <1>3, <1>5, <2>1, <2>3, <3>1
  <2> QED
    BY <2>2, <2>3
<1>10. PieceOf(r, s, a, m)
  BY <1>8, <1>9 DEF PieceOf
<1> QED
  BY <1>4, <1>6, <1>10

(* A piece of a piece.                                                     *)
LEMMA PieceOfPiece ==
  ASSUME NEW s, NEW a \in Nat, NEW n \in Nat, NEW t, PieceOf(t, s, a, n),
         NEW x \in Nat, NEW y \in Nat, x <= y, y <= n, NEW u, u = SubSeq(t, x + 1, y)
  PROVE  PieceOf(u, s, a + x, y - x)
<1>1. t \in Seq(Bytes) /\ Len(t) = n /\ \A i \in 1 .. n : t[i] = s[a + i]
  BY DEF PieceOf
<1>2. /\ u \in Seq(Bytes) /\ Len(u) = y - x
      /\ \A i \in 1 .. y - x : u[i] = t[x + i]
  <2>1. t \in Seq(Bytes) /\ y <= Len(t)
    BY <1>1
  <2> QED
    BY <2>1, PieceIs
<1>3. ASSUME NEW i \in 1 .. y - x PROVE u[i] = s[(a + x) + i]
  <2>1. x + i \in 1 .. n /\ a + (x + i) = (a + x) + i
    OBVIOUS
  <2>2. u[i] = t[x + i]
    BY <1>2
  <2>3. t[x + i] = s[a + (x + i)]
    BY <1>1, <2>1
  <2> QED
    BY <2>1, <2>2, <2>3
<1> QED
  BY <1>2, <1>3 DEF PieceOf

(* The bytes in view k, at the place where it begins.                      *)
Holding(views, value, f) ==
  /\ Len(views) \in Nat /\ DOMAIN views = 1 .. Len(views) /\ Len(views) > 0
  /\ value \in Seq(Bytes) /\ Len(value) = f[Len(views)] /\ f[0] = 0
  /\ \A i, j \in 0 .. Len(views) : f[i] \in Nat /\ (i <= j => f[i] <= f[j])
  /\ \A k \in 0 .. Len(views) : Len(Upto(views)[k]) = f[k]
  /\ \A k \in 1 .. Len(views) :
       ViewLen(views[k]) = f[k] - f[k - 1] /\ PieceOf(ViewBytes(views[k]), value, f[k - 1], f[k] - f[k - 1])

(* A packet's views hold its value.                                        *)
LEMMA ViewsHold ==
  ASSUME Sound(mbBuf, mbPkt), NEW o \in Owners, mbPkt[o] # Nothing,
         NEW views, views = mbPkt[o].views, NEW value, value = Value(views)
  PROVE  \E f : Marks(f, views) /\ Holding(views, value, f) /\ mbPkt[o].len = Len(value)
<1>1. PICK p : p = mbPkt[o]
  OBVIOUS
<1>2. /\ views \in Seq(View) /\ Len(views) \in Nat /\ Len(views) > 0 /\ DOMAIN views = 1 .. Len(views)
      /\ \A k \in 1 .. Len(views) :
           /\ views[k] \in View /\ views[k].sh \in Buffers
           /\ views[k].data \in Nat /\ views[k].tail \in Nat
           /\ views[k].data <= views[k].tail /\ views[k].tail <= Len(mbBuf[views[k].sh].bytes)
           /\ mbBuf[views[k].sh] \in Memory
      /\ Measures(views, p.len)
  BY <1>1, PacketIs
<1>3. Spells(mbBuf, views, value)
  BY ValueSpelt
<1>4. PICK f : Reads(mbBuf, views, f, value)
  BY <1>3 DEF Spells
<1>5. /\ Marks(f, views) /\ value \in Seq(Bytes) /\ Len(value) = f[Len(views)]
      /\ \A k \in 1 .. Len(views) :
           ViewReads(mbBuf[views[k].sh].bytes, views[k].data, value, f[k - 1], f[k])
  BY <1>4 DEF Reads
<1>6. \A i, j \in 0 .. Len(views) : f[i] \in Nat /\ (i <= j => f[i] <= f[j])
  <2>1. \A k \in DOMAIN views : views[k].data <= views[k].tail
    BY <1>2
  <2> QED
    BY <1>2, <1>5, <2>1, MarksRise
<1>7. /\ \A k \in 0 .. Len(views) : Len(Upto(views)[k]) = f[k]
      /\ \A k \in 1 .. Len(views) :
           ViewBytes(views[k]) \in Seq(Bytes) /\ Len(ViewBytes(views[k])) = views[k].tail - views[k].data
  BY <1>5, UptoIs
<1>8. ASSUME NEW k \in 1 .. Len(views)
      PROVE  ViewLen(views[k]) = f[k] - f[k - 1] /\ PieceOf(ViewBytes(views[k]), value, f[k - 1], f[k] - f[k - 1])
  <2>1. PICK v, w, m : v = views[k] /\ w = ViewBytes(v) /\ m = mbBuf[v.sh].bytes
    OBVIOUS
  <2>2. /\ v \in View /\ v.data \in Nat /\ v.tail \in Nat /\ v.data <= v.tail
        /\ v.tail <= Len(m) /\ w = SubSeq(m, v.data + 1, v.tail)
    BY <1>2, <2>1 DEF ViewBytes
  <2>3. m \in Seq(Bytes)
    BY <1>2, <2>1 DEF Memory
  <2>4. f[k] = f[k - 1] + (v.tail - v.data)
    BY <1>5, <2>1 DEF Marks
  <2>5. f[k - 1] \in Nat /\ f[k] \in Nat
    <3>1. k - 1 \in 0 .. Len(views) /\ k \in 0 .. Len(views)
      BY <1>2
    <3> QED
      BY <1>6, <3>1
  <2>6. PICK a, b, n : a = f[k - 1] /\ b = f[k] /\ n = b - a
    OBVIOUS
  <2>7. a \in Nat /\ n \in Nat /\ n = v.tail - v.data /\ f[k] = a + n
    <3>1. a \in Nat /\ b \in Nat /\ b = a + (v.tail - v.data)
      BY <2>4, <2>5, <2>6
    <3>2. PICK x, y : x = v.data /\ y = v.tail
      OBVIOUS
    <3>3. x \in Nat /\ y \in Nat /\ x <= y
      BY <2>2, <3>2
    <3>4. b = a + (y - x)
      <4>1. b = a + (v.tail - v.data)
        BY <3>1
      <4> QED
        BY <3>2, <4>1
    <3>5. n \in Nat /\ n = y - x /\ b = a + n
      <4>1. a \in Nat /\ b \in Nat /\ n = b - a
        BY <2>6, <3>1
      <4> QED
        BY <3>3, <3>4, <4>1
    <3> QED
      BY <2>6, <3>1, <3>2, <3>5
  <2>8. w \in Seq(Bytes) /\ Len(w) = n
    BY <1>7, <2>1, <2>7
  <2>9. ASSUME NEW i \in 1 .. n PROVE w[i] = value[a + i]
    <3>1. w[i] = m[v.data + i]
      BY <2>2, <2>3, <2>7, ViewHolds
    <3>2. a + i \in a + 1 .. a + n /\ v.data + ((a + i) - a) = v.data + i
      BY <2>2, <2>7
    <3>3. ViewReads(m, v.data, value, a, a + n)
      BY <1>5, <2>1, <2>6, <2>7
    <3>4. value[a + i] = m[v.data + ((a + i) - a)]
      BY <3>2, <3>3 DEF ViewReads
    <3> QED
      BY <3>1, <3>2, <3>4
  <2>10. PieceOf(w, value, a, n)
    BY <2>8, <2>9 DEF PieceOf
  <2>11. ViewLen(v) = n
    BY <2>7 DEF ViewLen
  <2> QED
    BY <2>1, <2>6, <2>10, <2>11
<1>9. mbPkt[o].len = Len(value)
  <2>1. PICK g : Marks(g, views) /\ p.len = g[Len(views)]
    BY <1>2 DEF Measures
  <2>2. Len(views) \in 0 .. Len(views)
    BY <1>2
  <2>3. f[Len(views)] = g[Len(views)]
    BY <1>2, <1>5, <2>1, <2>2, MarksAgree
  <2> QED
    BY <1>1, <1>5, <2>1, <2>3
<1>10. f[0] = 0
  BY <1>5 DEF Marks
<1>11. Holding(views, value, f)
  BY <1>2, <1>5, <1>6, <1>7, <1>8, <1>10 DEF Holding
<1> QED
  BY <1>5, <1>9, <1>11

(* What Locate finds.                                                      *)
LEMMA LocateIs ==
  ASSUME NEW views, Rising(views), NEW value, NEW f, Marks(f, views), Holding(views, value, f),
         NEW offset \in Nat, NEW p, p = Locate(views, offset)
  PROVE  \/ p.view = 0 /\ offset >= Len(value)
         \/ p.view # 0 /\ CutsAt(f, views, p.view, offset) /\ p.start = offset - f[p.view - 1]
<1>1. /\ Len(views) \in Nat /\ DOMAIN views = 1 .. Len(views) /\ Len(views) > 0
      /\ Len(value) = f[Len(views)]
      /\ \A i, j \in 0 .. Len(views) : f[i] \in Nat /\ (i <= j => f[i] <= f[j])
      /\ \A k \in 0 .. Len(views) : Len(Upto(views)[k]) = f[k]
  BY DEF Holding
<1>2. PICK over : over = {k \in DOMAIN views : f[k] > offset}
  OBVIOUS
<1>3. over = {k \in DOMAIN views : Len(Upto(views)[k]) > offset}
  <2>1. \A k \in DOMAIN views : Len(Upto(views)[k]) = f[k]
    BY <1>1
  <2> QED
    BY <1>2, <2>1
<1>4. PICK c : c = CHOOSE k \in over : \A j \in over : k <= j
  OBVIOUS
<1>5. PICK k : k = IF over = {} THEN 0 ELSE c
  OBVIOUS
<1>6. p = [view |-> k, start |-> IF k = 0 THEN 0 ELSE offset - Len(Upto(views)[k - 1])]
  BY <1>3, <1>4, <1>5 DEF Locate
<1>7. p.view = k /\ p.start = IF k = 0 THEN 0 ELSE offset - Len(Upto(views)[k - 1])
  BY <1>6
<1>8. CASE over = {}
  <2>1. Len(views) \in DOMAIN views /\ Len(views) \in 0 .. Len(views)
    BY <1>1
  <2>2. ~(f[Len(views)] > offset) /\ f[Len(views)] \in Nat
    BY <1>1, <1>2, <1>8, <2>1
  <2>3. offset >= Len(value)
    BY <1>1, <2>2
  <2> QED
    BY <1>5, <1>7, <1>8, <2>3
<1>9. CASE over # {}
  <2>1. offset < f[Len(views)]
    <3>1. PICK j \in DOMAIN views : f[j] > offset
      BY <1>2, <1>9
    <3>2. j \in 0 .. Len(views) /\ Len(views) \in 0 .. Len(views) /\ j <= Len(views)
      BY <1>1
    <3>3. f[j] \in Nat /\ f[Len(views)] \in Nat /\ f[j] <= f[Len(views)]
      BY <1>1, <3>2
    <3> QED
      BY <3>1, <3>3
  <2>2. CutsAt(f, views, c, offset)
    <3>1. views \in Seq(View) /\ \A j \in DOMAIN views : views[j].data <= views[j].tail
      BY DEF Rising
    <3> QED
      BY <1>1, <1>2, <1>4, <2>1, <3>1, CutIs
  <2>3. c \in 1 .. Len(views) /\ c - 1 \in 0 .. Len(views) /\ c # 0
    BY <1>1, <2>2 DEF CutsAt
  <2>4. k = c /\ Len(Upto(views)[c - 1]) = f[c - 1]
    BY <1>1, <1>5, <1>9, <2>3
  <2> QED
    BY <1>7, <2>2, <2>3, <2>4
<1> QED
  BY <1>8, <1>9

(* How far the copy from offset, which falls into view c, has come with    *)
(* view k; what it takes from view k.                                      *)
Reach(f, offset, c, k) == IF k < c THEN 0 ELSE f[k] - offset
From(views, p, k) ==
  SubSeq(ViewBytes(views[k]), (IF k = p.view THEN p.start ELSE 0) + 1, ViewLen(views[k]))

(* What it takes is the next piece of the value.                           *)
LEMMA CopyStep ==
  ASSUME NEW views, NEW value, NEW f, Holding(views, value, f), NEW offset \in Nat, NEW len \in Nat,
         NEW p, CutsAt(f, views, p.view, offset), p.start = offset - f[p.view - 1],
         NEW k \in p.view .. Len(views), NEW t,
         PieceOf(t, value, offset, AtMost(len, Reach(f, offset, p.view, k - 1)))
  PROVE  PieceOf(Short(t \o From(views, p, k), len), value, offset, AtMost(len, Reach(f, offset, p.view, k)))
<1>1. PICK c : c = p.view
  OBVIOUS
<1>2. /\ Len(views) \in Nat
      /\ \A i, j \in 0 .. Len(views) : f[i] \in Nat /\ (i <= j => f[i] <= f[j])
      /\ \A j \in 1 .. Len(views) :
           ViewLen(views[j]) = f[j] - f[j - 1] /\ PieceOf(ViewBytes(views[j]), value, f[j - 1], f[j] - f[j - 1])
  BY DEF Holding
<1>3. c \in 1 .. Len(views) /\ f[c - 1] <= offset /\ offset < f[c] /\ k \in c .. Len(views)
  BY <1>1 DEF CutsAt
<1>4. /\ k \in 1 .. Len(views) /\ k \in 0 .. Len(views) /\ k - 1 \in 0 .. Len(views)
      /\ c \in 0 .. Len(views) /\ c - 1 \in 0 .. Len(views) /\ c <= k
  BY <1>2, <1>3
<1>5. PICK a, b : a = f[k - 1] /\ b = f[k]
  OBVIOUS
<1>6. a \in Nat /\ b \in Nat /\ a <= b
  <2>1. k - 1 <= k
    BY <1>3
  <2> QED
    BY <1>2, <1>4, <1>5, <2>1
<1>7. PICK w, n : w = ViewBytes(views[k]) /\ n = b - a
  OBVIOUS
<1>8. PieceOf(w, value, a, n) /\ ViewLen(views[k]) = n /\ n \in Nat
  <2>1. PieceOf(w, value, a, n) /\ ViewLen(views[k]) = n
    BY <1>2, <1>4, <1>5, <1>7
  <2>2. n \in Nat
    BY <1>6, <1>7
  <2> QED
    BY <2>1, <2>2
<1>9. PICK u, d : u = From(views, p, k) /\ d = IF k = c THEN p.start ELSE 0
  OBVIOUS
<1>10. u = SubSeq(w, d + 1, n)
  BY <1>1, <1>7, <1>8, <1>9 DEF From
<1>11. CASE k = c
  <2>1. p.start = offset - a /\ a <= offset /\ offset < b
    BY <1>1, <1>3, <1>5, <1>11
  <2>2. PICK x \in Nat : x = offset - a /\ x <= n /\ a + x = offset /\ n - x = b - offset
                         /\ b - offset \in Nat
    BY <1>6, <1>7, <2>1
  <2>3. u = SubSeq(w, x + 1, n)
    <3>1. d = x
      BY <1>9, <1>11, <2>1, <2>2
    <3> QED
      BY <1>10, <3>1
  <2>4. PieceOf(u, value, a + x, n - x)
    <3>1. PieceOf(w, value, a, n) /\ n \in Nat /\ a \in Nat /\ x \in Nat /\ x <= n /\ n <= n
      BY <1>6, <1>8, <2>2
    <3> QED
      BY <2>3, <3>1, PieceOfPiece
  <2>5. PICK y \in Nat : y = b - offset
    BY <2>2
  <2>6. PieceOf(u, value, offset + 0, y)
    BY <2>2, <2>4, <2>5
  <2>7. Reach(f, offset, c, k - 1) = 0
    BY <1>3, <1>11 DEF Reach
  <2>8. Reach(f, offset, c, k) = 0 + y
    BY <1>3, <1>5, <1>11, <2>5 DEF Reach
  <2>9. PieceOf(t, value, offset, AtMost(len, 0))
    BY <1>1, <2>7
  <2>10. PieceOf(Short(t \o u, len), value, offset, AtMost(len, 0 + y))
    BY <2>6, <2>9, PieceGrows
  <2> QED
    BY <1>1, <1>9, <2>8, <2>10
<1>12. CASE k # c
  <2>1. c <= k - 1 /\ ~(k - 1 < c) /\ ~(k < c)
    BY <1>3, <1>12
  <2>2. f[c] <= a /\ f[c] \in Nat
    BY <1>2, <1>4, <1>5, <2>1
  <2>3. PICK x \in Nat : x = a - offset /\ offset + x = a
    BY <1>3, <1>6, <2>2
  <2>4. PICK y \in Nat : y = n /\ x + y = b - offset /\ y - 0 = y /\ 0 <= y
    BY <1>6, <1>7, <1>8, <2>3
  <2>5. u = SubSeq(w, 0 + 1, y)
    <3>1. d = 0
      BY <1>9, <1>12
    <3> QED
      BY <1>10, <2>4, <3>1
  <2>6. PieceOf(u, value, a + 0, y - 0)
    <3>1. PieceOf(w, value, a, y) /\ 0 <= y /\ y <= y
      BY <1>8, <2>4
    <3> QED
      BY <1>6, <2>5, <3>1, PieceOfPiece
  <2>7. PieceOf(u, value, offset + x, y)
    BY <1>6, <2>3, <2>6
  <2>8. Reach(f, offset, c, k - 1) = x
    BY <1>5, <2>1, <2>3 DEF Reach
  <2>9. Reach(f, offset, c, k) = x + y
    BY <1>5, <2>1, <2>4 DEF Reach
  <2>10. PieceOf(t, value, offset, AtMost(len, x))
    BY <1>1, <2>8
  <2>11. PieceOf(Short(t \o u, len), value, offset, AtMost(len, x + y))
    BY <2>7, <2>10, PieceGrows
  <2> QED
    BY <1>1, <1>9, <2>9, <2>11
<1> QED
  BY <1>11, <1>12

(* The recursion of CopyBits.                                              *)
Copies(e, views, p, len) ==
  e = [k \in p.view - 1 .. Len(views) |->
         IF k = p.view - 1 THEN <<>> ELSE Short(e[k - 1] \o From(views, p, k), len)]

(* It has a solution.                                                      *)
LEMMA CopyExists ==
  ASSUME NEW views, NEW value, NEW f, Holding(views, value, f), NEW offset \in Nat, NEW len \in Nat,
         NEW p, CutsAt(f, views, p.view, offset), p.start = offset - f[p.view - 1]
  PROVE  \E e : Copies(e, views, p, len)
<1>1. PICK c, L : c = p.view /\ L = Len(views)
  OBVIOUS
<1>2. /\ L \in Nat /\ value \in Seq(Bytes) /\ Len(value) = f[L]
      /\ \A i, j \in 0 .. L : f[i] \in Nat /\ (i <= j => f[i] <= f[j])
  BY <1>1 DEF Holding
<1>3. c \in 1 .. L /\ offset < f[c] /\ c \in 0 .. L
  BY <1>1, <1>2 DEF CutsAt
<1> DEFINE r(k) == Reach(f, offset, c, k)
           e == [k \in c - 1 .. L |-> SubSeq(value, offset + 1, offset + AtMost(len, r(k)))]
<1>4. ASSUME NEW k \in c - 1 .. L
      PROVE  /\ AtMost(len, r(k)) \in Nat /\ offset + AtMost(len, r(k)) <= Len(value)
             /\ e[k] = SubSeq(value, offset + 1, offset + AtMost(len, r(k)))
             /\ PieceOf(e[k], value, offset, AtMost(len, r(k)))
  <2>1. r(k) \in Nat /\ offset + r(k) <= Len(value)
    <3>1. L \in 0 .. L /\ k \in 0 .. L /\ k <= L /\ c <= L
      BY <1>2, <1>3
    <3>2. f[L] \in Nat /\ f[k] \in Nat /\ f[c] \in Nat /\ f[k] <= f[L] /\ f[c] <= f[L] /\ (c <= k => f[c] <= f[k])
      BY <1>2, <1>3, <3>1
    <3>3. CASE k < c
      BY <1>2, <1>3, <3>2, <3>3 DEF Reach
    <3>4. CASE ~(k < c)
      <4>1. r(k) = f[k] - offset /\ c <= k
        BY <1>3, <3>4 DEF Reach
      <4>2. PICK x \in Nat : x = f[k] /\ offset < x /\ x <= Len(value)
        BY <1>2, <1>3, <3>2, <4>1
      <4> QED
        BY <4>1, <4>2
    <3> QED
      BY <3>3, <3>4
  <2>2. PICK n : n = AtMost(len, r(k))
    OBVIOUS
  <2>3. n \in Nat /\ n <= r(k)
    BY <2>1, <2>2 DEF AtMost
  <2>4. PICK b \in Nat : b = offset + n /\ offset <= b /\ b <= Len(value) /\ b - offset = n
    <3>1. Len(value) \in Nat
      BY <1>2
    <3> QED
      BY <2>1, <2>3, <3>1
  <2>5. PICK t : t = SubSeq(value, offset + 1, b)
    OBVIOUS
  <2>6. t \in Seq(Bytes) /\ Len(t) = b - offset /\ \A i \in 1 .. b - offset : t[i] = value[offset + i]
    <3>1. value \in Seq(Bytes)
      BY <1>2
    <3> QED
      <4>1. b \in Nat /\ offset <= b /\ b <= Len(value)
        BY <2>4
      <4> QED
        BY <2>5, <3>1, <4>1, PieceIs
  <2>7. PieceOf(t, value, offset, n)
    BY <2>4, <2>6 DEF PieceOf
  <2>8. e[k] = t
    BY <2>2, <2>4, <2>5
  <2> QED
    BY <2>2, <2>3, <2>4, <2>5, <2>7, <2>8
<1>5. DOMAIN e = c - 1 .. L
  OBVIOUS
<1>6. e = [k \in c - 1 .. L |-> e[k]]
  OBVIOUS
<1> HIDE DEF e, r
<1>7. ASSUME NEW k \in c - 1 .. L, k # c - 1 PROVE e[k] = Short(e[k - 1] \o From(views, p, k), len)
  <2>1. k \in p.view .. Len(views) /\ k - 1 \in c - 1 .. L
    BY <1>1, <1>2, <1>3, <1>7
  <2>2. PICK t : t = Short(e[k - 1] \o From(views, p, k), len)
    OBVIOUS
  <2>3. PieceOf(e[k - 1], value, offset, AtMost(len, Reach(f, offset, p.view, k - 1)))
    BY <1>1, <1>4, <2>1 DEF r
  <2>4. PieceOf(t, value, offset, AtMost(len, Reach(f, offset, p.view, k)))
    BY <2>1, <2>2, <2>3, CopyStep
  <2>5. PICK n : n = AtMost(len, r(k))
    OBVIOUS
  <2>6. PieceOf(t, value, offset, n)
    BY <1>1, <2>4, <2>5 DEF r
  <2>7. n \in Nat /\ offset + n <= Len(value) /\ e[k] = SubSeq(value, offset + 1, offset + n)
    BY <1>4, <2>5
  <2>8. t = SubSeq(value, offset + 1, offset + n)
    BY <1>2, <2>6, <2>7, PieceIsSubSeq
  <2> QED
    BY <2>2, <2>7, <2>8
<1>8. e[c - 1] = <<>>
  <2>1. c - 1 \in c - 1 .. L /\ c - 1 < c
    BY <1>2, <1>3
  <2>2. r(c - 1) = 0
    BY <2>1 DEF r, Reach
  <2>3. AtMost(len, r(c - 1)) = 0
    BY <2>2 DEF AtMost
  <2>4. PieceOf(e[c - 1], value, offset, 0)
    BY <1>4, <2>1, <2>3
  <2>5. e[c - 1] \in Seq(Bytes) /\ Len(e[c - 1]) = 0
    BY <2>4 DEF PieceOf
  <2> QED
    BY <2>5
<1>9. \A k \in c - 1 .. L : e[k] = IF k = c - 1 THEN <<>> ELSE Short(e[k - 1] \o From(views, p, k), len)
  BY <1>7, <1>8
<1>10. e = [k \in c - 1 .. L |-> IF k = c - 1 THEN <<>> ELSE Short(e[k - 1] \o From(views, p, k), len)]
  BY <1>6, <1>9
<1> QED
  BY <1>1, <1>10 DEF Copies

(* Every solution ends with the bytes asked for.                           *)
LEMMA CopyEnds ==
  ASSUME NEW views, NEW value, NEW f, Holding(views, value, f), NEW offset \in Nat, NEW len \in Nat,
         NEW p, CutsAt(f, views, p.view, offset), p.start = offset - f[p.view - 1],
         NEW e, Copies(e, views, p, len)
  PROVE  PieceOf(e[Len(views)], value, offset, AtMost(len, f[Len(views)] - offset))
<1>1. PICK c, L : c = p.view /\ L = Len(views)
  OBVIOUS
<1>2. L \in Nat /\ c \in 1 .. L
  BY <1>1 DEF Holding, CutsAt
<1>3. /\ e[c - 1] = <<>>
      /\ \A k \in c .. L : e[k] = Short(e[k - 1] \o From(views, p, k), len)
  <2>1. e = [k \in c - 1 .. L |-> IF k = c - 1 THEN <<>> ELSE Short(e[k - 1] \o From(views, p, k), len)]
    BY <1>1 DEF Copies
  <2>2. \A k \in c - 1 .. L : e[k] = IF k = c - 1 THEN <<>> ELSE Short(e[k - 1] \o From(views, p, k), len)
    BY <2>1
  <2>3. c - 1 \in c - 1 .. L /\ \A k \in c .. L : k \in c - 1 .. L /\ k # c - 1
    BY <1>2
  <2> QED
    BY <2>2, <2>3
<1> DEFINE r(k) == AtMost(len, Reach(f, offset, c, k))
           T == {d \in Nat : c - 1 + d <= L => PieceOf(e[c - 1 + d], value, offset, r(c - 1 + d))}
<1>4. 0 \in T
  <2>1. c - 1 + 0 = c - 1 /\ c - 1 < c
    BY <1>2
  <2>2. Reach(f, offset, c, c - 1) = 0
    BY <2>1 DEF Reach
  <2>3. r(c - 1) = 0
    BY <2>2 DEF AtMost
  <2>4. <<>> \in Seq(Bytes) /\ Len(<<>>) = 0 /\ 1 .. 0 = {}
    OBVIOUS
  <2>5. PieceOf(<<>>, value, offset, 0)
    BY <2>4 DEF PieceOf
  <2>6. PieceOf(e[c - 1], value, offset, r(c - 1))
    BY <1>3, <2>3, <2>5
  <2> QED
    BY <2>1, <2>6
<1>5. ASSUME NEW d \in T PROVE d + 1 \in T
  <2>1. d \in Nat
    OBVIOUS
  <2> SUFFICES ASSUME c - 1 + (d + 1) <= L
      PROVE  PieceOf(e[c - 1 + (d + 1)], value, offset, r(c - 1 + (d + 1)))
    BY <2>1
  <2>2. PICK k : k = c - 1 + (d + 1)
    OBVIOUS
  <2>3. k \in c .. L /\ k - 1 = c - 1 + d /\ c - 1 + d <= L
    BY <1>2, <2>1, <2>2
  <2>4. PieceOf(e[k - 1], value, offset, r(k - 1))
    BY <2>3
  <2>5. k \in p.view .. Len(views) /\ PieceOf(e[k - 1], value, offset, AtMost(len, Reach(f, offset, p.view, k - 1)))
    BY <1>1, <2>3, <2>4
  <2>6. PICK t : t = Short(e[k - 1] \o From(views, p, k), len)
    OBVIOUS
  <2>7. PieceOf(t, value, offset, AtMost(len, Reach(f, offset, p.view, k)))
    BY <2>5, <2>6, CopyStep
  <2>8. e[k] = t
    BY <1>3, <2>3, <2>6
  <2> QED
    BY <1>1, <2>2, <2>7, <2>8
<1>6. T \in SUBSET Nat
  OBVIOUS
<1> HIDE DEF T
<1>7. T = Nat
  BY <1>4, <1>5, <1>6, SetInduction
<1>8. L - (c - 1) \in T /\ c - 1 + (L - (c - 1)) = L
  BY <1>2, <1>7
<1>9. PieceOf(e[L], value, offset, r(L))
  <2>1. PICK d : d = L - (c - 1)
    OBVIOUS
  <2>2. d \in T /\ c - 1 + d = L
    BY <1>8, <2>1
  <2>3. PieceOf(e[c - 1 + d], value, offset, r(c - 1 + d))
    BY <1>2, <2>2 DEF T
  <2> QED
    BY <2>2, <2>3
<1>10. Reach(f, offset, c, L) = f[L] - offset
  BY <1>2 DEF Reach
<1> QED
  BY <1>1, <1>9, <1>10

(* The bytes asked for, or Nothing if the value does not have them.        *)
Asked(value, offset, len) ==
  IF offset < Len(value) /\ offset + len <= Len(value) THEN SubSeq(value, offset + 1, offset + len) ELSE Nothing

(* CopyBits computes a solution. *)
LEMMA CopyChooses ==
  ASSUME NEW views, NEW offset, NEW len, NEW p, p = Locate(views, offset), \E e : Copies(e, views, p, len)
  PROVE  \E e : /\ Copies(e, views, p, len)
                /\ CopyBits(views, offset, len) =
                     IF p.view = 0 \/ Len(e[Len(views)]) < len THEN Nothing ELSE e[Len(views)]
<1> DEFINE at == Locate(views, offset)
           from(k) == SubSeq(ViewBytes(views[k]), (IF k = at.view THEN at.start ELSE 0) + 1, ViewLen(views[k]))
           F(e) == [k \in at.view - 1 .. Len(views) |->
                      IF k = at.view - 1 THEN <<>>
                      ELSE LET s == e[k - 1] \o from(k) IN SubSeq(s, 1, IF Len(s) < len THEN Len(s) ELSE len)]
           all == CHOOSE e : e = F(e)
<1>1. ASSUME NEW e PROVE Copies(e, views, p, len) <=> e = F(e)
  BY DEF Copies, Short, From
<1>2. CopyBits(views, offset, len) = IF at.view = 0 \/ Len(all[Len(views)]) < len THEN Nothing ELSE all[Len(views)]
  BY DEF CopyBits
<1> HIDE DEF F
<1>3. all = F(all)
  BY <1>1
<1> QED
  BY <1>1, <1>2, <1>3

(* CopyBits returns the bytes asked for.                                   *)
LEMMA CopyIs ==
  ASSUME NEW views, NEW value, NEW f, Holding(views, value, f), NEW offset \in Nat, NEW len \in Nat,
         NEW p, p = Locate(views, offset),
         \/ p.view = 0 /\ offset >= Len(value)
         \/ p.view # 0 /\ CutsAt(f, views, p.view, offset) /\ p.start = offset - f[p.view - 1]
  PROVE  CopyBits(views, offset, len) = Asked(value, offset, len)
<1>1. CASE p.view = 0
  <2>1. CopyBits(views, offset, len) = Nothing
    BY <1>1 DEF CopyBits
  <2>2. Len(value) \in Nat /\ offset >= Len(value)
    BY <1>1 DEF Holding, CutsAt
  <2>3. ~(offset < Len(value))
    BY <2>2
  <2> QED
    BY <2>1, <2>3 DEF Asked
<1>2. CASE p.view # 0
  <2>1. CutsAt(f, views, p.view, offset) /\ p.start = offset - f[p.view - 1]
    BY <1>2
  <2>2. PICK L, l : L = Len(views) /\ l = f[L]
    OBVIOUS
  <2>3. value \in Seq(Bytes) /\ Len(value) = l /\ l \in Nat
    BY <2>2 DEF Holding
  <2>4. offset < l
    <3>1. L \in Nat /\ (\A i, j \in 0 .. L : f[i] \in Nat /\ (i <= j => f[i] <= f[j]))
      BY <2>2 DEF Holding
    <3>2. p.view \in 1 .. L /\ offset < f[p.view]
      BY <2>1, <2>2 DEF CutsAt
    <3>3. p.view \in 0 .. L /\ L \in 0 .. L /\ p.view <= L
      BY <3>1, <3>2
    <3>4. f[p.view] \in Nat /\ f[p.view] <= l
      BY <2>2, <3>1, <3>3
    <3> QED
      BY <2>3, <3>2, <3>4
  <2>5. PICK e : /\ Copies(e, views, p, len)
                 /\ CopyBits(views, offset, len) =
                      IF p.view = 0 \/ Len(e[Len(views)]) < len THEN Nothing ELSE e[Len(views)]
    <3>1. \E e : Copies(e, views, p, len)
      BY <2>1, CopyExists
    <3> QED
      BY <3>1, CopyChooses
  <2>6. PICK t : t = e[L]
    OBVIOUS
  <2>7. PieceOf(t, value, offset, AtMost(len, l - offset))
    BY <2>1, <2>2, <2>5, <2>6, CopyEnds
  <2>8. CopyBits(views, offset, len) = IF Len(t) < len THEN Nothing ELSE t
    BY <1>2, <2>2, <2>5, <2>6
  <2>9. Len(t) = AtMost(len, l - offset)
    BY <2>7 DEF PieceOf
  <2>10. CASE offset + len <= l
    <3>1. AtMost(len, l - offset) = len
      BY <2>3, <2>4, <2>10 DEF AtMost
    <3>2. t = SubSeq(value, offset + 1, offset + len)
      <4>1. PieceOf(t, value, offset, len) /\ offset + len <= Len(value)
        BY <2>3, <2>7, <2>10, <3>1
      <4> QED
        BY <2>3, <4>1, PieceIsSubSeq
    <3>3. CopyBits(views, offset, len) = t
      BY <2>8, <2>9, <3>1
    <3>4. Asked(value, offset, len) = SubSeq(value, offset + 1, offset + len)
      BY <2>3, <2>4, <2>10 DEF Asked
    <3> QED
      BY <3>2, <3>3, <3>4
  <2>11. CASE ~(offset + len <= l)
    <3>1. AtMost(len, l - offset) < len
      BY <2>3, <2>4, <2>11 DEF AtMost
    <3>2. CopyBits(views, offset, len) = Nothing
      BY <2>8, <2>9, <3>1
    <3> QED
      BY <2>3, <2>11, <3>2 DEF Asked
  <2> QED
    BY <2>10, <2>11
<1> QED
  BY <1>1, <1>2

(* HeaderPointer points to the bytes asked for.                            *)
LEMMA HeaderIs ==
  ASSUME NEW views, NEW value, NEW f, Holding(views, value, f), NEW offset \in Nat, NEW len \in Nat,
         NEW p, p = Locate(views, offset),
         \/ p.view = 0 /\ offset >= Len(value)
         \/ p.view # 0 /\ CutsAt(f, views, p.view, offset) /\ p.start = offset - f[p.view - 1]
  PROVE  HeaderPointer(views, offset, len) = Asked(value, offset, len)
<1>1. PICK c, v, w, n : c = p.view /\ v = views[c] /\ w = ViewBytes(v) /\ n = ViewLen(v)
  OBVIOUS
<1>2. HeaderPointer(views, offset, len) =
        IF c = 0 THEN Nothing
        ELSE IF n - p.start >= len THEN SubSeq(w, p.start + 1, p.start + len)
             ELSE CopyBits(views, offset, len)
  BY <1>1 DEF HeaderPointer
<1>3. CopyBits(views, offset, len) = Asked(value, offset, len)
  BY CopyIs
<1>4. CASE c = 0
  <2>1. Len(value) \in Nat /\ offset >= Len(value)
    BY <1>1, <1>4 DEF Holding
  <2>2. ~(offset < Len(value))
    BY <2>1
  <2> QED
    BY <1>2, <1>4, <2>2 DEF Asked
<1>5. CASE c # 0 /\ n - p.start >= len
  <2>1. PICK a, b : a = f[c - 1] /\ b = f[c]
    OBVIOUS
  <2>2. c \in 1 .. Len(views) /\ a <= offset /\ offset < b /\ p.start = offset - a
    BY <1>1, <1>5, <2>1 DEF CutsAt
  <2>3. /\ Len(views) \in Nat /\ value \in Seq(Bytes) /\ Len(value) = f[Len(views)]
        /\ \A i, j \in 0 .. Len(views) : f[i] \in Nat /\ (i <= j => f[i] <= f[j])
        /\ n = b - a /\ PieceOf(w, value, a, b - a)
    BY <1>1, <2>1, <2>2 DEF Holding
  <2>4. a \in Nat /\ b \in Nat /\ b <= Len(value) /\ Len(value) \in Nat
    <3>1. c \in 0 .. Len(views) /\ c - 1 \in 0 .. Len(views) /\ Len(views) \in 0 .. Len(views) /\ c <= Len(views)
      BY <2>2, <2>3
    <3> QED
      BY <2>1, <2>3, <3>1
  <2>5. PICK x \in Nat : x = p.start /\ a + x = offset /\ x = offset - a
    BY <2>2, <2>4
  <2>6. n \in Nat /\ x + len <= n /\ n = b - a
    <3>1. n = b - a /\ n - x >= len
      BY <1>5, <2>3, <2>5
    <3> QED
      BY <2>2, <2>4, <3>1
  <2>7. PICK y \in Nat : y = x + len /\ x <= y /\ y <= n /\ y - x = len
    BY <2>6
  <2>8. PICK u : u = SubSeq(w, x + 1, y)
    OBVIOUS
  <2>9. PieceOf(u, value, a + x, y - x)
    <3>1. PieceOf(w, value, a, n) /\ x <= y /\ y <= n
      BY <2>3, <2>6, <2>7
    <3> QED
      BY <2>4, <2>6, <2>8, <3>1, PieceOfPiece
  <2>10. PieceOf(u, value, offset, len)
    BY <2>5, <2>7, <2>9
  <2>11. offset + len <= Len(value) /\ offset < Len(value)
    <3>1. offset = a + x /\ x + len <= n /\ n = b - a
      BY <2>5, <2>6
    <3>2. offset + len <= b
      BY <2>4, <2>6, <3>1
    <3> QED
      BY <2>2, <2>4, <3>2
  <2>12. u = SubSeq(value, offset + 1, offset + len)
    BY <2>3, <2>10, <2>11, PieceIsSubSeq
  <2>13. HeaderPointer(views, offset, len) = u
    BY <1>2, <1>5, <2>5, <2>7, <2>8
  <2>14. Asked(value, offset, len) = SubSeq(value, offset + 1, offset + len)
    BY <2>11 DEF Asked
  <2> QED
    BY <2>12, <2>13, <2>14
<1>6. CASE c # 0 /\ ~(n - p.start >= len)
  BY <1>2, <1>3, <1>6
<1> QED
  BY <1>4, <1>5, <1>6

(* Reads are exact in every state of the invariant.                        *)
LEMMA ReadsAreExact == MbInv => MbReadsExact
<1> SUFFICES ASSUME MbInv, NEW o \in Owners, mbPkt[o] # Nothing,
                    NEW views, views = mbPkt[o].views, NEW value, value = Value(views)
             PROVE  /\ mbPkt[o].len = Len(value)
                    /\ \A offset \in 0 .. MaxBytes, len \in 0 .. MaxBytes :
                         /\ CopyBits(views, offset, len) = Asked(value, offset, len)
                         /\ HeaderPointer(views, offset, len) = Asked(value, offset, len)
  BY DEF MbReadsExact, Asked
<1>1. Sound(mbBuf, mbPkt)
  BY DEF MbInv
<1>2. PICK f : Marks(f, views) /\ Holding(views, value, f) /\ mbPkt[o].len = Len(value)
  BY <1>1, ViewsHold
<1>3. Rising(views)
  <2>1. Says(mbBuf, mbPkt[o], Val[o])
    BY PacketsSay DEF AllSay
  <2> QED
    BY <2>1 DEF Says
<1>4. ASSUME NEW offset \in 0 .. MaxBytes, NEW len \in 0 .. MaxBytes
      PROVE  /\ CopyBits(views, offset, len) = Asked(value, offset, len)
             /\ HeaderPointer(views, offset, len) = Asked(value, offset, len)
  <2>1. offset \in Nat /\ len \in Nat
    BY MbAssumption
  <2>2. PICK p : p = Locate(views, offset)
    OBVIOUS
  <2>3. \/ p.view = 0 /\ offset >= Len(value)
        \/ p.view # 0 /\ CutsAt(f, views, p.view, offset) /\ p.start = offset - f[p.view - 1]
    BY <1>2, <1>3, <2>1, <2>2, LocateIs
  <2>4. CopyBits(views, offset, len) = Asked(value, offset, len)
    BY <1>2, <2>1, <2>2, <2>3, CopyIs
  <2>5. HeaderPointer(views, offset, len) = Asked(value, offset, len)
    BY <1>2, <2>1, <2>2, <2>3, HeaderIs
  <2> QED
    BY <2>4, <2>5
<1> QED
  BY <1>2, <1>4

(* pkt_len is the length of the packet, and copy_bits and header_pointer   *)
(* return exactly the bytes asked for whenever the packet has them, on one *)
(* view or across several, whatever was shared, copied, added, pulled and  *)
(* trimmed before (packet.c:176-232).                                      *)
THEOREM ReadsHold == MbSpec => []MbReadsExact
BY ReadsAreExact, MbInvariant, PTL

====
