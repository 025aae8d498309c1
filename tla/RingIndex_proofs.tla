---- MODULE RingIndex_proofs ----
(***************************************************************************)
(* Facts about wrapping counters and the slots they name, for every        *)
(* capacity and every modulus it divides.                                  *)
(***************************************************************************)
EXTENDS RingIndex, SequenceTheorems, TLAPS

(* A difference and a successor are counters. *)
LEMMA CounterType ==
  ASSUME NEW a \in Counter, NEW b \in Counter
  PROVE  Inc(a) \in Counter /\ Sub(a, b) \in Counter /\ Sub(a, b) \in Nat
BY IndexAssumption, SMT DEF Counter, Inc, Sub

(* Differences from one counter tell counters apart. *)
LEMMA SubInjective ==
  ASSUME NEW a \in Counter, NEW b \in Counter, NEW c \in Counter
  PROVE  (Sub(a, c) = Sub(b, c)) <=> (a = b)
BY IndexAssumption, SMT DEF Counter, Sub

(* Stepping the first argument. *)
LEMMA SubInc ==
  ASSUME NEW a \in Counter, NEW b \in Counter, Sub(a, b) + 1 < Modulus
  PROVE  Sub(Inc(a), b) = Sub(a, b) + 1
BY IndexAssumption, SMT DEF Counter, Inc, Sub

(* Stepping the second argument. *)
LEMMA SubDec ==
  ASSUME NEW a \in Counter, NEW b \in Counter, a # b
  PROVE  Sub(a, Inc(b)) = Sub(a, b) - 1
BY IndexAssumption, SMT DEF Counter, Inc, Sub

(* Multiples of n are at least n apart. *)
LEMMA Multiples ==
  ASSUME NEW n \in Nat \ {0}, NEW x \in Int, NEW y \in Int
  PROVE  x < y => n * x + n <= n * y
<1> SUFFICES ASSUME x < y PROVE n * x + n <= n * y
  OBVIOUS
<1>1. PICK k \in Nat : y = x + 1 + k
  BY y - x - 1 \in Nat, y = x + 1 + (y - x - 1), SMT
<1>2. n * y = n * x + n + n * k
  BY <1>1, SMT
<1>3. n * k >= 0 /\ n * x \in Int /\ n * k \in Int
  BY <1>1, SMT
<1> QED
  BY <1>2, <1>3, SMT

(* Two indices less than a ring's length above the same counter share a slot *)
(* only if they are equal, although the counters wrap: Cap divides Modulus.  *)
LEMMA SlotsDifferInOrder ==
  ASSUME NEW a \in Counter, NEW b \in Counter, NEW c \in Counter,
         Sub(a, c) < Cap, Sub(b, c) < Cap, a < b
  PROVE  Slot(a) # Slot(b)
<1> DEFINE qa == a \div Cap  ra == a % Cap
           qb == b \div Cap  rb == b % Cap
           qm == Modulus \div Cap
<1>1. a \in Nat /\ b \in Nat /\ c \in Nat /\ Cap \in Nat \ {0} /\ Modulus \in Nat
  BY IndexAssumption DEF Counter
<1>2. /\ qa \in Nat /\ ra \in Nat /\ a = Cap * qa + ra
      /\ qb \in Nat /\ rb \in Nat /\ b = Cap * qb + rb
      /\ qm \in Nat /\ Modulus = Cap * qm
  BY <1>1, IndexAssumption, SMT
<1>3. (b - a < Cap \/ b - a > Modulus - Cap) /\ b - a < Modulus
  BY <1>1, SMT DEF Sub, Counter
<1>4. SUFFICES ASSUME ra = rb PROVE FALSE
  BY DEF Slot
<1> HIDE DEF qa, qb, ra, rb, qm
<1> DEFINE d == qb - qa
<1>5. d \in Int /\ Cap * d \in Int /\ b - a = Cap * d
  BY <1>1, <1>2, <1>4, SMT
<1> HIDE DEF d
<1>6. (0 < d => Cap * 0 + Cap <= Cap * d) /\ (d < 0 => Cap * d + Cap <= Cap * 0)
  BY <1>1, <1>5, Multiples
<1>7. d < qm => Cap * d + Cap <= Cap * qm
  BY <1>1, <1>2, <1>5, Multiples
<1>8. qm < d => Cap * qm + Cap <= Cap * d
  BY <1>1, <1>2, <1>5, Multiples
<1> QED
  BY <1>1, <1>2, <1>3, <1>5, <1>6, <1>7, <1>8, SMT

(* The same for two indices in either order. *)
LEMMA SlotsDiffer ==
  ASSUME NEW a \in Counter, NEW b \in Counter, NEW c \in Counter,
         Sub(a, c) < Cap, Sub(b, c) < Cap, a # b
  PROVE  Slot(a) # Slot(b)
<1>1. CASE a < b
  BY <1>1, SlotsDifferInOrder
<1>2. CASE b < a
  BY <1>2, SlotsDifferInOrder
<1> QED
  BY <1>1, <1>2, SMT DEF Counter

(* A masked counter is a slot of buf. *)
LEMMA SlotType ==
  ASSUME NEW i \in Counter
  PROVE  Slot(i) \in Slots
BY IndexAssumption, SMT DEF Counter, Slot, Slots

(* Walking k steps from a counter and measuring the way are inverse. *)
LEMMA AddSub ==
  ASSUME NEW a \in Counter, NEW k \in Nat, k < Modulus
  PROVE  Add(a, k) \in Counter /\ Sub(Add(a, k), a) = k
BY IndexAssumption, SMT DEF Counter, Add, Sub

(* Going the measured way from a counter to another one arrives at it. *)
LEMMA SubAdd ==
  ASSUME NEW a \in Counter, NEW b \in Counter
  PROVE  Add(a, Sub(b, a)) = b
BY IndexAssumption, SMT DEF Counter, Add, Sub

(* The first step of a walk. *)
LEMMA AddInc ==
  ASSUME NEW a \in Counter, NEW k \in Nat, k + 1 < Modulus
  PROVE  Add(Inc(a), k) = Add(a, k + 1) /\ Add(a, 0) = a
BY IndexAssumption, SMT DEF Counter, Add, Inc

(***************************************************************************)
(* The window of a ring as a sequence                                      *)
(***************************************************************************)

(* The contents of buf when the ring can hold the members of S. *)
Buffers(S) == [Slots -> S]

(* A window is a sequence of what the ring can hold. *)
LEMMA WindowType ==
  ASSUME NEW S, NEW b \in Buffers(S), NEW o \in Counter, NEW n \in 0 .. Cap
  PROVE  /\ Window(b, o, n) \in Seq(S)
         /\ Len(Window(b, o, n)) = n
         /\ \A i \in 1 .. n : Window(b, o, n)[i] = b[Slot(Add(o, i - 1))]
<1>1. \A i \in 1 .. n : b[Slot(Add(o, i - 1))] \in S
  <2> TAKE i \in 1 .. n
  <2>1. i - 1 \in Nat /\ i - 1 < Modulus
    BY IndexAssumption, SMT
  <2>2. Slot(Add(o, i - 1)) \in Slots
    BY <2>1, AddSub, SlotType
  <2> QED
    BY <2>2 DEF Buffers
<1>2. n \in Nat
  BY IndexAssumption
<1> QED
  BY <1>1, <1>2, SMT DEF Window

(* One more slot at the end. *)
LEMMA WindowAppend ==
  ASSUME NEW S, NEW b \in Buffers(S), NEW o \in Counter, NEW n \in 0 .. Cap - 1
  PROVE  Window(b, o, n + 1) = Append(Window(b, o, n), b[Slot(Add(o, n))])
<1>1. n \in 0 .. Cap /\ n + 1 \in 0 .. Cap /\ n \in Nat /\ n < Modulus
  BY IndexAssumption, SMT
<1> DEFINE w == Window(b, o, n)
           x == b[Slot(Add(o, n))]
           v == Window(b, o, n + 1)
<1>2. w \in Seq(S) /\ Len(w) = n /\ \A i \in 1 .. n : w[i] = b[Slot(Add(o, i - 1))]
  BY <1>1, WindowType
<1>3. /\ v \in Seq(S) /\ Len(v) = n + 1
      /\ \A i \in 1 .. n + 1 : v[i] = b[Slot(Add(o, i - 1))]
  BY <1>1, WindowType
<1>4. x \in S
  BY <1>1, AddSub, SlotType DEF Buffers
<1> HIDE DEF w, x, v
<1>5. /\ Append(w, x) \in Seq(S) /\ Len(Append(w, x)) = n + 1
      /\ \A i \in 1 .. n : Append(w, x)[i] = w[i]
      /\ Append(w, x)[n + 1] = x
  BY <1>2, <1>4, AppendProperties
<1>6. \A i \in 1 .. n + 1 : v[i] = Append(w, x)[i]
  <2> TAKE i \in 1 .. n + 1
  <2>1. CASE i = n + 1
    <3>1. v[i] = b[Slot(Add(o, n))]
      BY <1>1, <1>3, <2>1, SMT
    <3> QED
      BY <1>5, <2>1, <3>1 DEF x
  <2>2. CASE i \in 1 .. n
    BY <1>2, <1>3, <1>5, <2>2
  <2>3. i = n + 1 \/ i \in 1 .. n
    BY <1>1, SMT
  <2> QED
    BY <2>1, <2>2, <2>3
<1>7. v = Append(w, x)
  BY <1>3, <1>5, <1>6, SeqEqual
<1> QED
  BY <1>7 DEF v, w, x

(* One slot less at the front. *)
LEMMA WindowTail ==
  ASSUME NEW S, NEW b \in Buffers(S), NEW o \in Counter, NEW n \in 1 .. Cap
  PROVE  /\ Window(b, o, n) # <<>>
         /\ Head(Window(b, o, n)) = b[Slot(o)]
         /\ Tail(Window(b, o, n)) = Window(b, Inc(o), n - 1)
<1>1. n \in 0 .. Cap /\ n - 1 \in 0 .. Cap /\ n \in Nat /\ n <= Cap /\ Cap < Modulus
  BY IndexAssumption, SMT
<1> DEFINE w == Window(b, o, n)
           v == Window(b, Inc(o), n - 1)
<1>2. w \in Seq(S) /\ Len(w) = n /\ \A i \in 1 .. n : w[i] = b[Slot(Add(o, i - 1))]
  BY <1>1, WindowType
<1>3. /\ v \in Seq(S) /\ Len(v) = n - 1
      /\ \A i \in 1 .. n - 1 : v[i] = b[Slot(Add(Inc(o), i - 1))]
  <2>1. Inc(o) \in Counter
    BY CounterType
  <2> QED
    BY <1>1, <2>1, WindowType
<1> HIDE DEF w, v
<1>4. w # <<>> /\ Head(w) = w[1]
  BY <1>2, SMT
<1>5. w[1] = b[Slot(o)]
  <2>1. Add(o, 0) = o
    BY IndexAssumption, SMT DEF Add, Counter
  <2> QED
    BY <1>1, <1>2, <2>1, SMT
<1>6. /\ Tail(w) \in Seq(S) /\ Len(Tail(w)) = n - 1
      /\ \A i \in 1 .. n - 1 : Tail(w)[i] = w[i + 1]
  BY <1>2, <1>4, HeadTailProperties
<1>7. \A i \in 1 .. n - 1 : Tail(w)[i] = v[i]
  <2> TAKE i \in 1 .. n - 1
  <2>1. i + 1 \in 1 .. n /\ i - 1 \in Nat /\ (i - 1) + 1 < Modulus /\ (i - 1) + 1 = i
        /\ (i + 1) - 1 = i
    BY <1>1, IndexAssumption, SMT
  <2>2. Add(Inc(o), i - 1) = Add(o, i)
    BY <2>1, AddInc
  <2>3. w[i + 1] = b[Slot(Add(o, i))]
    BY <1>2, <2>1
  <2> QED
    BY <1>3, <1>6, <2>2, <2>3
<1>8. Tail(w) = v
  BY <1>3, <1>6, <1>7, SeqEqual
<1> QED
  BY <1>4, <1>5, <1>8 DEF w, v

(* A store to a slot outside the window leaves it alone. *)
LEMMA WindowStore ==
  ASSUME NEW S, NEW b \in Buffers(S), NEW o \in Counter, NEW n \in 0 .. Cap,
         NEW j \in Counter, n <= Sub(j, o), Sub(j, o) < Cap, NEW x \in S
  PROVE  Window([b EXCEPT ![Slot(j)] = x], o, n) = Window(b, o, n)
<1>1. \A i \in 1 .. n : Slot(Add(o, i - 1)) \in Slots /\ Slot(Add(o, i - 1)) # Slot(j)
  <2> TAKE i \in 1 .. n
  <2>1. i - 1 \in Nat /\ i - 1 < Modulus /\ i - 1 < n /\ i - 1 < Cap
    BY IndexAssumption, SMT
  <2>2. Add(o, i - 1) \in Counter /\ Sub(Add(o, i - 1), o) = i - 1
    BY <2>1, AddSub
  <2>3. i - 1 # Sub(j, o)
    <3>1. Sub(j, o) \in Nat
      BY CounterType
    <3> QED
      BY <2>1, <3>1, SMT
  <2>4. Add(o, i - 1) # j
    BY <2>2, <2>3
  <2> QED
    BY <2>1, <2>2, <2>4, SlotType, SlotsDiffer
<1>2. \A i \in 1 .. n : [b EXCEPT ![Slot(j)] = x][Slot(Add(o, i - 1))] = b[Slot(Add(o, i - 1))]
  BY <1>1
<1> QED
  BY <1>2 DEF Window

====
