---- MODULE Sequential_proofs ----
(***************************************************************************)
(* Proofs about five structures that a single thread uses: the ring with   *)
(* mirror bits, the table of steps, the skip list, the doubly linked list  *)
(* and the blocks a range of addresses is cut into.                        *)
(***************************************************************************)
EXTENDS IrbRing, StepTable, SkipList, DList, Patricia, Places_proofs, FiniteSetTheorems, TLAPS

(***************************************************************************)
(* The ring with mirror bits is exact for every size: what IrbExact says   *)
(* is made inductive by IrbPlace, which gives the write index and mirror   *)
(* from the read index and the number of items.                            *)
(***************************************************************************)

IrbPlace ==
  /\ Len(irbHeld) <= IrbSize
  /\ irb.write_idx = IrbSlot(Len(irbHeld))
  /\ irb.write_mirror = irb.read_mirror <=> irb.read_idx + Len(irbHeld) < IrbSize

IrbContents ==
  \A i \in 1 .. Len(irbHeld) : irb.buffer[IrbSlot(i - 1)] = irbHeld[i]

IrbInv == IrbTypeOK /\ IrbPlace /\ IrbContents

(* A ring that is not full has room for one more, and its write index is   *)
(* the slot behind the items; one that is not empty has an item.           *)
LEMMA IrbRoom ==
  ASSUME IrbTypeOK, IrbPlace
  PROVE  /\ IrbFull <=> Len(irbHeld) = IrbSize
         /\ IrbEmpty <=> Len(irbHeld) = 0
<1>1. Len(irbHeld) \in Nat
  BY DEF IrbTypeOK
<1>2. QED
  BY <1>1, IrbAssumption DEF IrbTypeOK, IrbPlace, IrbSlot, IrbFull, IrbEmpty

LEMMA IrbInvInit == IrbInit => IrbInv
BY IrbAssumption DEF IrbInit, IrbInv, IrbTypeOK, IrbPlace, IrbContents, IrbSlot

LEMMA IrbPushKeeps ==
  ASSUME IrbInv, NEW v \in IrbItems, IrbPush(v)
  PROVE  IrbInv'
<1> USE IrbAssumption DEF IrbTypeOK
<1>1. Len(irbHeld) \in Nat /\ Len(irbHeld) < IrbSize
  BY IrbRoom DEF IrbInv, IrbPush, IrbPlace
<1>2. /\ irbHeld' = Append(irbHeld, v) /\ Len(irbHeld') = Len(irbHeld) + 1
      /\ irb'.read_idx = irb.read_idx /\ irb'.read_mirror = irb.read_mirror
      /\ irb'.write_idx = IrbInc(irb.write_idx)
      /\ irb'.write_mirror = Flip(irb.write_idx, irb.write_mirror)
      /\ irb'.buffer = [irb.buffer EXCEPT ![irb.write_idx] = v]
  BY DEF IrbInv, IrbPush
<1>3. IrbTypeOK'
  <2>1. IrbInc(irb.write_idx) \in 0 .. IrbSize - 1 /\ Flip(irb.write_idx, irb.write_mirror) \in 0 .. 1
    BY DEF IrbInv, IrbInc, Flip, Wraps
  <2>2. irb' = [buffer |-> [irb.buffer EXCEPT ![irb.write_idx] = v],
                write_idx |-> IrbInc(irb.write_idx), read_idx |-> irb.read_idx,
                write_mirror |-> Flip(irb.write_idx, irb.write_mirror),
                read_mirror |-> irb.read_mirror]
    BY DEF IrbInv, IrbPush
  <2>3. irbHeld' \in Seq(IrbItems)
    BY <1>2 DEF IrbInv
  <2>4. QED
    BY <2>1, <2>2, <2>3 DEF IrbInv
<1>4. IrbPlace'
  <2>1. PICK r, w, n : r = irb.read_idx /\ w = irb.write_idx /\ n = Len(irbHeld)
    OBVIOUS
  <2>2. r \in 0 .. IrbSize - 1 /\ w \in 0 .. IrbSize - 1 /\ n \in Nat /\ n < IrbSize
    BY <1>1, <2>1 DEF IrbInv
  <2>3. w = (IF r + n < IrbSize THEN r + n ELSE r + n - IrbSize)
    BY <2>1 DEF IrbInv, IrbPlace, IrbSlot
  <2>4. irb.write_mirror = irb.read_mirror <=> r + n < IrbSize
    BY <2>1 DEF IrbInv, IrbPlace
  <2>5. IrbInc(w) = IF r + (n + 1) < IrbSize THEN r + (n + 1) ELSE r + (n + 1) - IrbSize
    BY <2>2, <2>3 DEF IrbInc, Wraps
  <2>6. w + 1 = IrbSize <=> (r + n < IrbSize /\ ~(r + (n + 1) < IrbSize))
    BY <2>2, <2>3
  <2>7. r + (n + 1) < IrbSize => r + n < IrbSize
    BY <2>2
  <2>8. irb'.write_mirror = irb.read_mirror <=> r + (n + 1) < IrbSize
    <3>1. irb.read_mirror \in 0 .. 1 /\ irb.write_mirror \in 0 .. 1
      BY DEF IrbInv
    <3>2. irb.write_mirror = irb.read_mirror <=> 1 - irb.write_mirror # irb.read_mirror
      BY <3>1
    <3>3. irb'.write_mirror = IF w + 1 = IrbSize THEN 1 - irb.write_mirror ELSE irb.write_mirror
      BY <1>2, <2>1 DEF Flip, Wraps
    <3> QED
      BY <2>4, <2>6, <2>7, <3>2, <3>3
  <2>9. irb'.write_idx = IrbInc(w) /\ irb'.read_idx = r /\ irb'.read_mirror = irb.read_mirror /\ Len(irbHeld') = n + 1
    BY <1>2, <2>1
  <2>10. IrbPlace' <=> /\ n + 1 <= IrbSize
                       /\ irb'.write_idx = IF r + (n + 1) < IrbSize THEN r + (n + 1) ELSE r + (n + 1) - IrbSize
                       /\ irb'.write_mirror = irb.read_mirror <=> r + (n + 1) < IrbSize
    BY <2>9 DEF IrbPlace, IrbSlot
  <2>11. n + 1 <= IrbSize
    BY <2>2
  <2> QED
    BY <2>5, <2>8, <2>9, <2>10, <2>11
<1>5. IrbContents'
  <2> SUFFICES ASSUME NEW i \in 1 .. Len(irbHeld')
               PROVE  irb'.buffer[IrbSlot(i - 1)'] = irbHeld'[i]
    BY DEF IrbContents
  <2>1. IrbSlot(i - 1)' = IrbSlot(i - 1) /\ IrbSlot(i - 1) \in 0 .. IrbSize - 1
    BY <1>1, <1>2 DEF IrbInv, IrbSlot
  <2>2. CASE i = Len(irbHeld) + 1
    BY <1>1, <1>2, <2>1, <2>2 DEF IrbInv, IrbPlace, IrbSlot
  <2>3. CASE i \in 1 .. Len(irbHeld)
    <3>1. IrbSlot(i - 1) # irb.write_idx
      BY <1>1, <2>3 DEF IrbInv, IrbPlace, IrbSlot
    <3>2. irbHeld'[i] = irbHeld[i]
      BY <1>2, <2>3 DEF IrbInv
    <3>3. QED
      BY <1>2, <2>1, <2>3, <3>1, <3>2 DEF IrbInv, IrbContents
  <2>4. QED
    BY <1>1, <1>2, <2>2, <2>3
<1>6. QED
  BY <1>3, <1>4, <1>5 DEF IrbInv

LEMMA IrbPopKeeps ==
  ASSUME IrbInv, IrbPop
  PROVE  IrbInv'
<1> USE IrbAssumption DEF IrbTypeOK
<1>1. Len(irbHeld) \in Nat /\ Len(irbHeld) > 0 /\ Len(irbHeld) <= IrbSize
  BY IrbRoom DEF IrbInv, IrbPop, IrbPlace
<1>2. /\ irbHeld' = Tail(irbHeld) /\ Len(irbHeld') = Len(irbHeld) - 1
      /\ irb'.read_idx = IrbInc(irb.read_idx)
      /\ irb'.read_mirror = Flip(irb.read_idx, irb.read_mirror)
      /\ irb'.write_idx = irb.write_idx /\ irb'.write_mirror = irb.write_mirror
      /\ irb'.buffer = irb.buffer
  BY <1>1 DEF IrbInv, IrbPop
<1>3. IrbTypeOK'
  <2>1. IrbInc(irb.read_idx) \in 0 .. IrbSize - 1 /\ Flip(irb.read_idx, irb.read_mirror) \in 0 .. 1
    BY DEF IrbInv, IrbInc, Flip, Wraps
  <2>2. irb' = [buffer |-> irb.buffer, write_idx |-> irb.write_idx,
                read_idx |-> IrbInc(irb.read_idx), write_mirror |-> irb.write_mirror,
                read_mirror |-> Flip(irb.read_idx, irb.read_mirror)]
    BY DEF IrbInv, IrbPop
  <2>3. irbHeld' \in Seq(IrbItems)
    BY <1>1, <1>2 DEF IrbInv
  <2>4. QED
    BY <2>1, <2>2, <2>3 DEF IrbInv
<1>4. IrbPlace'
  <2>1. /\ IrbSize \in Nat /\ irb.read_idx \in 0 .. IrbSize - 1 /\ irb.write_idx \in 0 .. IrbSize - 1
        /\ irb.read_mirror \in 0 .. 1 /\ irb.write_mirror \in 0 .. 1
        /\ irb.write_idx = IF irb.read_idx + Len(irbHeld) < IrbSize THEN irb.read_idx + Len(irbHeld)
                           ELSE irb.read_idx + Len(irbHeld) - IrbSize
        /\ irb.write_mirror = irb.read_mirror <=> irb.read_idx + Len(irbHeld) < IrbSize
    BY DEF IrbInv, IrbPlace, IrbSlot
  <2>2. CASE Wraps(irb.read_idx)
    <3>1. irb'.read_idx = 0 /\ irb'.read_mirror = 1 - irb.read_mirror /\ irb.read_idx = IrbSize - 1
      BY <1>2, <2>1, <2>2 DEF IrbInc, Flip, Wraps
    <3>2. irb.write_idx = Len(irbHeld) - 1 /\ irb.write_mirror # irb.read_mirror
      BY <1>1, <2>1, <3>1
    <3>3. QED
      BY <1>1, <1>2, <2>1, <3>1, <3>2 DEF IrbPlace, IrbSlot
  <2>3. CASE ~Wraps(irb.read_idx)
    <3>1. irb'.read_idx = irb.read_idx + 1 /\ irb'.read_mirror = irb.read_mirror
      BY <1>2, <2>3 DEF IrbInc, Flip
    <3>2. irb.read_idx + Len(irbHeld) = irb'.read_idx + Len(irbHeld')
      BY <1>1, <1>2, <2>1, <3>1
    <3>3. /\ Len(irbHeld') <= IrbSize
          /\ irb'.write_mirror = irb'.read_mirror <=> irb'.read_idx + Len(irbHeld') < IrbSize
      BY <1>1, <1>2, <2>1, <3>1, <3>2
    <3>4. irb'.write_idx = IF irb'.read_idx + Len(irbHeld') < IrbSize THEN irb'.read_idx + Len(irbHeld')
                           ELSE irb'.read_idx + Len(irbHeld') - IrbSize
      <4>1. irb'.write_idx = irb.write_idx
        BY <1>2
      <4>2. irb'.read_idx \in Nat /\ Len(irbHeld') \in Nat
        BY <1>1, <1>2, <2>1, <3>1
      <4>3. QED
        BY SMTT(30), <1>1, <2>1, <3>2, <4>1, <4>2
    <3>5. QED
      BY <3>3, <3>4 DEF IrbPlace, IrbSlot
  <2>4. QED
    BY <2>2, <2>3
<1>5. IrbContents'
  <2> SUFFICES ASSUME NEW i \in 1 .. Len(irbHeld')
               PROVE  irb'.buffer[IrbSlot(i - 1)'] = irbHeld'[i]
    BY DEF IrbContents
  <2>1. IrbSlot(i - 1)' = IrbSlot(i)
    BY <1>1, <1>2 DEF IrbInv, IrbSlot, IrbInc, Wraps
  <2>2. irbHeld'[i] = irbHeld[i + 1] /\ i + 1 \in 1 .. Len(irbHeld)
    BY <1>1, <1>2 DEF IrbInv
  <2>3. irb.buffer[IrbSlot((i + 1) - 1)] = irbHeld[i + 1]
    BY <2>2 DEF IrbInv, IrbContents
  <2>4. (i + 1) - 1 = i
    OBVIOUS
  <2>5. QED
    BY <1>2, <2>1, <2>2, <2>3, <2>4
<1>6. QED
  BY <1>3, <1>4, <1>5 DEF IrbInv

LEMMA IrbInvStep == IrbInv /\ [IrbNext]_irbVars => IrbInv'
<1> SUFFICES ASSUME IrbInv, [IrbNext]_irbVars PROVE IrbInv'
  OBVIOUS
<1>1. ASSUME NEW v \in IrbItems, IrbPush(v) PROVE IrbInv'
  BY <1>1, IrbPushKeeps
<1>2. CASE IrbPop
  BY <1>2, IrbPopKeeps
<1>3. CASE UNCHANGED irbVars
  BY <1>3 DEF IrbInv, IrbTypeOK, IrbPlace, IrbContents, IrbSlot, irbVars
<1>4. QED
  BY <1>1, <1>2, <1>3 DEF IrbNext, IrbRefused

(* The ring holds what was pushed and not popped, in order, and tells full *)
(* from empty, for every size and after any number of wraps: the calls of  *)
(* ringbuffer.c:54-100.                                                    *)
THEOREM IrbIsExact == IrbSpec => []IrbExact
<1>1. IrbInv => IrbExact
  BY IrbRoom DEF IrbInv, IrbExact, IrbContents
<1>2. QED
  BY <1>1, IrbInvInit, IrbInvStep, PTL DEF IrbSpec

(***************************************************************************)
(* Both searches find the rule the table means, for every table.  The      *)
(* invariant of the binary search: the limits before left are passed, and  *)
(* ans is the rule right of the interval, or nothing was found yet.        *)
(***************************************************************************)

Passed(n, val) == \A j \in 1 .. n - 1 : val >= limit[j]

Bracket ==
  /\ step.left <= step.right + 1
  /\ Passed(step.left, step.val)
  /\ \/ step.right = Len(limit) /\ step.ans = Len(limit)
     \/ step.ans = step.right + 1 /\ step.val < limit[step.ans]

StepInv ==
  /\ StepTypeOK
  /\ step.at = "linear" => Passed(step.i, step.val)
  /\ step.at \in {"found", "bsearch", "both"} => IsRule(step.i, step.val)
  /\ step.at = "bsearch" => Bracket
  /\ step.at = "both" => step.ans = step.i

LEMMA SeqFacts ==
  ASSUME NEW S, NEW t \in Seq(S), t # <<>>
  PROVE  /\ Len(t) \in Nat \ {0} /\ DOMAIN t = 1 .. Len(t)
         /\ \A j \in 1 .. Len(t) : t[j] \in S
OBVIOUS

LEMMA TableFacts ==
  ASSUME limit \in StepTables
  PROVE  /\ StepMax \in Nat /\ Len(limit) \in Nat \ {0}
         /\ \A j \in 1 .. Len(limit) : limit[j] \in Nat
         /\ \A i, j \in 1 .. Len(limit) : i < j => limit[i] <= limit[j]
<1> DEFINE S == 0 .. StepMax
<1>1. limit \in Seq(S) /\ limit # <<>> /\ Ascending(limit) /\ StepMax \in Nat
  BY StepAssumption
<1> HIDE DEF S
<1>2. /\ Len(limit) \in Nat \ {0} /\ DOMAIN limit = 1 .. Len(limit)
      /\ \A j \in 1 .. Len(limit) : limit[j] \in S
  BY <1>1, SeqFacts
<1>3. \A j \in 1 .. Len(limit) : limit[j] \in Nat
  BY <1>1, <1>2 DEF S
<1>4. QED
  BY <1>1, <1>2, <1>3 DEF Ascending

(* A value has one rule. *)
LEMMA OneRule ==
  ASSUME limit \in StepTables, NEW val \in Nat, NEW r, NEW s, IsRule(r, val), IsRule(s, val)
  PROVE  r = s
<1>1. r \in 1 .. Len(limit) /\ s \in 1 .. Len(limit) /\ Len(limit) \in Nat
  BY TableFacts DEF IsRule
<1>2. ~(r < s)
  BY <1>1, TableFacts DEF IsRule
<1>3. ~(s < r)
  BY <1>1, TableFacts DEF IsRule
<1>4. QED
  BY <1>1, <1>2, <1>3

LEMMA StepInvInit == StepInit => StepInv
<1> SUFFICES ASSUME StepInit PROVE StepInv
  OBVIOUS
<1>1. limit \in StepTables /\ Len(limit) \in Nat \ {0} /\ StepMax \in Nat
  BY TableFacts, StepAssumption DEF StepInit
<1>2. QED
  BY <1>1 DEF StepInit, StepIdle, StepInv, StepTypeOK

LEMMA LinearKeeps ==
  ASSUME StepInv, NEW val \in 0 .. StepMax, Linear(val)
  PROVE  StepInv'
<1>1. limit' = limit /\ limit \in StepTables /\ Len(limit) \in Nat \ {0}
  BY TableFacts DEF StepInv, StepTypeOK, Linear
<1>2. step' = [at |-> "linear", val |-> val, i |-> 1, left |-> 1, right |-> 1, ans |-> 1]
  BY DEF Linear, StepIdle
<1>3. Len(limit') = Len(limit)
  BY <1>1
<1>4. StepTypeOK'
  BY <1>1, <1>2, <1>3 DEF StepTypeOK
<1>5. step'.at = "linear" /\ step'.i = 1
  BY <1>2
<1>6. Passed(step.i, step.val)'
  BY <1>5 DEF Passed
<1>7. QED
  BY <1>4, <1>5, <1>6 DEF StepInv

LEMMA LinearStepKeeps ==
  ASSUME StepInv, LinearStep
  PROVE  StepInv'
<1>1. /\ limit' = limit /\ limit \in StepTables /\ Len(limit) \in Nat \ {0}
      /\ \A j \in 1 .. Len(limit) : limit[j] \in Nat
      /\ step.i \in 1 .. Len(limit) + 1 /\ step.val \in Nat /\ step.at = "linear"
      /\ Passed(step.i, step.val)
  BY TableFacts, StepAssumption DEF StepInv, StepTypeOK, LinearStep
<1>2. CASE step.i <= Len(limit) /\ step.val >= limit[step.i]
  <2>1. step' = [step EXCEPT !.i = step.i + 1]
    BY <1>2 DEF LinearStep
  <2>2. StepTypeOK' /\ step'.at = "linear" /\ step'.i = step.i + 1 /\ step'.val = step.val
    BY <1>1, <1>2, <2>1, SMTT(30) DEF StepInv, StepTypeOK
  <2>3. Passed(step.i, step.val)'
    BY <1>1, <1>2, <2>2 DEF Passed
  <2>4. QED
    BY <2>2, <2>3 DEF StepInv
<1>3. CASE ~(step.i <= Len(limit) /\ step.val >= limit[step.i])
  <2> DEFINE r == IF step.i > Len(limit) THEN Len(limit) ELSE step.i
  <2>1. step' = [step EXCEPT !.at = "found", !.i = r]
    BY <1>3 DEF LinearStep
  <2>2. r \in 1 .. Len(limit)
    BY <1>1
  <2>3. step' = [at |-> "found", val |-> step.val, i |-> r, left |-> step.left,
                 right |-> step.right, ans |-> step.ans]
    BY <2>1 DEF StepInv, StepTypeOK
  <2> HIDE DEF r
  <2>4. StepTypeOK' /\ step'.at = "found" /\ step'.i = r /\ step'.val = step.val
    BY <1>1, <2>2, <2>3 DEF StepInv, StepTypeOK
  <2>5. IsRule(r, step.val)
    BY <1>1, <1>3, <2>2 DEF IsRule, Passed, r
  <2>6. QED
    BY <1>1, <2>5, <2>4 DEF StepInv, IsRule
<1>4. QED
  BY <1>2, <1>3

LEMMA BsearchKeeps ==
  ASSUME StepInv, Bsearch
  PROVE  StepInv'
<1>1. /\ limit' = limit /\ limit \in StepTables /\ Len(limit) \in Nat \ {0}
      /\ step.at = "found"
  BY TableFacts DEF StepInv, StepTypeOK, Bsearch
<1>2. step' = [step EXCEPT !.at = "bsearch", !.left = 1, !.right = Len(limit), !.ans = Len(limit)]
  BY DEF Bsearch
<1>3. step' = [at |-> "bsearch", val |-> step.val, i |-> step.i, left |-> 1,
               right |-> Len(limit), ans |-> Len(limit)]
  BY <1>2 DEF StepInv, StepTypeOK
<1>4. /\ StepTypeOK' /\ step'.at = "bsearch" /\ step'.val = step.val /\ step'.i = step.i
      /\ step'.left = 1 /\ step'.right = Len(limit) /\ step'.ans = Len(limit)
  BY <1>1, <1>3 DEF StepInv, StepTypeOK
<1>5. Bracket'
  BY <1>1, <1>4 DEF Bracket, Passed
<1>6. QED
  BY <1>1, <1>4, <1>5 DEF StepInv, IsRule

LEMMA Half == \A n \in Nat : n \div 2 \in 0 .. n
OBVIOUS

LEMMA BsearchStepKeeps ==
  ASSUME StepInv, BsearchStep
  PROVE  StepInv'
<1> DEFINE mid == step.left + (step.right - step.left) \div 2
<1>1. /\ limit' = limit /\ limit \in StepTables /\ Len(limit) \in Nat \ {0}
      /\ \A j \in 1 .. Len(limit) : limit[j] \in Nat
      /\ \A i, j \in 1 .. Len(limit) : i < j => limit[i] <= limit[j]
      /\ step.left \in 1 .. Len(limit) + 1 /\ step.right \in 0 .. Len(limit)
      /\ step.ans \in 1 .. Len(limit) /\ step.val \in Nat
      /\ step.at = "bsearch" /\ IsRule(step.i, step.val) /\ Bracket
  BY TableFacts, StepAssumption DEF StepInv, StepTypeOK, BsearchStep
<1>2. step.left <= step.right => mid \in step.left .. step.right
  BY <1>1, Half
<1> HIDE DEF mid
<1>3. CASE step.left > step.right
  <2>1. step' = [step EXCEPT !.at = "both"]
    BY <1>3 DEF BsearchStep
  <2>2. IsRule(step.ans, step.val)
    <3>1. step.left = step.right + 1 /\ \A j \in 1 .. step.right : step.val >= limit[j]
      BY <1>1, <1>3 DEF Bracket, Passed
    <3>2. CASE step.right = Len(limit) /\ step.ans = Len(limit)
      BY <1>1, <3>1, <3>2 DEF IsRule
    <3>3. CASE step.ans = step.right + 1 /\ step.val < limit[step.ans]
      BY <1>1, <3>1, <3>3 DEF IsRule
    <3> QED
      BY <1>1, <3>2, <3>3 DEF Bracket
  <2>3. step.ans = step.i
    BY <1>1, <2>2, OneRule
  <2>4. StepTypeOK' /\ step'.at = "both" /\ step'.i = step.i /\ step'.ans = step.ans /\ step'.val = step.val
    BY <1>1, <2>1 DEF StepInv, StepTypeOK
  <2>5. QED
    BY <1>1, <2>3, <2>4 DEF StepInv, IsRule
<1>4. CASE step.left <= step.right /\ step.val < limit[mid]
  <2>1. mid \in step.left .. step.right
    BY <1>4, <1>2
  <2>2. step' = [step EXCEPT !.ans = mid, !.right = mid - 1]
    BY <1>1, <1>4 DEF BsearchStep, mid
  <2>3. step' = [at |-> "bsearch", val |-> step.val, i |-> step.i, left |-> step.left,
                 right |-> mid - 1, ans |-> mid]
    BY <1>1, <2>2 DEF StepInv, StepTypeOK
  <2>4. /\ StepTypeOK' /\ step'.at = "bsearch" /\ step'.i = step.i /\ step'.val = step.val
        /\ step'.left = step.left /\ step'.right = mid - 1 /\ step'.ans = mid
    BY <1>1, <2>1, <2>3 DEF StepInv, StepTypeOK
  <2>5. Bracket'
    BY <1>1, <1>4, <2>1, <2>4 DEF Bracket, Passed
  <2>6. QED
    BY <1>1, <2>4, <2>5 DEF StepInv, IsRule
<1>5. CASE step.left <= step.right /\ ~(step.val < limit[mid])
  <2>1. mid \in step.left .. step.right
    BY <1>5, <1>2
  <2>2. step' = [step EXCEPT !.left = mid + 1]
    BY <1>1, <1>5 DEF BsearchStep, mid
  <2>3. step' = [at |-> "bsearch", val |-> step.val, i |-> step.i, left |-> mid + 1,
                 right |-> step.right, ans |-> step.ans]
    BY <1>1, <2>2 DEF StepInv, StepTypeOK
  <2>4. /\ StepTypeOK' /\ step'.at = "bsearch" /\ step'.i = step.i /\ step'.val = step.val
        /\ step'.left = mid + 1 /\ step'.right = step.right /\ step'.ans = step.ans
    BY <1>1, <2>1, <2>3 DEF StepInv, StepTypeOK
  <2>5. ASSUME NEW j \in 1 .. (mid + 1) - 1 PROVE step.val >= limit[j]
    <3>1. mid \in 1 .. Len(limit) /\ j \in 1 .. Len(limit) /\ j <= mid
      BY <1>1, <1>5, <2>1
    <3>2. limit[mid] <= step.val
      BY <1>1, <1>5, <3>1
    <3>3. limit[j] <= limit[mid]
      BY <1>1, <3>1
    <3>4. QED
      BY <1>1, <3>1, <3>2, <3>3
  <2>6. Bracket'
    BY <1>1, <2>1, <2>4, <2>5 DEF Bracket, Passed
  <2>7. QED
    BY <1>1, <2>4, <2>6 DEF StepInv, IsRule
<1>6. QED
  BY <1>1, <1>3, <1>4, <1>5

LEMMA StepInvStep == StepInv /\ [StepNext]_stepVars => StepInv'
<1> SUFFICES ASSUME StepInv, [StepNext]_stepVars PROVE StepInv'
  OBVIOUS
<1>1. ASSUME NEW val \in 0 .. StepMax, Linear(val) PROVE StepInv'
  BY <1>1, LinearKeeps
<1>2. CASE LinearStep
  BY <1>2, LinearStepKeeps
<1>3. CASE Bsearch
  BY <1>3, BsearchKeeps
<1>4. CASE BsearchStep
  BY <1>4, BsearchStepKeeps
<1>5. CASE UNCHANGED stepVars
  BY <1>5 DEF StepInv, StepTypeOK, Passed, Bracket, IsRule, stepVars
<1>6. QED
  BY <1>1, <1>2, <1>3, <1>4, <1>5 DEF StepNext

(* On every ascending table that ends with the largest value the linear    *)
(* and the binary search of tiered_table.c:32-67 return the same rule, the *)
(* first above the value or the last one.                                  *)
THEOREM SearchesAgree == StepSpec => []StepSearchesAgree
<1>1. StepInv => StepSearchesAgree
  BY DEF StepInv, StepSearchesAgree
<1>2. QED
  BY <1>1, StepInvInit, StepInvStep, PTL DEF StepSpec

(***************************************************************************)
(* The skip list                                                           *)
(***************************************************************************)

(***************************************************************************)
(* Least and greatest entries                                              *)
(***************************************************************************)

Unique(S) == \A n, m \in S : KeyOf[n] = KeyOf[m] => n = m
IsLeast(n, S) == n \in S /\ \A m \in S : KeyOf[n] <= KeyOf[m]
IsGreatest(n, S) == n \in S /\ \A m \in S : KeyOf[m] <= KeyOf[n]

(* The keys of entries are numbers, and no entry is null or unwritten. *)
LEMMA SlConstants ==
  /\ SlEntries \subseteq Entries /\ IsFiniteSet(SlEntries)
  /\ \A n \in SlEntries : KeyOf[n] \in Int
  /\ Null \notin SlEntries /\ Junk \notin SlEntries /\ Junk # Null
  /\ MaxLevel \in Nat /\ MaxLevel > 0
BY SlAssumption, EntriesAssumption

(* A set of entries has both. *)
LEMMA Extremes ==
  ASSUME NEW S \in SUBSET SlEntries, S # {}
  PROVE  (\E n : IsLeast(n, S)) /\ (\E n : IsGreatest(n, S))
<1> DEFINE Good(T) == (\E n : IsLeast(n, T)) /\ (\E n : IsGreatest(n, T))
           P == {c \in Nat : \A T \in SUBSET SlEntries : Cardinality(T) = c + 1 => Good(T)}
<1>1. \A T \in SUBSET SlEntries : IsFiniteSet(T) /\ Cardinality(T) \in Nat /\ (Cardinality(T) = 0 <=> T = {})
  BY SlConstants, FS_Subset, FS_CardinalityType, FS_EmptySet
<1>2. 0 \in P
  <2> SUFFICES ASSUME NEW T \in SUBSET SlEntries, Cardinality(T) = 1 PROVE Good(T)
    BY DEF P
  <2>1. PICK x : T = {x}
    BY <1>1, FS_Singleton
  <2>2. KeyOf[x] <= KeyOf[x]
    BY <2>1, SlConstants
  <2>3. IsLeast(x, T) /\ IsGreatest(x, T)
    BY <2>1, <2>2 DEF IsLeast, IsGreatest
  <2> QED
    BY <2>3
<1>3. ASSUME NEW c \in P PROVE c + 1 \in P
  <2> SUFFICES ASSUME NEW T \in SUBSET SlEntries, Cardinality(T) = (c + 1) + 1 PROVE Good(T)
    BY DEF P
  <2>1. c \in Nat
    BY DEF P
  <2>2. T # {}
    BY <1>1, <2>1
  <2>3. PICK x : x \in T
    BY <2>2
  <2> DEFINE R == T \ {x}
  <2>4. R \in SUBSET SlEntries /\ Cardinality(R) = c + 1
    BY <1>1, <2>1, <2>3, FS_RemoveElement
  <2> HIDE DEF Good
  <2>5. Good(R)
    BY <2>1, <2>4 DEF P
  <2>6. PICK n : IsLeast(n, R)
    BY <2>5 DEF Good
  <2>7. PICK m : IsGreatest(m, R)
    BY <2>5 DEF Good
  <2>8. \A y \in T : KeyOf[y] \in Int /\ (y = x \/ y \in R)
    BY SlConstants
  <2>9. \E l : IsLeast(l, T)
    <3>1. CASE KeyOf[x] <= KeyOf[n]
      <4>1. IsLeast(x, T)
        BY <2>3, <2>6, <2>8, <3>1 DEF IsLeast
      <4> QED
        BY <4>1
    <3>2. CASE ~(KeyOf[x] <= KeyOf[n])
      <4>1. IsLeast(n, T)
        BY <2>3, <2>6, <2>8, <3>2 DEF IsLeast
      <4> QED
        BY <4>1
    <3> QED
      BY <3>1, <3>2
  <2>10. \E g : IsGreatest(g, T)
    <3>1. CASE KeyOf[m] <= KeyOf[x]
      <4>1. IsGreatest(x, T)
        BY <2>3, <2>7, <2>8, <3>1 DEF IsGreatest
      <4> QED
        BY <4>1
    <3>2. CASE ~(KeyOf[m] <= KeyOf[x])
      <4>1. IsGreatest(m, T)
        BY <2>3, <2>7, <2>8, <3>2 DEF IsGreatest
      <4> QED
        BY <4>1
    <3> QED
      BY <3>1, <3>2
  <2> QED
    BY <2>9, <2>10 DEF Good
<1> HIDE DEF P, Good
<1>4. P \in SUBSET Nat
  BY DEF P
<1>5. P = Nat
  BY <1>2, <1>3, <1>4, SetInduction
<1>6. Cardinality(S) \in Nat /\ Cardinality(S) # 0
  BY <1>1
<1>7. Cardinality(S) - 1 \in Nat /\ Cardinality(S) = (Cardinality(S) - 1) + 1
  BY <1>6
<1>8. Cardinality(S) - 1 \in P
  BY <1>5, <1>7
<1> QED
  BY <1>7, <1>8 DEF P, Good

(* What Least and Greatest choose. *)
LEMMA Chosen ==
  ASSUME NEW S \in SUBSET SlEntries
  PROVE  /\ Least({}) = Null /\ Greatest({}) = Null
         /\ S # {} => IsLeast(Least(S), S) /\ IsGreatest(Greatest(S), S)
         /\ Least(S) \in SlEntries \cup {Null} /\ Greatest(S) \in SlEntries \cup {Null}
         /\ Least(S) = Null <=> S = {}
         /\ Greatest(S) = Null <=> S = {}
<1>1. Least({}) = Null /\ Greatest({}) = Null
  BY DEF Least, Greatest
<1>2. S # {} => IsLeast(Least(S), S)
  BY Extremes DEF Least, IsLeast
<1>3. S # {} => IsGreatest(Greatest(S), S)
  BY Extremes DEF Greatest, IsGreatest
<1> QED
  BY <1>1, <1>2, <1>3, SlConstants DEF IsLeast, IsGreatest

(* With keys that differ there is one of each. *)
LEMMA OnlyOne ==
  ASSUME NEW S \in SUBSET SlEntries, Unique(S), NEW n
  PROVE  /\ IsLeast(n, S) => Least(S) = n
         /\ IsGreatest(n, S) => Greatest(S) = n
<1>1. ASSUME NEW m, IsLeast(n, S), IsLeast(m, S) PROVE m = n
  <2>1. KeyOf[n] \in Int /\ KeyOf[m] \in Int /\ KeyOf[n] <= KeyOf[m] /\ KeyOf[m] <= KeyOf[n]
    BY <1>1, SlConstants DEF IsLeast
  <2> QED
    BY <1>1, <2>1 DEF Unique, IsLeast
<1>2. ASSUME NEW m, IsGreatest(n, S), IsGreatest(m, S) PROVE m = n
  <2>1. KeyOf[n] \in Int /\ KeyOf[m] \in Int /\ KeyOf[n] <= KeyOf[m] /\ KeyOf[m] <= KeyOf[n]
    BY <1>2, SlConstants DEF IsGreatest
  <2> QED
    BY <1>2, <2>1 DEF Unique, IsGreatest
<1>3. IsLeast(n, S) \/ IsGreatest(n, S) => S # {}
  BY DEF IsLeast, IsGreatest
<1> QED
  BY <1>1, <1>2, <1>3, Chosen

(* y is the one behind x in S, and null behind the last. *)
Behind(x, y, S) ==
  /\ y = Null => \A m \in S : x # Null /\ KeyOf[m] <= KeyOf[x]
  /\ y # Null => /\ y \in S /\ (x # Null => KeyOf[x] < KeyOf[y])
                 /\ \A m \in S : KeyOf[y] <= KeyOf[m] \/ (x # Null /\ KeyOf[m] <= KeyOf[x])

(* It is what the model calls After.                                       *)
LEMMA AfterIs ==
  ASSUME NEW S \in SUBSET SlEntries, Unique(S), NEW x \in SlEntries \cup {Null}, NEW y
  PROVE  After(x, S) = y <=> Behind(x, y, S)
<1> DEFINE T == IF x = Null THEN S ELSE {n \in S : KeyOf[n] > KeyOf[x]}
<1>1. T \in SUBSET SlEntries /\ Unique(T) /\ After(x, S) = Least(T)
  BY DEF Unique, After
<1>2. \A m \in S : KeyOf[m] \in Int /\ (x # Null => KeyOf[x] \in Int) /\ m # Null
  BY SlConstants
<1>3. Null \notin T
  BY <1>2
<1>4. \A m \in S : m \in T <=> (x = Null \/ KeyOf[x] < KeyOf[m])
  BY <1>2
<1>5. T \subseteq S
  OBVIOUS
<1> HIDE DEF T
<1>6. CASE T = {}
  <2>1. After(x, S) = Null
    BY <1>1, <1>6, Chosen
  <2>2. \A m \in S : x # Null /\ KeyOf[m] <= KeyOf[x]
    BY <1>2, <1>4, <1>6
  <2>3. Behind(x, y, S) => y = Null
    BY <1>4, <1>6 DEF Behind
  <2>4. Behind(x, Null, S)
    BY <2>2 DEF Behind
  <2> QED
    BY <2>1, <2>3, <2>4
<1>7. CASE T # {}
  <2>1. IsLeast(After(x, S), T)
    BY <1>1, <1>7, Chosen
  <2>2. After(x, S) # Null
    BY <1>3, <2>1 DEF IsLeast
  <2>3. Behind(x, After(x, S), S)
    BY <1>2, <1>4, <1>5, <2>1, <2>2 DEF Behind, IsLeast
  <2>4. ASSUME Behind(x, y, S) PROVE IsLeast(y, T)
    <3>1. y # Null
      <4>1. PICK m : m \in T
        BY <1>7
      <4> QED
        BY <1>2, <1>4, <1>5, <2>4, <4>1 DEF Behind
    <3>2. y \in T
      BY <1>2, <1>4, <2>4, <3>1 DEF Behind
    <3>3. ASSUME NEW m \in T PROVE KeyOf[y] <= KeyOf[m]
      BY <1>2, <1>4, <1>5, <2>4, <3>1 DEF Behind
    <3> QED
      BY <3>2, <3>3 DEF IsLeast
  <2> QED
    BY <1>1, <2>1, <2>3, <2>4, OnlyOne
<1> QED
  BY <1>6, <1>7


Before(n, S) == Greatest({m \in S : KeyOf[m] < KeyOf[n]})

(* An entry that joins a set gets between two neighbours, and what is      *)
(* behind and before the others stays; read backwards, one that leaves.    *)
LEMMA Between ==
  ASSUME NEW S \in SUBSET SlEntries, NEW e \in SlEntries, e \notin S, Unique(S \cup {e})
  PROVE  LET u == Before(e, S)
             y == After(u, S)
         IN  /\ u \in S \cup {Null} /\ y \in S \cup {Null}
             /\ After(e, S \cup {e}) = y /\ After(u, S \cup {e}) = e
             /\ \A x \in S \cup {Null} : x # u => After(x, S \cup {e}) = After(x, S)
             /\ Before(e, S \cup {e}) = u
             /\ y # Null => Before(y, S \cup {e}) = e /\ Before(y, S) = u
             /\ \A n \in S : n # y => Before(n, S \cup {e}) = Before(n, S)
<1> DEFINE T == S \cup {e}
           B == {m \in S : KeyOf[m] < KeyOf[e]}
           u == Before(e, S)
           y == After(u, S)
<1>1. /\ T \in SUBSET SlEntries /\ Unique(T) /\ Unique(S) /\ B \in SUBSET SlEntries /\ Unique(B)
      /\ u = Greatest(B) /\ S \subseteq T /\ e \in T
      /\ \A m \in T : m \in S \/ m = e
  BY DEF Unique, Before
<1>2. \A m \in T : KeyOf[m] \in Int /\ m # Null
  BY SlConstants
<1>3. \A m \in S : KeyOf[m] # KeyOf[e]
  BY <1>1 DEF Unique
<1>4. \A m \in S : m \in B <=> KeyOf[m] < KeyOf[e]
  OBVIOUS
<1>5. u = Null => B = {}
  BY <1>1, Chosen
<1>6. u # Null => u \in S /\ KeyOf[u] < KeyOf[e] /\ \A m \in B : KeyOf[m] <= KeyOf[u]
  BY <1>1, Chosen DEF IsGreatest
<1>7. u \in S \cup {Null}
  BY <1>6
<1>8. Behind(u, y, S)
  BY <1>1, <1>7, AfterIs
<1> HIDE DEF T, B, u, y
<1>9. \A m \in S : KeyOf[e] < KeyOf[m] \/ (u # Null /\ KeyOf[m] <= KeyOf[u])
  BY <1>1, <1>2, <1>3, <1>4, <1>5, <1>6
<1>10. y \in S \cup {Null}
  BY <1>8 DEF Behind
<1>11. y # Null => KeyOf[e] < KeyOf[y]
  BY <1>1, <1>2, <1>6, <1>8, <1>9 DEF Behind
<1>12. \A m \in S : (KeyOf[m] < KeyOf[e] /\ u # Null /\ KeyOf[m] <= KeyOf[u])
                    \/ (KeyOf[e] < KeyOf[m] /\ y # Null /\ KeyOf[y] <= KeyOf[m])
  BY <1>1, <1>2, <1>6, <1>8, <1>9 DEF Behind
<1>13. After(e, T) = y
  <2>1. Behind(e, y, T)
    BY <1>1, <1>2, <1>10, <1>11, <1>12 DEF Behind
  <2> QED
    BY <1>1, <2>1, AfterIs
<1>14. After(u, T) = e
  <2>1. Behind(u, e, T)
    BY <1>1, <1>2, <1>6, <1>7, <1>12 DEF Behind
  <2> QED
    BY <1>1, <1>7, <2>1, AfterIs
<1>15. ASSUME NEW x \in S \cup {Null}, x # u PROVE After(x, T) = After(x, S)
  <2>1. PICK z : z = After(x, S)
    OBVIOUS
  <2>2. Behind(x, z, S)
    BY <1>1, <2>1, AfterIs
  <2>3. x # Null /\ KeyOf[x] < KeyOf[e] => u # Null /\ KeyOf[x] < KeyOf[u]
    <3>1. x # Null /\ u # Null => KeyOf[x] # KeyOf[u]
      BY <1>1, <1>6, <1>15 DEF Unique
    <3> QED
      BY <1>1, <1>2, <1>6, <1>12, <1>15, <3>1
  <2>4. x = Null => u # Null
    BY <1>15
  <2>5. KeyOf[e] <= KeyOf[x] \/ x = Null \/ KeyOf[x] < KeyOf[e]
    BY <1>1, <1>2, <1>15
  <2>6. z = Null => x # Null /\ KeyOf[e] <= KeyOf[x]
    BY <1>1, <1>2, <1>6, <1>15, <2>2, <2>3, <2>4, <2>5 DEF Behind
  <2>7. z # Null => KeyOf[z] <= KeyOf[e] \/ (x # Null /\ KeyOf[e] <= KeyOf[x])
    <3> SUFFICES ASSUME z # Null, x = Null \/ KeyOf[x] < KeyOf[e] PROVE KeyOf[z] <= KeyOf[e]
      BY <2>5
    <3>1. u # Null /\ (x # Null => KeyOf[x] < KeyOf[u])
      BY <2>3, <2>4
    <3>2. z \in S /\ (KeyOf[z] <= KeyOf[u] \/ (x # Null /\ KeyOf[u] <= KeyOf[x]))
      BY <1>6, <2>2, <3>1 DEF Behind
    <3> QED
      BY <1>1, <1>2, <1>6, <1>15, <3>1, <3>2
  <2>8. Behind(x, z, T)
    BY <1>1, <2>2, <2>6, <2>7 DEF Behind
  <2> QED
    BY <1>1, <1>15, <2>1, <2>8, AfterIs
<1>16. Before(e, T) = u
  <2>1. {m \in T : KeyOf[m] < KeyOf[e]} = B
    BY <1>1, <1>2, <1>4 DEF B
  <2> QED
    BY <1>1, <2>1 DEF Before
<1>17. ASSUME y # Null PROVE Before(y, T) = e /\ Before(y, S) = u
  <2> DEFINE R == {m \in T : KeyOf[m] < KeyOf[y]}
  <2>1. {m \in S : KeyOf[m] < KeyOf[y]} = B
    BY <1>1, <1>2, <1>4, <1>10, <1>11, <1>12, <1>17 DEF B
  <2>2. Before(y, S) = u
    BY <1>1, <2>1 DEF Before
  <2>3. e \in R /\ \A m \in R : KeyOf[m] <= KeyOf[e]
    BY <1>1, <1>2, <1>10, <1>11, <1>12, <1>17
  <2>4. R \in SUBSET SlEntries /\ Unique(R) /\ Before(y, T) = Greatest(R)
    BY <1>1 DEF Unique, Before
  <2>5. Before(y, T) = e
    <3>1. IsGreatest(e, R)
      BY <2>3 DEF IsGreatest
    <3> HIDE DEF R
    <3> QED
      BY <2>4, <3>1, OnlyOne
  <2> QED
    BY <2>2, <2>5
<1>18. ASSUME NEW n \in S, n # y PROVE Before(n, T) = Before(n, S)
  <2> DEFINE R == {m \in T : KeyOf[m] < KeyOf[n]}
             Q == {m \in S : KeyOf[m] < KeyOf[n]}
  <2>1. /\ R \in SUBSET SlEntries /\ Unique(R) /\ Q \in SUBSET SlEntries
        /\ Before(n, T) = Greatest(R) /\ Before(n, S) = Greatest(Q)
    BY <1>1 DEF Unique, Before
  <2>2. CASE KeyOf[n] < KeyOf[e]
    <3>1. R = Q
      BY <1>1, <1>2, <2>2
    <3> QED
      BY <2>1, <3>1
  <2>3. CASE ~(KeyOf[n] < KeyOf[e])
    <3>1. y # Null /\ KeyOf[y] <= KeyOf[n] /\ KeyOf[y] # KeyOf[n]
      BY <1>1, <1>10, <1>12, <1>18, <2>3 DEF Unique
    <3>2. y \in Q
      BY <1>1, <1>2, <1>10, <3>1
    <3>3. Q \subseteq R /\ \A m \in R : m \in Q \/ m = e
      BY <1>1
    <3> HIDE DEF R, Q
    <3>4. IsGreatest(Greatest(Q), Q)
      BY <2>1, <3>2, Chosen
    <3>5. PICK g : g = Greatest(Q)
      OBVIOUS
    <3>6. g \in Q /\ KeyOf[y] <= KeyOf[g] /\ KeyOf[g] \in Int /\ KeyOf[y] \in Int
      BY <2>1, <3>2, <3>4, <3>5, SlConstants DEF IsGreatest
    <3>7. KeyOf[e] <= KeyOf[g]
      BY <1>1, <1>2, <1>11, <3>1, <3>6
    <3>8. IsGreatest(g, R)
      BY <3>3, <3>4, <3>5, <3>6, <3>7 DEF IsGreatest
    <3> QED
      BY <2>1, <3>5, <3>8, OnlyOne
  <2> QED
    BY <2>2, <2>3
<1> QED
  BY <1>7, <1>10, <1>13, <1>14, <1>15, <1>16, <1>17, <1>18 DEF T, u, y

(***************************************************************************)
(* The descent                                                             *)
(***************************************************************************)

(* A link that no lane owns was not written.                               *)
SlUnwritten ==
  \A i \in Levels : \A n \in SlEntries \ Lane(i) : sl.next[n][i] = Junk

(* The loop has visited what precedes its node.                            *)
SlWalkRest ==
  slWalk.todo = IF slWalk.at = Null THEN {} ELSE {n \in slIn : KeyOf[slWalk.at] <= KeyOf[n]}

(* The inductive invariant.                                                *)
SlInv ==
  /\ SlTypeOK /\ Unique(slIn) /\ SlLevels /\ SlUnwritten /\ SlWalkRest
  /\ slWalk.at = Least(slWalk.todo)

(* What a descent goes through: the entries up to a key, with the stop     *)
(* among the last of them.                                                 *)
SlCut(pass, stop) ==
  /\ pass \in SUBSET SlEntries /\ stop \in SUBSET SlEntries
  /\ \A n \in pass : \A m \in SlEntries : KeyOf[m] <= KeyOf[n] => m \in pass
  /\ \A x \in stop : \A m \in pass : KeyOf[m] <= KeyOf[x]

(* A lane holds entries of the list, each with a key of its own, and all   *)
(* of the next lane; none reaches the list's level.                        *)
LEMMA LaneIs ==
  ASSUME SlInv
  PROVE  \A i \in Nat : /\ Lane(i) \in SUBSET SlEntries /\ Lane(i) \subseteq slIn
                        /\ Unique(Lane(i)) /\ Lane(i + 1) \subseteq Lane(i)
                        /\ i >= sl.level => Lane(i) = {}
<1>1. /\ slIn \subseteq SlEntries /\ Unique(slIn) /\ sl.level \in 0 .. MaxLevel
      /\ \A n \in SlEntries : sl.height[n] \in 0 .. MaxLevel
      /\ \A i \in Levels : i < sl.level <=> Lane(i) # {}
  BY DEF SlInv, SlTypeOK, SlLevels
<1> SUFFICES ASSUME NEW i \in Nat
             PROVE  /\ Lane(i) \in SUBSET SlEntries /\ Lane(i) \subseteq slIn
                    /\ Unique(Lane(i)) /\ Lane(i + 1) \subseteq Lane(i)
                    /\ i >= sl.level => Lane(i) = {}
  OBVIOUS
<1>2. Lane(i) \in SUBSET SlEntries /\ Lane(i) \subseteq slIn /\ Unique(Lane(i))
  BY <1>1 DEF Lane, Unique
<1>3. Lane(i + 1) \subseteq Lane(i)
  BY <1>1 DEF Lane
<1>4. ASSUME i >= sl.level PROVE Lane(i) = {}
  <2>1. CASE i < MaxLevel
    <3>1. i \in Levels /\ ~(i < sl.level)
      BY <1>1, <1>4, <2>1, SlConstants DEF Levels
    <3> QED
      BY <1>1, <3>1
  <2>2. CASE ~(i < MaxLevel)
    BY <1>1, <2>2, SlConstants DEF Lane
  <2> QED
    BY <2>1, <2>2
<1> QED
  BY <1>2, <1>3, <1>4

(* A member of a lane inside the cut that has no link inside the cut is    *)
(* the last of the lane inside the cut.                                    *)
LEMMA LastInside ==
  ASSUME SlInv, NEW i \in Levels, NEW pass, NEW stop, SlCut(pass, stop),
         NEW x \in (Lane(i) \cap pass) \cup {Null}, Link(x, i) \notin pass
  PROVE  x = Greatest(Lane(i) \cap pass)
<1>1. i \in Nat
  BY SlConstants DEF Levels
<1>2. Lane(i) \in SUBSET SlEntries /\ Unique(Lane(i))
  BY <1>1, LaneIs
<1>3. Link(x, i) = After(x, Lane(i))
  BY DEF SlInv, SlLevels
<1>4. x \in SlEntries \cup {Null}
  BY <1>2
<1>5. PICK y : y = Link(x, i)
  OBVIOUS
<1>6. Behind(x, y, Lane(i))
  BY <1>2, <1>3, <1>4, <1>5, AfterIs
<1>7. \A n \in pass : \A m \in SlEntries : KeyOf[m] <= KeyOf[n] => m \in pass
  BY DEF SlCut
<1>8. \A m \in Lane(i) \cap pass : x # Null /\ KeyOf[m] <= KeyOf[x]
  BY <1>2, <1>5, <1>6, <1>7 DEF Behind
<1>9. Lane(i) \cap pass \in SUBSET SlEntries /\ Unique(Lane(i) \cap pass)
  BY <1>2 DEF Unique
<1>10. CASE x = Null
  <2>1. Lane(i) \cap pass = {}
    BY <1>8, <1>10
  <2> QED
    BY <1>10, <2>1, Chosen
<1>11. CASE x # Null
  <2>1. IsGreatest(x, Lane(i) \cap pass)
    BY <1>8, <1>11 DEF IsGreatest
  <2> QED
    BY <1>9, <2>1, OnlyOne
<1> QED
  BY <1>10, <1>11

(* The walk along one lane, as the recursion defines it.                   *)
Steps(f, pass, stop, i) ==
  [x \in SlEntries \cup {Null} |->
     IF x \notin stop /\ Link(x, i) \in pass THEN f[Link(x, i)] ELSE x]
Run(pass, stop, i) == CHOOSE f : f = Steps(f, pass, stop, i)

(* It ends at the last member of the lane inside the cut.                  *)
LEMMA RunIs ==
  ASSUME SlInv, NEW i \in Levels, NEW pass, NEW stop, SlCut(pass, stop),
         NEW x \in (Lane(i) \cap pass) \cup {Null}
  PROVE  Run(pass, stop, i)[x] = Greatest(Lane(i) \cap pass)
<1> DEFINE D == SlEntries \cup {Null}
           g == [z \in D |-> IF Link(z, i) \in pass THEN Greatest(Lane(i) \cap pass) ELSE z]
<1>1. i \in Nat /\ Lane(i) \in SUBSET SlEntries /\ Unique(Lane(i))
  <2>1. i \in Nat
    BY SlConstants DEF Levels
  <2> QED
    BY <2>1, LaneIs
<1>2. /\ pass \in SUBSET SlEntries /\ stop \in SUBSET SlEntries
      /\ \A s \in stop : \A m \in pass : KeyOf[m] <= KeyOf[s]
  BY DEF SlCut
<1>3. \A z \in D : Link(z, i) \in pass => z \in Lane(i) \cup {Null}
  BY <1>2, SlConstants DEF SlInv, SlUnwritten, Link
<1>4. ASSUME NEW z \in D, Link(z, i) \in pass
      PROVE  /\ Link(z, i) \in Lane(i) \cap pass /\ z \notin stop
             /\ z # Null => KeyOf[z] < KeyOf[Link(z, i)]
  <2>1. z \in Lane(i) \cup {Null} /\ z \in SlEntries \cup {Null}
    BY <1>3, <1>4
  <2>2. Link(z, i) = After(z, Lane(i))
    BY <2>1 DEF SlInv, SlLevels
  <2>3. PICK y : y = Link(z, i)
    OBVIOUS
  <2>4. Behind(z, y, Lane(i))
    BY <1>1, <2>1, <2>2, <2>3, AfterIs
  <2>5. y \in pass /\ y \in SlEntries /\ y # Null /\ KeyOf[y] \in Int
    BY <1>2, <1>4, <2>3, SlConstants
  <2>6. y \in Lane(i) /\ (z # Null => KeyOf[z] < KeyOf[y])
    BY <2>4, <2>5 DEF Behind
  <2>7. z \notin stop
    BY <1>2, <2>5, <2>6, SlConstants
  <2> QED
    BY <2>3, <2>5, <2>6, <2>7
<1>5. \A z \in (Lane(i) \cap pass) \cup {Null} : g[z] = Greatest(Lane(i) \cap pass)
  BY <1>1, LastInside
<1>6. g = Steps(g, pass, stop, i)
  <2>1. ASSUME NEW z \in D PROVE g[z] = Steps(g, pass, stop, i)[z]
    <3>1. CASE Link(z, i) \in pass
      <4>1. z \notin stop /\ Link(z, i) \in Lane(i) \cap pass
        BY <1>4, <3>1
      <4>2. Steps(g, pass, stop, i)[z] = g[Link(z, i)]
        BY <3>1, <4>1 DEF Steps
      <4>3. g[z] = Greatest(Lane(i) \cap pass)
        BY <3>1
      <4> HIDE DEF g
      <4> QED
        BY <1>5, <4>1, <4>2, <4>3
    <3>2. CASE Link(z, i) \notin pass
      <4>1. Steps(g, pass, stop, i)[z] = z
        BY <3>2 DEF Steps
      <4> QED
        BY <3>2, <4>1
    <3> QED
      BY <3>1, <3>2
  <2>2. Steps(g, pass, stop, i) = [z \in D |-> Steps(g, pass, stop, i)[z]]
    BY DEF Steps
  <2>3. g = [z \in D |-> g[z]]
    OBVIOUS
  <2> HIDE DEF g, D
  <2> QED
    BY <2>1, <2>2, <2>3
<1>7. PICK f : f = Run(pass, stop, i)
  OBVIOUS
<1>8. f = Steps(f, pass, stop, i)
  <2> HIDE DEF g
  <2> QED
    BY <1>6, <1>7 DEF Run
<1>9. \A z \in D : f[z] = IF z \notin stop /\ Link(z, i) \in pass THEN f[Link(z, i)] ELSE z
  BY <1>8 DEF Steps
<1> DEFINE B == {z \in Lane(i) \cap pass : f[z] # g[z]}
<1>10. \A z \in D : f[z] # g[z] => Link(z, i) \in B /\ (z # Null => KeyOf[z] < KeyOf[Link(z, i)])
  <2> SUFFICES ASSUME NEW z \in D, f[z] # g[z]
               PROVE  Link(z, i) \in B /\ (z # Null => KeyOf[z] < KeyOf[Link(z, i)])
    OBVIOUS
  <2>1. Link(z, i) \in pass
    BY <1>9
  <2>2. /\ Link(z, i) \in Lane(i) \cap pass /\ z \notin stop
        /\ z # Null => KeyOf[z] < KeyOf[Link(z, i)]
    BY <1>4, <2>1
  <2>3. f[z] = f[Link(z, i)]
    BY <1>9, <2>1, <2>2
  <2>4. g[z] = Greatest(Lane(i) \cap pass)
    BY <2>1
  <2>5. g[Link(z, i)] = Greatest(Lane(i) \cap pass)
    BY <1>5, <2>2
  <2> HIDE DEF g
  <2> QED
    BY <2>2, <2>3, <2>4, <2>5
<1> HIDE DEF g
<1>11. B = {}
  <2>1. B \in SUBSET SlEntries
    BY <1>1
  <2>2. \A z \in B : z \in D /\ z # Null /\ f[z] # g[z] /\ KeyOf[z] \in Int
    BY <1>1, SlConstants
  <2> SUFFICES ASSUME B # {} PROVE FALSE
    OBVIOUS
  <2>3. IsGreatest(Greatest(B), B)
    <3> HIDE DEF B
    <3> QED
      BY <2>1, Chosen
  <2>4. PICK z : z = Greatest(B)
    OBVIOUS
  <2> HIDE DEF B
  <2>5. z \in B /\ \A m \in B : KeyOf[m] <= KeyOf[z]
    BY <2>3, <2>4 DEF IsGreatest
  <2>6. Link(z, i) \in B /\ KeyOf[z] < KeyOf[Link(z, i)]
    BY <1>10, <2>2, <2>5
  <2> QED
    BY <2>2, <2>5, <2>6
<1>12. f[x] = g[x]
  BY <1>1, <1>10, <1>11
<1> QED
  BY <1>5, <1>7, <1>12

(* A descent leaves every level at the last member of its lane inside the  *)
(* cut.                                                                    *)
LEMMA DescentIs ==
  ASSUME SlInv, NEW pass, NEW stop, SlCut(pass, stop)
  PROVE  \A i \in 0 .. MaxLevel : Descent(pass, stop)[i] = Greatest(Lane(i) \cap pass)
<1> DEFINE F(a) == [i \in 0 .. MaxLevel |->
                      IF i >= sl.level THEN Null ELSE Run(pass, stop, i)[a[i + 1]]]
           d == [i \in 0 .. MaxLevel |-> Greatest(Lane(i) \cap pass)]
<1>1. Descent(pass, stop) = CHOOSE a : a = F(a)
  BY DEF Descent, Run, Steps
<1>2. sl.level \in 0 .. MaxLevel /\ MaxLevel \in Nat
  BY SlConstants DEF SlInv, SlTypeOK
<1>3. ASSUME NEW i \in 0 .. MaxLevel, i >= sl.level PROVE d[i] = Null
  <2>1. Lane(i) \cap pass = {}
    BY <1>2, <1>3, LaneIs
  <2> QED
    BY <2>1, Chosen
<1>4. ASSUME NEW i \in 0 .. MaxLevel, ~(i >= sl.level)
      PROVE  /\ i \in Levels /\ i + 1 \in 0 .. MaxLevel
             /\ d[i] = Run(pass, stop, i)[d[i + 1]]
  <2>1. i \in Levels /\ i + 1 \in 0 .. MaxLevel /\ i \in Nat /\ i + 1 \in Nat
    BY <1>2, <1>4 DEF Levels
  <2>2. Lane(i + 1) \subseteq Lane(i) /\ Lane(i + 1) \in SUBSET SlEntries
    BY <2>1, LaneIs
  <2>3. PICK x : x = Greatest(Lane(i + 1) \cap pass)
    OBVIOUS
  <2>4. d[i + 1] = x
    BY <2>1, <2>3
  <2>5. x \in (Lane(i + 1) \cap pass) \cup {Null}
    BY <2>2, <2>3, Chosen DEF IsGreatest
  <2>6. x \in (Lane(i) \cap pass) \cup {Null}
    BY <2>2, <2>5
  <2>7. Run(pass, stop, i)[x] = Greatest(Lane(i) \cap pass)
    BY <2>1, <2>6, RunIs
  <2> QED
    BY <2>1, <2>4, <2>7
<1>5. d = F(d)
  <2>1. ASSUME NEW i \in 0 .. MaxLevel PROVE d[i] = F(d)[i]
    <3> HIDE DEF d
    <3> QED
      BY <1>3, <1>4
  <2> QED
    BY <2>1
<1>6. PICK f : f = Descent(pass, stop)
  OBVIOUS
<1>7. f = F(f)
  <2> HIDE DEF F, d
  <2> QED
    BY <1>1, <1>5, <1>6
<1>8. \A i \in 0 .. MaxLevel : f[i] = IF i >= sl.level THEN Null ELSE Run(pass, stop, i)[f[i + 1]]
  BY <1>7
<1> HIDE DEF d, F
<1> DEFINE T == {j \in Nat : j <= MaxLevel /\ f[MaxLevel - j] # d[MaxLevel - j]}
<1>9. T = {}
  <2> SUFFICES ASSUME T # {} PROVE FALSE
    OBVIOUS
  <2>1. T \in SUBSET Nat
    OBVIOUS
  <2>2. PICK j \in T : \A k \in T : j <= k
    <3> HIDE DEF T
    <3> QED
      BY <2>1, LeastNumber
  <2>3. PICK i : i = MaxLevel - j
    OBVIOUS
  <2>4. i \in 0 .. MaxLevel /\ j \in Nat /\ f[i] # d[i]
    BY <1>2, <2>2, <2>3
  <2>5. ~(i >= sl.level)
    BY <1>3, <1>8, <2>4
  <2>6. i + 1 \in 0 .. MaxLevel /\ f[i + 1] # d[i + 1]
    BY <1>4, <1>8, <2>4, <2>5
  <2>7. j - 1 \in Nat /\ j - 1 <= MaxLevel /\ MaxLevel - (j - 1) = i + 1
    BY <1>2, <2>3, <2>4, <2>6
  <2>8. j - 1 \in T
    BY <2>6, <2>7
  <2> QED
    BY <2>2, <2>4, <2>8
<1>10. ASSUME NEW i \in 0 .. MaxLevel PROVE f[i] = d[i]
  <2>1. MaxLevel - i \in Nat /\ MaxLevel - i <= MaxLevel /\ MaxLevel - (MaxLevel - i) = i
    BY <1>2
  <2> QED
    BY <1>9, <2>1
<1> QED
  BY <1>6, <1>10 DEF d

(***************************************************************************)
(* Searches                                                                *)
(***************************************************************************)

(* The descents of insert and erase end, on every level, at the entry      *)
(* before the one they are for.                                            *)
LEMMA UpdateIs ==
  ASSUME SlInv, NEW e \in SlEntries
  PROVE  \A i \in 0 .. MaxLevel : Descent(Below(KeyOf[e]), {})[i] = Before(e, Lane(i))
<1> DEFINE pass == Below(KeyOf[e])
<1>1. SlCut(pass, {})
  BY SlConstants DEF SlCut, Below
<1>2. \A i \in 0 .. MaxLevel : Descent(pass, {})[i] = Greatest(Lane(i) \cap pass)
  BY <1>1, DescentIs
<1>3. ASSUME NEW i \in 0 .. MaxLevel PROVE Greatest(Lane(i) \cap pass) = Before(e, Lane(i))
  <2>1. Lane(i) \in SUBSET SlEntries
    BY <1>3, SlConstants, LaneIs
  <2>2. Lane(i) \cap pass = {m \in Lane(i) : KeyOf[m] < KeyOf[e]}
    BY <2>1 DEF Below
  <2> QED
    BY <2>2 DEF Before
<1> QED
  BY <1>2, <1>3

(* The lowest lane holds every entry.                                      *)
LEMMA LowestLane ==
  ASSUME SlInv
  PROVE  0 \in Levels /\ Lane(0) = slIn /\ slIn \in SUBSET SlEntries /\ Unique(slIn)
BY SlConstants DEF SlInv, SlLevels, SlTypeOK, Levels

(* The searches are exact whenever the lanes are.                          *)
LEMMA SearchesAreExact ==
  ASSUME SlInv
  PROVE  SlFinds
<1>1. Lane(0) = slIn /\ slIn \in SUBSET SlEntries /\ Unique(slIn) /\ 0 \in 0 .. MaxLevel
  BY LowestLane, SlConstants
<1>2. ASSUME NEW k \in {KeyOf[e] : e \in Entries}
      PROVE  /\ SlFindLe(k) = Greatest({n \in slIn : KeyOf[n] <= k})
             /\ SlFind(k) = Least({n \in slIn : KeyOf[n] = k})
  <2> DEFINE pass == Below(k) \cup Having(k)
             R == {n \in slIn : KeyOf[n] <= k}
             Q == {n \in slIn : KeyOf[n] = k}
  <2>1. k \in Int
    BY EntriesAssumption
  <2>2. SlCut(pass, Having(k))
    BY <2>1, SlConstants DEF SlCut, Below, Having
  <2>3. SlFindLe(k) = Greatest(Lane(0) \cap pass)
    BY <1>1, <2>2, DescentIs DEF SlFindLe
  <2>4. Lane(0) \cap pass = R
    BY <1>1, <2>1, SlConstants DEF Below, Having
  <2>5. PICK x : x = SlFindLe(k)
    OBVIOUS
  <2>6. x = Greatest(R)
    BY <2>3, <2>4, <2>5
  <2>7. R \in SUBSET SlEntries /\ Q \in SUBSET SlEntries /\ Unique(Q)
    BY <1>1 DEF Unique
  <2>8. \A n \in Q : n \in R /\ KeyOf[n] = k
    BY <2>1
  <2>9. \A n \in R : KeyOf[n] \in Int /\ KeyOf[n] <= k /\ (KeyOf[n] = k => n \in Q)
    BY <1>1, SlConstants
  <2>10. SlFind(k) = IF x \in Having(k) THEN x ELSE Null
    BY <2>5 DEF SlFind
  <2> HIDE DEF R, Q
  <2>11. x # Null => x \in R /\ \A m \in R : KeyOf[m] <= KeyOf[x]
    BY <2>6, <2>7, Chosen DEF IsGreatest
  <2>12. CASE x \in Having(k)
    <3>1. x # Null /\ KeyOf[x] = k
      BY <2>12, SlConstants DEF Having
    <3>2. x \in Q
      BY <2>9, <2>11, <3>1
    <3>3. IsLeast(x, Q)
      BY <2>1, <2>8, <3>1, <3>2 DEF IsLeast
    <3>4. SlFind(k) = Least(Q)
      BY <2>7, <2>10, <2>12, <3>3, OnlyOne
    <3> QED
      BY <2>5, <2>6, <3>4 DEF R, Q
  <2>13. CASE x \notin Having(k)
    <3>1. Q = {}
      <4> SUFFICES ASSUME NEW n \in Q PROVE FALSE
        OBVIOUS
      <4>1. R # {} /\ n \in R /\ KeyOf[n] = k
        BY <2>8
      <4>2. x # Null
        BY <2>6, <2>7, <4>1, Chosen
      <4>3. KeyOf[x] = k /\ x \in SlEntries
        BY <2>1, <2>7, <2>9, <2>11, <4>1, <4>2
      <4> QED
        BY <2>13, <4>3 DEF Having
    <3>2. SlFind(k) = Least(Q)
      BY <2>10, <2>13, <3>1, Chosen
    <3> QED
      BY <2>5, <2>6, <3>2 DEF R, Q
  <2> QED
    BY <2>12, <2>13
<1>3. SlLast = Greatest(slIn)
  <2>1. SlCut(SlEntries, {})
    BY DEF SlCut
  <2>2. Lane(0) \cap SlEntries = slIn
    BY <1>1
  <2> QED
    BY <1>1, <2>1, <2>2, DescentIs DEF SlLast
<1>4. slWalk.at = Least(slWalk.todo)
  BY DEF SlInv
<1> QED
  BY <1>2, <1>3, <1>4 DEF SlFinds

(***************************************************************************)
(* Steps                                                                   *)
(***************************************************************************)

(* What a change of the list leaves true, whatever the loop does.          *)
SlSound ==
  /\ sl \in [head : [Levels -> SlEntries \cup {Null}], level : 0 .. MaxLevel,
             next : [SlEntries -> [Levels -> SlEntries \cup {Null, Junk}]],
             prev : [SlEntries -> SlEntries \cup {Null, Junk}],
             height : [SlEntries -> 0 .. MaxLevel]]
  /\ slIn \subseteq SlEntries
  /\ Unique(slIn) /\ SlLevels /\ SlUnwritten

(* An inserted entry is linked between its neighbours on every lane its    *)
(* height reaches.                                                         *)
LEMMA InsertKeeps ==
  ASSUME SlInv, NEW e \in SlEntries, NEW random \in 1 .. MaxLevel + 1, SlInsert(e, random)
  PROVE  SlSound'
<1>1. PICK up : up = Descent(Below(KeyOf[e]), {})
  OBVIOUS
<1>2. PICK lvl : lvl = IF random > MaxLevel THEN MaxLevel ELSE random
  OBVIOUS
<1>3. PICK next0 : next0 = Link(up[0], 0)
  OBVIOUS
<1>4. /\ e \notin slIn /\ next0 \notin Having(KeyOf[e])
      /\ sl' = [head |-> [i \in Levels |-> IF i < lvl /\ up[i] = Null THEN e ELSE sl.head[i]],
                level |-> IF lvl > sl.level THEN lvl ELSE sl.level,
                next |-> [n \in SlEntries |-> [i \in Levels |->
                            IF n = e THEN IF i < lvl THEN Link(up[i], i) ELSE Junk
                            ELSE IF i < lvl /\ up[i] = n THEN e ELSE sl.next[n][i]]],
                prev |-> Backward([sl.prev EXCEPT ![e] = up[0]], next0, e),
                height |-> [sl.height EXCEPT ![e] = lvl]]
      /\ slIn' = slIn \cup {e}
  BY <1>1, <1>2, <1>3 DEF SlInsert
<1>5. MaxLevel \in Nat /\ lvl \in 1 .. MaxLevel /\ lvl \in 0 .. MaxLevel
  BY <1>2, SlConstants
<1>6. /\ sl.head \in [Levels -> SlEntries \cup {Null}] /\ sl.level \in 0 .. MaxLevel
      /\ sl.next \in [SlEntries -> [Levels -> SlEntries \cup {Null, Junk}]]
      /\ sl.prev \in [SlEntries -> SlEntries \cup {Null, Junk}]
      /\ sl.height \in [SlEntries -> 0 .. MaxLevel]
  BY DEF SlInv, SlTypeOK
<1>7. \A i \in Levels : /\ Lane(i) \in SUBSET SlEntries /\ Lane(i) \subseteq slIn /\ e \notin Lane(i)
                        /\ up[i] = Before(e, Lane(i))
  <2>1. \A i \in Levels : i \in Nat /\ i \in 0 .. MaxLevel
    BY <1>5 DEF Levels
  <2> QED
    BY <1>1, <1>4, <2>1, LaneIs, UpdateIs
<1>8. /\ 0 \in Levels /\ Lane(0) = slIn /\ slIn \in SUBSET SlEntries /\ Unique(slIn)
      /\ up[0] = Before(e, slIn) /\ up[0] \in slIn \cup {Null}
      /\ next0 = After(up[0], slIn)
  <2>1. /\ 0 \in Levels /\ Lane(0) = slIn /\ slIn \in SUBSET SlEntries /\ Unique(slIn)
        /\ up[0] = Before(e, slIn)
    BY <1>7, LowestLane
  <2>2. {m \in slIn : KeyOf[m] < KeyOf[e]} \in SUBSET SlEntries
    BY <2>1
  <2>3. up[0] \in slIn \cup {Null}
    BY <2>1, <2>2, Chosen DEF Before, IsGreatest
  <2>4. Link(up[0], 0) = After(up[0], Lane(0))
    BY <2>1, <2>3 DEF SlInv, SlLevels
  <2> QED
    BY <1>3, <2>1, <2>3, <2>4
<1>9. Unique(slIn \cup {e})
  <2> SUFFICES ASSUME NEW m \in slIn, KeyOf[m] = KeyOf[e] PROVE FALSE
    BY <1>8 DEF Unique
  <2>1. Behind(up[0], next0, slIn)
    BY <1>8, AfterIs
  <2> DEFINE R == {n \in slIn : KeyOf[n] < KeyOf[e]}
  <2>2. R \in SUBSET SlEntries /\ up[0] = Greatest(R)
    BY <1>8 DEF Before
  <2>3. \A n \in R : n \in slIn /\ KeyOf[n] < KeyOf[e]
    OBVIOUS
  <2>4. \A n \in slIn : KeyOf[n] < KeyOf[e] => n \in R
    OBVIOUS
  <2> HIDE DEF R
  <2>5. up[0] # Null => up[0] \in R
    BY <2>2, Chosen DEF IsGreatest
  <2>6. \A n \in R : up[0] # Null /\ KeyOf[n] <= KeyOf[up[0]]
    BY <2>2, Chosen DEF IsGreatest
  <2>7. \A n \in slIn : KeyOf[n] \in Int /\ n \in SlEntries
    BY <1>8, SlConstants
  <2>8. next0 \in slIn /\ KeyOf[next0] <= KeyOf[e]
    BY <2>1, <2>3, <2>5, <2>7, SlConstants DEF Behind
  <2>9. KeyOf[next0] # KeyOf[e]
    BY <1>4, <2>7, <2>8 DEF Having
  <2>10. next0 \in R
    BY <2>4, <2>7, <2>8, <2>9, SlConstants
  <2>11. up[0] # Null /\ KeyOf[next0] <= KeyOf[up[0]]
    BY <2>6, <2>10
  <2>12. next0 # Null
    BY <2>7, <2>8, SlConstants
  <2>13. KeyOf[up[0]] < KeyOf[next0]
    BY <2>1, <2>11, <2>12 DEF Behind
  <2>14. KeyOf[up[0]] \in Int /\ KeyOf[next0] \in Int
    BY <2>3, <2>5, <2>7, <2>8, <2>11
  <2> QED
    BY <2>11, <2>13, <2>14
<1>10. \A i \in Levels : Lane(i)' = IF i < lvl THEN Lane(i) \cup {e} ELSE Lane(i)
  BY <1>4, <1>5, <1>6, <1>7, <1>8, SlConstants DEF Lane, Levels
<1>11. \A i \in Levels :
         /\ up[i] \in Lane(i) \cup {Null} /\ Link(up[i], i) = After(up[i], Lane(i))
         /\ After(up[i], Lane(i)) \in Lane(i) \cup {Null}
         /\ After(e, Lane(i) \cup {e}) = After(up[i], Lane(i))
         /\ After(up[i], Lane(i) \cup {e}) = e
         /\ \A x \in Lane(i) \cup {Null} :
              x # up[i] => After(x, Lane(i) \cup {e}) = After(x, Lane(i))
  <2> SUFFICES ASSUME NEW i \in Levels
      PROVE /\ up[i] \in Lane(i) \cup {Null} /\ Link(up[i], i) = After(up[i], Lane(i))
            /\ After(up[i], Lane(i)) \in Lane(i) \cup {Null}
            /\ After(e, Lane(i) \cup {e}) = After(up[i], Lane(i))
            /\ After(up[i], Lane(i) \cup {e}) = e
            /\ \A x \in Lane(i) \cup {Null} :
                 x # up[i] => After(x, Lane(i) \cup {e}) = After(x, Lane(i))
    OBVIOUS
  <2>1. PICK S : S = Lane(i)
    OBVIOUS
  <2>2. S \in SUBSET SlEntries /\ e \notin S /\ Unique(S \cup {e}) /\ up[i] = Before(e, S)
    BY <1>7, <1>9, <2>1 DEF Unique
  <2>3. /\ up[i] \in S \cup {Null} /\ After(up[i], S) \in S \cup {Null}
        /\ After(e, S \cup {e}) = After(up[i], S) /\ After(up[i], S \cup {e}) = e
        /\ \A x \in S \cup {Null} : x # up[i] => After(x, S \cup {e}) = After(x, S)
    <3>1. LET u == Before(e, S)
          IN  /\ u \in S \cup {Null} /\ After(u, S) \in S \cup {Null}
              /\ After(e, S \cup {e}) = After(u, S) /\ After(u, S \cup {e}) = e
              /\ \A x \in S \cup {Null} : x # u => After(x, S \cup {e}) = After(x, S)
      BY <2>2, Between, Zenon
    <3> QED
      BY <2>2, <3>1
  <2>4. Link(up[i], i) = After(up[i], Lane(i))
    BY <2>1, <2>3 DEF SlInv, SlLevels
  <2> QED
    BY <2>1, <2>3, <2>4
<1>12. /\ up[0] = Before(e, slIn \cup {e})
       /\ next0 \in slIn \cup {Null}
       /\ next0 # Null => Before(next0, slIn \cup {e}) = e
       /\ \A n \in slIn : n # next0 => Before(n, slIn \cup {e}) = Before(n, slIn)
  <2>1. LET u == Before(e, slIn)
            y == After(u, slIn)
        IN  /\ y \in slIn \cup {Null}
            /\ Before(e, slIn \cup {e}) = u
            /\ y # Null => Before(y, slIn \cup {e}) = e
            /\ \A n \in slIn : n # y => Before(n, slIn \cup {e}) = Before(n, slIn)
    BY <1>4, <1>8, <1>9, Between, ZenonT(40)
  <2> QED
    BY <1>8, <2>1
<1>13. \A x \in SlEntries \cup {Null} : \A i \in Levels :
         Link(x, i)' = IF x = e THEN IF i < lvl THEN Link(up[i], i) ELSE Junk
                       ELSE IF i < lvl /\ up[i] = x THEN e ELSE Link(x, i)
  BY <1>4, SlConstants DEF Link
<1>14. \A i \in Levels : \A x \in Lane(i) \cup {Null} : Link(x, i) = After(x, Lane(i))
  BY DEF SlInv, SlLevels
<1>15. ASSUME NEW i \in Levels, NEW x \in Lane(i)' \cup {Null}
       PROVE  Link(x, i)' = After(x, Lane(i)')
  <2>1. CASE i < lvl
    <3>1. Lane(i)' = Lane(i) \cup {e} /\ x \in Lane(i) \cup {Null, e} /\ x \in SlEntries \cup {Null}
      BY <1>7, <1>10, <1>15, <2>1
    <3>2. CASE x = e
      <4>1. Link(x, i)' = Link(up[i], i)
        BY <1>13, <2>1, <3>1, <3>2
      <4> QED
        BY <1>11, <3>1, <3>2, <4>1
    <3>3. CASE x # e /\ x = up[i]
      <4>1. Link(x, i)' = e
        BY <1>13, <2>1, <3>1, <3>3
      <4> QED
        BY <1>11, <3>1, <3>3, <4>1
    <3>4. CASE x # e /\ x # up[i]
      <4>1. Link(x, i)' = Link(x, i) /\ x \in Lane(i) \cup {Null}
        BY <1>13, <2>1, <3>1, <3>4
      <4> QED
        BY <1>11, <1>14, <3>1, <3>4, <4>1
    <3> QED
      BY <3>2, <3>3, <3>4
  <2>2. CASE ~(i < lvl)
    BY <1>7, <1>10, <1>13, <1>14, <1>15, <2>2, SlConstants
  <2> QED
    BY <2>1, <2>2
<1>16. sl'.level \in 0 .. MaxLevel /\ \A i \in Levels : i < sl'.level <=> Lane(i)' # {}
  <2>1. \A i \in Levels : i < sl.level <=> Lane(i) # {}
    BY DEF SlInv, SlLevels
  <2>2. \A i \in Levels : Lane(i)' # {} <=> i < lvl \/ i < sl.level
    BY <1>10, <2>1
  <2>3. sl'.level = IF lvl > sl.level THEN lvl ELSE sl.level
    BY <1>4
  <2>4. sl.level \in 0 .. MaxLevel
    BY <1>6
  <2>5. \A i \in Levels : i \in Int
    BY <1>5 DEF Levels
  <2>6. sl'.level \in 0 .. MaxLevel /\ \A i \in Int : i < sl'.level <=> i < lvl \/ i < sl.level
    BY <1>5, <2>3, <2>4
  <2> QED
    BY <2>2, <2>5, <2>6
<1>17. Lane(0)' = slIn'
  BY <1>4, <1>5, <1>8, <1>10
<1>18. \A n \in SlEntries : sl'.prev[n] = IF n = next0 THEN e ELSE IF n = e THEN up[0] ELSE sl.prev[n]
  BY <1>4, <1>6, <1>8, <1>12, SlConstants DEF Backward
<1>19. \A n \in slIn : sl.prev[n] = Before(n, slIn)
  BY DEF SlInv, SlLevels, Before
<1>20. ASSUME NEW n \in slIn' PROVE sl'.prev[n] = Before(n, slIn')
  BY <1>4, <1>8, <1>12, <1>18, <1>19, <1>20, SlConstants
<1>21. ASSUME NEW i \in Levels, NEW n \in SlEntries \ Lane(i)' PROVE sl'.next[n][i] = Junk
  <2>1. n # e => n \notin Lane(i) /\ sl.next[n][i] = Junk
    BY <1>10, <1>21 DEF SlInv, SlUnwritten
  <2>2. n = e => ~(i < lvl)
    BY <1>10, <1>21
  <2>3. sl'.next[n][i] = IF n = e THEN IF i < lvl THEN Link(up[i], i) ELSE Junk
                         ELSE IF i < lvl /\ up[i] = n THEN e ELSE sl.next[n][i]
    BY <1>4
  <2>4. n # e => up[i] # n
    BY <1>11, <2>1, SlConstants
  <2> QED
    BY <2>1, <2>2, <2>3, <2>4
<1>22. sl' \in [head : [Levels -> SlEntries \cup {Null}], level : 0 .. MaxLevel,
                next : [SlEntries -> [Levels -> SlEntries \cup {Null, Junk}]],
                prev : [SlEntries -> SlEntries \cup {Null, Junk}],
                height : [SlEntries -> 0 .. MaxLevel]]
  <2>1. [i \in Levels |-> IF i < lvl /\ up[i] = Null THEN e ELSE sl.head[i]]
           \in [Levels -> SlEntries \cup {Null}]
    BY <1>6
  <2>2. \A i \in Levels : Link(up[i], i) \in SlEntries \cup {Null}
    BY <1>7, <1>11
  <2>3. [n \in SlEntries |-> [i \in Levels |->
            IF n = e THEN IF i < lvl THEN Link(up[i], i) ELSE Junk
            ELSE IF i < lvl /\ up[i] = n THEN e ELSE sl.next[n][i]]]
           \in [SlEntries -> [Levels -> SlEntries \cup {Null, Junk}]]
    BY <1>6, <2>2
  <2>4. Backward([sl.prev EXCEPT ![e] = up[0]], next0, e) \in [SlEntries -> SlEntries \cup {Null, Junk}]
    BY <1>6, <1>8 DEF Backward
  <2>5. [sl.height EXCEPT ![e] = lvl] \in [SlEntries -> 0 .. MaxLevel]
    BY <1>5, <1>6
  <2> QED
    BY <1>4, <1>16, <2>1, <2>3, <2>4, <2>5
<1>23. SlLevels'
  BY <1>15, <1>16, <1>17, <1>20 DEF SlLevels, Before
<1>24. SlUnwritten'
  BY <1>21 DEF SlUnwritten
<1>25. slIn' \subseteq SlEntries /\ Unique(slIn')
  BY <1>4, <1>8, <1>9
<1> QED
  BY <1>22, <1>23, <1>24, <1>25 DEF SlSound

(* The level that remains reaches the tallest lane that has an entry.      *)
LEMMA ShrunkIs ==
  ASSUME SlInv, NEW head,
         \A i \in Levels : \A j \in Levels : i <= j /\ head[i] = Null => head[j] = Null,
         \A i \in Levels : i >= sl.level => head[i] = Null
  PROVE  Shrunk(head) \in 0 .. MaxLevel /\ \A i \in Levels : i < Shrunk(head) <=> head[i] # Null
<1> DEFINE Fits(l) == /\ l > 0 => head[l - 1] # Null
                      /\ \A i \in l .. sl.level - 1 : head[i] = Null
           T == {l \in Nat : l <= sl.level /\ \A i \in l .. sl.level - 1 : head[i] = Null}
<1>1. sl.level \in 0 .. MaxLevel /\ MaxLevel \in Nat
  BY SlConstants DEF SlInv, SlTypeOK
<1>2. \E l \in 0 .. sl.level : Fits(l)
  <2>1. sl.level \in T
    BY <1>1
  <2>2. T \in SUBSET Nat /\ T # {}
    BY <2>1
  <2>3. PICK l \in T : \A m \in T : l <= m
    <3> HIDE DEF T
    <3> QED
      BY <2>2, LeastNumber
  <2>4. l \in 0 .. sl.level /\ l \in Nat /\ \A i \in l .. sl.level - 1 : head[i] = Null
    BY <1>1, <2>3
  <2>5. ASSUME l > 0 PROVE head[l - 1] # Null
    <3> SUFFICES ASSUME head[l - 1] = Null PROVE FALSE
      OBVIOUS
    <3>1. l - 1 \in Nat /\ l - 1 <= sl.level
      BY <1>1, <2>4, <2>5
    <3>2. \A i \in l - 1 .. sl.level - 1 : i = l - 1 \/ i \in l .. sl.level - 1
      BY <1>1, <2>4
    <3>3. l - 1 \in T
      BY <2>4, <3>1, <3>2
    <3> QED
      BY <2>3, <2>4, <3>3
  <2> QED
    BY <2>4, <2>5
<1>3. PICK s : s = Shrunk(head)
  OBVIOUS
<1>4. s \in 0 .. sl.level /\ Fits(s)
  BY <1>2, <1>3 DEF Shrunk
<1>5. ASSUME NEW i \in Levels PROVE i < s <=> head[i] # Null
  <2>1. i \in 0 .. MaxLevel - 1
    BY DEF Levels
  <2>2. CASE i < s
    <3>1. s - 1 \in Levels /\ i <= s - 1 /\ s > 0
      BY <1>1, <1>4, <2>1, <2>2 DEF Levels
    <3> QED
      BY <1>4, <2>2, <3>1
  <2>3. CASE ~(i < s)
    <3>1. i >= sl.level \/ i \in s .. sl.level - 1
      BY <1>1, <1>4, <2>1, <2>3
    <3> QED
      BY <1>4, <2>3, <3>1
  <2> QED
    BY <2>2, <2>3
<1> QED
  BY <1>1, <1>3, <1>4, <1>5

(* An erased entry is taken out of every lane that has it.                 *)
LEMMA EraseKeeps ==
  ASSUME SlInv, NEW e \in SlEntries, SlErase(e)
  PROVE  SlSound'
<1>1. PICK up : up = Descent(Below(KeyOf[e]), {})
  OBVIOUS
<1> DEFINE Skips(x, i) == i < sl.height[e] /\ up[i] = x /\ Link(x, i) = e
<1>2. PICK head : head = [i \in Levels |-> IF Skips(Null, i) THEN sl.next[e][i] ELSE sl.head[i]]
  OBVIOUS
<1>3. /\ e \in slIn
      /\ sl' = [head |-> head,
                level |-> Shrunk(head),
                next |-> [n \in SlEntries |-> [i \in Levels |->
                            IF n = e THEN Junk
                            ELSE IF Skips(n, i) THEN sl.next[e][i] ELSE sl.next[n][i]]],
                prev |-> [Backward(sl.prev, sl.next[e][0], sl.prev[e]) EXCEPT ![e] = Junk],
                height |-> [sl.height EXCEPT ![e] = 0]]
      /\ slIn' = slIn \ {e}
  BY <1>1, <1>2 DEF SlErase
<1>4. MaxLevel \in Nat /\ MaxLevel > 0 /\ \A i \in Levels : i \in Nat /\ i \in 0 .. MaxLevel
  BY SlConstants DEF Levels
<1>5. /\ sl.head \in [Levels -> SlEntries \cup {Null}] /\ sl.level \in 0 .. MaxLevel
      /\ sl.next \in [SlEntries -> [Levels -> SlEntries \cup {Null, Junk}]]
      /\ sl.prev \in [SlEntries -> SlEntries \cup {Null, Junk}]
      /\ sl.height \in [SlEntries -> 0 .. MaxLevel]
  BY DEF SlInv, SlTypeOK
<1>6. 0 \in Levels /\ Lane(0) = slIn /\ slIn \in SUBSET SlEntries /\ Unique(slIn)
  BY LowestLane
<1>7. \A i \in Levels : /\ Lane(i) \in SUBSET SlEntries /\ Lane(i) \subseteq slIn
                        /\ Lane(i + 1) \subseteq Lane(i) /\ Unique(Lane(i))
                        /\ up[i] = Before(e, Lane(i))
                        /\ i < sl.height[e] <=> e \in Lane(i)
  BY <1>1, <1>3, <1>4, LaneIs, UpdateIs DEF Lane
<1>8. \A i \in Levels : \A x \in Lane(i) \cup {Null} : Link(x, i) = After(x, Lane(i))
  BY DEF SlInv, SlLevels
<1>9. \A i \in Levels : Lane(i)' = Lane(i) \ {e}
  BY <1>3, <1>4, <1>5, <1>6, <1>7 DEF Lane
<1>11. ASSUME NEW i \in Levels, e \in Lane(i)
       PROVE  LET S == Lane(i) \ {e}
              IN  /\ up[i] \in S \cup {Null} /\ After(up[i], S) \in S \cup {Null}
                  /\ After(e, Lane(i)) = After(up[i], S) /\ After(up[i], Lane(i)) = e
                  /\ \A x \in S \cup {Null} : x # up[i] => After(x, Lane(i)) = After(x, S)
  <2>1. PICK S : S = Lane(i) \ {e}
    OBVIOUS
  <2>2. S \in SUBSET SlEntries /\ e \notin S /\ S \cup {e} = Lane(i) /\ Unique(S \cup {e})
    <3>1. S \in SUBSET SlEntries /\ e \notin S /\ S \cup {e} = Lane(i)
      BY <1>7, <1>11, <2>1
    <3> QED
      BY <1>7, <3>1
  <2>3. LET u == Before(e, S)
        IN  /\ u \in S \cup {Null} /\ After(u, S) \in S \cup {Null}
            /\ After(e, S \cup {e}) = After(u, S) /\ After(u, S \cup {e}) = e
            /\ \A x \in S \cup {Null} : x # u => After(x, S \cup {e}) = After(x, S)
            /\ Before(e, S \cup {e}) = u
    BY <2>2, Between, Zenon
  <2>4. up[i] = Before(e, S)
    BY <1>7, <2>2, <2>3
  <2> QED
    BY <2>1, <2>2, <2>3, <2>4
<1>12. PICK y : y = sl.next[e][0]
  OBVIOUS
<1>13. LET S == slIn \ {e}
       IN  /\ y \in S \cup {Null}
           /\ y # Null => Before(y, S) = Before(e, slIn)
           /\ \A n \in S : n # y => Before(n, slIn) = Before(n, S)
  <2>1. PICK S : S = slIn \ {e}
    OBVIOUS
  <2>2. S \in SUBSET SlEntries /\ e \notin S /\ S \cup {e} = slIn /\ Unique(S \cup {e})
    BY <1>3, <1>6, <2>1
  <2>3. LET u == Before(e, S)
            z == After(u, S)
        IN  /\ z \in S \cup {Null} /\ After(e, S \cup {e}) = z
            /\ Before(e, S \cup {e}) = u
            /\ z # Null => Before(z, S) = u
            /\ \A n \in S : n # z => Before(n, S \cup {e}) = Before(n, S)
    BY <2>2, Between, Zenon
  <2>4. y = After(e, slIn)
    <3>1. Link(e, 0) = After(e, Lane(0))
      BY <1>3, <1>6, <1>8
    <3>2. Link(e, 0) = sl.next[e][0]
      BY SlConstants DEF Link
    <3> QED
      BY <1>6, <1>12, <3>1, <3>2
  <2> QED
    BY <2>1, <2>2, <2>3, <2>4
<1>14. \A i \in Levels : \A x \in Lane(i) \cup {Null} :
         Skips(x, i) <=> e \in Lane(i) /\ x = up[i]
  <2> SUFFICES ASSUME NEW i \in Levels, NEW x \in Lane(i) \cup {Null}
               PROVE  Skips(x, i) <=> e \in Lane(i) /\ x = up[i]
    OBVIOUS
  <2>1. CASE e \in Lane(i)
    <3>1. After(up[i], Lane(i)) = e
      BY <1>11, <2>1
    <3> QED
      BY <1>7, <1>8, <2>1, <3>1
  <2>2. CASE e \notin Lane(i)
    BY <1>7, <2>2
  <2> QED
    BY <2>1, <2>2
<1>15. \A i \in Levels : e \in Lane(i) => sl.next[e][i] = After(e, Lane(i))
  BY <1>8, SlConstants DEF Link
<1>16. \A x \in SlEntries \cup {Null} : \A i \in Levels :
         x # e => Link(x, i)' = IF Skips(x, i) THEN sl.next[e][i] ELSE Link(x, i)
  BY <1>2, <1>3, SlConstants DEF Link
<1> HIDE DEF Skips
<1>17. ASSUME NEW i \in Levels, NEW x \in Lane(i)' \cup {Null}
       PROVE  Link(x, i)' = After(x, Lane(i)')
  <2>1. Lane(i)' = Lane(i) \ {e} /\ x \in Lane(i) \cup {Null} /\ x # e /\ x \in SlEntries \cup {Null}
    BY <1>7, <1>9, <1>17, SlConstants
  <2>2. CASE e \in Lane(i) /\ x = up[i]
    <3>1. Link(x, i)' = After(e, Lane(i))
      BY <1>14, <1>15, <1>16, <2>1, <2>2
    <3> QED
      BY <1>11, <2>1, <2>2, <3>1
  <2>3. CASE e \in Lane(i) /\ x # up[i]
    <3>1. Link(x, i)' = After(x, Lane(i)) /\ x \in (Lane(i) \ {e}) \cup {Null}
      BY <1>8, <1>14, <1>16, <1>17, <2>1, <2>3
    <3> QED
      BY <1>11, <2>1, <2>3, <3>1
  <2>4. CASE e \notin Lane(i)
    <3>1. Link(x, i)' = After(x, Lane(i)) /\ Lane(i)' = Lane(i)
      BY <1>8, <1>14, <1>16, <2>1, <2>4
    <3> QED
      BY <3>1
  <2> QED
    BY <2>2, <2>3, <2>4
<1>18. \A i \in Levels : head[i] = Null <=> Lane(i)' = {}
  <2> SUFFICES ASSUME NEW i \in Levels PROVE head[i] = Null <=> Lane(i)' = {}
    OBVIOUS
  <2>1. head[i] = After(Null, Lane(i)')
    <3>1. Link(Null, i)' = head[i]
      BY <1>3 DEF Link
    <3> QED
      BY <1>17, <3>1
  <2>2. PICK S : S = Lane(i)'
    OBVIOUS
  <2>3. S \in SUBSET SlEntries /\ After(Null, S) = Least(S)
    BY <1>7, <1>9, <2>2 DEF After
  <2> QED
    BY <2>1, <2>2, <2>3, Chosen
<1>19. Shrunk(head) \in 0 .. MaxLevel /\ \A i \in Levels : i < Shrunk(head) <=> head[i] # Null
  <2>1. \A i \in Levels : \A j \in Levels : i <= j => Lane(j) \subseteq Lane(i)
    BY <1>4, <1>5, <1>6 DEF Lane
  <2>2. \A i \in Levels : i >= sl.level => Lane(i) = {}
    BY <1>4, LaneIs
  <2>3. \A i \in Levels : \A j \in Levels : i <= j /\ head[i] = Null => head[j] = Null
    BY <1>9, <1>18, <2>1
  <2>4. \A i \in Levels : i >= sl.level => head[i] = Null
    BY <1>9, <1>18, <2>2
  <2> QED
    BY <2>3, <2>4, ShrunkIs
<1>20. sl'.level \in 0 .. MaxLevel /\ \A i \in Levels : i < sl'.level <=> Lane(i)' # {}
  BY <1>3, <1>18, <1>19
<1>21. Lane(0)' = slIn'
  BY <1>3, <1>6, <1>9
<1>22. \A n \in slIn : sl.prev[n] = Before(n, slIn)
  BY DEF SlInv, SlLevels, Before
<1>23. \A n \in SlEntries : n # e => sl'.prev[n] = IF n = y THEN sl.prev[e] ELSE sl.prev[n]
  <2>1. sl'.prev = [Backward(sl.prev, y, sl.prev[e]) EXCEPT ![e] = Junk]
    BY <1>3, <1>12
  <2> QED
    BY <1>5, <1>13, <2>1, SlConstants DEF Backward
<1>24. ASSUME NEW n \in slIn' PROVE sl'.prev[n] = Before(n, slIn')
  <2>1. slIn' = slIn \ {e} /\ n \in slIn \ {e} /\ n \in SlEntries /\ n # Null
    BY <1>3, <1>6, <1>24, SlConstants
  <2> QED
    BY <1>3, <1>13, <1>22, <1>23, <2>1
<1>25. ASSUME NEW i \in Levels, NEW n \in SlEntries \ Lane(i)' PROVE sl'.next[n][i] = Junk
  <2>1. sl'.next[n][i] = IF n = e THEN Junk ELSE IF Skips(n, i) THEN sl.next[e][i] ELSE sl.next[n][i]
    BY <1>3
  <2>2. CASE n # e
    <3>1. n \notin Lane(i) /\ sl.next[n][i] = Junk /\ n # Null
      BY <1>9, <1>25, <2>2, SlConstants DEF SlInv, SlUnwritten
    <3>2. Link(n, i) # e
      BY <3>1, SlConstants DEF Link
    <3> QED
      BY <2>1, <2>2, <3>1, <3>2 DEF Skips
  <2> QED
    BY <2>1, <2>2
<1>26. sl' \in [head : [Levels -> SlEntries \cup {Null}], level : 0 .. MaxLevel,
                next : [SlEntries -> [Levels -> SlEntries \cup {Null, Junk}]],
                prev : [SlEntries -> SlEntries \cup {Null, Junk}],
                height : [SlEntries -> 0 .. MaxLevel]]
  <2>1. head \in [Levels -> SlEntries \cup {Null}]
    <3>1. \A i \in Levels : Skips(Null, i) => sl.next[e][i] \in SlEntries \cup {Null}
      <4> SUFFICES ASSUME NEW i \in Levels, Skips(Null, i)
                   PROVE  sl.next[e][i] \in SlEntries \cup {Null}
        OBVIOUS
      <4>1. e \in Lane(i) /\ Lane(i) \in SUBSET SlEntries
        BY <1>7, <1>14
      <4>2. sl.next[e][i] = After(e, Lane(i)) /\ After(e, Lane(i)) = After(up[i], Lane(i) \ {e})
        BY <1>11, <1>15, <4>1
      <4>3. After(up[i], Lane(i) \ {e}) \in (Lane(i) \ {e}) \cup {Null}
        BY <1>11, <4>1
      <4> QED
        BY <4>1, <4>2, <4>3
    <3> QED
      BY <1>2, <1>5, <3>1
  <2>2. [n \in SlEntries |-> [i \in Levels |->
            IF n = e THEN Junk ELSE IF Skips(n, i) THEN sl.next[e][i] ELSE sl.next[n][i]]]
           \in [SlEntries -> [Levels -> SlEntries \cup {Null, Junk}]]
    BY <1>5
  <2>3. [Backward(sl.prev, sl.next[e][0], sl.prev[e]) EXCEPT ![e] = Junk]
           \in [SlEntries -> SlEntries \cup {Null, Junk}]
    BY <1>5 DEF Backward
  <2>4. [sl.height EXCEPT ![e] = 0] \in [SlEntries -> 0 .. MaxLevel]
    BY <1>4, <1>5
  <2> QED
    BY <1>3, <1>19, <2>1, <2>2, <2>3, <2>4
<1>27. SlLevels'
  BY <1>17, <1>20, <1>21, <1>24 DEF SlLevels, Before
<1>28. SlUnwritten'
  BY <1>25 DEF SlUnwritten
<1>29. slIn' \subseteq SlEntries /\ Unique(slIn')
  BY <1>3, <1>6 DEF Unique
<1> QED
  BY <1>26, <1>27, <1>28, <1>29 DEF SlSound

(***************************************************************************)
(* The invariant                                                           *)
(***************************************************************************)

(* The loop's next node is the first of the entries to come.               *)
LEMMA WalkGoesOn ==
  ASSUME SlInv, slWalk.at # Null
  PROVE  LET rest == slWalk.todo \ {slWalk.at}
             next == Link(slWalk.at, 0)
         IN  /\ slWalk.at \in slIn /\ next \in SlEntries \cup {Null} /\ next = Least(rest)
             /\ rest = IF next = Null THEN {} ELSE {n \in slIn \ {slWalk.at} : KeyOf[next] <= KeyOf[n]}
             /\ rest = IF next = Null THEN {} ELSE {n \in slIn : KeyOf[next] <= KeyOf[n]}
<1>1. PICK a : a = slWalk.at
  OBVIOUS
<1>2. PICK y : y = Link(a, 0)
  OBVIOUS
<1>3. Lane(0) = slIn /\ 0 \in Levels /\ slIn \in SUBSET SlEntries /\ Unique(slIn)
  BY LowestLane
<1>4. \A n \in slIn : KeyOf[n] \in Int /\ n # Null
  BY <1>3, SlConstants
<1>5. slWalk.todo = {n \in slIn : KeyOf[a] <= KeyOf[n]} /\ a = Least(slWalk.todo) /\ a # Null
  BY <1>1 DEF SlInv, SlWalkRest
<1>6. a \in slIn
  <2>1. slWalk.todo \in SUBSET SlEntries /\ slWalk.todo \subseteq slIn
    BY <1>3, <1>5
  <2> QED
    BY <1>5, <2>1, Chosen DEF IsLeast
<1> DEFINE R == {n \in slIn : KeyOf[n] > KeyOf[a]}
<1>7. slWalk.todo \ {a} = R
  <2>1. \A n \in slIn : KeyOf[n] = KeyOf[a] <=> n = a
    BY <1>3, <1>6 DEF Unique
  <2>2. \A n \in slIn : KeyOf[n] > KeyOf[a] <=> KeyOf[a] <= KeyOf[n] /\ n # a
    BY <1>4, <1>6, <2>1
  <2> QED
    BY <1>5, <2>2
<1>8. y = After(a, slIn)
  BY <1>2, <1>3, <1>6 DEF SlInv, SlLevels
<1>9. y = Least(R) /\ R \in SUBSET SlEntries
  BY <1>3, <1>5, <1>8 DEF After
<1>10. Behind(a, y, slIn)
  BY <1>3, <1>6, <1>8, AfterIs
<1>11. CASE y = Null
  <2>1. R = {}
    BY <1>4, <1>6, <1>10, <1>11 DEF Behind
  <2> QED
    BY <1>1, <1>2, <1>6, <1>7, <1>9, <1>11, <2>1
<1>12. CASE y # Null
  <2>1. y \in slIn /\ KeyOf[a] < KeyOf[y]
    BY <1>5, <1>10, <1>12 DEF Behind
  <2>2. \A m \in slIn : KeyOf[y] <= KeyOf[m] \/ KeyOf[m] <= KeyOf[a]
    BY <1>5, <1>10, <1>12 DEF Behind
  <2>3. R = {n \in slIn : KeyOf[y] <= KeyOf[n]}
    BY <1>4, <1>6, <2>1, <2>2
  <2>4. R = {n \in slIn \ {a} : KeyOf[y] <= KeyOf[n]}
    BY <1>4, <1>6, <2>1, <2>3
  <2>5. y \in SlEntries
    BY <1>3, <2>1
  <2> HIDE DEF R
  <2> QED
    BY <1>1, <1>2, <1>6, <1>7, <1>9, <1>12, <2>3, <2>4, <2>5
<1> QED
  BY <1>11, <1>12

(* It holds at first, and every step keeps it.                             *)
LEMMA SlInitially == SlInit => SlInv
<1> SUFFICES ASSUME SlInit PROVE SlInv
  OBVIOUS
<1>1. \A i \in Levels : Lane(i) = {} /\ i \in Nat
  BY SlConstants DEF SlInit, Lane, Levels
<1>2. Least({}) = Null
  BY DEF Least
<1>3. SlTypeOK
  BY SlConstants DEF SlInit, SlTypeOK
<1>4. SlLevels
  <2>1. \A i \in Levels : \A x \in Lane(i) \cup {Null} : Link(x, i) = After(x, Lane(i))
    BY <1>1, <1>2 DEF SlInit, Link, After
  <2>2. 0 \in Levels
    BY SlConstants DEF Levels
  <2> QED
    BY <1>1, <2>1, <2>2 DEF SlInit, SlLevels
<1>5. SlUnwritten
  BY DEF SlInit, SlUnwritten
<1> QED
  BY <1>2, <1>3, <1>4, <1>5 DEF SlInit, SlInv, Unique, SlWalkRest

(* A sound list and a loop that is where it should be make the invariant.  *)
LEMMA SlTogether ==
  ASSUME SlSound', slWalk' = [at |-> slWalk'.at, todo |-> slWalk'.todo],
         slWalk'.at \in SlEntries \cup {Null},
         slWalk'.todo = IF slWalk'.at = Null THEN {} ELSE {n \in slIn' : KeyOf[slWalk'.at] <= KeyOf[n]},
         slWalk'.at = Least(slWalk'.todo)
  PROVE  SlInv'
<1>1. slWalk'.todo \in SUBSET SlEntries
  BY DEF SlSound
<1>2. slWalk' \in [at : SlEntries \cup {Null}, todo : SUBSET SlEntries]
  BY <1>1
<1>3. SlTypeOK'
  BY <1>2 DEF SlSound, SlTypeOK
<1> QED
  BY <1>3 DEF SlSound, SlInv, SlWalkRest

(* The steps, one by one.                                                  *)
LEMMA SlStep == SlInv /\ [SlNext]_slVars => SlInv'
<1> SUFFICES ASSUME SlInv, [SlNext]_slVars PROVE SlInv'
  OBVIOUS
<1>1. SlSound
  BY DEF SlInv, SlSound, SlTypeOK
<1>2. slWalk = [at |-> slWalk.at, todo |-> slWalk.todo] /\ slWalk.at \in SlEntries \cup {Null}
  BY DEF SlInv, SlTypeOK
<1>8. ASSUME UNCHANGED <<sl, slIn>> PROVE SlSound'
  BY <1>1, <1>8 DEF SlSound, SlLevels, SlUnwritten, Lane, Link
<1>3. ASSUME slWalk.at = Null, SlSound', UNCHANGED slWalk PROVE SlInv'
  <2>1. slWalk.todo = {} /\ Least({}) = Null
    BY <1>3 DEF SlInv, SlWalkRest, Least
  <2> QED
    BY <1>2, <1>3, <2>1, SlTogether
<1>4. ASSUME UNCHANGED slVars PROVE SlInv'
  <2>1. SlSound' /\ slWalk' = slWalk /\ slIn' = slIn
    BY <1>8, <1>4 DEF slVars
  <2>2. /\ slWalk.todo = IF slWalk.at = Null THEN {} ELSE {n \in slIn : KeyOf[slWalk.at] <= KeyOf[n]}
        /\ slWalk.at = Least(slWalk.todo)
    BY DEF SlInv, SlWalkRest
  <2> QED
    BY <1>2, <2>1, <2>2, SlTogether
<1>5. ASSUME NEW e \in SlEntries, NEW random \in 1 .. MaxLevel + 1, SlInsert(e, random) PROVE SlInv'
  <2>1. slWalk.at = Null /\ UNCHANGED slWalk
    BY <1>5 DEF SlInsert
  <2>2. SlSound'
    BY <1>5, InsertKeeps
  <2> QED
    BY <1>3, <2>1, <2>2
<1>6. ASSUME NEW e \in SlEntries, SlInsertTaken(e) PROVE SlInv'
  BY <1>4, <1>6 DEF SlInsertTaken
<1>7. ASSUME NEW e \in SlEntries, slWalk.at = Null, SlErase(e), UNCHANGED slWalk PROVE SlInv'
  <2>1. SlSound'
    BY <1>7, EraseKeeps
  <2> QED
    BY <1>3, <1>7, <2>1
<1>9. ASSUME SlWalkStart PROVE SlInv'
  <2>1. /\ sl.head[0] # Null /\ slWalk' = [at |-> sl.head[0], todo |-> slIn]
        /\ UNCHANGED <<sl, slIn>>
    BY <1>9 DEF SlWalkStart
  <2>2. Lane(0) = slIn /\ 0 \in Levels /\ slIn \in SUBSET SlEntries
    BY LowestLane
  <2>3. sl.head[0] = Least(slIn)
    <3>1. Link(Null, 0) = After(Null, Lane(0))
      BY <2>2 DEF SlInv, SlLevels
    <3> QED
      BY <2>2, <3>1 DEF Link, After
  <2>4. PICK a : a = sl.head[0]
    OBVIOUS
  <2>5. a \in slIn /\ \A m \in slIn : KeyOf[a] <= KeyOf[m]
    BY <2>1, <2>2, <2>3, <2>4, Chosen DEF IsLeast
  <2>6. slIn = {n \in slIn : KeyOf[a] <= KeyOf[n]} /\ a \in SlEntries
    BY <2>2, <2>5
  <2>7. slWalk'.at = a /\ slWalk'.todo = slIn /\ slIn' = slIn /\ a # Null /\ a = Least(slIn)
    BY <2>1, <2>3, <2>4
  <2>8. slWalk' = [at |-> slWalk'.at, todo |-> slWalk'.todo]
    BY <2>1
  <2>9. SlSound'
    BY <1>8, <2>1
  <2> QED
    BY <2>6, <2>7, <2>8, <2>9, SlTogether
<1>10. ASSUME NEW erase \in BOOLEAN, SlWalkOn(erase) PROVE SlInv'
  <2>1. /\ slWalk.at # Null
        /\ slWalk' = [at |-> Link(slWalk.at, 0), todo |-> slWalk.todo \ {slWalk.at}]
        /\ IF erase THEN SlErase(slWalk.at) ELSE UNCHANGED <<sl, slIn>>
    BY <1>10 DEF SlWalkOn
  <2>2. PICK a : a = slWalk.at
    OBVIOUS
  <2>3. PICK y : y = Link(a, 0)
    OBVIOUS
  <2>4. PICK rest : rest = slWalk.todo \ {a}
    OBVIOUS
  <2>5. /\ a \in slIn /\ y \in SlEntries \cup {Null} /\ y = Least(rest)
        /\ rest = IF y = Null THEN {} ELSE {n \in slIn \ {a} : KeyOf[y] <= KeyOf[n]}
        /\ rest = IF y = Null THEN {} ELSE {n \in slIn : KeyOf[y] <= KeyOf[n]}
    BY <2>1, <2>2, <2>3, <2>4, WalkGoesOn
  <2>6. slWalk' = [at |-> y, todo |-> rest]
    BY <2>1, <2>2, <2>3, <2>4
  <2>7. slWalk'.at = y /\ slWalk'.todo = rest /\ slWalk' = [at |-> slWalk'.at, todo |-> slWalk'.todo]
    BY <2>6
  <2>8. SlSound' /\ (slIn' = slIn \/ slIn' = slIn \ {a})
    <3>1. CASE erase
      <4>1. SlErase(a) /\ a \in SlEntries
        BY <1>1, <2>1, <2>2, <2>5, <3>1 DEF SlSound
      <4>2. slIn' = slIn \ {a}
        BY <4>1 DEF SlErase
      <4> QED
        BY <4>1, <4>2, EraseKeeps
    <3>2. CASE ~erase
      BY <1>8, <2>1, <3>2
    <3> QED
      BY <3>1, <3>2
  <2>9. rest = IF y = Null THEN {} ELSE {n \in slIn' : KeyOf[y] <= KeyOf[n]}
    <3>1. CASE slIn' = slIn
      BY <2>5, <3>1
    <3>2. CASE slIn' = slIn \ {a}
      BY <2>5, <3>2
    <3> QED
      BY <2>8, <3>1, <3>2
  <2> QED
    BY <2>5, <2>7, <2>8, <2>9, SlTogether
<1> QED
  BY <1>4, <1>5, <1>6, <1>7, <1>9, <1>10 DEF SlNext

(* The inductive invariant holds for any entries and any number of lanes.  *)
THEOREM SlInvariant == SlSpec => []SlInv
BY SlInitially, SlStep, PTL DEF SlSpec

(* The lanes of a skip list are sorted sublists of one another down to the *)
(* full list, whatever heights and keys its entries have (insert and       *)
(* erase, skiplist.h:174-297).                                             *)
THEOREM LanesAreSublists == SlSpec => []SlLevels
<1>1. SlInv => SlLevels
  BY DEF SlInv
<1> QED
  BY <1>1, SlInvariant, PTL

(* The descents find what a search of the sorted set finds, and the loop   *)
(* that may erase its node visits every entry once, in order               *)
(* (skiplist.h:83-170, 313).                                               *)
THEOREM SlSearchesAreExact == SlSpec => []SlFinds
<1>1. SlInv => SlFinds
  BY SearchesAreExact
<1> QED
  BY <1>1, SlInvariant, PTL

(***************************************************************************)
(* Doubly linked lists, for any heads and any finite set of nodes: the     *)
(* links of live nodes are exact, and the structure implements Lists.      *)
(* First the rings of a head h and the nodes of a sequence s.              *)
(***************************************************************************)

At(h, s, i) == IF i \in 1 .. Len(s) THEN s[i] ELSE h

Ring(l, h, s) ==
  \A i \in 0 .. Len(s) : l.next[At(h, s, i)] = At(h, s, i + 1) /\ l.prev[At(h, s, i + 1)] = At(h, s, i)

Loose(l, n) == l.next[n] = n /\ l.prev[n] = n

LinkTypes == [next : [Links -> Links], prev : [Links -> Links]]

(* No node is met twice on the way round. *)
LEMMA AtFacts ==
  ASSUME NEW h \in Heads, NEW s \in Seq(Nodes), Distinct(s)
  PROVE  /\ Len(s) \in Nat
         /\ \A i \in Int : At(h, s, i) \in Links
         /\ \A i \in 1 .. Len(s) : At(h, s, i) = s[i] /\ s[i] \in Nodes /\ s[i] # h /\ s[i] \in Members(s)
         /\ At(h, s, 0) = h /\ At(h, s, Len(s) + 1) = h
         /\ \A i, j \in 0 .. Len(s) : At(h, s, i) = At(h, s, j) => i = j
         /\ \A i, j \in 1 .. Len(s) + 1 : At(h, s, i) = At(h, s, j) => i = j
<1>1. /\ Len(s) \in Nat /\ DOMAIN s = 1 .. Len(s)
      /\ \A i \in 1 .. Len(s) : s[i] \in Nodes
  OBVIOUS
<1>2. \A i \in 1 .. Len(s) : At(h, s, i) = s[i] /\ s[i] # h /\ s[i] \in Members(s)
  BY <1>1, DlAssumption DEF At, Members
<1>3. \A i \in Int : i \notin 1 .. Len(s) => At(h, s, i) = h
  BY DEF At
<1>4. \A i \in Int : At(h, s, i) \in Links
  BY <1>1, <1>2, <1>3 DEF Links
<1>5. At(h, s, 0) = h /\ At(h, s, Len(s) + 1) = h
  BY <1>1, <1>3
<1>6. \A i, j \in 1 .. Len(s) : At(h, s, i) = At(h, s, j) => i = j
  BY <1>1, <1>2 DEF Distinct
<1>7. ASSUME NEW i \in 0 .. Len(s), NEW j \in 0 .. Len(s), At(h, s, i) = At(h, s, j)
      PROVE  i = j
  <2>1. CASE i = 0
    BY <1>1, <1>2, <1>5, <1>7, <2>1
  <2>2. CASE j = 0
    BY <1>1, <1>2, <1>5, <1>7, <2>2
  <2>3. CASE i # 0 /\ j # 0
    BY <1>1, <1>6, <1>7, <2>3
  <2> QED
    BY <2>1, <2>2, <2>3
<1>8. ASSUME NEW i \in 1 .. Len(s) + 1, NEW j \in 1 .. Len(s) + 1, At(h, s, i) = At(h, s, j)
      PROVE  i = j
  <2>1. CASE i = Len(s) + 1
    BY <1>1, <1>2, <1>5, <1>8, <2>1
  <2>2. CASE j = Len(s) + 1
    BY <1>1, <1>2, <1>5, <1>8, <2>2
  <2>3. CASE i # Len(s) + 1 /\ j # Len(s) + 1
    BY <1>1, <1>6, <1>8, <2>3
  <2> QED
    BY <2>1, <2>2, <2>3
<1> QED
  BY <1>1, <1>2, <1>4, <1>5, <1>7, <1>8

(* b is woven in behind p and before x, and nothing else changes. *)
Woven(l, m, p, b, x) ==
  \A y \in Links :
    /\ m.next[y] = IF y = b[Len(b)] THEN x ELSE IF y = p THEN b[1] ELSE l.next[y]
    /\ m.prev[y] = IF y = x THEN b[Len(b)] ELSE IF y = b[1] THEN p ELSE l.prev[y]

Chained(l, b) ==
  \A i \in 1 .. Len(b) - 1 : l.next[b[i]] = b[i + 1] /\ l.prev[b[i + 1]] = b[i]

(* At the front of a ring the woven nodes come first. *)
LEMMA WeaveFront ==
  ASSUME NEW h \in Heads, NEW a \in Seq(Nodes), NEW b \in Seq(Nodes), NEW l, NEW m,
         Distinct(a), Distinct(b), Members(a) \cap Members(b) = {}, b # <<>>,
         Ring(l, h, a), Chained(l, b), Woven(l, m, h, b, l.next[h])
  PROVE  Ring(m, h, b \o a)
<1> DEFINE c == b \o a
           x == l.next[h]
<1>1. /\ c \in Seq(Nodes) /\ Len(c) = Len(b) + Len(a) /\ Distinct(c)
      /\ \A i \in 1 .. Len(b) : c[i] = b[i]
      /\ \A i \in 1 .. Len(a) : c[Len(b) + i] = a[i]
  BY Join
<1> HIDE DEF c
<1>2. /\ Len(a) \in Nat /\ Len(b) \in Nat /\ Len(b) > 0
  OBVIOUS
<1>3. \A i \in 1 .. Len(b) : At(h, c, i) = b[i] /\ b[i] # h /\ b[i] \in Members(b) /\ b[i] \in Links
  BY <1>1, <1>2, AtFacts DEF At, Links
<1>4. \A i \in 1 .. Len(a) + 1 : At(h, c, Len(b) + i) = At(h, a, i)
  <2> SUFFICES ASSUME NEW i \in 1 .. Len(a) + 1 PROVE At(h, c, Len(b) + i) = At(h, a, i)
    OBVIOUS
  <2>1. CASE i <= Len(a)
    BY <1>1, <1>2, <2>1 DEF At
  <2>2. CASE i = Len(a) + 1
    BY <1>1, <1>2, <2>2 DEF At
  <2> QED
    BY <1>2, <2>1, <2>2
<1>5. At(h, c, 0) = h /\ x = At(h, a, 1) /\ x \notin Members(b) /\ h \in Links
  <2>1. At(h, c, 0) = h /\ At(h, a, 0) = h /\ h \in Links
    BY AtFacts, <1>1 DEF Links
  <2>2. x = At(h, a, 1)
    BY <1>2, <2>1 DEF Ring
  <2>3. h \notin Members(b)
    BY DlAssumption DEF Members
  <2>4. CASE Len(a) = 0
    <3>1. At(h, a, Len(a) + 1) = h
      BY AtFacts
    <3> QED
      BY <2>1, <2>2, <2>3, <2>4, <3>1
  <2>5. CASE Len(a) > 0
    <3>1. x \in Members(a)
      BY <1>2, <2>2, <2>5, AtFacts
    <3> QED
      BY <2>1, <2>2, <3>1
  <2> QED
    BY <1>2, <2>1, <2>2, <2>4, <2>5
<1>6. \A i, j \in 1 .. Len(b) : b[i] = b[j] => i = j
  BY AtFacts
<1> SUFFICES ASSUME NEW i \in 0 .. Len(c)
             PROVE  m.next[At(h, c, i)] = At(h, c, i + 1) /\ m.prev[At(h, c, i + 1)] = At(h, c, i)
  BY DEF Ring, c
<1>7. CASE i = 0
  <2>1. At(h, c, 1) = b[1] /\ b[1] # h /\ b[1] \in Links /\ b[Len(b)] # h /\ b[1] # x
    BY <1>2, <1>3, <1>5
  <2> QED
    BY <1>5, <1>7, <2>1 DEF Woven
<1>8. CASE i \in 1 .. Len(b) - 1
  <2>1. /\ i \in 1 .. Len(b) /\ i + 1 \in 1 .. Len(b) /\ i # Len(b) /\ i + 1 # 1
        /\ 1 \in 1 .. Len(b) /\ Len(b) \in 1 .. Len(b)
    BY <1>2, <1>8
  <2>2. /\ At(h, c, i) = b[i] /\ At(h, c, i + 1) = b[i + 1]
        /\ b[i] # h /\ b[i] # b[Len(b)] /\ b[i + 1] # x /\ b[i + 1] # b[1]
        /\ b[i] \in Links /\ b[i + 1] \in Links
    BY <1>3, <1>5, <1>6, <2>1
  <2>3. l.next[b[i]] = b[i + 1] /\ l.prev[b[i + 1]] = b[i]
    BY <1>8 DEF Chained
  <2> QED
    BY <2>2, <2>3 DEF Woven
<1>9. CASE i = Len(b)
  <2>1. /\ At(h, c, i) = b[Len(b)] /\ b[Len(b)] \in Links
        /\ At(h, c, i + 1) = x /\ x \in Links
    BY <1>2, <1>3, <1>4, <1>5, <1>9, AtFacts
  <2> QED
    BY <2>1 DEF Woven
<1>10. CASE i > Len(b)
  <2>1. PICK j \in 1 .. Len(a) : i = Len(b) + j
    <3>1. i - Len(b) \in 1 .. Len(a) /\ i = Len(b) + (i - Len(b))
      BY <1>1, <1>2, <1>10
    <3> QED
      BY <3>1
  <2>2. At(h, c, i) = At(h, a, j) /\ At(h, c, i + 1) = At(h, a, j + 1)
    <3>1. j \in 1 .. Len(a) + 1 /\ j + 1 \in 1 .. Len(a) + 1 /\ Len(b) + (j + 1) = i + 1
      BY <1>2, <2>1
    <3> QED
      BY <1>4, <2>1, <3>1
  <2>3. /\ At(h, a, j) \in Members(a) /\ At(h, a, j) # h /\ At(h, a, j) \in Links /\ At(h, a, j + 1) \in Links
        /\ At(h, a, j + 1) # x /\ At(h, a, j + 1) \notin Members(b)
    <3>1. /\ j \in 1 .. Len(a) + 1 /\ j + 1 \in 1 .. Len(a) + 1 /\ 1 \in 1 .. Len(a) + 1 /\ j + 1 # 1
      BY <1>2
    <3>2. /\ At(h, a, j) \in Members(a) /\ At(h, a, j) # h /\ At(h, a, j) \in Links /\ At(h, a, j + 1) \in Links
          /\ At(h, a, j + 1) # x
      BY <1>5, <3>1, AtFacts
    <3>3. At(h, a, j + 1) = h \/ At(h, a, j + 1) \in Members(a)
      BY AtFacts DEF At
    <3>4. h \notin Members(b)
      BY DlAssumption DEF Members
    <3> QED
      BY <3>2, <3>3, <3>4
  <2>4. b[1] \in Members(b) /\ b[Len(b)] \in Members(b)
    BY <1>2, <1>3
  <2>5. l.next[At(h, a, j)] = At(h, a, j + 1) /\ l.prev[At(h, a, j + 1)] = At(h, a, j)
    BY <1>2, <2>1 DEF Ring
  <2> QED
    BY <2>2, <2>3, <2>4, <2>5 DEF Woven
<1> QED
  BY <1>1, <1>2, <1>7, <1>8, <1>9, <1>10

(* At the tail they come last. *)
LEMMA WeaveTail ==
  ASSUME NEW h \in Heads, NEW a \in Seq(Nodes), NEW b \in Seq(Nodes), NEW l, NEW m,
         Distinct(a), Distinct(b), Members(a) \cap Members(b) = {}, b # <<>>,
         Ring(l, h, a), Chained(l, b), Woven(l, m, l.prev[h], b, h)
  PROVE  Ring(m, h, a \o b)
<1> DEFINE c == a \o b
           p == l.prev[h]
<1>1. /\ c \in Seq(Nodes) /\ Len(c) = Len(a) + Len(b) /\ Distinct(c)
      /\ \A i \in 1 .. Len(a) : c[i] = a[i]
      /\ \A i \in 1 .. Len(b) : c[Len(a) + i] = b[i]
  BY Join
<1> HIDE DEF c
<1>2. /\ Len(a) \in Nat /\ Len(b) \in Nat /\ Len(b) > 0
  OBVIOUS
<1>3. \A i \in 1 .. Len(b) : b[i] # h /\ b[i] \in Members(b) /\ b[i] \in Links
  BY <1>2, AtFacts DEF Links
<1>4. \A i \in 1 .. Len(b) : At(h, c, Len(a) + i) = b[i]
  BY <1>1, <1>2 DEF At
<1>5. \A i \in 0 .. Len(a) : At(h, c, i) = At(h, a, i)
  BY <1>1, <1>2 DEF At
<1>6. At(h, c, Len(c) + 1) = h /\ h \in Links
  BY AtFacts, <1>1 DEF Links
<1>7. p = At(h, a, Len(a)) /\ p \in Links /\ p \notin Members(b)
  <2>1. At(h, a, Len(a) + 1) = h
    BY AtFacts
  <2>2. p = At(h, a, Len(a))
    BY <1>2, <2>1 DEF Ring
  <2>3. h \notin Members(b)
    BY DlAssumption DEF Members
  <2>4. p = h \/ p \in Members(a)
    BY <1>2, <2>2, AtFacts DEF At
  <2> QED
    BY <1>2, <2>2, <2>3, <2>4, AtFacts
<1>8. \A i, j \in 1 .. Len(b) : b[i] = b[j] => i = j
  BY AtFacts
<1> SUFFICES ASSUME NEW i \in 0 .. Len(c)
             PROVE  m.next[At(h, c, i)] = At(h, c, i + 1) /\ m.prev[At(h, c, i + 1)] = At(h, c, i)
  BY DEF Ring, c
<1>9. CASE i = Len(c)
  <2>1. At(h, c, i) = b[Len(b)] /\ b[Len(b)] \in Links
    BY <1>1, <1>2, <1>3, <1>4, <1>9
  <2> QED
    BY <1>6, <1>9, <2>1 DEF Woven
<1>10. CASE i > Len(a) /\ i < Len(c)
  <2>1. PICK j \in 1 .. Len(b) - 1 : i = Len(a) + j
    <3>1. i - Len(a) \in 1 .. Len(b) - 1 /\ i = Len(a) + (i - Len(a))
      BY <1>1, <1>2, <1>10
    <3> QED
      BY <3>1
  <2>2. /\ j \in 1 .. Len(b) /\ j + 1 \in 1 .. Len(b) /\ j # Len(b) /\ j + 1 # 1
        /\ 1 \in 1 .. Len(b) /\ Len(b) \in 1 .. Len(b) /\ Len(a) + (j + 1) = i + 1
    BY <1>2, <2>1
  <2>3. /\ At(h, c, i) = b[j] /\ At(h, c, i + 1) = b[j + 1]
        /\ b[j] # p /\ b[j] # b[Len(b)] /\ b[j + 1] # h /\ b[j + 1] # b[1]
        /\ b[j] \in Links /\ b[j + 1] \in Links
    BY <1>3, <1>4, <1>7, <1>8, <2>1, <2>2
  <2>4. l.next[b[j]] = b[j + 1] /\ l.prev[b[j + 1]] = b[j]
    BY <2>1 DEF Chained
  <2> QED
    BY <2>3, <2>4 DEF Woven
<1>11. CASE i = Len(a)
  <2>1. /\ At(h, c, i) = p /\ At(h, c, i + 1) = b[1] /\ b[1] # h /\ b[1] \in Links
        /\ p # b[Len(b)]
    BY <1>2, <1>3, <1>4, <1>5, <1>7, <1>11
  <2> QED
    BY <1>7, <2>1 DEF Woven
<1>12. CASE i < Len(a)
  <2>1. /\ i \in 0 .. Len(a) /\ i + 1 \in 0 .. Len(a) /\ Len(a) \in 0 .. Len(a)
        /\ i # Len(a) /\ i + 1 # 0 /\ 0 \in 0 .. Len(a) /\ i \in Int /\ i + 1 \in 1 .. Len(a)
    BY <1>1, <1>2, <1>12
  <2>2. At(h, c, i) = At(h, a, i) /\ At(h, c, i + 1) = At(h, a, i + 1)
    BY <1>5, <2>1
  <2>3. /\ At(h, a, i) \in Links /\ At(h, a, i + 1) \in Members(a) /\ At(h, a, i + 1) \in Links
        /\ At(h, a, i) # p /\ At(h, a, i + 1) # h
    BY <1>7, <2>1, AtFacts
  <2>4. At(h, a, i) \notin Members(b)
    <3>1. At(h, a, i) = h \/ At(h, a, i) \in Members(a)
      BY AtFacts DEF At
    <3>2. h \notin Members(b)
      BY DlAssumption DEF Members
    <3> QED
      BY <3>1, <3>2
  <2>5. b[1] \in Members(b) /\ b[Len(b)] \in Members(b)
    BY <1>2, <1>3
  <2>6. l.next[At(h, a, i)] = At(h, a, i + 1) /\ l.prev[At(h, a, i + 1)] = At(h, a, i)
    BY <2>1 DEF Ring
  <2> QED
    BY <2>2, <2>3, <2>4, <2>5, <2>6 DEF Woven
<1>13. i = Len(c) \/ (i > Len(a) /\ i < Len(c)) \/ i = Len(a) \/ i < Len(a)
  BY <1>1, <1>2
<1> QED
  BY <1>9, <1>10, <1>11, <1>12, <1>13

(* s without a node that is in it once. *)
LEMMA DropIs ==
  ASSUME NEW s \in Seq(Nodes), Distinct(s), NEW n
  PROVE  /\ n \notin Members(s) => Abstract!Drop(s, n) = s
         /\ \A k \in 1 .. Len(s) : s[k] = n =>
              /\ Abstract!Drop(s, n) \in Seq(Nodes)
              /\ Len(Abstract!Drop(s, n)) = Len(s) - 1
              /\ \A i \in 1 .. k - 1 : Abstract!Drop(s, n)[i] = s[i]
              /\ \A i \in k .. Len(s) - 1 : Abstract!Drop(s, n)[i] = s[i + 1]
              /\ Distinct(Abstract!Drop(s, n))
              /\ Members(Abstract!Drop(s, n)) = Members(s) \ {n}
<1>1. Len(s) \in Nat /\ DOMAIN s = 1 .. Len(s)
  OBVIOUS
<1> DEFINE places == {i \in DOMAIN s : s[i] = n}
           d == Abstract!Drop(s, n)
<1>2. ASSUME n \notin Members(s) PROVE d = s
  <2>1. places = {}
    BY <1>2 DEF Members
  <2> QED
    BY <2>1 DEF Abstract!Drop
<1>3. ASSUME NEW k \in 1 .. Len(s), s[k] = n
      PROVE  /\ d \in Seq(Nodes) /\ Len(d) = Len(s) - 1
             /\ \A i \in 1 .. k - 1 : d[i] = s[i]
             /\ \A i \in k .. Len(s) - 1 : d[i] = s[i + 1]
             /\ Distinct(d) /\ Members(d) = Members(s) \ {n}
  <2>1. places = {k}
    BY <1>1, <1>3 DEF Distinct
  <2>2. (CHOOSE i \in places : \A j \in places : i <= j) = k
    BY <1>1, <2>1
  <2>3. d = SubSeq(s, 1, k - 1) \o SubSeq(s, k + 1, Len(s))
    BY <2>1, <2>2 DEF Abstract!Drop
  <2> DEFINE a == SubSeq(s, 1, k)
             e == SubSeq(s, 1, k - 1)
             b == SubSeq(s, k + 1, Len(s))
  <2>4. k \in 0 .. Len(s) /\ k - 1 \in 0 .. Len(s) /\ k \in Nat /\ k > 0 /\ (k - 1) + 1 = k
    BY <1>1
  <2>5. /\ a \in Seq(Nodes) /\ Members(a) \cap Members(b) = {}
        /\ Members(a) \cup Members(b) = Members(s)
        /\ b \in Seq(Nodes) /\ Len(b) = Len(s) - k /\ Distinct(b)
        /\ \A i \in 1 .. Len(s) - k : b[i] = s[k + i]
    BY <2>4, Cut
  <2>6. /\ a \in Seq(Nodes) /\ Len(a) = k /\ Distinct(a)
        /\ \A i \in 1 .. k : a[i] = s[i]
    BY <2>4, Cut
  <2>7. e = SubSeq(a, 1, Len(a) - 1)
    BY <1>1, <2>4, <2>6
  <2> HIDE DEF a, b
  <2>8. /\ e \in Seq(Nodes) /\ Len(e) = k - 1 /\ Distinct(e)
        /\ a[k] \notin Members(e) /\ Members(e) \cup {a[k]} = Members(a)
    <3>1. a # <<>>
      BY <2>4, <2>6
    <3> HIDE DEF e
    <3> QED
      BY <2>4, <2>6, <2>7, <3>1, Top
  <2>9. \A i \in 1 .. k - 1 : e[i] = s[i]
    BY <1>1, <2>4
  <2>10. a[k] = n /\ n \in Members(a) /\ n \notin Members(b)
    BY <1>3, <2>4, <2>5, <2>6, <2>8
  <2>11. d = e \o b
    BY <2>3 DEF b
  <2> HIDE DEF d, e
  <2>12. /\ e \o b \in Seq(Nodes) /\ Len(e \o b) = Len(e) + Len(b)
         /\ \A i \in 1 .. Len(e) : (e \o b)[i] = e[i]
         /\ \A i \in 1 .. Len(b) : (e \o b)[Len(e) + i] = b[i]
         /\ Distinct(e \o b)
         /\ Members(e \o b) = Members(e) \cup Members(b)
    <3>1. Members(e) \cap Members(b) = {}
      BY <2>5, <2>8
    <3>2. e \in Seq(Nodes) /\ b \in Seq(Nodes) /\ Distinct(e) /\ Distinct(b)
      BY <2>5, <2>8
    <3> QED
      BY <3>1, <3>2, Join
  <2>13. /\ d \in Seq(Nodes) /\ Len(d) = Len(s) - 1 /\ Distinct(d)
         /\ \A i \in 1 .. k - 1 : d[i] = s[i]
    BY <1>1, <2>4, <2>5, <2>8, <2>9, <2>11, <2>12
  <2>14. Members(d) = Members(s) \ {n}
    BY <2>5, <2>8, <2>10, <2>11, <2>12
  <2>15. ASSUME NEW i \in k .. Len(s) - 1 PROVE d[i] = s[i + 1]
    <3>1. /\ i - k + 1 \in 1 .. Len(s) - k /\ (k - 1) + (i - k + 1) = i /\ k + (i - k + 1) = i + 1
      BY <1>1, <2>4
    <3> QED
      BY <2>5, <2>8, <2>11, <2>12, <3>1
  <2> QED
    BY <2>13, <2>14, <2>15
<1> QED
  BY <1>2, <1>3 DEF d

(* The neighbours of a removed node are linked to each other. *)
LEMMA BypassRing ==
  ASSUME NEW h \in Heads, NEW s \in Seq(Nodes), Distinct(s), NEW l \in LinkTypes, Ring(l, h, s),
         NEW k \in 1 .. Len(s)
  PROVE  Ring(Bypass(l, s[k]), h, Abstract!Drop(s, s[k]))
<1> DEFINE n == s[k]
           d == Abstract!Drop(s, s[k])
           m == Bypass(l, s[k])
<1>1. /\ d \in Seq(Nodes) /\ Len(d) = Len(s) - 1
      /\ \A i \in 1 .. k - 1 : d[i] = s[i]
      /\ \A i \in k .. Len(s) - 1 : d[i] = s[i + 1]
  BY DropIs
<1>2. /\ Len(s) \in Nat /\ Len(s) > 0 /\ k \in Nat /\ k > 0 /\ k <= Len(s)
  OBVIOUS
<1>3. At(h, s, k) = n
  BY AtFacts
<1>4. l.next[n] = At(h, s, k + 1) /\ l.prev[n] = At(h, s, k - 1)
  <2>1. k \in 0 .. Len(s) /\ k - 1 \in 0 .. Len(s) /\ (k - 1) + 1 = k
    BY <1>2
  <2> QED
    BY <1>3, <2>1 DEF Ring
<1>5. \A y \in Links : /\ m.next[y] = IF y = At(h, s, k - 1) THEN At(h, s, k + 1) ELSE l.next[y]
                       /\ m.prev[y] = IF y = At(h, s, k + 1) THEN At(h, s, k - 1) ELSE l.prev[y]
  BY <1>4 DEF Bypass, LinkTypes
<1> HIDE DEF n, d, m
<1>6. \A i \in 0 .. k - 1 : At(h, d, i) = At(h, s, i)
  BY <1>1, <1>2 DEF At
<1>7. \A i \in k .. Len(s) : At(h, d, i) = At(h, s, i + 1)
  <2> SUFFICES ASSUME NEW i \in k .. Len(s) PROVE At(h, d, i) = At(h, s, i + 1)
    OBVIOUS
  <2>1. CASE i = Len(s)
    BY <1>1, <1>2, <2>1 DEF At
  <2>2. CASE i < Len(s)
    BY <1>1, <1>2, <2>2 DEF At
  <2> QED
    BY <1>2, <2>1, <2>2
<1> SUFFICES ASSUME NEW i \in 0 .. Len(d)
             PROVE  m.next[At(h, d, i)] = At(h, d, i + 1) /\ m.prev[At(h, d, i + 1)] = At(h, d, i)
  BY DEF Ring, d, m
<1>8. CASE i < k - 1
  <2>1. /\ i \in 0 .. k - 1 /\ i + 1 \in 0 .. k - 1 /\ i \in 0 .. Len(s) /\ k - 1 \in 0 .. Len(s) /\ i # k - 1
        /\ i + 1 \in 1 .. Len(s) + 1 /\ k + 1 \in 1 .. Len(s) + 1 /\ i + 1 # k + 1 /\ i \in Int /\ i + 1 \in Int
    BY <1>1, <1>2, <1>8
  <2>2. /\ At(h, s, i) \in Links /\ At(h, s, i + 1) \in Links
        /\ At(h, s, i) # At(h, s, k - 1) /\ At(h, s, i + 1) # At(h, s, k + 1)
    BY <2>1, AtFacts
  <2>3. l.next[At(h, s, i)] = At(h, s, i + 1) /\ l.prev[At(h, s, i + 1)] = At(h, s, i)
    BY <2>1 DEF Ring
  <2> QED
    BY <1>5, <1>6, <2>1, <2>2, <2>3
<1>9. CASE i = k - 1
  <2>1. k - 1 \in 0 .. k - 1 /\ k \in k .. Len(s) /\ (k - 1) + 1 = k /\ k - 1 \in Int /\ k + 1 \in Int
    BY <1>2
  <2>2. At(h, d, i) = At(h, s, k - 1) /\ At(h, d, i + 1) = At(h, s, k + 1)
    BY <1>6, <1>7, <1>9, <2>1
  <2>3. At(h, s, k - 1) \in Links /\ At(h, s, k + 1) \in Links
    BY <2>1, AtFacts
  <2> QED
    BY <1>5, <2>2, <2>3
<1>10. CASE i > k - 1
  <2>1. /\ i \in k .. Len(s) /\ i + 1 \in k .. Len(s) /\ i + 1 \in 0 .. Len(s) /\ k - 1 \in 0 .. Len(s) /\ i + 1 # k - 1
        /\ (i + 1) + 1 \in 1 .. Len(s) + 1 /\ k + 1 \in 1 .. Len(s) + 1 /\ (i + 1) + 1 # k + 1
        /\ i + 1 \in Int /\ (i + 1) + 1 \in Int
    BY <1>1, <1>2, <1>10
  <2>2. /\ At(h, s, i + 1) \in Links /\ At(h, s, (i + 1) + 1) \in Links
        /\ At(h, s, i + 1) # At(h, s, k - 1) /\ At(h, s, (i + 1) + 1) # At(h, s, k + 1)
    BY <2>1, AtFacts
  <2>3. l.next[At(h, s, i + 1)] = At(h, s, (i + 1) + 1) /\ l.prev[At(h, s, (i + 1) + 1)] = At(h, s, i + 1)
    BY <2>1 DEF Ring
  <2> QED
    BY <1>5, <1>7, <2>1, <2>2, <2>3
<1>11. i < k - 1 \/ i = k - 1 \/ i > k - 1
  BY <1>1, <1>2
<1> QED
  BY <1>8, <1>9, <1>10, <1>11

(***************************************************************************)
(* The whole structure: L gives every head its list                        *)
(***************************************************************************)

OnSome(L, n) == \E h \in Heads : n \in Members(L[h])

Shape(l, live, L) ==
  /\ l \in LinkTypes /\ live \in SUBSET Links /\ L \in [Heads -> Seq(Nodes)]
  /\ \A h \in Heads : Distinct(L[h]) /\ Members(L[h]) \subseteq live /\ (h \notin live => L[h] = <<>>)
  /\ \A g, h \in Heads : g # h => Members(L[g]) \cap Members(L[h]) = {}
  /\ \A h \in Heads : h \in live => Ring(l, h, L[h])
  /\ \A n \in Nodes : n \in live => OnSome(L, n) \/ Loose(l, n)

(* A ring nobody writes to stays as it is. *)
LEMMA RingFrame ==
  ASSUME NEW h \in Heads, NEW s \in Seq(Nodes), NEW l, NEW m, Ring(l, h, s),
         \A y \in {h} \cup Members(s) : m.next[y] = l.next[y] /\ m.prev[y] = l.prev[y]
  PROVE  Ring(m, h, s)
<1>1. \A i \in Int : At(h, s, i) \in {h} \cup Members(s)
  BY DEF At, Members
<1> SUFFICES ASSUME NEW i \in 0 .. Len(s)
             PROVE  m.next[At(h, s, i)] = At(h, s, i + 1) /\ m.prev[At(h, s, i + 1)] = At(h, s, i)
  BY DEF Ring
<1>2. i \in Int /\ i + 1 \in Int
  OBVIOUS
<1>3. l.next[At(h, s, i)] = At(h, s, i + 1) /\ l.prev[At(h, s, i + 1)] = At(h, s, i)
  BY DEF Ring
<1> QED
  BY <1>1, <1>2, <1>3

(* Members of a list are nodes, so no head is one. *)
LEMMA MembersAreNodes ==
  ASSUME NEW s \in Seq(Nodes)
  PROVE  /\ Members(s) \subseteq Nodes
         /\ \A h \in Heads : h \notin Members(s)
BY DlAssumption DEF Members

(* Nodes that were nowhere are woven into the ring of h, which becomes s.   *)
LEMMA WeaveShape ==
  ASSUME NEW l, NEW live, NEW L, Shape(l, live, L), NEW h \in Heads, h \in live,
         NEW b \in Seq(Nodes), Members(b) \cap live = {}, b # <<>>,
         NEW m \in LinkTypes, NEW p, NEW x,
         p \in {h} \cup Members(L[h]), x \in {h} \cup Members(L[h]), Woven(l, m, p, b, x),
         NEW s \in Seq(Nodes), Distinct(s), Members(s) = Members(L[h]) \cup Members(b), Ring(m, h, s)
  PROVE  Shape(m, live \cup Members(b), [L EXCEPT ![h] = s])
<1> DEFINE K == [L EXCEPT ![h] = s]
           alive == live \cup Members(b)
<1>1. /\ live \in SUBSET Links /\ L \in [Heads -> Seq(Nodes)]
      /\ \A g \in Heads : Distinct(L[g]) /\ Members(L[g]) \subseteq live /\ (g \notin live => L[g] = <<>>)
      /\ \A g, k \in Heads : g # k => Members(L[g]) \cap Members(L[k]) = {}
      /\ \A g \in Heads : g \in live => Ring(l, g, L[g])
      /\ \A n \in Nodes : n \in live => OnSome(L, n) \/ Loose(l, n)
  BY DEF Shape
<1>2. K \in [Heads -> Seq(Nodes)] /\ K[h] = s /\ \A g \in Heads : g # h => K[g] = L[g]
  BY <1>1
<1>3. Members(b) \subseteq Nodes /\ \A g \in Heads : Members(L[g]) \subseteq Nodes /\ \A k \in Heads : k \notin Members(L[g])
  BY <1>1, MembersAreNodes
<1>4. alive \in SUBSET Links
  BY <1>1, <1>3 DEF Links
<1>5. b[1] \in Members(b) /\ b[Len(b)] \in Members(b)
  <2>1. 1 \in DOMAIN b /\ Len(b) \in DOMAIN b
    OBVIOUS
  <2> QED
    BY <2>1 DEF Members
<1>6. \A y \in live : y \notin {h} \cup Members(L[h]) => m.next[y] = l.next[y] /\ m.prev[y] = l.prev[y]
  BY <1>1, <1>5 DEF Woven
<1> HIDE DEF K
<1>7. \A g \in Heads : Distinct(K[g]) /\ Members(K[g]) \subseteq alive /\ (g \notin alive => K[g] = <<>>)
  BY <1>1, <1>2
<1>8. ASSUME NEW g \in Heads, NEW k \in Heads, g # k PROVE Members(K[g]) \cap Members(K[k]) = {}
  BY <1>1, <1>2, <1>8
<1>9. ASSUME NEW g \in Heads, g \in alive PROVE Ring(m, g, K[g])
  <2>1. CASE g = h
    BY <1>2, <2>1
  <2>2. CASE g # h
    <3>1. g \in live /\ K[g] = L[g] /\ L[g] \in Seq(Nodes) /\ Ring(l, g, L[g])
      BY <1>1, <1>2, <1>3, <1>9, <2>2, DlAssumption
    <3>2. \A y \in {g} \cup Members(L[g]) : y \in live /\ y \notin {h} \cup Members(L[h])
      BY <1>1, <1>3, <2>2, <3>1
    <3> QED
      BY <1>6, <3>1, <3>2, RingFrame
  <2> QED
    BY <2>1, <2>2
<1>10. ASSUME NEW n \in Nodes, n \in alive PROVE OnSome(K, n) \/ Loose(m, n)
  <2>1. CASE n \in Members(b)
    BY <1>2, <2>1 DEF OnSome
  <2>2. CASE OnSome(L, n)
    <3>1. PICK g \in Heads : n \in Members(L[g])
      BY <2>2 DEF OnSome
    <3>2. n \in Members(K[g])
      BY <1>2, <3>1
    <3> QED
      BY <3>2 DEF OnSome
  <2>3. CASE n \in live /\ ~OnSome(L, n)
    <3>1. n \notin {h} \cup Members(L[h]) /\ Loose(l, n)
      BY <1>1, <2>3, DlAssumption DEF OnSome
    <3> QED
      BY <1>6, <2>3, <3>1 DEF Loose
  <2> QED
    BY <1>10, <2>1, <2>2, <2>3
<1> QED
  BY <1>2, <1>4, <1>7, <1>8, <1>9, <1>10 DEF Shape, K

(* The neighbours of a head are itself or nodes of its list. *)
LEMMA HeadLinks ==
  ASSUME NEW l, NEW live, NEW L, Shape(l, live, L), NEW h \in Heads, h \in live
  PROVE  /\ l.next[h] \in {h} \cup Members(L[h]) /\ l.prev[h] \in {h} \cup Members(L[h])
         /\ l.next[h] = (IF L[h] = <<>> THEN h ELSE L[h][1])
         /\ l.prev[h] = (IF L[h] = <<>> THEN h ELSE L[h][Len(L[h])])
<1> DEFINE s == L[h]
<1>1. s \in Seq(Nodes) /\ Distinct(s) /\ Ring(l, h, s)
  BY DEF Shape
<1> HIDE DEF s
<1>2. Len(s) \in Nat /\ (s = <<>> <=> Len(s) = 0)
  BY <1>1
<1>3. /\ At(h, s, 0) = h /\ At(h, s, Len(s) + 1) = h
      /\ \A i \in 1 .. Len(s) : At(h, s, i) = s[i] /\ s[i] \in Members(s)
  BY <1>1, AtFacts
<1>4. l.next[h] = At(h, s, 1) /\ l.prev[h] = At(h, s, Len(s))
  BY <1>1, <1>2, <1>3 DEF Ring
<1>5. CASE s = <<>>
  BY <1>2, <1>3, <1>4, <1>5 DEF s
<1>6. CASE s # <<>>
  <2>1. 1 \in 1 .. Len(s) /\ Len(s) \in 1 .. Len(s)
    BY <1>2, <1>6
  <2> QED
    BY <1>3, <1>4, <1>6, <2>1 DEF s
<1> QED
  BY <1>5, <1>6

(* A sequence put in front of the list of h, or behind it. *)
LEMMA WeaveEnds ==
  ASSUME NEW l, NEW live, NEW L, Shape(l, live, L), NEW h \in Heads, h \in live,
         NEW b \in Seq(Nodes), Distinct(b), Members(b) \cap live = {}, b # <<>>, Chained(l, b),
         NEW m \in LinkTypes
  PROVE  /\ Woven(l, m, h, b, l.next[h]) => Shape(m, live \cup Members(b), [L EXCEPT ![h] = b \o @])
         /\ Woven(l, m, l.prev[h], b, h) => Shape(m, live \cup Members(b), [L EXCEPT ![h] = @ \o b])
<1> DEFINE a == L[h]
<1>1. /\ L \in [Heads -> Seq(Nodes)] /\ a \in Seq(Nodes) /\ Distinct(a) /\ Ring(l, h, a)
      /\ Members(a) \cap Members(b) = {} /\ Members(b) \cap Members(a) = {}
  BY DEF Shape
<1>2. l.next[h] \in {h} \cup Members(a) /\ l.prev[h] \in {h} \cup Members(a)
  BY HeadLinks
<1>3. /\ [L EXCEPT ![h] = b \o @] = [L EXCEPT ![h] = b \o a]
      /\ [L EXCEPT ![h] = @ \o b] = [L EXCEPT ![h] = a \o b]
  BY <1>1
<1> HIDE DEF a
<1>4. b \o a \in Seq(Nodes) /\ Distinct(b \o a) /\ Members(b \o a) = Members(b) \cup Members(a)
  BY <1>1, Join
<1>5. a \o b \in Seq(Nodes) /\ Distinct(a \o b) /\ Members(a \o b) = Members(a) \cup Members(b)
  BY <1>1, Join
<1>6. ASSUME Woven(l, m, h, b, l.next[h])
      PROVE  Shape(m, live \cup Members(b), [L EXCEPT ![h] = b \o a])
  <2>1. Ring(m, h, b \o a)
    BY <1>1, <1>6, WeaveFront
  <2>2. Members(b \o a) = Members(L[h]) \cup Members(b)
    BY <1>4 DEF a
  <2> QED
    BY <1>2, <1>4, <1>6, <2>1, <2>2, WeaveShape DEF a
<1>7. ASSUME Woven(l, m, l.prev[h], b, h)
      PROVE  Shape(m, live \cup Members(b), [L EXCEPT ![h] = a \o b])
  <2>1. Ring(m, h, a \o b)
    BY <1>1, <1>7, WeaveTail
  <2>2. Members(a \o b) = Members(L[h]) \cup Members(b)
    BY <1>5 DEF a
  <2> QED
    BY <1>2, <1>5, <1>7, <2>1, <2>2, WeaveShape DEF a
<1> QED
  BY <1>3, <1>6, <1>7

Unlisted(L, n) == [h \in Heads |-> Abstract!Drop(L[h], n)]

(* __dlist_add puts a node that is on no list at an end of one. *)
LEMMA InsertShape ==
  ASSUME NEW l, NEW live, NEW L, Shape(l, live, L), NEW h \in Heads, h \in live,
         NEW n \in Nodes, ~OnSome(L, n)
  PROVE  /\ Shape(AddFront(l, n, h), live \cup {n}, [L EXCEPT ![h] = <<n>> \o @])
         /\ Shape(AddTail(l, n, h), live \cup {n}, [L EXCEPT ![h] = @ \o <<n>>])
<1> DEFINE b == <<n>>
           rest == live \ {n}
           x == l.next[h]
           p == l.prev[h]
<1>1. /\ l \in LinkTypes /\ live \in SUBSET Links /\ L \in [Heads -> Seq(Nodes)]
      /\ \A g \in Heads : n \notin Members(L[g])
      /\ h \in Links /\ n \in Links /\ n # h
  BY DlAssumption DEF Shape, OnSome, Links
<1>2. Shape(l, rest, L) /\ h \in rest
  <2>1. h \in rest /\ \A g \in Heads : g # n
    BY <1>1, DlAssumption
  <2> QED
    BY <1>1, <2>1 DEF Shape
<1>3. /\ b \in Seq(Nodes) /\ Distinct(b) /\ Members(b) = {n} /\ b # <<>> /\ Chained(l, b)
      /\ Len(b) = 1 /\ b[1] = n
  BY DEF Distinct, Members, Chained
<1>4. n # x /\ n # p /\ x \in Links /\ p \in Links
  <2>1. x \in {h} \cup Members(L[h]) /\ p \in {h} \cup Members(L[h])
    BY HeadLinks
  <2>2. x \in Links /\ p \in Links
    BY <1>1 DEF LinkTypes
  <2> QED
    BY <1>1, <2>1, <2>2
<1>5. AddFront(l, n, h) \in LinkTypes /\ Woven(l, AddFront(l, n, h), h, b, x)
  BY <1>1, <1>3, <1>4 DEF AddFront, LinkBetween, Woven, LinkTypes
<1>6. AddTail(l, n, h) \in LinkTypes /\ Woven(l, AddTail(l, n, h), p, b, h)
  BY <1>1, <1>3, <1>4 DEF AddTail, LinkBetween, Woven, LinkTypes
<1>7. rest \cup Members(b) = live \cup {n} /\ Members(b) \cap rest = {}
  BY <1>3
<1> HIDE DEF b, rest, x, p
<1>8. Shape(AddFront(l, n, h), rest \cup Members(b), [L EXCEPT ![h] = b \o @])
  BY <1>2, <1>3, <1>5, <1>7, WeaveEnds DEF x
<1>9. Shape(AddTail(l, n, h), rest \cup Members(b), [L EXCEPT ![h] = @ \o b])
  BY <1>2, <1>3, <1>6, <1>7, WeaveEnds DEF p
<1> QED
  BY <1>7, <1>8, <1>9 DEF b

(* __dlist_del takes a node off its list, if it is on one. *)
LEMMA RemoveShape ==
  ASSUME NEW l, NEW live, NEW L, Shape(l, live, L), NEW n \in Nodes, n \in live
  PROVE  Shape(Bypass(l, n), live \ {n}, Unlisted(L, n)) /\ ~OnSome(Unlisted(L, n), n)
<1> DEFINE K == Unlisted(L, n)
           m == Bypass(l, n)
           rest == live \ {n}
<1>1. /\ l \in LinkTypes /\ live \in SUBSET Links /\ L \in [Heads -> Seq(Nodes)]
      /\ \A g \in Heads : Distinct(L[g]) /\ Members(L[g]) \subseteq live /\ (g \notin live => L[g] = <<>>)
      /\ \A g, k \in Heads : g # k => Members(L[g]) \cap Members(L[k]) = {}
      /\ \A g \in Heads : g \in live => Ring(l, g, L[g])
      /\ \A y \in Nodes : y \in live => OnSome(L, y) \/ Loose(l, y)
      /\ n \in Links
  BY DEF Shape, Links
<1>2. ASSUME NEW g \in Heads
      PROVE  /\ K[g] \in Seq(Nodes) /\ Distinct(K[g]) /\ Members(K[g]) = Members(L[g]) \ {n}
             /\ n \notin Members(L[g]) => K[g] = L[g]
  <2>1. L[g] \in Seq(Nodes) /\ Distinct(L[g]) /\ K[g] = Abstract!Drop(L[g], n)
    BY <1>1 DEF Unlisted
  <2>2. CASE n \notin Members(L[g])
    <3>1. K[g] = L[g]
      BY <2>1, <2>2, DropIs
    <3> QED
      BY <2>1, <2>2, <3>1
  <2>3. CASE n \in Members(L[g])
    <3>1. PICK k \in 1 .. Len(L[g]) : L[g][k] = n
      BY <2>1, <2>3 DEF Members
    <3> QED
      BY <2>1, <2>3, <3>1, DropIs
  <2> QED
    BY <2>2, <2>3
<1>3. K \in [Heads -> Seq(Nodes)]
  <2>1. K = [g \in Heads |-> K[g]]
    BY DEF Unlisted
  <2> HIDE DEF K
  <2> QED
    BY <1>2, <2>1
<1>4. m \in LinkTypes
  BY <1>1 DEF Bypass, LinkTypes
<1>5. \A g \in Heads : g # n
  BY DlAssumption
<1>6. ~OnSome(K, n)
  BY <1>2 DEF OnSome
<1> HIDE DEF K, m
<1>7. /\ rest \in SUBSET Links
      /\ \A g \in Heads : Distinct(K[g]) /\ Members(K[g]) \subseteq rest /\ (g \notin rest => K[g] = <<>>)
      /\ \A g, k \in Heads : g # k => Members(K[g]) \cap Members(K[k]) = {}
  <2>1. rest \in SUBSET Links
    BY <1>1
  <2>2. ASSUME NEW g \in Heads
        PROVE  Distinct(K[g]) /\ Members(K[g]) \subseteq rest /\ (g \notin rest => K[g] = <<>>)
    <3>1. Members(K[g]) \subseteq rest
      BY <1>1, <1>2
    <3>2. ASSUME g \notin rest PROVE K[g] = <<>>
      <4>1. L[g] = <<>>
        BY <1>1, <1>5, <3>2
      <4>2. n \notin Members(L[g])
        BY <4>1 DEF Members
      <4> QED
        BY <1>2, <4>1, <4>2
    <3> QED
      BY <1>2, <3>1, <3>2
  <2>3. ASSUME NEW g \in Heads, NEW k \in Heads, g # k PROVE Members(K[g]) \cap Members(K[k]) = {}
    BY <1>1, <1>2, <2>3
  <2> QED
    BY <2>1, <2>2, <2>3
<1>8. CASE ~OnSome(L, n)
  <2>1. \A y \in Links : m.next[y] = l.next[y] /\ m.prev[y] = l.prev[y]
    <3>1. l.next[n] = n /\ l.prev[n] = n
      BY <1>1, <1>8 DEF Loose
    <3> QED
      BY <1>1, <3>1 DEF m, Bypass, LinkTypes
  <2>2. \A g \in Heads : K[g] = L[g]
    BY <1>2, <1>8 DEF OnSome
  <2>3. ASSUME NEW g \in Heads, g \in rest PROVE Ring(m, g, K[g])
    <3>1. L[g] \in Seq(Nodes) /\ Ring(l, g, L[g]) /\ \A y \in {g} \cup Members(L[g]) : y \in Links
      BY <1>1, <2>3
    <3>2. Ring(m, g, L[g])
      BY <2>1, <3>1, RingFrame
    <3> QED
      BY <2>2, <3>2
  <2>4. ASSUME NEW y \in Nodes, y \in rest PROVE OnSome(K, y) \/ Loose(m, y)
    <3>1. OnSome(L, y) \/ Loose(l, y)
      BY <1>1, <2>4
    <3>2. y \in Links
      BY DEF Links
    <3> QED
      BY <2>1, <2>2, <3>1, <3>2 DEF OnSome, Loose
  <2> QED
    BY <1>3, <1>4, <1>6, <1>7, <2>3, <2>4 DEF Shape, K, m
<1>9. CASE OnSome(L, n)
  <2>1. PICK h \in Heads : n \in Members(L[h])
    BY <1>9 DEF OnSome
  <2>2. L[h] \in Seq(Nodes) /\ Distinct(L[h]) /\ L[h] # <<>> /\ h \in live /\ Ring(l, h, L[h])
    <3>1. L[h] \in Seq(Nodes) /\ L[h] # <<>>
      BY <1>1, <2>1 DEF Members
    <3> QED
      BY <1>1, <3>1
  <2>3. PICK k \in 1 .. Len(L[h]) : L[h][k] = n
    BY <2>1, <2>2 DEF Members
  <2>4. Ring(m, h, K[h])
    <3>1. K[h] = Abstract!Drop(L[h], L[h][k]) /\ m = Bypass(l, L[h][k])
      BY <2>3 DEF K, m, Unlisted
    <3> QED
      BY <1>1, <2>2, <3>1, BypassRing
  <2>5. l.next[n] \in {h} \cup Members(L[h]) /\ l.prev[n] \in {h} \cup Members(L[h])
    <3>1. /\ k \in 0 .. Len(L[h]) /\ k - 1 \in 0 .. Len(L[h]) /\ (k - 1) + 1 = k
          /\ k - 1 \in Int /\ k + 1 \in Int
      BY <2>2
    <3>2. At(h, L[h], k) = n
      BY <2>2, <2>3, AtFacts
    <3>3. l.next[n] = At(h, L[h], k + 1) /\ l.prev[n] = At(h, L[h], k - 1)
      BY <2>2, <3>1, <3>2 DEF Ring
    <3>4. \A i \in Int : At(h, L[h], i) \in {h} \cup Members(L[h])
      BY <2>2 DEF At, Members
    <3> QED
      BY <3>1, <3>3, <3>4
  <2>6. \A y \in Links : y \notin {h} \cup Members(L[h]) => m.next[y] = l.next[y] /\ m.prev[y] = l.prev[y]
    BY <1>1, <2>5 DEF m, Bypass, LinkTypes
  <2>7. ASSUME NEW g \in Heads, g \in rest PROVE Ring(m, g, K[g])
    <3>1. CASE g = h
      BY <2>4, <3>1
    <3>2. CASE g # h
      <4>1. /\ L[g] \in Seq(Nodes) /\ Ring(l, g, L[g]) /\ g \notin Members(L[h])
            /\ h \notin Members(L[g]) /\ n \notin Members(L[g])
        BY <1>1, <2>1, <2>7, <3>2, MembersAreNodes
      <4>2. \A y \in {g} \cup Members(L[g]) : y \in Links /\ y \notin {h} \cup Members(L[h])
        BY <1>1, <2>7, <3>2, <4>1
      <4>3. Ring(m, g, L[g])
        BY <2>6, <4>1, <4>2, RingFrame
      <4> QED
        BY <1>2, <4>1, <4>3
    <3> QED
      BY <3>1, <3>2
  <2>8. ASSUME NEW y \in Nodes, y \in rest PROVE OnSome(K, y) \/ Loose(m, y)
    <3>1. CASE OnSome(L, y)
      <4>1. PICK g \in Heads : y \in Members(L[g])
        BY <3>1 DEF OnSome
      <4>2. y \in Members(K[g])
        BY <1>2, <2>8, <4>1
      <4> QED
        BY <4>2 DEF OnSome
    <3>2. CASE ~OnSome(L, y)
      <4>1. y \notin {h} \cup Members(L[h]) /\ y \in Links /\ Loose(l, y)
        BY <1>1, <2>8, <3>2, DlAssumption DEF OnSome, Links
      <4> QED
        BY <2>6, <4>1 DEF Loose
    <3> QED
      BY <3>1, <3>2
  <2> QED
    BY <1>3, <1>4, <1>6, <1>7, <2>7, <2>8 DEF Shape, K, m
<1> QED
  BY <1>8, <1>9

(* dlist_init makes a head an empty list, and a node one that is on none.   *)
LEMMA SelfShape ==
  ASSUME NEW l, NEW live, NEW L, Shape(l, live, L), NEW x \in Links, ~OnSome(L, x),
         x \in Heads => L[x] = <<>>
  PROVE  Shape(SelfLink(l, x), live \cup {x}, L)
<1> DEFINE m == SelfLink(l, x)
<1>1. /\ l \in LinkTypes /\ live \in SUBSET Links /\ L \in [Heads -> Seq(Nodes)]
      /\ \A g \in Heads : Distinct(L[g]) /\ Members(L[g]) \subseteq live /\ (g \notin live => L[g] = <<>>)
      /\ \A g, k \in Heads : g # k => Members(L[g]) \cap Members(L[k]) = {}
      /\ \A g \in Heads : g \in live => Ring(l, g, L[g])
      /\ \A y \in Nodes : y \in live => OnSome(L, y) \/ Loose(l, y)
      /\ \A g \in Heads : x \notin Members(L[g])
  BY DEF Shape, OnSome
<1>2. /\ m \in LinkTypes /\ m.next[x] = x /\ m.prev[x] = x
      /\ \A y \in Links : y # x => m.next[y] = l.next[y] /\ m.prev[y] = l.prev[y]
  BY <1>1 DEF SelfLink, LinkTypes
<1> HIDE DEF m
<1>3. ASSUME NEW g \in Heads, g \in live \cup {x} PROVE Ring(m, g, L[g])
  <2>1. CASE g = x
    <3>1. L[g] = <<>> /\ Len(<<>>) = 0
      BY <2>1
    <3>2. \A i \in Int : At(x, <<>>, i) = x
      BY <3>1 DEF At
    <3>3. ASSUME NEW i \in 0 .. 0
          PROVE m.next[At(x, <<>>, i)] = At(x, <<>>, i + 1) /\ m.prev[At(x, <<>>, i + 1)] = At(x, <<>>, i)
      <4>1. i \in Int /\ i + 1 \in Int
        OBVIOUS
      <4> QED
        BY <1>2, <3>2, <4>1
    <3> QED
      BY <2>1, <3>1, <3>3 DEF Ring
  <2>2. CASE g # x
    <3>1. g \in live /\ L[g] \in Seq(Nodes) /\ Ring(l, g, L[g])
      BY <1>1, <1>3, <2>2
    <3>2. \A y \in {g} \cup Members(L[g]) : y \in Links /\ y # x
      BY <1>1, <2>2, <3>1
    <3> QED
      BY <1>2, <3>1, <3>2, RingFrame
  <2> QED
    BY <2>1, <2>2
<1>4. ASSUME NEW y \in Nodes, y \in live \cup {x} PROVE OnSome(L, y) \/ Loose(m, y)
  BY <1>1, <1>2, <1>4 DEF Loose, Links
<1> QED
  BY <1>1, <1>2, <1>3, <1>4 DEF Shape, m

(* __dlist_splice moves the whole of one list to an end of another and      *)
(* leaves the links of its head stale.                                      *)
LEMMA SpliceShape ==
  ASSUME NEW l, NEW live, NEW L, Shape(l, live, L), NEW s \in Heads, s \in live,
         NEW h \in Heads, h \in live, s # h, L[s] # <<>>
  PROVE  /\ Shape(SpliceFront(l, s, h), live \ {s}, [L EXCEPT ![h] = L[s] \o @, ![s] = <<>>])
         /\ Shape(SpliceTail(l, s, h), live \ {s}, [L EXCEPT ![h] = @ \o L[s], ![s] = <<>>])
<1> DEFINE b == L[s]
           rest == live \ ({s} \cup Members(b))
           K == [L EXCEPT ![s] = <<>>]
           x == l.next[h]
           p == l.prev[h]
<1>1. /\ l \in LinkTypes /\ live \in SUBSET Links /\ L \in [Heads -> Seq(Nodes)]
      /\ \A g \in Heads : Distinct(L[g]) /\ Members(L[g]) \subseteq live /\ (g \notin live => L[g] = <<>>)
      /\ \A g, k \in Heads : g # k => Members(L[g]) \cap Members(L[k]) = {}
      /\ \A g \in Heads : g \in live => Ring(l, g, L[g])
      /\ \A y \in Nodes : y \in live => OnSome(L, y) \/ Loose(l, y)
      /\ h \in Links /\ s \in Links
  BY DEF Shape, Links
<1>2. /\ b \in Seq(Nodes) /\ Distinct(b) /\ b # <<>> /\ Ring(l, s, b) /\ Members(b) \subseteq live
      /\ \A g \in Heads : g \notin Members(b)
  BY <1>1, MembersAreNodes
<1>3. /\ K \in [Heads -> Seq(Nodes)] /\ K[s] = <<>> /\ \A g \in Heads : g # s => K[g] = L[g]
  BY <1>1
<1>4. /\ Members(<<>>) = {} /\ Distinct(<<>>)
  BY DEF Members, Distinct
<1>5. l.next[s] = b[1] /\ l.prev[s] = b[Len(b)]
  BY <1>2, HeadLinks
<1>6. Chained(l, b)
  <2> SUFFICES ASSUME NEW i \in 1 .. Len(b) - 1 PROVE l.next[b[i]] = b[i + 1] /\ l.prev[b[i + 1]] = b[i]
    BY DEF Chained
  <2>1. Len(b) \in Nat
    BY <1>2
  <2>2. i \in 1 .. Len(b) /\ i + 1 \in 1 .. Len(b) /\ i \in 0 .. Len(b)
    BY <2>1
  <2> HIDE DEF b
  <2>3. At(s, b, i) = b[i] /\ At(s, b, i + 1) = b[i + 1]
    BY <1>2, <2>2, AtFacts
  <2> QED
    BY <1>2, <2>2, <2>3 DEF Ring
<1>7. x \in {h} \cup Members(L[h]) /\ p \in {h} \cup Members(L[h]) /\ x \in Links /\ p \in Links
  BY <1>1, HeadLinks
<1>8. /\ b[1] \in Members(b) /\ b[Len(b)] \in Members(b)
      /\ b[1] # h /\ b[1] # x /\ b[1] # p /\ b[Len(b)] # h /\ b[Len(b)] # x /\ b[Len(b)] # p
      /\ b[1] \in Links /\ b[Len(b)] \in Links
  <2>1. 1 \in DOMAIN b /\ Len(b) \in DOMAIN b
    BY <1>2
  <2>2. b[1] \in Members(b) /\ b[Len(b)] \in Members(b)
    BY <2>1 DEF Members
  <2>3. Members(b) \cap ({h} \cup Members(L[h])) = {}
    BY <1>1, <1>2
  <2> QED
    BY <1>1, <1>2, <1>7, <2>2, <2>3
<1>9. SpliceFront(l, s, h) \in LinkTypes /\ Woven(l, SpliceFront(l, s, h), h, b, x)
  <2> HIDE DEF b
  <2> QED
    BY <1>1, <1>5, <1>7, <1>8 DEF SpliceFront, SpliceBetween, Woven, LinkTypes
<1>10. SpliceTail(l, s, h) \in LinkTypes /\ Woven(l, SpliceTail(l, s, h), p, b, h)
  <2> HIDE DEF b
  <2> QED
    BY <1>1, <1>5, <1>7, <1>8 DEF SpliceTail, SpliceBetween, Woven, LinkTypes
<1>11. /\ rest \cup Members(b) = live \ {s} /\ Members(b) \cap rest = {} /\ h \in rest
  BY <1>2
<1> HIDE DEF b, K, x, p
<1>12. Shape(l, rest, K)
  <2>1. rest \in SUBSET Links
    BY <1>1
  <2>2. ASSUME NEW g \in Heads
        PROVE  Distinct(K[g]) /\ Members(K[g]) \subseteq rest /\ (g \notin rest => K[g] = <<>>)
    <3>1. CASE g = s
      BY <1>3, <1>4, <3>1
    <3>2. CASE g # s
      BY <1>1, <1>2, <1>3, <3>2, MembersAreNodes DEF b
    <3> QED
      BY <3>1, <3>2
  <2>3. ASSUME NEW g \in Heads, NEW k \in Heads, g # k PROVE Members(K[g]) \cap Members(K[k]) = {}
    BY <1>1, <1>3, <1>4, <2>3
  <2>4. ASSUME NEW g \in Heads, g \in rest PROVE Ring(l, g, K[g])
    BY <1>1, <1>3, <2>4
  <2>5. ASSUME NEW y \in Nodes, y \in rest PROVE OnSome(K, y) \/ Loose(l, y)
    BY <1>1, <1>3, <2>5 DEF OnSome, b
  <2> QED
    BY <1>1, <1>3, <2>1, <2>2, <2>3, <2>4, <2>5 DEF Shape
<1> HIDE DEF rest
<1>13. Shape(SpliceFront(l, s, h), rest \cup Members(b), [K EXCEPT ![h] = b \o @])
  BY <1>2, <1>6, <1>9, <1>11, <1>12, WeaveEnds DEF x
<1>14. Shape(SpliceTail(l, s, h), rest \cup Members(b), [K EXCEPT ![h] = @ \o b])
  BY <1>2, <1>6, <1>10, <1>11, <1>12, WeaveEnds DEF p
<1>15. /\ [K EXCEPT ![h] = b \o @] = [L EXCEPT ![h] = L[s] \o @, ![s] = <<>>]
       /\ [K EXCEPT ![h] = @ \o b] = [L EXCEPT ![h] = @ \o L[s], ![s] = <<>>]
  BY <1>1 DEF K, b
<1> QED
  BY <1>11, <1>13, <1>14, <1>15

(***************************************************************************)
(* Reading a list from its head                                            *)
(***************************************************************************)

(* A list without repetition is no longer than there are nodes. *)
LEMMA ListLength ==
  ASSUME NEW s \in Seq(Nodes), Distinct(s)
  PROVE  Len(s) \in 0 .. Cardinality(Nodes)
<1>1. Len(s) \in Nat /\ s \in [1 .. Len(s) -> Nodes] /\ DOMAIN s = 1 .. Len(s)
  OBVIOUS
<1>2. s \in Injection(1 .. Len(s), Nodes)
  BY <1>1 DEF Injection, IsInjective, Distinct
<1>3. Cardinality(1 .. Len(s)) = Len(s)
  BY <1>1, FS_Interval
<1>4. Cardinality(1 .. Len(s)) <= Cardinality(Nodes) /\ Cardinality(Nodes) \in Nat
  BY <1>2, DlAssumption, FS_Injection, FS_CardinalityType
<1> QED
  BY <1>1, <1>3, <1>4

(* Along follows the links of a ring and stops where it closes. *)
LEMMA AlongIs ==
  ASSUME NEW h \in Heads, NEW s \in Seq(Nodes), Distinct(s), NEW l \in LinkTypes, Ring(l, h, s)
  PROVE  Along(l.next, h) = s
<1> DEFINE f == l.next
           F(e) == [i \in Nat |-> IF i = 0 THEN h ELSE f[e[i - 1]]]
           at == CHOOSE e : e = F(e)
           closes == {k \in 0 .. Cardinality(Nodes) : at[k + 1] = h}
           last == CHOOSE k \in closes : \A j \in closes : k <= j
<1>1. Along(f, h) = IF closes = {} THEN <<h>> ELSE [i \in 1 .. last |-> at[i]]
  BY DEF Along
<1>2. at[0] = h /\ \A i \in Nat : at[i + 1] = f[at[i]]
  <2>1. f \in [Links -> Links] /\ h \in Links
    BY DEF LinkTypes, Links
  <2> HIDE DEF f
  <2> QED
    BY <2>1, Iterated, SMTT(60)
<1> HIDE DEF at, F
<1>3. \A i \in 0 .. Len(s) + 1 : at[i] = At(h, s, i)
  <2> DEFINE S == {i \in Nat : i \in 0 .. Len(s) + 1 => at[i] = At(h, s, i)}
  <2>1. 0 \in S
    BY <1>2, AtFacts
  <2>2. ASSUME NEW i \in S PROVE i + 1 \in S
    <3>1. CASE i \in 0 .. Len(s)
      <4>1. at[i] = At(h, s, i) /\ i \in Nat /\ i + 1 \in Nat
        BY <3>1
      <4>2. f[At(h, s, i)] = At(h, s, i + 1)
        BY <3>1 DEF Ring
      <4> QED
        BY <1>2, <4>1, <4>2
    <3>2. CASE i \notin 0 .. Len(s)
      BY <3>2
    <3> QED
      BY <3>1, <3>2
  <2> HIDE DEF S
  <2>3. S \in SUBSET Nat
    BY DEF S
  <2>4. S = Nat
    BY <2>1, <2>2, <2>3, SetInduction
  <2>5. \A i \in 0 .. Len(s) + 1 : i \in Nat
    OBVIOUS
  <2> QED
    BY <2>4, <2>5 DEF S
<1>4. Len(s) \in 0 .. Cardinality(Nodes) /\ Cardinality(Nodes) \in Nat /\ Len(s) \in Nat
  BY ListLength, DlAssumption, FS_CardinalityType
<1>5. Len(s) \in closes
  BY <1>3, <1>4, AtFacts
<1>6. \A k \in closes : Len(s) <= k
  <2> SUFFICES ASSUME NEW k \in closes, k < Len(s) PROVE FALSE
    BY <1>4
  <2>1. k + 1 \in 1 .. Len(s) /\ k + 1 \in 0 .. Len(s) + 1
    BY <1>4
  <2>2. at[k + 1] = s[k + 1] /\ s[k + 1] # h
    BY <1>3, <2>1, AtFacts
  <2> QED
    BY <2>2
<1> HIDE DEF closes
<1>7. last = Len(s)
  <2>1. \A k \in closes : k \in Nat
    BY <1>4 DEF closes
  <2>2. last \in closes /\ \A j \in closes : last <= j
    BY <1>5, <1>6
  <2> HIDE DEF last
  <2> QED
    BY <1>4, <1>5, <1>6, <2>1, <2>2
<1>8. Along(f, h) = [i \in 1 .. Len(s) |-> at[i]]
  BY <1>1, <1>5, <1>7
<1>9. \A i \in 1 .. Len(s) : at[i] = s[i]
  BY <1>3, <1>4, AtFacts
<1> QED
  BY <1>4, <1>8, <1>9

(***************************************************************************)
(* The loop that may remove its node                                       *)
(***************************************************************************)

Walks == [head : Heads, pos : Links, n : Links, todo : Seq(Nodes)]

(* The loop w has left k of the nodes of s, the list of its head, behind.   *)
Stands(w, s, k) ==
  /\ k \in 0 .. Len(s)
  /\ w.pos = At(w.head, s, k + 1)
  /\ k < Len(s) => w.n = At(w.head, s, k + 2)
  /\ Len(w.todo) = Len(s) - k
  /\ \A i \in 1 .. Len(s) - k : w.todo[i] = s[k + i]

(* What dlist_for_each_safe does after its body. *)
Onward(w, m) == [w EXCEPT !.pos = w.n, !.n = m.next[w.n], !.todo = Tail(@)]

(* A loop at a node of its list, and what it does next. *)
LEMMA StandsFacts ==
  ASSUME NEW w \in Walks, NEW s \in Seq(Nodes), Distinct(s), NEW k, Stands(w, s, k), w.pos # w.head,
         NEW m \in LinkTypes
  PROVE  /\ k \in Nat /\ k + 1 \in 1 .. Len(s) /\ Len(s) \in Nat
         /\ w.pos = s[k + 1] /\ w.n = At(w.head, s, k + 2)
         /\ w.todo # <<>> /\ Len(Tail(w.todo)) = Len(s) - (k + 1)
         /\ \A i \in 1 .. Len(s) - (k + 1) : Tail(w.todo)[i] = s[(k + 1) + i]
         /\ Onward(w, m) \in Walks
         /\ Onward(w, m).head = w.head /\ Onward(w, m).pos = w.n
         /\ Onward(w, m).n = m.next[w.n] /\ Onward(w, m).todo = Tail(w.todo)
<1>1. w.head \in Heads /\ w.pos \in Links /\ w.n \in Links /\ w.todo \in Seq(Nodes)
  BY DEF Walks
<1>2. Len(s) \in Nat /\ k \in 0 .. Len(s)
  BY DEF Stands
<1>3. k # Len(s)
  <2>1. At(w.head, s, Len(s) + 1) = w.head
    BY <1>1, AtFacts
  <2> QED
    BY <2>1 DEF Stands
<1>4. k \in Nat /\ k + 1 \in 1 .. Len(s) /\ k < Len(s)
  BY <1>2, <1>3
<1>5. w.pos = s[k + 1] /\ w.n = At(w.head, s, k + 2)
  BY <1>1, <1>4, AtFacts DEF Stands
<1>6. /\ Len(w.todo) = Len(s) - k /\ \A i \in 1 .. Len(s) - k : w.todo[i] = s[k + i]
  BY DEF Stands
<1> DEFINE t == w.todo
<1>7. t # <<>> /\ Len(t) > 0
  BY <1>1, <1>4, <1>6
<1>8. /\ Tail(t) \in Seq(Nodes) /\ Len(Tail(t)) = Len(t) - 1
      /\ \A i \in 1 .. Len(t) - 1 : Tail(t)[i] = t[i + 1]
  <2>1. t \in Seq(Nodes)
    BY <1>1
  <2> HIDE DEF t
  <2> QED
    BY <1>7, <2>1
<1>9. ASSUME NEW i \in 1 .. Len(s) - (k + 1) PROVE Tail(t)[i] = s[(k + 1) + i]
  <2>1. i \in 1 .. Len(t) - 1 /\ i + 1 \in 1 .. Len(s) - k /\ k + (i + 1) = (k + 1) + i
    BY <1>2, <1>6
  <2> QED
    BY <1>6, <1>8, <2>1
<1>10. /\ Onward(w, m) \in Walks
       /\ Onward(w, m).head = w.head /\ Onward(w, m).pos = w.n
       /\ Onward(w, m).n = m.next[w.n] /\ Onward(w, m).todo = Tail(w.todo)
  BY <1>1, <1>8 DEF Onward, Walks, LinkTypes
<1> QED
  BY <1>2, <1>4, <1>5, <1>6, <1>7, <1>8, <1>9, <1>10

(* A body that leaves the list alone. *)
LEMMA StandsKeep ==
  ASSUME NEW w \in Walks, NEW s \in Seq(Nodes), Distinct(s), NEW k, Stands(w, s, k), w.pos # w.head,
         NEW m \in LinkTypes, Ring(m, w.head, s)
  PROVE  Stands(Onward(w, m), s, k + 1)
<1>1. /\ k \in Nat /\ k + 1 \in 1 .. Len(s) /\ Len(s) \in Nat
      /\ w.pos = s[k + 1] /\ w.n = At(w.head, s, k + 2)
      /\ Len(Tail(w.todo)) = Len(s) - (k + 1)
      /\ \A i \in 1 .. Len(s) - (k + 1) : Tail(w.todo)[i] = s[(k + 1) + i]
      /\ Onward(w, m).head = w.head /\ Onward(w, m).pos = w.n
      /\ Onward(w, m).n = m.next[w.n] /\ Onward(w, m).todo = Tail(w.todo)
  BY SMTT(30), StandsFacts
<1>2. k + 1 \in 0 .. Len(s) /\ (k + 1) + 1 = k + 2 /\ (k + 1) + 2 = (k + 2) + 1
  BY <1>1
<1>3. k + 1 < Len(s) => m.next[At(w.head, s, k + 2)] = At(w.head, s, (k + 1) + 2)
  <2> SUFFICES ASSUME k + 1 < Len(s)
               PROVE  m.next[At(w.head, s, k + 2)] = At(w.head, s, (k + 1) + 2)
    OBVIOUS
  <2>1. k + 2 \in 0 .. Len(s)
    BY <1>1
  <2> QED
    BY <1>2, <2>1 DEF Ring
<1> QED
  BY <1>1, <1>2, <1>3 DEF Stands

(* A body that takes its node off the list. *)
LEMMA StandsRemove ==
  ASSUME NEW w \in Walks, NEW s \in Seq(Nodes), Distinct(s), NEW k, Stands(w, s, k), w.pos # w.head,
         NEW m \in LinkTypes, Ring(m, w.head, Abstract!Drop(s, w.pos))
  PROVE  Stands(Onward(w, m), Abstract!Drop(s, w.pos), k)
<1> DEFINE d == Abstract!Drop(s, w.pos)
<1>1. /\ k \in Nat /\ k + 1 \in 1 .. Len(s) /\ Len(s) \in Nat
      /\ w.pos = s[k + 1] /\ w.n = At(w.head, s, k + 2)
      /\ Len(Tail(w.todo)) = Len(s) - (k + 1)
      /\ \A i \in 1 .. Len(s) - (k + 1) : Tail(w.todo)[i] = s[(k + 1) + i]
      /\ Onward(w, m).head = w.head /\ Onward(w, m).pos = w.n
      /\ Onward(w, m).n = m.next[w.n] /\ Onward(w, m).todo = Tail(w.todo)
  BY StandsFacts
<1>2. /\ d \in Seq(Nodes) /\ Len(d) = Len(s) - 1
      /\ \A i \in k + 1 .. Len(s) - 1 : d[i] = s[i + 1]
  BY <1>1, DropIs
<1> HIDE DEF d
<1>3. k \in 0 .. Len(d) /\ Len(d) - k = Len(s) - (k + 1)
  BY <1>1, <1>2
<1>4. At(w.head, s, k + 2) = At(w.head, d, k + 1)
  <2>1. CASE k + 1 <= Len(d)
    <3>1. k + 1 \in k + 1 .. Len(s) - 1 /\ k + 1 \in 1 .. Len(d) /\ k + 2 \in 1 .. Len(s) /\ (k + 1) + 1 = k + 2
      BY <1>1, <1>2, <2>1
    <3> QED
      BY <1>2, <3>1 DEF At
  <2>2. CASE ~(k + 1 <= Len(d))
    <3>1. k + 1 \notin 1 .. Len(d) /\ k + 2 \notin 1 .. Len(s)
      BY <1>1, <1>2, <2>2
    <3> QED
      BY <3>1 DEF At
  <2> QED
    BY <2>1, <2>2
<1>5. k < Len(d) => m.next[At(w.head, d, k + 1)] = At(w.head, d, k + 2)
  <2> SUFFICES ASSUME k < Len(d) PROVE m.next[At(w.head, d, k + 1)] = At(w.head, d, k + 2)
    OBVIOUS
  <2>1. k + 1 \in 0 .. Len(d) /\ (k + 1) + 1 = k + 2
    BY <1>1, <1>2
  <2> QED
    BY <2>1 DEF Ring, d
<1>6. ASSUME NEW i \in 1 .. Len(d) - k PROVE Tail(w.todo)[i] = d[k + i]
  <2>1. i \in 1 .. Len(s) - (k + 1) /\ k + i \in k + 1 .. Len(s) - 1 /\ (k + i) + 1 = (k + 1) + i
    BY <1>1, <1>2
  <2> QED
    BY <1>1, <1>2, <2>1
<1> QED
  BY <1>1, <1>3, <1>4, <1>5, <1>6 DEF Stands, d

(* A loop starts at the first node. *)
LEMMA StandsStart ==
  ASSUME NEW h \in Heads, NEW s \in Seq(Nodes), Distinct(s), NEW l \in LinkTypes, Ring(l, h, s)
  PROVE  LET w == [head |-> h, pos |-> l.next[h], n |-> l.next[l.next[h]], todo |-> Along(l.next, h)]
         IN  w \in Walks /\ Stands(w, s, 0)
<1>1. Along(l.next, h) = s
  BY AlongIs
<1>2. Len(s) \in Nat /\ At(h, s, 0) = h
  BY AtFacts
<1>3. l.next[h] = At(h, s, 0 + 1)
  BY <1>2 DEF Ring
<1>4. 0 < Len(s) => l.next[At(h, s, 0 + 1)] = At(h, s, 0 + 2)
  BY <1>2 DEF Ring
<1>5. h \in Links /\ l.next[h] \in Links /\ l.next[l.next[h]] \in Links
  BY DEF Links, LinkTypes
<1>6. \A i \in 1 .. Len(s) - 0 : s[i] = s[0 + i]
  BY <1>2
<1> QED
  BY <1>1, <1>2, <1>3, <1>4, <1>5, <1>6 DEF Walks, Stands

(***************************************************************************)
(* The specification                                                       *)
(***************************************************************************)

(* What Lists allows, for lists given as values. *)
Moves(L, K) ==
  \/ K = L
  \/ \E n \in Nodes : \/ K = Unlisted(L, n)
                      \/ \E h \in Heads : \/ K = [Unlisted(L, n) EXCEPT ![h] = <<n>> \o @]
                                          \/ K = [Unlisted(L, n) EXCEPT ![h] = @ \o <<n>>]
  \/ \E s \in Heads : \E h \in Heads \ {s} : \/ K = [L EXCEPT ![h] = L[s] \o @, ![s] = <<>>]
                                             \/ K = [L EXCEPT ![h] = @ \o L[s], ![s] = <<>>]

Walking(live, L, w) ==
  w # NoWalk => w \in Walks /\ w.head \in live /\ \E k : Stands(w, L[w.head], k)

(* The inductive invariant, with the lists it is about. *)
DlLists(L) == Shape(dl, dlLive, L) /\ Walking(dlLive, L, dlWalk)
DlInv == \E L : DlLists(L)

(* What a well-shaped structure says of its lists. *)
LEMMA ShapeParts ==
  ASSUME NEW l, NEW live, NEW L, Shape(l, live, L)
  PROVE  /\ l \in LinkTypes /\ live \in SUBSET Links /\ L \in [Heads -> Seq(Nodes)]
         /\ \A h \in Heads : /\ L[h] \in Seq(Nodes) /\ Distinct(L[h]) /\ Members(L[h]) \subseteq live
                             /\ h \in live => Ring(l, h, L[h])
                             /\ ~OnSome(L, h)
BY MembersAreNodes DEF Shape, OnSome

(* A node whose next is itself, or whose links are stale, is on no list; a  *)
(* head whose next is itself has an empty one.                              *)
LEMMA AloneIs ==
  ASSUME NEW l, NEW live, NEW L, Shape(l, live, L), NEW x \in Links, x \in live => Alone(l, x)
  PROVE  ~OnSome(L, x) /\ (x \in Heads => L[x] = <<>>)
<1>1. CASE x \in Heads
  <2>1. ~OnSome(L, x)
    BY <1>1, ShapeParts
  <2>2. L[x] = <<>>
    <3>1. CASE x \notin live
      BY <1>1, <3>1 DEF Shape
    <3>2. CASE x \in live
      <4> SUFFICES ASSUME L[x] # <<>> PROVE FALSE
        OBVIOUS
      <4>1. l.next[x] = L[x][1] /\ L[x] \in Seq(Nodes)
        BY <1>1, <3>2, HeadLinks, ShapeParts
      <4>2. L[x][1] \in Nodes
        BY <4>1
      <4> QED
        BY <1>1, <3>2, <4>1, <4>2, DlAssumption DEF Alone
    <3> QED
      BY <3>1, <3>2
  <2> QED
    BY <2>1, <2>2
<1>2. CASE x \notin Heads
  <2> SUFFICES ASSUME NEW h \in Heads, x \in Members(L[h]) PROVE FALSE
    BY <1>2 DEF OnSome
  <2> DEFINE s == L[h]
  <2>1. s \in Seq(Nodes) /\ Distinct(s) /\ x \in live /\ s # <<>>
    BY ShapeParts DEF Members
  <2>2. Ring(l, h, s)
    BY <2>1 DEF Shape
  <2> HIDE DEF s
  <2>3. PICK k \in 1 .. Len(s) : s[k] = x
    BY <2>1 DEF Members, s
  <2>4. /\ k \in 0 .. Len(s) /\ k \in 1 .. Len(s) + 1 /\ k + 1 \in 1 .. Len(s) + 1 /\ k # k + 1
    BY <2>1
  <2>5. At(h, s, k) = x
    BY <2>1, <2>3, AtFacts
  <2>6. At(h, s, k + 1) = x
    BY <2>1, <2>2, <2>4, <2>5 DEF Ring, Alone
  <2> QED
    BY <2>1, <2>4, <2>5, <2>6, AtFacts
<1> QED
  BY <1>1, <1>2

(* A node on no list is not missed. *)
LEMMA MinusNone ==
  ASSUME NEW L \in [Heads -> Seq(Nodes)], \A h \in Heads : Distinct(L[h]), NEW n, ~OnSome(L, n)
  PROVE  Unlisted(L, n) = L
<1>1. \A h \in Heads : Abstract!Drop(L[h], n) = L[h]
  BY DropIs DEF OnSome
<1> QED
  BY <1>1 DEF Unlisted

(* dlist_del, dlist_del_init and dlist_move. *)
LEMMA TakeStep ==
  ASSUME NEW L, Shape(dl, dlLive, L), NEW n \in Nodes
  PROVE  /\ DlDel(n) => Shape(dl', dlLive', Unlisted(L, n)) /\ dlLive' = dlLive \ {n}
         /\ DlDelInit(n) => Shape(dl', dlLive', Unlisted(L, n)) /\ dlLive' = dlLive
         /\ \A h \in Heads : DlMove(n, h) =>
              \E K : /\ Shape(dl', dlLive', K) /\ Moves(L, K) /\ dlLive' = dlLive
                     /\ \A g \in Heads : g # h => K[g] = Abstract!Drop(L[g], n)
<1>1. ASSUME n \in dlLive
      PROVE  Shape(Bypass(dl, n), dlLive \ {n}, Unlisted(L, n)) /\ ~OnSome(Unlisted(L, n), n)
  BY <1>1, RemoveShape
<1>2. n \notin Heads /\ n \in Links
  BY DlAssumption DEF Links
<1>3. ASSUME DlDel(n) PROVE Shape(dl', dlLive', Unlisted(L, n)) /\ dlLive' = dlLive \ {n}
  BY <1>1, <1>3 DEF DlDel
<1>4. ASSUME DlDelInit(n) PROVE Shape(dl', dlLive', Unlisted(L, n)) /\ dlLive' = dlLive
  <2>1. n \in dlLive /\ dl' = SelfLink(Bypass(dl, n), n) /\ dlLive' = dlLive
    BY <1>4 DEF DlDelInit
  <2>2. Shape(SelfLink(Bypass(dl, n), n), (dlLive \ {n}) \cup {n}, Unlisted(L, n))
    BY <1>1, <1>2, <2>1, SelfShape
  <2>3. (dlLive \ {n}) \cup {n} = dlLive
    BY <2>1
  <2> QED
    BY <2>1, <2>2, <2>3
<1>5. ASSUME NEW h \in Heads, DlMove(n, h)
      PROVE  \E K : /\ Shape(dl', dlLive', K) /\ Moves(L, K) /\ dlLive' = dlLive
                    /\ \A g \in Heads : g # h => K[g] = Abstract!Drop(L[g], n)
  <2>1. n \in dlLive /\ h \in dlLive /\ dlLive' = dlLive
    BY <1>5 DEF DlMove
  <2>2. h \in dlLive \ {n} /\ (dlLive \ {n}) \cup {n} = dlLive
    BY <1>2, <2>1
  <2> DEFINE F == [Unlisted(L, n) EXCEPT ![h] = <<n>> \o @]
             T == [Unlisted(L, n) EXCEPT ![h] = @ \o <<n>>]
  <2>3. Shape(AddFront(Bypass(dl, n), n, h), dlLive, F) /\ Shape(AddTail(Bypass(dl, n), n, h), dlLive, T)
    <3>1. /\ Shape(AddFront(Bypass(dl, n), n, h), (dlLive \ {n}) \cup {n}, F)
          /\ Shape(AddTail(Bypass(dl, n), n, h), (dlLive \ {n}) \cup {n}, T)
      BY <1>1, <2>1, <2>2, InsertShape
    <3> QED
      BY <2>2, <3>1
  <2>4. \A g \in Heads : g # h => F[g] = Abstract!Drop(L[g], n) /\ T[g] = Abstract!Drop(L[g], n)
    BY DEF Unlisted
  <2>5. Moves(L, F) /\ Moves(L, T)
    BY DEF Moves
  <2>6. dl' = AddFront(Bypass(dl, n), n, h) \/ dl' = AddTail(Bypass(dl, n), n, h)
    BY <1>5 DEF DlMove
  <2> HIDE DEF F, T
  <2> QED
    BY <2>1, <2>3, <2>4, <2>5, <2>6
<1> QED
  BY <1>3, <1>4, <1>5

(* An operation outside a loop changes the lists as it should. *)
LEMMA OperationStep ==
  ASSUME NEW L, DlLists(L), DlIdle, DlNext, ~(\E h \in Heads : DlWalkStart(h)), ~DlWalkOn, ~DlWalkEnd
  PROVE  \E K : Shape(dl', dlLive', K) /\ Moves(L, K) /\ dlWalk' = dlWalk
<1>1. Shape(dl, dlLive, L) /\ L \in [Heads -> Seq(Nodes)] /\ \A h \in Heads : Distinct(L[h])
  BY ShapeParts DEF DlLists
<1>2. Moves(L, L)
  BY DEF Moves
<1>3. ASSUME NEW x \in Links, DlReset(x) PROVE Shape(dl', dlLive', L) /\ dlWalk' = dlWalk
  <2>1. x \in dlLive => Alone(dl, x)
    BY <1>3 DEF DlReset, OffList
  <2>2. Shape(SelfLink(dl, x), dlLive \cup {x}, L)
    BY <1>1, <2>1, AloneIs, SelfShape
  <2> QED
    BY <1>3, <2>2 DEF DlReset
<1>4. ASSUME NEW n \in Nodes, NEW h \in Heads, DlAdd(n, h)
      PROVE  \E K : Shape(dl', dlLive', K) /\ Moves(L, K) /\ dlWalk' = dlWalk
  <2>1. n \in Links /\ (n \in dlLive => Alone(dl, n)) /\ h \in dlLive
    BY <1>4 DEF DlAdd, OffList, Links
  <2>2. ~OnSome(L, n)
    BY <1>1, <2>1, AloneIs
  <2> DEFINE F == [L EXCEPT ![h] = <<n>> \o @]
             T == [L EXCEPT ![h] = @ \o <<n>>]
  <2>3. /\ Shape(AddFront(dl, n, h), dlLive \cup {n}, F)
        /\ Shape(AddTail(dl, n, h), dlLive \cup {n}, T)
    BY <1>1, <2>1, <2>2, InsertShape
  <2>4. Unlisted(L, n) = L
    BY <1>1, <2>2, MinusNone
  <2>5. Moves(L, F) /\ Moves(L, T)
    BY <2>4 DEF Moves
  <2> HIDE DEF F, T
  <2> QED
    BY <1>4, <2>3, <2>5 DEF DlAdd
<1>5. ASSUME NEW n \in Nodes, DlDel(n) \/ DlDelInit(n)
      PROVE  \E K : Shape(dl', dlLive', K) /\ Moves(L, K)
  <2>1. Shape(dl', dlLive', Unlisted(L, n))
    BY <1>1, <1>5, TakeStep
  <2>2. Moves(L, Unlisted(L, n))
    BY DEF Moves
  <2> QED
    BY <2>1, <2>2
<1>6. ASSUME NEW n \in Nodes, NEW h \in Heads, DlMove(n, h)
      PROVE  \E K : Shape(dl', dlLive', K) /\ Moves(L, K)
  BY <1>1, <1>6, TakeStep
<1>7. ASSUME NEW s \in Heads, NEW h \in Heads, NEW init \in BOOLEAN, DlSplice(s, h, init)
      PROVE  \E K : Shape(dl', dlLive', K) /\ Moves(L, K) /\ dlWalk' = dlWalk
  <2>1. s # h /\ s \in dlLive /\ h \in dlLive /\ dlWalk' = dlWalk /\ s \in Links
    BY <1>7 DEF DlSplice, Links
  <2>2. CASE Alone(dl, s)
    <3>1. dl' = dl /\ dlLive' = dlLive
      BY <1>7, <2>2 DEF DlSplice
    <3> QED
      BY <1>1, <1>2, <2>1, <3>1
  <2>3. CASE ~Alone(dl, s)
    <3> DEFINE F == [L EXCEPT ![h] = L[s] \o @, ![s] = <<>>]
               T == [L EXCEPT ![h] = @ \o L[s], ![s] = <<>>]
    <3>1. L[s] # <<>>
      BY <1>1, <2>1, <2>3, HeadLinks DEF Alone
    <3>2. /\ Shape(SpliceFront(dl, s, h), dlLive \ {s}, F)
          /\ Shape(SpliceTail(dl, s, h), dlLive \ {s}, T)
      BY <1>1, <2>1, <3>1, SpliceShape
    <3>3. h \in Heads \ {s}
      BY <2>1
    <3>4. Moves(L, F) /\ Moves(L, T)
      BY <3>3 DEF Moves
    <3>5. F[s] = <<>> /\ T[s] = <<>>
      BY <1>1
    <3>6. PICK l \in {SpliceFront(dl, s, h), SpliceTail(dl, s, h)} : dl' = IF init THEN SelfLink(l, s) ELSE l
      BY <1>7, <2>3 DEF DlSplice
    <3>7. dlLive' = IF init THEN dlLive ELSE dlLive \ {s}
      BY <1>7, <2>3 DEF DlSplice
    <3> HIDE DEF F, T
    <3>8. PICK K : Shape(l, dlLive \ {s}, K) /\ Moves(L, K) /\ K[s] = <<>>
      BY <3>2, <3>4, <3>5
    <3>9. Shape(SelfLink(l, s), (dlLive \ {s}) \cup {s}, K)
      <4>1. ~OnSome(K, s)
        BY <3>8, ShapeParts
      <4> QED
        BY <2>1, <3>8, <4>1, SelfShape
    <3>10. (dlLive \ {s}) \cup {s} = dlLive
      BY <2>1
    <3>11. Shape(dl', dlLive', K)
      BY <3>6, <3>7, <3>8, <3>9, <3>10
    <3> QED
      BY <2>1, <3>8, <3>11
  <2> QED
    BY <2>2, <2>3
<1> QED
  BY <1>2, <1>3, <1>4, <1>5, <1>6, <1>7 DEF DlNext

(* The body of the loop removes or moves its own node at most. *)
LEMMA WalkOnStep ==
  ASSUME NEW L, DlLists(L), DlWalkOn
  PROVE  \E K : DlLists(K)' /\ Moves(L, K)
<1> DEFINE w == dlWalk
           h == dlWalk.head
           s == L[dlWalk.head]
           n == dlWalk.pos
           m == dl'
<1>1. /\ Shape(dl, dlLive, L) /\ w \in Walks /\ h \in dlLive /\ h \in Heads /\ n # h
      /\ dlWalk' = Onward(w, m)
  BY DEF DlLists, Walking, Walks, DlWalkOn, DlIdle, Onward
<1>2. PICK k : Stands(w, s, k)
  BY DEF DlLists, Walking, DlWalkOn, DlIdle
<1>3. s \in Seq(Nodes) /\ Distinct(s)
  BY <1>1, ShapeParts
<1>4. ASSUME NEW K, Shape(dl', dlLive', K), h \in dlLive', K[h] = s \/ K[h] = Abstract!Drop(s, n)
      PROVE  DlLists(K)'
  <2>1. m \in LinkTypes /\ Ring(m, h, K[h])
    BY <1>1, <1>4, ShapeParts
  <2>2. Onward(w, m) \in Walks /\ Onward(w, m).head = h
    BY <1>1, <1>2, <1>3, <2>1, StandsFacts
  <2>3. \E j : Stands(Onward(w, m), K[h], j)
    <3>1. CASE K[h] = s
      BY <1>1, <1>2, <1>3, <2>1, <3>1, StandsKeep
    <3>2. CASE K[h] = Abstract!Drop(s, n)
      BY <1>1, <1>2, <1>3, <2>1, <3>2, StandsRemove
    <3> QED
      BY <1>4, <3>1, <3>2
  <2> HIDE DEF m, w, h
  <2>4. Walking(dlLive', K, Onward(w, m))
    BY <1>4, <2>2, <2>3 DEF Walking
  <2> QED
    BY <1>1, <1>4, <2>4 DEF DlLists
<1>5. n \in Nodes
  <2>1. k + 1 \in 1 .. Len(s) /\ n = s[k + 1]
    <3>1. dl \in LinkTypes
      BY <1>1, ShapeParts
    <3> QED
      BY <1>1, <1>2, <1>3, <3>1, StandsFacts
  <2> QED
    BY <1>3, <2>1
<1>6. CASE UNCHANGED <<dl, dlLive>>
  <2>1. Moves(L, L)
    BY DEF Moves
  <2>2. DlLists(L)'
    BY <1>1, <1>4, <1>6
  <2> QED
    BY <2>1, <2>2
<1>7. CASE DlDel(n) \/ DlDelInit(n)
  <2>1. Shape(dl', dlLive', Unlisted(L, n)) /\ (dlLive' = dlLive \ {n} \/ dlLive' = dlLive)
    BY <1>1, <1>5, <1>7, TakeStep
  <2>2. Unlisted(L, n)[h] = Abstract!Drop(s, n) /\ h \in dlLive'
    BY <1>1, <2>1 DEF Unlisted
  <2>3. Moves(L, Unlisted(L, n))
    BY <1>5 DEF Moves
  <2>4. PICK K : K = Unlisted(L, n)
    OBVIOUS
  <2>5. DlLists(K)'
    BY <1>4, <2>1, <2>2, <2>4
  <2> QED
    BY <2>3, <2>4, <2>5
<1>8. CASE \E g \in Heads \ {h} : DlMove(n, g)
  <2>1. PICK g \in Heads \ {h} : DlMove(n, g)
    BY <1>8
  <2>2. PICK K : /\ Shape(dl', dlLive', K) /\ Moves(L, K) /\ dlLive' = dlLive
                 /\ \A f \in Heads : f # g => K[f] = Abstract!Drop(L[f], n)
    BY <1>1, <1>5, <2>1, TakeStep
  <2>3. DlLists(K)'
    BY <1>1, <1>4, <2>1, <2>2
  <2> QED
    BY <2>2, <2>3
<1> QED
  BY <1>6, <1>7, <1>8 DEF DlWalkOn

(* Every step keeps the structure and moves nodes as Lists says. *)
LEMMA DlStep ==
  ASSUME NEW L, DlLists(L), [DlNext]_dlVars
  PROVE  \E K : DlLists(K)' /\ Moves(L, K)
<1>1. Moves(L, L)
  BY DEF Moves
<1>2. Shape(dl, dlLive, L)
  BY DEF DlLists
<1>3. ASSUME NEW h \in Heads, DlWalkStart(h) PROVE DlLists(L)'
  <2>1. L[h] \in Seq(Nodes) /\ Distinct(L[h]) /\ dl \in LinkTypes /\ Ring(dl, h, L[h])
    BY <1>2, <1>3, ShapeParts DEF DlWalkStart
  <2>2. dlWalk' \in Walks /\ Stands(dlWalk', L[h], 0) /\ dlWalk'.head = h
    BY <1>3, <2>1, StandsStart DEF DlWalkStart
  <2>3. dl' = dl /\ dlLive' = dlLive /\ h \in dlLive
    BY <1>3 DEF DlWalkStart
  <2>4. Walking(dlLive', L, dlWalk')
    BY <2>2, <2>3 DEF Walking
  <2> QED
    BY <1>2, <2>3, <2>4 DEF DlLists
<1>4. ASSUME DlWalkEnd PROVE DlLists(L)'
  BY <1>2, <1>4 DEF DlWalkEnd, DlLists, Walking
<1>5. ASSUME UNCHANGED dlVars PROVE DlLists(L)'
  BY <1>5 DEF dlVars, DlLists
<1>6. CASE DlNext /\ ~(\E h \in Heads : DlWalkStart(h)) /\ ~DlWalkOn /\ ~DlWalkEnd
  <2>1. DlIdle
    BY <1>6 DEF DlNext, DlReset, DlAdd, DlSplice
  <2>2. PICK K : Shape(dl', dlLive', K) /\ Moves(L, K) /\ dlWalk' = dlWalk
    BY <1>6, <2>1, OperationStep
  <2>3. DlLists(K)'
    BY <2>1, <2>2 DEF DlLists, Walking, DlIdle
  <2> QED
    BY <2>2, <2>3
<1> QED
  BY <1>1, <1>3, <1>4, <1>5, <1>6, WalkOnStep

(* Empty lists are well shaped. *)
LEMMA DlStart == DlInit => DlInv
<1> SUFFICES ASSUME DlInit PROVE DlInv
  OBVIOUS
<1>1. PICK L : L = [h \in Heads |-> <<>>]
  OBVIOUS
<1>2. /\ dl = [next |-> [x \in Links |-> x], prev |-> [x \in Links |-> x]]
      /\ dlLive \in {Heads, Links} /\ dlWalk = NoWalk
  BY DEF DlInit
<1>3. /\ dl \in LinkTypes /\ dlLive \in SUBSET Links /\ L \in [Heads -> Seq(Nodes)]
      /\ \A x \in Links : dl.next[x] = x /\ dl.prev[x] = x
      /\ \A h \in Heads : L[h] = <<>>
  BY <1>1, <1>2 DEF LinkTypes, Links
<1>4. Distinct(<<>>) /\ Members(<<>>) = {}
  BY DEF Distinct, Members
<1>5. ASSUME NEW h \in Heads PROVE Ring(dl, h, L[h])
  <2>1. L[h] = <<>> /\ Len(<<>>) = 0 /\ h \in Links
    BY <1>3 DEF Links
  <2>2. \A i \in Int : At(h, L[h], i) = h
    BY <2>1 DEF At
  <2>3. ASSUME NEW i \in 0 .. Len(L[h])
        PROVE  dl.next[At(h, L[h], i)] = At(h, L[h], i + 1) /\ dl.prev[At(h, L[h], i + 1)] = At(h, L[h], i)
    <3>1. i \in Int /\ i + 1 \in Int
      BY <2>1
    <3> QED
      BY <1>3, <2>1, <2>2, <3>1
  <2> QED
    BY <2>3 DEF Ring
<1>6. \A n \in Nodes : Loose(dl, n)
  BY <1>3 DEF Loose, Links
<1>7. Shape(dl, dlLive, L)
  BY <1>3, <1>4, <1>5, <1>6 DEF Shape
<1> QED
  BY <1>2, <1>7 DEF DlInv, DlLists, Walking

(* The invariant holds in every behaviour. *)
LEMMA DlAlways == DlSpec => []DlInv
<1>1. DlInv /\ [DlNext]_dlVars => DlInv'
  <2> SUFFICES ASSUME DlInv, [DlNext]_dlVars PROVE DlInv'
    OBVIOUS
  <2>1. PICK L : DlLists(L)
    BY DEF DlInv
  <2>2. PICK K : DlLists(K)'
    BY <2>1, DlStep
  <2> QED
    BY <2>2 DEF DlInv
<1> QED
  BY <1>1, DlStart, PTL DEF DlSpec

(***************************************************************************)
(* The properties                                                          *)
(***************************************************************************)

(* The neighbours of whatever is live are live and point back at it. *)
LEMMA ShapeLinked ==
  ASSUME NEW l, NEW live, NEW L, Shape(l, live, L), NEW x \in live
  PROVE  /\ l.next[x] \in live /\ l.prev[l.next[x]] = x
         /\ l.prev[x] \in live /\ l.next[l.prev[x]] = x
<1>1. x \in Heads \/ x \in Nodes
  BY ShapeParts DEF Links
<1>2. ASSUME NEW h \in Heads, h \in live, NEW k \in 0 .. Len(L[h]), x = At(h, L[h], k)
      PROVE  /\ l.next[x] \in live /\ l.prev[l.next[x]] = x
             /\ l.prev[x] \in live /\ l.next[l.prev[x]] = x
  <2> DEFINE s == L[h]
  <2>1. s \in Seq(Nodes) /\ Distinct(s) /\ Members(s) \subseteq live /\ Ring(l, h, s)
    BY <1>2, ShapeParts
  <2> HIDE DEF s
  <2>2. Len(s) \in Nat /\ At(h, s, 0) = h /\ At(h, s, Len(s) + 1) = h
    BY <2>1, AtFacts
  <2>3. \A i \in Int : At(h, s, i) \in live
    BY <1>2, <2>1 DEF At, Members
  <2>4. k \in 0 .. Len(s) /\ k \in Int /\ k + 1 \in Int /\ k - 1 \in Int /\ x = At(h, s, k)
    BY <1>2 DEF s
  <2>5. l.next[x] = At(h, s, k + 1) /\ l.prev[At(h, s, k + 1)] = x
    BY <2>1, <2>4 DEF Ring
  <2>6. \E j \in 0 .. Len(s) : l.prev[x] = At(h, s, j) /\ l.next[At(h, s, j)] = x
    <3>1. CASE k = 0
      <4>1. Len(s) \in 0 .. Len(s) /\ x = At(h, s, Len(s) + 1)
        BY <2>2, <2>4, <3>1
      <4>2. l.next[At(h, s, Len(s))] = x /\ l.prev[x] = At(h, s, Len(s))
        BY <2>1, <4>1 DEF Ring
      <4> QED
        BY <4>1, <4>2
    <3>2. CASE k # 0
      <4>1. k - 1 \in 0 .. Len(s) /\ (k - 1) + 1 = k
        BY <2>2, <2>4, <3>2
      <4>2. l.next[At(h, s, k - 1)] = x /\ l.prev[x] = At(h, s, k - 1)
        BY <2>1, <2>4, <4>1 DEF Ring
      <4> QED
        BY <4>1, <4>2
    <3> QED
      BY <3>1, <3>2
  <2>7. l.prev[x] \in live /\ l.next[l.prev[x]] = x
    <3>1. PICK j \in 0 .. Len(s) : l.prev[x] = At(h, s, j) /\ l.next[At(h, s, j)] = x
      BY <2>6
    <3>2. j \in Int
      OBVIOUS
    <3> QED
      BY <2>3, <3>1, <3>2
  <2> QED
    BY <2>3, <2>4, <2>5, <2>7
<1>3. CASE x \in Heads
  <2>1. L[x] \in Seq(Nodes) /\ Distinct(L[x])
    BY <1>3, ShapeParts
  <2>2. 0 \in 0 .. Len(L[x]) /\ x = At(x, L[x], 0)
    BY <1>3, <2>1, AtFacts
  <2> QED
    BY <1>2, <1>3, <2>2
<1>4. CASE OnSome(L, x)
  <2>1. PICK h \in Heads : x \in Members(L[h])
    BY <1>4 DEF OnSome
  <2>2. L[h] \in Seq(Nodes) /\ Distinct(L[h])
    BY ShapeParts
  <2>3. h \in live
    BY <2>1 DEF Shape, Members
  <2>4. PICK k \in 1 .. Len(L[h]) : L[h][k] = x
    BY <2>1, <2>2 DEF Members
  <2>5. k \in 0 .. Len(L[h]) /\ x = At(h, L[h], k)
    BY <2>2, <2>4, AtFacts
  <2> QED
    BY <1>2, <2>3, <2>5
<1>5. CASE x \in Nodes /\ ~OnSome(L, x)
  BY <1>5 DEF Shape, Loose
<1> QED
  BY <1>1, <1>3, <1>4, <1>5

(* No sequence of insertions, removals, moves, splices and loops leaves a   *)
(* live head or node with a link that is not undone by the one opposite, or *)
(* a loop anywhere but at the first node it has not visited                 *)
(* (dlist.h:17-147).                                                        *)
THEOREM DlIsExact == DlSpec => []DlExact
<1>1. DlInv => DlExact
  <2> SUFFICES ASSUME DlInv PROVE DlExact
    OBVIOUS
  <2>1. PICK L : Shape(dl, dlLive, L) /\ Walking(dlLive, L, dlWalk)
    BY DEF DlInv, DlLists
  <2>2. DlLinked
    BY <2>1, ShapeLinked DEF DlLinked
  <2>3. ASSUME dlWalk # NoWalk
        PROVE  dlWalk.pos = IF dlWalk.todo = <<>> THEN dlWalk.head ELSE Head(dlWalk.todo)
    <3> DEFINE w == dlWalk
               s == L[dlWalk.head]
    <3>1. w \in Walks /\ w.head \in Heads /\ w.todo \in Seq(Nodes)
      BY <2>1, <2>3 DEF Walking, Walks
    <3>2. PICK k : Stands(w, s, k)
      BY <2>1, <2>3 DEF Walking
    <3>3. s \in Seq(Nodes) /\ Distinct(s)
      BY <2>1, <3>1, ShapeParts
    <3> HIDE DEF w, s
    <3>4. /\ k \in 0 .. Len(s) /\ Len(s) \in Nat /\ Len(w.todo) = Len(s) - k
          /\ w.pos = At(w.head, s, k + 1)
          /\ \A i \in 1 .. Len(s) - k : w.todo[i] = s[k + i]
      BY <3>2, <3>3 DEF Stands
    <3>5. CASE k = Len(s)
      <4>1. w.todo = <<>>
        BY <3>1, <3>4, <3>5
      <4>2. w.pos = w.head
        BY <3>1, <3>3, <3>4, <3>5, AtFacts
      <4> QED
        BY <4>1, <4>2 DEF w
    <3>6. CASE k # Len(s)
      <4>1. 1 \in 1 .. Len(s) - k /\ k + 1 \in 1 .. Len(s)
        BY <3>4, <3>6
      <4>2. w.todo # <<>> /\ w.todo[1] = s[k + 1] /\ Head(w.todo) = w.todo[1]
        BY <3>1, <3>4, <4>1
      <4>3. w.pos = s[k + 1]
        BY <3>1, <3>3, <3>4, <4>1, AtFacts
      <4> QED
        BY <4>2, <4>3 DEF w
    <3> QED
      BY <3>5, <3>6
  <2> QED
    BY <2>2, <2>3 DEF DlExact, DlWalkExact
<1> QED
  BY <1>1, DlAlways, PTL

(* The lists a program reads from the heads are the sequences of Shape. *)
LEMMA ListsAre ==
  ASSUME NEW l, NEW live, NEW L, Shape(l, live, L)
  PROVE  [h \in Heads |-> IF h \in live THEN Along(l.next, h) ELSE <<>>] = L
<1>1. L \in [Heads -> Seq(Nodes)]
  BY ShapeParts
<1>2. ASSUME NEW h \in Heads PROVE (IF h \in live THEN Along(l.next, h) ELSE <<>>) = L[h]
  <2>1. CASE h \in live
    BY <2>1, ShapeParts, AlongIs
  <2>2. CASE h \notin live
    BY <2>2 DEF Shape
  <2> QED
    BY <2>1, <2>2
<1> QED
  BY <1>1, <1>2

(* Every operation does to the lists what its name says and nothing else    *)
(* (dlist.h:17-126): the links implement a set of sequences.                *)
THEOREM DlRefinesLists == DlSpec => DlImplementsLists
<1> DEFINE lists == [h \in Heads |-> IF h \in dlLive THEN Along(dl.next, h) ELSE <<>>]
<1>1. DlInit => Abstract!Init
  <2> SUFFICES ASSUME DlInit PROVE Abstract!Init
    OBVIOUS
  <2>1. \A h \in Heads : Along(dl.next, h) = <<>>
    <3> SUFFICES ASSUME NEW h \in Heads PROVE Along(dl.next, h) = <<>>
      OBVIOUS
    <3>1. dl \in LinkTypes /\ \A x \in Links : dl.next[x] = x /\ dl.prev[x] = x
      BY DEF DlInit, LinkTypes, Links
    <3>2. Distinct(<<>>) /\ <<>> \in Seq(Nodes) /\ h \in Links /\ Len(<<>>) = 0
      BY DEF Distinct, Links
    <3>3. \A i \in Int : At(h, <<>>, i) = h
      BY <3>2 DEF At
    <3>4. Ring(dl, h, <<>>)
      <4> SUFFICES ASSUME NEW i \in 0 .. Len(<<>>)
                   PROVE  dl.next[At(h, <<>>, i)] = At(h, <<>>, i + 1) /\ dl.prev[At(h, <<>>, i + 1)] = At(h, <<>>, i)
        BY DEF Ring
      <4>1. i \in Int /\ i + 1 \in Int
        BY <3>2
      <4> QED
        BY <3>1, <3>2, <3>3, <4>1
    <3> QED
      BY <3>1, <3>2, <3>4, AlongIs
  <2> QED
    BY <2>1 DEF Abstract!Init
<1>2. DlInv /\ [DlNext]_dlVars => [Abstract!Next]_lists
  <2> SUFFICES ASSUME DlInv, [DlNext]_dlVars PROVE [Abstract!Next]_lists
    OBVIOUS
  <2>1. PICK L : DlLists(L)
    BY DEF DlInv
  <2>2. PICK K : DlLists(K)' /\ Moves(L, K)
    BY <2>1, DlStep
  <2>3. lists = L
    BY <2>1, ListsAre DEF DlLists
  <2>4. lists' = K
    BY <2>2, ListsAre DEF DlLists
  <2> HIDE DEF lists
  <2>5. K = L => lists' = lists
    BY <2>3, <2>4
  <2>6. \A n : Abstract!Without(n) = Unlisted(L, n)
    BY <2>3 DEF Abstract!Without, Unlisted, lists
  <2>7. ASSUME NEW n \in Nodes, K = Unlisted(L, n) PROVE Abstract!Remove(n)
    BY <2>4, <2>6, <2>7 DEF Abstract!Remove, lists
  <2>8. ASSUME NEW n \in Nodes, NEW h \in Heads,
               \/ K = [Unlisted(L, n) EXCEPT ![h] = <<n>> \o @]
               \/ K = [Unlisted(L, n) EXCEPT ![h] = @ \o <<n>>]
        PROVE  Abstract!Put(n, h)
    BY <2>4, <2>6, <2>8 DEF Abstract!Put, lists
  <2>9. ASSUME NEW s \in Heads, NEW h \in Heads \ {s},
               \/ K = [L EXCEPT ![h] = L[s] \o @, ![s] = <<>>]
               \/ K = [L EXCEPT ![h] = @ \o L[s], ![s] = <<>>]
        PROVE  Abstract!Splice(s, h)
    BY <2>3, <2>4, <2>9 DEF Abstract!Splice, lists
  <2>10. lists' = lists \/ Abstract!Next
    BY <2>2, <2>5, <2>7, <2>8, <2>9 DEF Moves, Abstract!Next
  <2> QED
    BY <2>10 DEF lists
<1> QED
  BY <1>1, <1>2, DlAlways, PTL DEF DlSpec, DlImplementsLists, Abstract!Spec

(***************************************************************************)
(* Numbers                                                                 *)
(***************************************************************************)

(* Division by m of a multiple of m and a remainder.                       *)
LEMMA DivMod ==
  ASSUME NEW m \in Nat, m > 0, NEW q \in Int, NEW r \in 0 .. m - 1, NEW x, x = m * q + r
  PROVE  x % m = r /\ x \div m = q
<1>1. x \in Int /\ x % m \in 0 .. m - 1 /\ x \div m \in Int /\ x = m * (x \div m) + (x % m)
  OBVIOUS
<1>2. PICK a, b : a = x \div m /\ b = x % m
  OBVIOUS
<1>3. a \in Int /\ b \in 0 .. m - 1 /\ m * a + b = m * q + r
  BY <1>1, <1>2
<1>4. m * (a - q) = r - b
  BY <1>3
<1>5. PICK d \in Int : d = a - q
  BY <1>3
<1>6. m * d = r - b /\ r - b < m /\ r - b > 0 - m
  BY <1>3, <1>4, <1>5
<1>7. ~(d >= 1)
  <2> SUFFICES ASSUME d >= 1 PROVE FALSE
    OBVIOUS
  <2>1. m * d >= m
    OBVIOUS
  <2> QED
    BY <1>3, <1>6, <2>1
<1>8. ~(d <= 0 - 1)
  <2> SUFFICES ASSUME d <= 0 - 1 PROVE FALSE
    OBVIOUS
  <2>1. m * d <= 0 - m
    OBVIOUS
  <2> QED
    BY <1>3, <1>6, <2>1
<1>9. d = 0
  BY <1>5, <1>7, <1>8
<1>10. a = q /\ b = r
  BY <1>3, <1>5, <1>6, <1>9
<1> QED
  BY <1>2, <1>10

(* What a number is a multiple of. *)
Fits(m, x) == \E q \in Nat : x = m * q

LEMMA FitsMod ==
  ASSUME NEW m \in Nat, m > 0, NEW x \in Nat
  PROVE  Fits(m, x) <=> x % m = 0
<1>1. ASSUME Fits(m, x) PROVE x % m = 0
  <2>1. PICK q \in Nat : x = m * q
    BY <1>1 DEF Fits
  <2>2. x = m * q + 0 /\ 0 \in 0 .. m - 1
    BY <2>1
  <2> QED
    BY <2>2, DivMod
<1>2. ASSUME x % m = 0 PROVE Fits(m, x)
  <2>1. x = m * (x \div m) /\ x \div m \in Nat
    BY <1>2
  <2> QED
    BY <2>1 DEF Fits
<1> QED
  BY <1>1, <1>2

(* Powers of two double.                                                   *)
LEMMA Powers ==
  /\ Pow2[0] = 1
  /\ \A n \in Nat : Pow2[n] \in Nat /\ Pow2[n] > 0 /\ Pow2[n + 1] = 2 * Pow2[n]
<1> DEFINE f == [x \in Nat |-> 2 * x]
           F(e) == [n \in Nat |-> IF n = 0 THEN 1 ELSE 2 * e[n - 1]]
<1>1. f \in [Nat -> Nat]
  OBVIOUS
<1>2. PICK g : Iterates(g, Nat, f, 1)
  <2> HIDE DEF f
  <2> QED
    BY <1>1, IterateExists
<1>3. g \in [Nat -> Nat] /\ g[0] = 1 /\ \A i \in Nat : g[i + 1] = 2 * g[i]
  <2>1. g \in [Nat -> Nat] /\ g[0] = 1 /\ \A i \in Nat : g[i + 1] = f[g[i]]
    BY <1>2 DEF Iterates
  <2>2. \A i \in Nat : f[g[i]] = 2 * g[i]
    BY <2>1
  <2> QED
    BY <2>1, <2>2
<1>4. ASSUME NEW n \in Nat PROVE g[n] = F(g)[n]
  <2>1. CASE n = 0
    BY <1>3, <2>1
  <2>2. CASE n # 0
    <3>1. n - 1 \in Nat /\ (n - 1) + 1 = n
      BY <2>2
    <3> QED
      BY <1>3, <2>2, <3>1
  <2> QED
    BY <2>1, <2>2
<1>5. g = F(g)
  BY <1>3, <1>4
<1>6. Pow2 = CHOOSE e : e = F(e)
  BY DEF Pow2
<1>7. Pow2 = F(Pow2)
  <2> HIDE DEF F
  <2> QED
    BY <1>5, <1>6
<1>8. \A n \in Nat : Pow2[n] = IF n = 0 THEN 1 ELSE 2 * Pow2[n - 1]
  BY <1>7
<1>9. \A n \in Nat : Pow2[n + 1] = 2 * Pow2[n]
  <2> SUFFICES ASSUME NEW n \in Nat PROVE Pow2[n + 1] = 2 * Pow2[n]
    OBVIOUS
  <2>1. n + 1 \in Nat /\ n + 1 # 0 /\ (n + 1) - 1 = n
    OBVIOUS
  <2> QED
    BY <1>8, <2>1
<1>10. Pow2[0] = 1
  BY <1>8
<1> DEFINE T == {n \in Nat : Pow2[n] \in Nat /\ Pow2[n] > 0}
<1>11. 0 \in T
  BY <1>10
<1>12. ASSUME NEW n \in T PROVE n + 1 \in T
  BY <1>9
<1>13. T \in SUBSET Nat
  OBVIOUS
<1> HIDE DEF T
<1>14. T = Nat
  BY <1>11, <1>12, <1>13, SetInduction
<1> QED
  BY <1>9, <1>10, <1>14 DEF T

LEMMA PowersAdd ==
  ASSUME NEW i \in Nat, NEW j \in Nat
  PROVE  Pow2[i + j] = Pow2[i] * Pow2[j]
<1> DEFINE T == {d \in Nat : Pow2[i + d] = Pow2[i] * Pow2[d]}
<1>1. 0 \in T
  <2>1. i + 0 = i /\ Pow2[i] \in Nat /\ Pow2[0] = 1
    BY Powers
  <2> QED
    BY <2>1
<1>2. ASSUME NEW d \in T PROVE d + 1 \in T
  <2>1. d \in Nat /\ i + d \in Nat /\ i + (d + 1) = (i + d) + 1
    OBVIOUS
  <2>2. PICK a, b \in Nat : a = Pow2[i] /\ b = Pow2[d]
    BY <2>1, Powers
  <2>3. Pow2[i + (d + 1)] = 2 * Pow2[i + d] /\ Pow2[d + 1] = 2 * b
    BY <2>1, <2>2, Powers
  <2>4. Pow2[i + d] = a * b
    BY <2>2
  <2>5. 2 * (a * b) = a * (2 * b)
    BY <2>2
  <2> QED
    BY <2>1, <2>2, <2>3, <2>4, <2>5
<1>3. T \in SUBSET Nat
  OBVIOUS
<1> HIDE DEF T
<1>4. T = Nat
  BY <1>1, <1>2, <1>3, SetInduction
<1> QED
  BY <1>4 DEF T

(* They rise, and each fits into the greater ones.                         *)
LEMMA PowersRise ==
  ASSUME NEW i \in Nat, NEW j \in Nat, i < j
  PROVE  2 * Pow2[i] <= Pow2[j]
<1>1. PICK d \in Nat : d = j - (i + 1)
  OBVIOUS
<1>2. j = (i + 1) + d /\ i + 1 \in Nat
  BY <1>1
<1>3. PICK a, b \in Nat : a = Pow2[i + 1] /\ b = Pow2[d] /\ b > 0
  BY <1>1, <1>2, Powers
<1>4. Pow2[j] = a * b
  BY <1>2, <1>3, PowersAdd
<1>5. a * b >= a
  <2>1. PICK c \in Nat : b = c + 1
    BY <1>3
  <2>2. a * b = a * c + a /\ a * c \in Nat
    BY <1>3, <2>1
  <2> QED
    BY <1>3, <2>2
<1>6. a = 2 * Pow2[i]
  BY <1>3, Powers
<1> QED
  BY <1>4, <1>5, <1>6

LEMMA PowersFit ==
  ASSUME NEW i \in Nat, NEW j \in Nat, i <= j, NEW x, Fits(Pow2[j], x)
  PROVE  Fits(Pow2[i], x)
<1>1. PICK d \in Nat : d = j - i /\ j = i + d
  OBVIOUS
<1>2. PICK a, b \in Nat : a = Pow2[i] /\ b = Pow2[d]
  BY <1>1, Powers
<1>3. Pow2[j] = a * b
  BY <1>1, <1>2, PowersAdd
<1>4. PICK q \in Nat : x = (a * b) * q
  BY <1>3 DEF Fits
<1>5. x = a * (b * q) /\ b * q \in Nat
  BY <1>2, <1>4
<1> QED
  BY <1>2, <1>5 DEF Fits

LEMMA WidthIs == Word \in Nat /\ Word > 0 /\ Width \in Nat /\ Width = Word + Word /\ Word < Width
BY PrefixAssumption DEF Width

(* Nothing smaller than m but zero is a multiple of it.                    *)
LEMMA FitsBelow ==
  ASSUME NEW m \in Nat, m > 0, NEW x \in Nat, Fits(m, x), x > 0
  PROVE  m <= x
<1>1. PICK q \in Nat : x = m * q
  BY DEF Fits
<1>2. q # 0
  BY <1>1
<1>3. PICK c \in Nat : q = c + 1
  BY <1>2
<1>4. x = m * c + m /\ m * c \in Nat
  BY <1>1, <1>3
<1> QED
  BY <1>4

(* The lowest bit set.                                                     *)
LEMMA LowestIs ==
  ASSUME NEW x \in Nat, x > 0, x < Pow2[Width]
  PROVE  \E i \in 0 .. Width - 1 : LowestBit(x) = Pow2[i] /\ Fits(Pow2[i], x)
<1>1. \A n \in Nat : Pow2[n] \in Nat /\ Pow2[n] > 0 /\ Pow2[n + 1] = 2 * Pow2[n]
  BY Powers
<1>2. Width \in Nat
  BY WidthIs
<1>3. x % Pow2[Width] # 0
  <2>1. PICK m \in Nat : m = Pow2[Width] /\ m > 0
    BY <1>1, <1>2
  <2>2. x \in 0 .. m - 1 /\ x = m * 0 + x
    BY <2>1
  <2>3. x % m = x
    BY <2>1, <2>2, DivMod
  <2> QED
    BY <2>1, <2>3
<1> DEFINE T == {j \in Nat : x % Pow2[j] # 0}
<1>4. T \in SUBSET Nat /\ Width \in T
  BY <1>2, <1>3
<1>5. PICK j \in T : \A k \in T : j <= k
  <2> HIDE DEF T
  <2>1. T # {}
    BY <1>4
  <2> QED
    BY <1>4, <2>1, LeastNumber
<1>6. j # 0
  <2>1. x % 1 = 0
    <3>1. x = 1 * x + 0 /\ 0 \in 0 .. 1 - 1
      OBVIOUS
    <3>2. 1 \in Nat /\ 1 > 0 /\ x \in Int
      OBVIOUS
    <3> QED
      BY <3>1, <3>2, DivMod
  <2> QED
    BY <2>1, Powers
<1>7. PICK i \in Nat : i = j - 1 /\ i + 1 = j /\ j <= Width
  BY <1>4, <1>5, <1>6
<1>8. x % Pow2[i] = 0
  <2>1. i \notin T
    <3>1. ~(j <= i)
      BY <1>7
    <3> QED
      BY <1>5, <3>1
  <2> QED
    BY <2>1
<1>9. x % (2 * Pow2[i]) # 0
  BY <1>1, <1>5, <1>7
<1> DEFINE S == {Pow2[k] : k \in 0 .. Width}
           Fit(b) == x % b = 0 /\ x % (2 * b) # 0
<1>10. i \in 0 .. Width
  BY <1>2, <1>7
<1>11. \E b \in S : Fit(b)
  BY <1>8, <1>9, <1>10
<1>12. PICK b : b = LowestBit(x)
  OBVIOUS
<1>13. b \in S /\ Fit(b)
  <2>1. b = CHOOSE c \in S : Fit(c)
    BY <1>12 DEF LowestBit
  <2> HIDE DEF S, Fit
  <2> QED
    BY <1>11, <2>1
<1>14. PICK k \in 0 .. Width : b = Pow2[k]
  BY <1>13
<1>15. x % b = 0
  BY <1>13
<1>16. k # Width
  BY <1>3, <1>14, <1>15
<1>17. k \in 0 .. Width - 1 /\ k \in Nat
  BY <1>2, <1>16
<1>18. Fits(Pow2[k], x)
  BY <1>1, <1>14, <1>15, <1>17, FitsMod
<1> QED
  BY <1>12, <1>14, <1>17, <1>18

(* The greatest power of two that is not above x.                          *)
LEMMA LogIs ==
  ASSUME NEW x \in Nat, x > 0, x <= Pow2[Width]
  PROVE  Log2(x) \in 0 .. Width /\ Pow2[Log2(x)] <= x /\ x < Pow2[Log2(x) + 1]
<1>1. \A n \in Nat : Pow2[n] \in Nat /\ Pow2[n] > 0 /\ Pow2[n + 1] = 2 * Pow2[n]
  BY Powers
<1>2. Width \in Nat
  BY WidthIs
<1> DEFINE T == {j \in Nat : x < Pow2[j]}
<1>3. T \in SUBSET Nat /\ Width + 1 \in T
  <2>1. PICK a \in Nat : a = Pow2[Width] /\ a > 0 /\ Pow2[Width + 1] = 2 * a
    BY <1>1, <1>2
  <2> QED
    BY <1>2, <2>1
<1>4. PICK j \in T : \A k \in T : j <= k
  <2> HIDE DEF T
  <2>1. T # {}
    BY <1>3
  <2> QED
    BY <1>3, <2>1, LeastNumber
<1>5. j # 0
  BY Powers
<1>6. PICK i \in Nat : i = j - 1 /\ i + 1 = j /\ j <= Width + 1
  BY <1>3, <1>4, <1>5
<1>7. Pow2[i] <= x
  <2>1. i \notin T
    <3>1. ~(j <= i)
      BY <1>6
    <3> QED
      BY <1>4, <3>1
  <2>2. ~(x < Pow2[i]) /\ Pow2[i] \in Nat
    BY <1>1, <2>1
  <2> QED
    BY <2>2
<1>8. i \in 0 .. Width /\ Pow2[i] <= x /\ x < Pow2[i + 1]
  BY <1>2, <1>4, <1>6, <1>7
<1> QED
  BY <1>8 DEF Log2

(* It is found of a power itself.                                          *)
LEMMA LogOf ==
  ASSUME NEW k \in 0 .. Width
  PROVE  Log2(Pow2[k]) = k
<1>1. Width \in Nat /\ k \in Nat
  BY WidthIs
<1>2. PICK x \in Nat : x = Pow2[k] /\ x > 0
  BY <1>1, Powers
<1>3. x <= Pow2[Width]
  <2>1. CASE k = Width
    BY <1>2, <2>1
  <2>2. CASE k # Width
    <3>1. k < Width
      BY <1>1, <2>2
    <3>2. 2 * Pow2[k] <= Pow2[Width] /\ Pow2[Width] \in Nat
      BY <1>1, <3>1, PowersRise, Powers
    <3> QED
      BY <1>2, <3>2
  <2> QED
    BY <2>1, <2>2
<1>4. PICK i : i = Log2(x)
  OBVIOUS
<1>5. i \in 0 .. Width /\ Pow2[i] <= x /\ x < Pow2[i + 1]
  BY <1>2, <1>3, <1>4, LogIs
<1>6. i \in Nat /\ i + 1 \in Nat
  BY <1>1, <1>5
<1>7. Pow2[i] \in Nat /\ Pow2[i + 1] = 2 * Pow2[i]
  BY <1>6, Powers
<1>8. ~(i < k)
  <2> SUFFICES ASSUME i < k PROVE FALSE
    OBVIOUS
  <2>1. 2 * Pow2[i] <= Pow2[k]
    BY <1>1, <1>6, PowersRise
  <2> QED
    BY <1>2, <1>5, <1>7, <2>1
<1>9. ~(k < i)
  <2> SUFFICES ASSUME k < i PROVE FALSE
    OBVIOUS
  <2>1. 2 * Pow2[k] <= Pow2[i]
    BY <1>1, <1>6, PowersRise
  <2> QED
    BY <1>2, <1>5, <1>7, <2>1
<1>10. i = k
  BY <1>1, <1>6, <1>8, <1>9
<1> QED
  BY <1>2, <1>4, <1>10

(***************************************************************************)
(* The blocks of a range                                                   *)
(***************************************************************************)

(* b is a block at s of a range that ends with e.                          *)
Cuts(b, s, e) ==
  \E k \in 0 .. Width :
    /\ b.len = Width - k /\ Fits(Pow2[k], s) /\ s + Pow2[k] <= e + 1
    /\ b.last <=> s + Pow2[k] = e + 1
    /\ ~b.last => b.next = s + Pow2[k]

(* For IPv4 every block fits.                                              *)
LEMMA Block4Cuts ==
  ASSUME NEW s \in Nat, NEW e \in Nat, s <= e, e < Pow2[Width]
  PROVE  Cuts(Block4(s, e), s, e)
<1>1. Width \in Nat
  BY WidthIs
<1>2. \A n \in Nat : Pow2[n] \in Nat /\ Pow2[n] > 0
  BY Powers
<1>3. PICK full \in Nat : full = Pow2[Width] /\ full > 0
  BY <1>1, <1>2
<1>4. PICK span \in Nat : span = e - s + 1 /\ span > 0 /\ span <= full
  BY <1>3
<1>5. PICK aligned : aligned = IF s = 0 THEN Pow2[Width] ELSE LowestBit(s)
  OBVIOUS
<1>6. PICK i \in 0 .. Width : aligned = Pow2[i] /\ Fits(Pow2[i], s)
  <2>1. CASE s = 0
    <3>1. s = Pow2[Width] * 0 /\ Width \in 0 .. Width
      BY <1>1, <1>3, <2>1
    <3>2. Fits(Pow2[Width], s)
      BY <3>1 DEF Fits
    <3> QED
      BY <1>5, <2>1, <3>1, <3>2
  <2>2. CASE s # 0
    <3>1. s > 0 /\ s < Pow2[Width]
      BY <1>3, <2>2
    <3>2. PICK j \in 0 .. Width - 1 : LowestBit(s) = Pow2[j] /\ Fits(Pow2[j], s)
      BY <3>1, LowestIs
    <3>3. j \in 0 .. Width
      BY <1>1
    <3> QED
      BY <1>5, <2>2, <3>2, <3>3
  <2> QED
    BY <2>1, <2>2
<1>7. PICK block : block = IF aligned > span THEN Pow2[Log2(span)] ELSE aligned
  OBVIOUS
<1>8. PICK k \in 0 .. Width : block = Pow2[k] /\ Fits(Pow2[k], s) /\ Pow2[k] <= span
  <2>1. i \in Nat /\ Pow2[i] \in Nat
    BY <1>1, <1>2
  <2>2. CASE aligned > span
    <3>1. PICK l : l = Log2(span)
      OBVIOUS
    <3>2. l \in 0 .. Width /\ Pow2[l] <= span
      BY <1>3, <1>4, <3>1, LogIs
    <3>3. l \in Nat /\ Pow2[l] \in Nat /\ Pow2[l] < Pow2[i]
      BY <1>1, <1>2, <1>4, <1>6, <2>1, <2>2, <3>2
    <3>4. ~(i < l)
      <4> SUFFICES ASSUME i < l PROVE FALSE
        OBVIOUS
      <4>1. 2 * Pow2[i] <= Pow2[l]
        BY <2>1, <3>3, PowersRise
      <4> QED
        BY <2>1, <3>3, <4>1
    <3>5. l <= i
      BY <2>1, <3>3, <3>4
    <3>6. Fits(Pow2[l], s)
      BY <1>6, <2>1, <3>3, <3>5, PowersFit
    <3> QED
      BY <1>7, <2>2, <3>1, <3>2, <3>6
  <2>3. CASE ~(aligned > span)
    <3>1. Pow2[i] <= span
      BY <1>4, <1>6, <2>1, <2>3
    <3> QED
      BY <1>6, <1>7, <2>3, <3>1
  <2> QED
    BY <2>2, <2>3
<1>9. PICK b : b = Block4(s, e)
  OBVIOUS
<1>10. b = [len |-> Width - Log2(block), last |-> span = block, next |-> (s + block) % Pow2[Width]]
  BY <1>4, <1>5, <1>7, <1>9 DEF Block4
<1>11. b.len = Width - Log2(block) /\ b.last = (span = block) /\ b.next = (s + block) % full
  BY <1>3, <1>10
<1>12. b.len = Width - k
  BY <1>8, <1>11, LogOf
<1>13. block \in Nat /\ block <= span /\ block = Pow2[k]
  BY <1>1, <1>2, <1>8
<1>14. s + block <= e + 1 /\ (span = block <=> s + block = e + 1)
  BY <1>4, <1>13
<1>15. ASSUME ~b.last PROVE b.next = s + block
  <2>1. s + block # e + 1
    BY <1>11, <1>14, <1>15
  <2>2. s + block \in 0 .. full - 1
    BY <1>3, <1>13, <1>14, <2>1
  <2>3. PICK y \in 0 .. full - 1 : y = s + block
    BY <2>2
  <2>4. y = full * 0 + y
    BY <1>3
  <2>5. y % full = y
    BY <1>3, <2>4, DivMod
  <2> QED
    BY <1>11, <2>3, <2>5
<1>16. Cuts(b, s, e)
  BY <1>8, <1>11, <1>12, <1>13, <1>14, <1>15 DEF Cuts
<1> QED
  BY <1>9, <1>16

(* Remainders of what is less than one lap out of range.                   *)
LEMMA ModNear ==
  ASSUME NEW m \in Nat, m > 0, NEW z \in Int
  PROVE  /\ z \in 0 .. m - 1 => z % m = z
         /\ z \in 0 - m .. 0 - 1 => z % m = z + m
         /\ z \in m .. 2 * m - 1 => z % m = z - m
<1>1. ASSUME z \in 0 .. m - 1 PROVE z % m = z
  <2>1. z = m * 0 + z
    OBVIOUS
  <2> QED
    BY <1>1, <2>1, DivMod
<1>2. ASSUME z \in 0 - m .. 0 - 1 PROVE z % m = z + m
  <2>1. PICK r \in 0 .. m - 1 : r = z + m
    BY <1>2
  <2>2. z = m * (0 - 1) + r /\ 0 - 1 \in Int
    BY <2>1
  <2>3. z % m = r
    BY <2>2, DivMod
  <2> QED
    BY <2>1, <2>3
<1>3. ASSUME z \in m .. 2 * m - 1 PROVE z % m = z - m
  <2>1. PICK r \in 0 .. m - 1 : r = z - m
    BY <1>3
  <2>2. z = m * 1 + r
    BY <2>1
  <2>3. z % m = r
    BY <2>2, DivMod
  <2> QED
    BY <2>1, <2>3
<1> QED
  BY <1>1, <1>2, <1>3

(* The words of an address. *)
LEMMA WordsAre ==
  /\ M \in Nat /\ M > 0 /\ Pow2[Width] = M * M
  /\ \A x \in 0 .. Pow2[Width] - 1 : Hi(x) \in 0 .. M - 1 /\ Lo(x) \in 0 .. M - 1 /\ x = M * Hi(x) + Lo(x)
<1>1. M \in Nat /\ M > 0
  BY WidthIs, Powers DEF M
<1>2. Pow2[Width] = M * M
  <2>1. Word \in Nat /\ Width = Word + Word
    BY WidthIs
  <2>2. Pow2[Word + Word] = Pow2[Word] * Pow2[Word]
    BY <2>1, PowersAdd
  <2> QED
    BY <2>1, <2>2 DEF M
<1>3. ASSUME NEW x \in 0 .. Pow2[Width] - 1
      PROVE  Hi(x) \in 0 .. M - 1 /\ Lo(x) \in 0 .. M - 1 /\ x = M * Hi(x) + Lo(x)
  <2>1. PICK m \in Nat : m = M /\ m > 0
    BY <1>1
  <2>2. x \in Nat /\ x < m * m
    BY <1>2, <2>1
  <2>3. PICK h, l : h = x \div m /\ l = x % m
    OBVIOUS
  <2>4. h \in Nat /\ l \in 0 .. m - 1 /\ x = m * h + l
    BY <2>1, <2>2, <2>3
  <2>5. ~(h >= m)
    <3> SUFFICES ASSUME h >= m PROVE FALSE
      OBVIOUS
    <3>1. PICK c \in Nat : h = m + c
      BY <2>1, <2>4
    <3>2. m * h = m * m + m * c /\ m * c \in Nat
      BY <2>1, <3>1
    <3> QED
      BY <2>1, <2>2, <2>4, <3>2
  <2>6. h \in 0 .. m - 1
    BY <2>1, <2>4, <2>5
  <2> QED
    BY <2>1, <2>3, <2>4, <2>6 DEF Hi, Lo
<1> QED
  BY <1>1, <1>2, <1>3

LEMMA WideIs ==
  ASSUME NEW h \in 0 .. M - 1, NEW l \in 0 .. M - 1
  PROVE  Wide(h, l) = M * h + l /\ Hi(M * h + l) = h /\ Lo(M * h + l) = l
<1>1. PICK m \in Nat : m = M /\ m > 0
  BY WordsAre
<1>2. h % m = h /\ l % m = l
  BY <1>1, ModNear
<1>3. h * m + l = m * h + l
  BY <1>1
<1>4. Wide(h, l) = m * h + l
  BY <1>1, <1>2, <1>3 DEF Wide
<1>5. PICK x : x = m * h + l
  OBVIOUS
<1>6. x % m = l /\ x \div m = h
  BY <1>1, <1>5, DivMod
<1> QED
  BY <1>1, <1>4, <1>5, <1>6 DEF Hi, Lo

(* Differences with the borrow, sums with the carry.                       *)
LEMMA MinusIs ==
  ASSUME NEW x \in 0 .. Pow2[Width] - 1, NEW y \in 0 .. Pow2[Width] - 1, y <= x
  PROVE  Minus(x, y) = x - y
<1>1. PICK m \in Nat : m = M /\ m > 0
  BY WordsAre
<1>2. PICK a, b, c, d : a = Hi(x) /\ b = Lo(x) /\ c = Hi(y) /\ d = Lo(y)
  OBVIOUS
<1>3. /\ a \in 0 .. m - 1 /\ b \in 0 .. m - 1 /\ x = m * a + b
      /\ c \in 0 .. m - 1 /\ d \in 0 .. m - 1 /\ y = m * c + d
  BY <1>1, <1>2, WordsAre
<1>4. PICK h, l : h = a - c - (IF b < d THEN 1 ELSE 0) /\ l = b - d
  OBVIOUS
<1>5. Minus(x, y) = (h % m) * m + (l % m)
  BY <1>1, <1>2, <1>4 DEF Minus, Wide
<1>6. c <= a
  <2> SUFFICES ASSUME ~(c <= a) PROVE FALSE
    OBVIOUS
  <2>1. PICK k \in Nat : c = a + 1 + k
    BY <1>3
  <2>2. m * c = m * a + m + m * k /\ m * k \in Nat
    BY <1>1, <1>3, <2>1
  <2> QED
    BY <1>3, <2>2
<1>7. CASE ~(b < d)
  <2>1. h \in 0 .. m - 1 /\ l \in 0 .. m - 1 /\ h = a - c /\ l = b - d
    BY <1>3, <1>4, <1>6, <1>7
  <2>2. h % m = h /\ l % m = l
    BY <1>1, <2>1, ModNear
  <2>3. h * m + l = x - y
    BY <1>1, <1>3, <2>1
  <2> QED
    BY <1>5, <2>2, <2>3
<1>8. CASE b < d
  <2>1. c # a
    BY <1>3, <1>8
  <2>2. h \in 0 .. m - 1 /\ l \in 0 - m .. 0 - 1 /\ h = a - c - 1 /\ l = b - d
    BY <1>3, <1>4, <1>6, <1>8, <2>1
  <2>3. h % m = h /\ l % m = l + m
    <3>1. l \in Int /\ h \in Int
      BY <2>2
    <3>2. h % m = h
      BY <1>1, <2>2, <3>1, ModNear
    <3>3. l % m = l + m
      BY <1>1, <2>2, <3>1, ModNear
    <3> QED
      BY <3>2, <3>3
  <2>4. h * m + (l + m) = x - y
    BY <1>1, <1>3, <2>2
  <2> QED
    BY <1>5, <2>3, <2>4
<1> QED
  BY <1>7, <1>8

LEMMA PlusIs ==
  ASSUME NEW x \in 0 .. Pow2[Width] - 1, NEW y \in 0 .. Pow2[Width] - 1, x + y < Pow2[Width]
  PROVE  Plus(x, y) = x + y
<1>1. PICK m \in Nat : m = M /\ m > 0 /\ Pow2[Width] = m * m
  BY WordsAre
<1>2. PICK a, b, c, d : a = Hi(x) /\ b = Lo(x) /\ c = Hi(y) /\ d = Lo(y)
  OBVIOUS
<1>3. /\ a \in 0 .. m - 1 /\ b \in 0 .. m - 1 /\ x = m * a + b
      /\ c \in 0 .. m - 1 /\ d \in 0 .. m - 1 /\ y = m * c + d
  BY <1>1, <1>2, WordsAre
<1>4. PICK l, h : l = (b + d) % m /\ h = a + c + (IF l < b THEN 1 ELSE 0)
  OBVIOUS
<1>5. Plus(x, y) = (h % m) * m + (l % m)
  BY <1>1, <1>2, <1>4 DEF Plus, Wide
<1>6. ASSUME b + d < m PROVE m * h + l = x + y /\ h \in Nat /\ l \in 0 .. m - 1
  <2>1. b + d \in 0 .. m - 1
    BY <1>3, <1>6
  <2>2. l = b + d
    BY <1>1, <1>4, <2>1, ModNear
  <2>3. h = a + c /\ l \in 0 .. m - 1
    BY <1>3, <1>4, <2>1, <2>2
  <2>4. m * h + l = x + y /\ h \in Nat
    BY <1>1, <1>3, <2>2, <2>3
  <2> QED
    BY <2>3, <2>4
<1>7. ASSUME ~(b + d < m) PROVE m * h + l = x + y /\ h \in Nat /\ l \in 0 .. m - 1
  <2>1. b + d \in m .. 2 * m - 1 /\ b + d \in Int
    BY <1>3, <1>7
  <2>2. l = b + d - m
    <3>1. PICK z \in Int : z = b + d /\ z \in m .. 2 * m - 1
      BY <2>1
    <3>2. z % m = z - m
      BY <1>1, <3>1, ModNear
    <3>3. l = z % m
      BY <1>4, <3>1
    <3>4. l = z - m
      BY <3>2, <3>3
    <3>5. b \in Nat /\ d \in Nat
      BY <1>1, <1>3
    <3> QED
      BY <1>1, <3>1, <3>4, <3>5
  <2>3. h = a + c + 1 /\ l \in 0 .. m - 1
    BY <1>3, <1>4, <2>1, <2>2
  <2>4. m * h + l = x + y /\ h \in Nat
    BY <1>1, <1>3, <2>2, <2>3
  <2> QED
    BY <2>3, <2>4
<1>8. m * h + l = x + y /\ h \in Nat /\ l \in 0 .. m - 1
  BY <1>6, <1>7
<1>9. ~(h >= m)
  <2> SUFFICES ASSUME h >= m PROVE FALSE
    OBVIOUS
  <2>1. PICK k \in Nat : h = m + k
    BY <1>1, <1>8
  <2>2. m * h = m * m + m * k /\ m * k \in Nat
    BY <1>1, <2>1
  <2>3. m * h + l < m * m
    BY <1>1, <1>8
  <2> QED
    BY <1>1, <1>8, <2>2, <2>3
<1>10. h \in 0 .. m - 1
  BY <1>1, <1>8, <1>9
<1>11. h % m = h /\ l % m = l
  BY <1>1, <1>8, <1>10, ModNear
<1>12. h * m = m * h
  BY <1>1, <1>8
<1> QED
  BY <1>5, <1>8, <1>11, <1>12

(* One more, over two words. *)
LEMMA NextIs ==
  ASSUME NEW x \in Nat, x + 1 < Pow2[Width]
  PROVE  (IF Lo(x) = M - 1 THEN Wide(Hi(x) + 1, 0) ELSE Wide(Hi(x), Lo(x) + 1)) = x + 1
<1>1. PICK m \in Nat : m = M /\ m > 0 /\ Pow2[Width] = m * m
  BY WordsAre
<1>2. PICK h, l : h = Hi(x) /\ l = Lo(x)
  OBVIOUS
<1>3. h \in 0 .. m - 1 /\ l \in 0 .. m - 1 /\ x = m * h + l
  <2>1. x \in 0 .. Pow2[Width] - 1
    BY <1>1
  <2> QED
    BY <1>1, <1>2, <2>1, WordsAre
<1>4. CASE l = m - 1
  <2>1. m * (h + 1) = x + 1
    BY <1>1, <1>3, <1>4
  <2>2. h + 1 # m
    BY <1>1, <1>3, <2>1
  <2>3. h + 1 \in 0 .. m - 1 /\ 0 \in 0 .. m - 1
    BY <1>1, <1>3, <2>2
  <2>4. Wide(h + 1, 0) = m * (h + 1) + 0
    BY <1>1, <2>3, WideIs
  <2> QED
    BY <1>1, <1>2, <1>3, <1>4, <2>1, <2>4
<1>5. CASE l # m - 1
  <2>1. l + 1 \in 0 .. m - 1
    BY <1>1, <1>3, <1>5
  <2>2. Wide(h, l + 1) = m * h + (l + 1)
    BY <1>1, <1>3, <2>1, WideIs
  <2> QED
    BY <1>1, <1>2, <1>3, <1>5, <2>2
<1> QED
  BY <1>4, <1>5

(* The lowest bit set in s, found word by word, and the bits below it.     *)
Lowest6(s) ==
  IF Lo(s) # 0 THEN Wide(0, LowestBit(Lo(s)))
  ELSE IF Hi(s) # 0 THEN Wide(LowestBit(Hi(s)), 0) ELSE 0
Low6(lowest) ==
  IF Lo(lowest) # 0 THEN Wide(0, Lo(lowest) - 1)
  ELSE IF Hi(lowest) # 0 THEN Wide(Hi(lowest) - 1, M - 1) ELSE Wide(M - 1, M - 1)

(* The lowest bit of a word is a power of the word's. *)
LEMMA LowestOfWord ==
  ASSUME NEW x \in 1 .. M - 1
  PROVE  \E i \in 0 .. Word - 1 : LowestBit(x) = Pow2[i] /\ Fits(Pow2[i], x) /\ Pow2[i] \in 1 .. M - 1
<1>1. PICK m \in Nat : m = M /\ m > 0 /\ m = Pow2[Word]
  BY WordsAre DEF M
<1>2. Word \in Nat /\ Width \in Nat /\ Word < Width
  BY WidthIs
<1>3. 2 * m <= Pow2[Width] /\ Pow2[Width] \in Nat
  BY <1>1, <1>2, PowersRise, Powers
<1>4. x \in Nat /\ x > 0 /\ x < Pow2[Width] /\ x < m
  BY <1>1, <1>3
<1>5. PICK i \in 0 .. Width - 1 : LowestBit(x) = Pow2[i] /\ Fits(Pow2[i], x)
  BY <1>4, LowestIs
<1>6. PICK p \in Nat : p = Pow2[i] /\ p > 0
  BY <1>2, Powers
<1>7. p <= x
  BY <1>4, <1>5, <1>6, FitsBelow
<1>8. i \in Nat /\ i # Word /\ ~(Word < i)
  <2>1. i \in Nat
    BY <1>2
  <2>2. i # Word
    BY <1>1, <1>4, <1>6, <1>7
  <2>3. ~(Word < i)
    <3> SUFFICES ASSUME Word < i PROVE FALSE
      OBVIOUS
    <3>1. 2 * Pow2[Word] <= Pow2[i]
      BY <1>2, <2>1, PowersRise
    <3> QED
      BY <1>1, <1>4, <1>6, <1>7, <3>1
  <2> QED
    BY <2>1, <2>2, <2>3
<1>9. i \in 0 .. Word - 1
  BY <1>2, <1>8
<1>10. p \in 1 .. M - 1
  BY <1>1, <1>4, <1>6, <1>7
<1> QED
  BY <1>5, <1>6, <1>9, <1>10

LEMMA Lowest6Is ==
  ASSUME NEW s \in 0 .. Pow2[Width] - 1
  PROVE  \E k \in 0 .. Width :
           /\ Fits(Pow2[k], s) /\ Low6(Lowest6(s)) = Pow2[k] - 1
           /\ k = Width <=> s = 0
           /\ Lowest6(s) = IF s = 0 THEN 0 ELSE Pow2[k]
<1>1. PICK m \in Nat : m = M /\ m > 0 /\ m = Pow2[Word] /\ Pow2[Width] = m * m
  BY WordsAre DEF M
<1>2. Word \in Nat /\ Width \in Nat /\ Word < Width /\ Width = Word + Word
  BY WidthIs
<1>3. PICK h, l : h = Hi(s) /\ l = Lo(s)
  OBVIOUS
<1>4. h \in 0 .. m - 1 /\ l \in 0 .. m - 1 /\ s = m * h + l
  BY <1>1, <1>3, WordsAre
<1>5. 0 \in 0 .. m - 1 /\ m - 1 \in 0 .. m - 1 /\ m * 0 = 0
  BY <1>1
<1>6. PICK w : w = Lowest6(s)
  OBVIOUS
<1>7. CASE l # 0
  <2>1. l \in 1 .. M - 1
    BY <1>1, <1>4, <1>7
  <2>2. PICK i \in 0 .. Word - 1 : LowestBit(l) = Pow2[i] /\ Fits(Pow2[i], l) /\ Pow2[i] \in 1 .. M - 1
    BY <2>1, LowestOfWord
  <2>3. PICK p \in 1 .. m - 1 : p = Pow2[i]
    BY <1>1, <2>2
  <2>4. i \in Nat /\ i < Word /\ i \in 0 .. Width /\ i # Width
    BY <1>2, <2>2
  <2>5. w = Wide(0, p)
    BY <1>3, <1>6, <1>7, <2>2, <2>3 DEF Lowest6
  <2>6. p \in 0 .. m - 1 /\ p - 1 \in 0 .. m - 1 /\ p # 0 /\ p \in Nat /\ p > 0
    BY <2>3
  <2>7. Wide(0, p) = m * 0 + p /\ Lo(m * 0 + p) = p
    BY <1>1, <1>5, <2>6, WideIs
  <2>8. w = p /\ Lo(w) = p
    BY <1>5, <2>5, <2>6, <2>7
  <2>9. Wide(0, p - 1) = m * 0 + (p - 1)
    BY <1>1, <1>5, <2>6, WideIs
  <2>10. Low6(w) = p - 1
    BY <1>5, <2>6, <2>8, <2>9 DEF Low6
  <2>11. Fits(p, s)
    <3>1. Fits(Pow2[Word], m)
      <4>1. m = Pow2[Word] * 1
        BY <1>1
      <4> QED
        BY <4>1 DEF Fits
    <3>2. Fits(Pow2[i], m)
      BY <1>2, <2>4, <3>1, PowersFit
    <3>3. PICK q, r \in Nat : m = p * q /\ l = p * r
      BY <2>2, <2>3, <3>2 DEF Fits
    <3>4. s = p * (q * h + r) /\ q * h + r \in Nat
      <4>1. h \in Nat
        BY <1>4
      <4>2. s = (p * q) * h + p * r
        BY <1>4, <3>3
      <4>3. (p * q) * h + p * r = p * (q * h + r) /\ q * h + r \in Nat
        BY <2>6, <3>3, <4>1
      <4> QED
        BY <4>2, <4>3
    <3> QED
      BY <3>4 DEF Fits
  <2>12. s # 0
    <3>1. h \in Nat /\ m * h \in Nat
      BY <1>1, <1>4
    <3> QED
      BY <1>4, <1>7, <3>1
  <2> QED
    BY <1>6, <2>3, <2>4, <2>8, <2>10, <2>11, <2>12
<1>8. CASE l = 0 /\ h # 0
  <2>1. h \in 1 .. M - 1
    BY <1>1, <1>4, <1>8
  <2>2. PICK i \in 0 .. Word - 1 : LowestBit(h) = Pow2[i] /\ Fits(Pow2[i], h) /\ Pow2[i] \in 1 .. M - 1
    BY <2>1, LowestOfWord
  <2>3. PICK p \in 1 .. m - 1 : p = Pow2[i]
    BY <1>1, <2>2
  <2>4. PICK k : k = Word + i
    OBVIOUS
  <2>5. i \in Nat /\ k \in 0 .. Width /\ k # Width
    BY <1>2, <2>2, <2>4
  <2>6. Pow2[k] = m * p
    BY <1>1, <1>2, <2>3, <2>4, <2>5, PowersAdd
  <2>7. w = Wide(p, 0)
    BY <1>3, <1>6, <1>8, <2>2, <2>3 DEF Lowest6
  <2>8. p \in 0 .. m - 1 /\ p - 1 \in 0 .. m - 1 /\ p # 0 /\ p \in Nat /\ p > 0
    BY <2>3
  <2>9. Wide(p, 0) = m * p + 0 /\ Lo(m * p + 0) = 0 /\ Hi(m * p + 0) = p
    BY <1>1, <1>5, <2>8, WideIs
  <2>10. w = m * p /\ Lo(w) = 0 /\ Hi(w) = p
    <3>1. m * p + 0 = m * p
      BY <1>1, <2>8
    <3> QED
      BY <2>7, <2>9, <3>1
  <2>11. Wide(p - 1, m - 1) = m * (p - 1) + (m - 1)
    BY <1>1, <1>5, <2>8, WideIs
  <2>12. m * (p - 1) + (m - 1) = m * p - 1
    BY <1>1, <2>8
  <2>13. Low6(w) = m * p - 1
    BY <1>1, <2>8, <2>10, <2>11, <2>12 DEF Low6
  <2>14. Fits(m * p, s)
    <3>1. PICK q \in Nat : h = p * q
      BY <2>2, <2>3 DEF Fits
    <3>2. s = m * (p * q)
      BY <1>1, <1>4, <1>8, <3>1
    <3>3. s = (m * p) * q
      BY <1>1, <2>8, <3>1, <3>2
    <3> QED
      BY <3>1, <3>3 DEF Fits
  <2>15. s # 0
    <3>1. PICK c \in Nat : h = c + 1
      BY <1>4, <1>8
    <3>2. m * h = m * c + m /\ m * c \in Nat
      BY <1>1, <3>1
    <3> QED
      BY <1>1, <1>4, <1>8, <3>2
  <2> QED
    BY <1>6, <2>5, <2>6, <2>10, <2>13, <2>14, <2>15
<1>9. CASE l = 0 /\ h = 0
  <2>1. s = 0 /\ w = 0
    BY <1>3, <1>4, <1>5, <1>6, <1>9 DEF Lowest6
  <2>2. Lo(0) = 0 /\ Hi(0) = 0
    BY <1>3, <1>9, <2>1
  <2>3. Wide(m - 1, m - 1) = m * (m - 1) + (m - 1)
    BY <1>1, <1>5, WideIs
  <2>4. m * (m - 1) + (m - 1) = m * m - 1
    BY <1>1
  <2>5. Low6(w) = Pow2[Width] - 1
    BY <1>1, <2>1, <2>2, <2>3, <2>4 DEF Low6
  <2>6. Fits(Pow2[Width], s)
    <3>1. s = Pow2[Width] * 0
      BY <1>1, <2>1
    <3> QED
      BY <3>1 DEF Fits
  <2>7. Width \in 0 .. Width
    BY <1>2
  <2> QED
    BY <1>6, <2>1, <2>5, <2>6, <2>7
<1> QED
  BY <1>7, <1>8, <1>9

(* The block of Block6 in terms of the lowest bit.                         *)
Mask6(low, diff) ==
  LET ones == {Pow2[i] - 1 : i \in 0 .. Width}
  IN  IF low > diff THEN CHOOSE m \in ones : m <= diff /\ 2 * m + 1 > diff ELSE low
Size6(low, diff, lowest, mask) ==
  IF low <= diff THEN lowest
  ELSE IF Lo(mask) = M - 1 THEN Wide(Hi(mask) + 1, 0) ELSE Wide(Hi(mask), Lo(mask) + 1)
LEMMA Block6Is ==
  ASSUME NEW s, NEW e, NEW diff, diff = Minus(e, s), NEW lowest, lowest = Lowest6(s),
         NEW low, low = Low6(lowest), NEW mask, mask = Mask6(low, diff),
         NEW block, block = Size6(low, diff, lowest, mask), NEW b, b = Block6(s, e)
  PROVE  /\ b.len = Width - (IF block <= 1 THEN 0 ELSE Log2(block))
         /\ b.last = (mask = diff) /\ b.next = Plus(s, block)
<1> DEFINE d == Minus(e, s)
           w == Lowest6(s)
           l == Low6(w)
           k == Mask6(l, d)
           z == Size6(l, d, w, k)
<1>1. Block6(s, e) = [len |-> Width - (IF z <= 1 THEN 0 ELSE Log2(z)), last |-> k = d, next |-> Plus(s, z)]
  BY DEF Block6, Lowest6, Low6, Mask6, Size6
<1>2. d = diff /\ w = lowest
  OBVIOUS
<1>3. l = low
  BY <1>2
<1>4. k = mask
  BY <1>2, <1>3
<1>5. z = block
  BY <1>2, <1>3, <1>4
<1> HIDE DEF d, w, l, k, z
<1> QED
  BY <1>1, <1>2, <1>4, <1>5

(* The greatest block that does not pass the end.                          *)
LEMMA Mask6Is ==
  ASSUME NEW low \in Nat, NEW diff \in Nat, diff < Pow2[Width], low > diff
  PROVE  \E k \in 0 .. Width : Mask6(low, diff) = Pow2[k] - 1 /\ Pow2[k] <= diff + 1
<1>1. PICK k \in 0 .. Width : Pow2[k] <= diff + 1 /\ diff + 1 < Pow2[k + 1]
  <2>1. PICK x \in Nat : x = diff + 1 /\ x > 0 /\ x <= Pow2[Width]
    <3>1. Pow2[Width] \in Nat
      BY WidthIs, Powers
    <3> QED
      BY <3>1
  <2> QED
    BY <2>1, LogIs
<1>2. PICK p \in Nat : p = Pow2[k] /\ p > 0 /\ Pow2[k + 1] = 2 * p
  BY WidthIs, Powers
<1> DEFINE ones == {Pow2[i] - 1 : i \in 0 .. Width}
           Fit(m) == m <= diff /\ 2 * m + 1 > diff
<1>3. p - 1 \in ones /\ Fit(p - 1)
  BY <1>1, <1>2
<1>4. PICK mask : mask = Mask6(low, diff)
  OBVIOUS
<1>5. mask = CHOOSE m \in ones : Fit(m)
  BY <1>4 DEF Mask6
<1>6. mask \in ones /\ Fit(mask)
  <2> HIDE DEF ones, Fit
  <2> QED
    BY <1>3, <1>5
<1>7. PICK i \in 0 .. Width : mask = Pow2[i] - 1
  BY <1>6
<1>8. Pow2[i] <= diff + 1
  <2>1. Pow2[i] \in Nat
    BY WidthIs, Powers
  <2>2. mask <= diff
    BY <1>6
  <2> QED
    BY <1>7, <2>1, <2>2
<1> QED
  BY <1>4, <1>7, <1>8

(* For IPv6 every block fits but the one of the whole address space, whose *)
(* size wraps.                                                             *)
LEMMA Block6Cuts ==
  ASSUME NEW s \in Nat, NEW e \in Nat, s <= e, e < Pow2[Width], ~(s = 0 /\ e = Pow2[Width] - 1)
  PROVE  Cuts(Block6(s, e), s, e) /\ Block6(s, e).len > 0
<1>1. Width \in Nat
  BY WidthIs
<1>2. PICK full \in Nat : full = Pow2[Width] /\ full > 0
  BY <1>1, Powers
<1>3. PICK diff : diff = Minus(e, s)
  OBVIOUS
<1>4. s \in 0 .. Pow2[Width] - 1 /\ e \in 0 .. Pow2[Width] - 1
  BY <1>2
<1>5. diff = e - s
  BY <1>3, <1>4, MinusIs
<1>6. diff \in Nat /\ diff < full
  BY <1>2, <1>5
<1>7. PICK lowest : lowest = Lowest6(s)
  OBVIOUS
<1>8. PICK low : low = Low6(lowest)
  OBVIOUS
<1>9. PICK j \in 0 .. Width : /\ Fits(Pow2[j], s) /\ low = Pow2[j] - 1
                              /\ j = Width <=> s = 0
                              /\ lowest = IF s = 0 THEN 0 ELSE Pow2[j]
  BY <1>4, <1>7, <1>8, Lowest6Is
<1>10. PICK q \in Nat : q = Pow2[j] /\ q > 0
  BY <1>1, Powers
<1>11. low \in Nat /\ low = q - 1
  BY <1>9, <1>10
<1>12. PICK mask : mask = Mask6(low, diff)
  OBVIOUS
<1>13. PICK block : block = Size6(low, diff, lowest, mask)
  OBVIOUS
<1>14. PICK k \in 0 .. Width : /\ k # Width /\ Fits(Pow2[k], s) /\ mask = Pow2[k] - 1 /\ block = Pow2[k]
                               /\ Pow2[k] <= diff + 1
  <2>1. CASE low > diff
    <3>1. PICK i \in 0 .. Width : mask = Pow2[i] - 1 /\ Pow2[i] <= diff + 1
      BY <1>2, <1>6, <1>11, <1>12, <2>1, Mask6Is
    <3>2. PICK p \in Nat : p = Pow2[i] /\ p > 0
      BY <1>1, Powers
    <3>3. i \in Nat /\ j \in Nat /\ p < q
      BY <1>1, <1>6, <1>11, <2>1, <3>1, <3>2
    <3>4. ~(j < i)
      <4> SUFFICES ASSUME j < i PROVE FALSE
        OBVIOUS
      <4>1. 2 * Pow2[j] <= Pow2[i]
        BY <3>3, PowersRise
      <4> QED
        BY <1>10, <3>2, <3>3, <4>1
    <3>5. i # j
      BY <1>10, <3>2, <3>3
    <3>6. i <= j /\ i # Width
      BY <1>1, <3>3, <3>4, <3>5
    <3>7. Fits(Pow2[i], s)
      BY <1>9, <3>3, <3>6, PowersFit
    <3>8. p < full
      <4>1. i < Width
        BY <1>1, <3>6
      <4>2. 2 * Pow2[i] <= Pow2[Width]
        BY <1>1, <3>3, <4>1, PowersRise
      <4> QED
        BY <1>2, <3>2, <4>2
    <3>9. block = mask + 1
      <4>1. mask \in Nat /\ mask + 1 < Pow2[Width]
        BY <1>2, <3>1, <3>2, <3>8
      <4>2. ~(low <= diff)
        BY <1>6, <1>11, <2>1
      <4>3. block = IF Lo(mask) = M - 1 THEN Wide(Hi(mask) + 1, 0) ELSE Wide(Hi(mask), Lo(mask) + 1)
        BY <1>13, <4>2 DEF Size6
      <4> QED
        BY <4>1, <4>3, NextIs
    <3>10. block = Pow2[i]
      BY <3>1, <3>2, <3>9
    <3> QED
      BY <3>1, <3>6, <3>7, <3>10
  <2>2. CASE ~(low > diff)
    <3>1. low <= diff
      BY <1>6, <1>11, <2>2
    <3>2. mask = low
      BY <1>12, <2>2 DEF Mask6
    <3>3. s # 0
      <4> SUFFICES ASSUME s = 0 PROVE FALSE
        OBVIOUS
      <4>1. q = full
        BY <1>2, <1>9, <1>10
      <4> QED
        BY <1>2, <1>5, <1>11, <3>1, <4>1
    <3>4. block = Pow2[j]
      BY <1>9, <1>13, <3>1, <3>3 DEF Size6
    <3>5. Pow2[j] <= diff + 1
      BY <1>6, <1>10, <1>11, <3>1
    <3> QED
      BY <1>9, <3>2, <3>3, <3>4, <3>5
  <2> QED
    BY <2>1, <2>2
<1>15. PICK p \in Nat : p = Pow2[k] /\ p > 0
  BY <1>1, Powers
<1>16. block = p /\ mask = p - 1 /\ p <= diff + 1
  BY <1>14, <1>15
<1>17. PICK b : b = Block6(s, e)
  OBVIOUS
<1>18. /\ b.len = Width - (IF block <= 1 THEN 0 ELSE Log2(block))
       /\ b.last = (mask = diff) /\ b.next = Plus(s, block)
  BY <1>3, <1>7, <1>8, <1>12, <1>13, <1>17, Block6Is
<1>19. (IF block <= 1 THEN 0 ELSE Log2(block)) = k
  <2>1. CASE block <= 1
    <3>1. p = 1
      BY <1>15, <1>16, <2>1
    <3>2. k = 0
      <4> SUFFICES ASSUME k # 0 PROVE FALSE
        OBVIOUS
      <4>1. k \in Nat /\ 0 < k
        BY <1>1
      <4>2. 2 * Pow2[0] <= Pow2[k] /\ Pow2[0] = 1
        BY <4>1, PowersRise, Powers
      <4> QED
        BY <1>15, <3>1, <4>2
    <3> QED
      BY <2>1, <3>2
  <2>2. CASE ~(block <= 1)
    BY <1>14, <2>2, LogOf
  <2> QED
    BY <2>1, <2>2
<1>20. b.len = Width - k /\ b.len > 0
  <2>1. b.len = Width - k
    BY <1>18, <1>19
  <2>2. Width - k > 0
    BY <1>1, <1>14
  <2> QED
    BY <2>1, <2>2
<1>21. s + p <= e + 1 /\ (mask = diff <=> s + p = e + 1)
  BY <1>5, <1>15, <1>16
<1>22. ASSUME ~b.last PROVE b.next = s + p
  <2>1. mask # diff
    BY <1>18, <1>22
  <2>2. s + p < full
    BY <1>2, <1>15, <1>21, <2>1
  <2>3. p \in 0 .. Pow2[Width] - 1 /\ s + p < Pow2[Width]
    BY <1>2, <1>15, <2>2
  <2>4. Plus(s, p) = s + p
    BY <1>4, <2>3, PlusIs
  <2> QED
    BY <1>16, <1>18, <2>4
<1>23. Cuts(b, s, e)
  BY <1>14, <1>15, <1>18, <1>20, <1>21, <1>22 DEF Cuts
<1> QED
  BY <1>17, <1>20, <1>23

(* The whole address space: IPv4 computes the bit length 0, IPv6 the       *)
(* address ::, and calls it the last block.                                *)
LEMMA WholeBlocks ==
  ASSUME NEW e, e = Pow2[Width] - 1
  PROVE  Block4(0, e).len = 0 /\ Block6(0, e).len = Width /\ Block6(0, e).last
<1>1. Width \in Nat /\ Width \in 0 .. Width
  BY WidthIs
<1>2. PICK full \in Nat : full = Pow2[Width] /\ full > 0
  BY <1>1, Powers
<1>3. e \in Nat /\ e = full - 1
  BY <1>2
<1>4. Block4(0, e).len = 0
  <2>1. PICK span : span = e - 0 + 1
    OBVIOUS
  <2>2. span = full
    BY <1>3, <2>1
  <2>3. PICK block : block = IF full > span THEN Pow2[Log2(span)] ELSE full
    OBVIOUS
  <2>4. block = full
    BY <1>2, <2>2, <2>3
  <2>5. Block4(0, e) = [len |-> Width - Log2(block), last |-> span = block, next |-> (0 + block) % Pow2[Width]]
    BY <1>2, <2>1, <2>3 DEF Block4
  <2>6. Log2(full) = Width
    BY <1>1, <1>2, LogOf
  <2> QED
    BY <1>1, <2>4, <2>5, <2>6
<1>5. Block6(0, e).len = Width /\ Block6(0, e).last
  <2>1. 0 \in 0 .. Pow2[Width] - 1 /\ e \in 0 .. Pow2[Width] - 1
    BY <1>2, <1>3
  <2>2. PICK diff : diff = Minus(e, 0)
    OBVIOUS
  <2>3. diff = e
    <3>1. diff = e - 0
      BY <1>3, <2>1, <2>2, MinusIs
    <3> QED
      BY <1>3, <3>1
  <2>4. PICK lowest : lowest = Lowest6(0)
    OBVIOUS
  <2>5. PICK low : low = Low6(lowest)
    OBVIOUS
  <2>6. lowest = 0 /\ low = e
    BY <1>3, <1>2, <2>1, <2>4, <2>5, Lowest6Is
  <2>7. PICK mask : mask = Mask6(low, diff)
    OBVIOUS
  <2>8. ~(low > diff) /\ low <= diff
    BY <1>3, <2>3, <2>6
  <2>9. mask = low
    BY <2>7, <2>8 DEF Mask6
  <2>10. PICK block : block = Size6(low, diff, lowest, mask)
    OBVIOUS
  <2>11. block = 0
    BY <2>6, <2>8, <2>10 DEF Size6
  <2>12. PICK b : b = Block6(0, e)
    OBVIOUS
  <2>13. /\ b.len = Width - (IF block <= 1 THEN 0 ELSE Log2(block))
         /\ b.last = (mask = diff)
    BY <2>2, <2>4, <2>5, <2>7, <2>10, <2>12, Block6Is
  <2>14. b.len = Width
    BY <1>1, <2>11, <2>13
  <2> QED
    BY <2>3, <2>6, <2>9, <2>12, <2>13, <2>14
<1> QED
  BY <1>4, <1>5

(***************************************************************************)
(* The range loop                                                          *)
(***************************************************************************)

(* The addresses of a block. *)
LEMMA BlockIs ==
  ASSUME NEW k \in 0 .. Width, NEW s \in Nat, Fits(Pow2[k], s), NEW p, p = Prefix(s, Width - k)
  PROVE  AddressesOf(p) = s .. s + Pow2[k] - 1
<1>1. Width \in Nat /\ Width - (Width - k) = k
  BY WidthIs
<1>2. PICK b \in Nat : b = Pow2[k] /\ b > 0
  BY <1>1, Powers
<1>3. PICK q \in Nat : s = b * q
  BY <1>2 DEF Fits
<1>4. s \div b = q
  <2>1. s = b * q + 0 /\ 0 \in 0 .. b - 1
    BY <1>2, <1>3
  <2> QED
    BY <1>2, <2>1, DivMod
<1>5. Mask(s, Width - k) = (s \div b) * b
  BY <1>1, <1>2 DEF Mask
<1>6. q * b = s
  BY <1>2, <1>3
<1>7. p = [addr |-> s, len |-> Width - k]
  BY <1>4, <1>5, <1>6 DEF Prefix
<1>8. p.addr = s /\ p.len = Width - k
  BY <1>7
<1>9. AddressesOf(p) = p.addr .. p.addr + Pow2[Width - p.len] - 1
  BY DEF AddressesOf
<1> QED
  BY <1>1, <1>8, <1>9

(* Blocks are disjoint; what they cover.                                   *)
Disjoint(done) == \A p, q \in done : p # q => AddressesOf(p) \cap AddressesOf(q) = {}
Covered(done) == UNION {AddressesOf(p) : p \in done}

(* One more block, right behind the others.                                *)
LEMMA BlockJoins ==
  ASSUME NEW done, NEW from \in Nat, NEW s \in Nat, from <= s, Disjoint(done), Covered(done) = from .. s - 1,
         NEW n \in Nat, n > 0, NEW p, AddressesOf(p) = s .. s + n - 1
  PROVE  Disjoint(done \cup {p}) /\ Covered(done \cup {p}) = from .. s + n - 1
<1>1. ASSUME NEW q \in done PROVE AddressesOf(q) \cap AddressesOf(p) = {}
  <2>1. AddressesOf(q) \subseteq from .. s - 1
    BY DEF Covered
  <2>2. (from .. s - 1) \cap (s .. s + n - 1) = {}
    OBVIOUS
  <2> QED
    BY <2>1, <2>2
<1>2. Disjoint(done \cup {p})
  BY <1>1 DEF Disjoint
<1>3. Covered(done \cup {p}) = Covered(done) \cup AddressesOf(p)
  BY DEF Covered
<1>4. (from .. s - 1) \cup (s .. s + n - 1) = from .. s + n - 1
  OBVIOUS
<1> QED
  BY <1>2, <1>3, <1>4

(* A block joins blocks that cover nothing.                                *)
LEMMA BlockAlone ==
  ASSUME NEW done, Disjoint(done), Covered(done) = {}, NEW p, AddressesOf(p) = {0}
  PROVE  Disjoint(done \cup {p}) /\ Covered(done \cup {p}) = {0}
<1>1. ASSUME NEW q \in done PROVE AddressesOf(q) = {}
  BY DEF Covered
<1>2. Disjoint(done \cup {p})
  BY <1>1 DEF Disjoint
<1>3. Covered(done \cup {p}) = {0}
  BY DEF Covered
<1> QED
  BY <1>2, <1>3

(* A loop that has inserted the blocks before s; or all of the range, if   *)
(* it is not the whole address space.                                      *)
Looping(l) ==
  /\ l = [at |-> l.at, from |-> l.from, s |-> l.s, e |-> l.e, rule |-> l.rule, done |-> l.done]
  /\ l.at \in {"loop", "ok", "failed"}
  /\ l.from \in Nat /\ l.s \in Nat /\ l.e \in Nat
  /\ l.from <= l.s /\ l.s <= l.e /\ l.e < Pow2[Width]
RangeOK(l, af) ==
  /\ Looping(l) /\ Disjoint(l.done)
  /\ l.at # "ok" => Covered(l.done) = l.from .. l.s - 1
  /\ l.at = "ok" => Covered(l.done) = IF WholeSpace(l) THEN {0} ELSE l.from .. l.e
  /\ WholeSpace(l) => IF l.at = "ok" THEN af = "v6" ELSE l.s = 0
PtInv == ptAf \in Afs /\ (ptLoop = NoLoop \/ RangeOK(ptLoop, ptAf))

LEMMA AddressIs ==
  ASSUME NEW a \in Addresses
  PROVE  a \in Nat /\ a < Pow2[Width]
<1>1. Pow2[Width] \in Nat
  BY WidthIs, Powers
<1> QED
  BY <1>1 DEF Addresses

LEMMA PtInitially == PtInit => PtInv
BY DEF PtInit, PtInv

(* A loop begins. *)
LEMMA RangeBegins ==
  ASSUME NEW s \in Addresses, NEW e \in Addresses, NEW rule \in Rules, PtInv, PtRange(s, e, rule)
  PROVE  PtInv'
<1>1. PICK l : l = [at |-> "loop", from |-> s, s |-> s, e |-> e, rule |-> rule, done |-> {}]
  OBVIOUS
<1>2. ptLoop' = l /\ ptAf' = ptAf /\ s <= e
  BY <1>1 DEF PtRange
<1>3. l.at = "loop" /\ l.from = s /\ l.s = s /\ l.e = e /\ l.rule = rule /\ l.done = {}
  BY <1>1
<1>4. s \in Nat /\ e \in Nat /\ e < Pow2[Width]
  BY AddressIs
<1>5. Looping(l)
  <2>1. l = [at |-> l.at, from |-> l.from, s |-> l.s, e |-> l.e, rule |-> l.rule, done |-> l.done]
    BY <1>1, <1>3
  <2> QED
    BY <1>2, <1>3, <1>4, <2>1 DEF Looping
<1>6. Disjoint(l.done) /\ Covered(l.done) = {} /\ s .. s - 1 = {}
  BY <1>3, <1>4 DEF Disjoint, Covered
<1>7. WholeSpace(l) => l.s = 0
  BY <1>3 DEF WholeSpace
<1>8. RangeOK(l, ptAf)
  BY <1>3, <1>5, <1>6, <1>7 DEF RangeOK
<1> QED
  BY <1>2, <1>8 DEF PtInv

(* An iteration inserts the block at s, which cuts off what is before it.  *)
LEMMA RangeGoesOn ==
  ASSUME PtInv, PtRangeStep
  PROVE  PtInv'
<1>1. PICK l, l2, b : l = ptLoop /\ l2 = ptLoop' /\ b = IF ptAf = "v4" THEN Block4(l.s, l.e) ELSE Block6(l.s, l.e)
  OBVIOUS
<1>2. ptAf' = ptAf /\ l.at = "loop"
  BY <1>1 DEF PtRangeStep
<1>3. RangeOK(l, ptAf)
  <2>1. NoLoop.at = "idle"
    BY DEF NoLoop
  <2> QED
    BY <1>1, <1>2, <2>1 DEF PtInv
<1>4. PICK from, s, e, done : from = l.from /\ s = l.s /\ e = l.e /\ done = l.done
  OBVIOUS
<1>5. /\ l = [at |-> "loop", from |-> from, s |-> s, e |-> e, rule |-> l.rule, done |-> done]
      /\ from \in Nat /\ s \in Nat /\ e \in Nat /\ from <= s /\ s <= e /\ e < Pow2[Width]
      /\ Disjoint(done) /\ Covered(done) = from .. s - 1
      /\ WholeSpace(l) => s = 0
  <2>1. Looping(l)
    BY <1>3 DEF RangeOK
  <2>2. Disjoint(done) /\ Covered(done) = from .. s - 1 /\ (WholeSpace(l) => s = 0)
    BY <1>2, <1>3, <1>4 DEF RangeOK
  <2> QED
    BY <1>2, <1>4, <2>1, <2>2 DEF Looping
<1>6. CASE l2 = [l EXCEPT !.at = "failed"]
  <2>1. l2 = [at |-> "failed", from |-> from, s |-> s, e |-> e, rule |-> l.rule, done |-> done]
    BY <1>5, <1>6
  <2>2. l2.at = "failed" /\ l2.from = from /\ l2.s = s /\ l2.e = e /\ l2.rule = l.rule /\ l2.done = done
    BY <2>1
  <2>3. Looping(l2)
    BY <1>5, <2>1, <2>2 DEF Looping
  <2>4. WholeSpace(l2) <=> WholeSpace(l)
    BY <1>4, <2>2 DEF WholeSpace
  <2>5. RangeOK(l2, ptAf)
    BY <1>5, <2>2, <2>3, <2>4 DEF RangeOK
  <2> QED
    BY <1>1, <1>2, <2>5 DEF PtInv
<1>7. CASE /\ b.len > 0
           /\ l2 = [l EXCEPT !.at = IF b.last THEN "ok" ELSE "loop", !.s = IF b.last THEN @ ELSE b.next,
                             !.done = @ \cup {Prefix(l.s, b.len)}]
  <2>1. PICK p : p = Prefix(s, b.len)
    OBVIOUS
  <2>2. l2 = [at |-> IF b.last THEN "ok" ELSE "loop", from |-> from, s |-> IF b.last THEN s ELSE b.next,
              e |-> e, rule |-> l.rule, done |-> done \cup {p}]
    BY <1>4, <1>5, <1>7, <2>1
  <2>3. /\ l2.at = (IF b.last THEN "ok" ELSE "loop") /\ l2.from = from /\ l2.s = (IF b.last THEN s ELSE b.next)
        /\ l2.e = e /\ l2.rule = l.rule /\ l2.done = done \cup {p}
    BY <2>2
  <2>4. l2 = [at |-> l2.at, from |-> l2.from, s |-> l2.s, e |-> l2.e, rule |-> l2.rule, done |-> l2.done]
    BY <2>2, <2>3
  <2>5. WholeSpace(l2) <=> WholeSpace(l)
    BY <1>4, <2>3 DEF WholeSpace
  <2>6. CASE ~WholeSpace(l)
    <3>1. Cuts(b, s, e)
      <4>1. Cuts(Block4(s, e), s, e)
        BY <1>5, Block4Cuts
      <4>2. Cuts(Block6(s, e), s, e)
        <5>1. ~(s = 0 /\ e = Pow2[Width] - 1)
          BY <1>4, <1>5, <2>6 DEF WholeSpace
        <5> QED
          BY <1>5, <5>1, Block6Cuts
      <4> QED
        BY <1>1, <1>4, <4>1, <4>2
    <3>2. PICK k \in 0 .. Width :
            /\ b.len = Width - k /\ Fits(Pow2[k], s) /\ s + Pow2[k] <= e + 1
            /\ b.last <=> s + Pow2[k] = e + 1
            /\ ~b.last => b.next = s + Pow2[k]
      BY <3>1 DEF Cuts
    <3>3. PICK n \in Nat : n = Pow2[k] /\ n > 0
      BY WidthIs, Powers
    <3>4. AddressesOf(p) = s .. s + n - 1
      BY <1>5, <2>1, <3>2, <3>3, BlockIs
    <3>5. Disjoint(done \cup {p}) /\ Covered(done \cup {p}) = from .. s + n - 1
      BY <1>5, <3>3, <3>4, BlockJoins
    <3>6. CASE b.last
      <4>1. s + n - 1 = e /\ l2.at = "ok" /\ l2.s = s
        BY <1>5, <2>3, <3>2, <3>3, <3>6
      <4>2. Looping(l2)
        BY <1>5, <2>3, <2>4, <4>1 DEF Looping
      <4>3. RangeOK(l2, ptAf)
        BY <2>3, <2>5, <2>6, <3>5, <4>1, <4>2 DEF RangeOK
      <4> QED
        BY <1>1, <1>2, <4>3 DEF PtInv
    <3>7. CASE ~b.last
      <4>1. l2.at = "loop" /\ l2.s = s + n
        BY <2>3, <3>2, <3>3, <3>7
      <4>2. s + n <= e /\ from <= s + n /\ s + n \in Nat
        <5>1. s + n <= e + 1 /\ s + n # e + 1
          BY <3>2, <3>3, <3>7
        <5> QED
          BY <1>5, <3>3, <5>1
      <4>3. Looping(l2)
        BY <1>5, <2>3, <2>4, <4>1, <4>2 DEF Looping
      <4>4. Disjoint(l2.done) /\ Covered(l2.done) = l2.from .. l2.s - 1
        <5>1. PICK t : t = s + n
          OBVIOUS
        <5>2. Disjoint(done \cup {p}) /\ Covered(done \cup {p}) = from .. t - 1
          BY <1>5, <3>3, <3>5, <5>1
        <5>3. l2.s = t /\ l2.from = from /\ l2.done = done \cup {p}
          BY <2>3, <4>1, <5>1
        <5> QED
          BY <5>2, <5>3
      <4>5. l2.at # "ok" /\ ~WholeSpace(l2)
        BY <2>5, <2>6, <4>1
      <4>6. RangeOK(l2, ptAf)
        BY <4>3, <4>4, <4>5 DEF RangeOK
      <4> QED
        BY <1>1, <1>2, <4>6 DEF PtInv
    <3> QED
      BY <3>6, <3>7
  <2>7. CASE WholeSpace(l)
    <3>1. s = 0 /\ from = 0 /\ e = Pow2[Width] - 1
      BY <1>4, <1>5, <2>7 DEF WholeSpace
    <3>2. Block4(0, e).len = 0 /\ Block6(0, e).len = Width /\ Block6(0, e).last
      BY <3>1, WholeBlocks
    <3>3. ptAf = "v6" /\ b.len = Width /\ b.last
      <4>1. ptAf \in {"v4", "v6"}
        BY DEF PtInv, Afs
      <4>2. ptAf # "v4"
        BY <1>1, <1>4, <1>7, <3>1, <3>2
      <4> QED
        BY <1>1, <1>4, <3>1, <3>2, <4>1, <4>2
    <3>4. AddressesOf(p) = {0}
      <4>1. 0 \in 0 .. Width /\ Width - 0 = Width
        BY WidthIs
      <4>2. s = Pow2[0] * 0 /\ Pow2[0] = 1
        BY <3>1, Powers
      <4>3. Fits(Pow2[0], s)
        BY <4>2 DEF Fits
      <4>4. AddressesOf(p) = s .. s + Pow2[0] - 1
        BY <1>5, <2>1, <3>3, <4>1, <4>3, BlockIs
      <4> QED
        BY <3>1, <4>2, <4>4
    <3>5. Disjoint(done \cup {p}) /\ Covered(done \cup {p}) = {0}
      <4>1. from .. s - 1 = {}
        BY <3>1
      <4>2. Disjoint(done) /\ Covered(done) = {}
        BY <1>5, <4>1
      <4> QED
        BY <3>4, <4>2, BlockAlone
    <3>6. l2.at = "ok" /\ l2.s = s
      BY <2>3, <3>3
    <3>7. Looping(l2)
      BY <1>5, <2>3, <2>4, <3>6 DEF Looping
    <3>8. RangeOK(l2, ptAf)
      BY <2>3, <2>5, <2>7, <3>3, <3>5, <3>6, <3>7 DEF RangeOK
    <3> QED
      BY <1>1, <1>2, <3>8 DEF PtInv
  <2> QED
    BY <2>6, <2>7
<1> QED
  BY <1>1, <1>6, <1>7 DEF PtRangeStep

(* Nothing else touches a loop.                                            *)
LEMMA PtStep == PtInv /\ [PtNext]_ptVars => PtInv'
<1> SUFFICES ASSUME PtInv, [PtNext]_ptVars PROVE PtInv'
  OBVIOUS
<1>1. ASSUME UNCHANGED <<ptAf, ptLoop>> PROVE PtInv'
  BY <1>1 DEF PtInv
<1>2. ASSUME NEW rule \in Rules, NEW cidr \in Cidrs, PtAdd(cidr, rule) PROVE PtInv'
  BY <1>1, <1>2 DEF PtAdd
<1>3. ASSUME NEW rule \in Rules, NEW g \in ptGranted, PtDelete(g.prefix, rule) PROVE PtInv'
  BY <1>1, <1>3 DEF PtDelete
<1>4. ASSUME NEW rule \in Rules, NEW a \in Hosts, PtAddV6(a, rule) PROVE PtInv'
  BY <1>1, <1>4 DEF PtAddV6
<1>5. ASSUME NEW rule \in Rules, NEW s \in Addresses, NEW e \in Addresses, PtRange(s, e, rule) PROVE PtInv'
  BY <1>5, RangeBegins
<1>6. ASSUME PtRangeStep PROVE PtInv'
  BY <1>6, RangeGoesOn
<1>7. ASSUME PtRangeReturn PROVE PtInv'
  BY <1>7 DEF PtRangeReturn, PtInv
<1>8. ASSUME PtDestroy PROVE PtInv'
  BY <1>1, <1>8 DEF PtDestroy
<1>9. ASSUME UNCHANGED ptVars PROVE PtInv'
  BY <1>1, <1>9 DEF ptVars
<1> QED
  BY <1>2, <1>3, <1>4, <1>5, <1>6, <1>7, <1>8, <1>9 DEF PtNext

LEMMA CutsAreExact == PtInv => RangesCut
<1> SUFFICES ASSUME PtInv, ptLoop # NoLoop PROVE RangesCut
  BY DEF RangesCut
<1>1. PICK l : l = ptLoop
  OBVIOUS
<1>2. RangeOK(l, ptAf)
  BY <1>1 DEF PtInv
<1>3. Disjoint(l.done)
  BY <1>2 DEF RangeOK
<1>4. \/ Covered(l.done) = l.from .. (IF l.at = "ok" THEN l.e ELSE l.s - 1)
      \/ l.at = "ok" /\ WholeSpace(l)
  BY <1>2 DEF RangeOK
<1>5. l.at = "ok" /\ WholeSpace(l) => ptAf = "v6"
  BY <1>2 DEF RangeOK
<1> QED
  BY <1>1, <1>3, <1>4, <1>5 DEF RangesCut, Disjoint, Covered

(* The blocks of a range are disjoint, aligned and cover exactly the part  *)
(* of it that was done, for addresses of any width: 64 bits a word as in   *)
(* patricia.c:609-762.  The whole address space is refused for IPv4.       *)
THEOREM RangesAreCut == PtSpec => []RangesCut
BY PtInitially, PtStep, CutsAreExact, PTL DEF PtSpec

====
