---- MODULE StepTable ----
(***************************************************************************)
(* coding/tiered_table.c: two searches in a table of rules with ascending  *)
(* limits, for the first rule whose limit is above a value.  Each loop     *)
(* iteration is an action.                                                 *)
(***************************************************************************)
EXTENDS Integers, Sequences

CONSTANTS
  StepTables,   \* the tables of limits considered
  StepMax       \* UINT32_MAX, the limit of every table's last rule

Ascending(t) == \A i, j \in DOMAIN t : i < j => t[i] <= t[j]

ASSUME StepAssumption ==
  /\ StepMax \in Nat
  /\ \A t \in StepTables : t \in Seq(0 .. StepMax) /\ t # <<>> /\ Ascending(t) /\ t[Len(t)] = StepMax

VARIABLES
  limit,   \* rules[].limit; the rules are numbered from 1
  step     \* the search: its value, the loop's variables and the answers

stepVars == <<limit, step>>

StepIdle == [at |-> "idle", val |-> 0, i |-> 1, left |-> 1, right |-> 1, ans |-> 1]

StepInit ==
  /\ limit \in StepTables
  /\ step = StepIdle

(* get_rule_linear(val) *)
Linear(val) ==
  /\ step.at \in {"idle", "both"}
  /\ step' = [StepIdle EXCEPT !.at = "linear", !.val = val]
  /\ UNCHANGED limit

(* i passes the end when no limit is above val: the code returns the last. *)
LinearStep ==
  /\ step.at = "linear"
  /\ step' = IF step.i <= Len(limit) /\ step.val >= limit[step.i]
             THEN [step EXCEPT !.i = @ + 1]
             ELSE [step EXCEPT !.at = "found", !.i = IF @ > Len(limit) THEN Len(limit) ELSE @]
  /\ UNCHANGED limit

(* get_rule_bsearch of the same value *)
Bsearch ==
  /\ step.at = "found"
  /\ step' = [step EXCEPT !.at = "bsearch", !.left = 1, !.right = Len(limit), !.ans = Len(limit)]
  /\ UNCHANGED limit

(* Stops while one rule is left to look at. *)
BsearchStepEarly ==
  /\ step.at = "bsearch"
  /\ LET mid == step.left + (step.right - step.left) \div 2
     IN  step' = IF step.left >= step.right THEN [step EXCEPT !.at = "both"]
                 ELSE IF step.val < limit[mid] THEN [step EXCEPT !.ans = mid, !.right = mid - 1]
                      ELSE [step EXCEPT !.left = mid + 1]
  /\ UNCHANGED limit

BsearchStep ==
  /\ step.at = "bsearch"
  /\ LET mid == step.left + (step.right - step.left) \div 2
     IN  step' = IF step.left > step.right THEN [step EXCEPT !.at = "both"]
                 ELSE IF step.val < limit[mid] THEN [step EXCEPT !.ans = mid, !.right = mid - 1]
                      ELSE [step EXCEPT !.left = mid + 1]
  /\ UNCHANGED limit

StepNext == (\E val \in 0 .. StepMax : Linear(val)) \/ LinearStep \/ Bsearch \/ BsearchStep

StepSpec == StepInit /\ [][StepNext]_stepVars

(* --- properties -------------------------------------------------------- *)

StepTypeOK ==
  /\ limit \in StepTables
  /\ step \in [at : {"idle", "linear", "found", "bsearch", "both"}, val : 0 .. StepMax,
               i : 1 .. Len(limit) + 1, left : 1 .. Len(limit) + 1,
               right : 0 .. Len(limit), ans : 1 .. Len(limit)]

(* r is the first rule above val, or the last rule if there is none.       *)
IsRule(r, val) ==
  /\ r \in 1 .. Len(limit) /\ \A j \in 1 .. r - 1 : val >= limit[j]
  /\ val < limit[r] \/ r = Len(limit)

(* Both searches end at the rule that the table means, on every table and  *)
(* at every boundary, equal limits included; UINT32_MAX itself is below no *)
(* limit and gets the last rule (tiered_table.c:32-67).                    *)
StepSearchesAgree ==
  /\ step.at \in {"found", "both"} => IsRule(step.i, step.val)
  /\ step.at = "both" => step.ans = step.i

====
