---- MODULE Entries ----
(***************************************************************************)
(* The caller's entries that the intrusive trees and lists link together:  *)
(* each has a key, and several may share one (struct entry of the          *)
(* examples; the keys are what the caller's cmp compares).                 *)
(***************************************************************************)
EXTENDS Integers, FiniteSets

CONSTANTS Entries, KeyOf, Null

ASSUME EntriesAssumption ==
  /\ Null \notin Entries
  /\ KeyOf \in [Entries -> Int]

Least(S) == IF S = {} THEN Null ELSE CHOOSE n \in S : \A m \in S : KeyOf[n] <= KeyOf[m]
Greatest(S) == IF S = {} THEN Null ELSE CHOOSE n \in S : \A m \in S : KeyOf[m] <= KeyOf[n]

====
