---- MODULE Lists ----
(***************************************************************************)
(* What a set of list heads promises: each is a finite sequence of nodes,  *)
(* a node is on at most one of them, and an operation moves whole nodes or *)
(* whole lists to an end of a list.                                        *)
(***************************************************************************)
EXTENDS Integers, Sequences

CONSTANTS Heads, Nodes

VARIABLE lists

(* s without the first n in it. *)
Drop(s, n) ==
  LET places == {i \in DOMAIN s : s[i] = n}
      i == CHOOSE i \in places : \A j \in places : i <= j
  IN  IF places = {} THEN s ELSE SubSeq(s, 1, i - 1) \o SubSeq(s, i + 1, Len(s))

Without(n) == [h \in Heads |-> Drop(lists[h], n)]

Init == lists = [h \in Heads |-> <<>>]

(* n goes to an end of h, from wherever it was. *)
Put(n, h) ==
  \/ lists' = [Without(n) EXCEPT ![h] = <<n>> \o @]
  \/ lists' = [Without(n) EXCEPT ![h] = @ \o <<n>>]

Remove(n) == lists' = Without(n)

(* All of s goes to an end of h. *)
Splice(s, h) ==
  \/ lists' = [lists EXCEPT ![h] = lists[s] \o @, ![s] = <<>>]
  \/ lists' = [lists EXCEPT ![h] = @ \o lists[s], ![s] = <<>>]

Next ==
  \/ \E n \in Nodes : Remove(n) \/ \E h \in Heads : Put(n, h)
  \/ \E s \in Heads : \E h \in Heads \ {s} : Splice(s, h)

Spec == Init /\ [][Next]_lists

====
