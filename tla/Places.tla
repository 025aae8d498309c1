---- MODULE Places ----
(***************************************************************************)
(* A sequence as a place for things: what is in it, and that nothing is in *)
(* it twice.  Used to say that objects and packets are conserved.          *)
(***************************************************************************)
EXTENDS Sequences

Members(s) == {s[i] : i \in DOMAIN s}
Distinct(s) == \A i, j \in DOMAIN s : s[i] = s[j] => i = j

====
