---- MODULE ByteStrings ----
(***************************************************************************)
(* What packets promise: each owner has a string of bytes of its own, and  *)
(* nothing another owner does shows in it.                                 *)
(***************************************************************************)
EXTENDS Integers, Sequences

CONSTANTS Owners, Inputs, Nothing

VARIABLE packet

Has(o) == packet[o] # Nothing

Init == packet = [o \in Owners |-> Nothing]

Create(o) == ~Has(o) /\ packet' = [packet EXCEPT ![o] = <<>>]
Append_(o, s) == Has(o) /\ packet' = [packet EXCEPT ![o] = @ \o s]
Pull(o, n) == Has(o) /\ packet' = [packet EXCEPT ![o] = SubSeq(@, n + 1, Len(@))]
Trim(o, n) == Has(o) /\ packet' = [packet EXCEPT ![o] = SubSeq(@, 1, n)]
Clone(o, q) == Has(o) /\ ~Has(q) /\ packet' = [packet EXCEPT ![q] = packet[o]]
Free(o) == Has(o) /\ packet' = [packet EXCEPT ![o] = Nothing]

Next ==
  \E o \in Owners :
    \/ Create(o) \/ Free(o)
    \/ \E s \in Inputs : Append_(o, s)
    \/ Has(o) /\ \E n \in 0 .. Len(packet[o]) : Pull(o, n) \/ Trim(o, n)
    \/ \E q \in Owners : Clone(o, q)

Spec == Init /\ [][Next]_packet

====
