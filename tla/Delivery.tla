------------------------------ MODULE Delivery ------------------------------
(***************************************************************************)
(* What a chain of relays promises: messages come out in the order they    *)
(* went in, none of them twice.  Any of them may be lost.                  *)
(***************************************************************************)
EXTENDS Integers, Sequences

VARIABLES
  accepted,    \* how many messages went in; the n-th one is called n
  delivered    \* the messages that came out

Init == accepted = 0 /\ delivered = << >>

Accept == accepted' = accepted + 1 /\ UNCHANGED delivered

\* Every message that came out before went in before.
Deliver ==
  /\ \E n \in 1 .. accepted :
       /\ \A i \in 1 .. Len(delivered) : delivered[i] < n
       /\ delivered' = Append(delivered, n)
  /\ UNCHANGED accepted

Next == Accept \/ Deliver

Spec == Init /\ [][Next]_<<accepted, delivered>>
=============================================================================
