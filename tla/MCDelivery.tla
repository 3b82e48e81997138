----------------------------- MODULE MCDelivery -----------------------------
(* A small instance of Delivery. *)
EXTENDS Delivery, TLC

CONSTANTS p1, p2

\* An answer with one candidate and one with none.
MCCount == [p \in Payloads |-> IF p = p1 THEN 1 ELSE 0]
=============================================================================
