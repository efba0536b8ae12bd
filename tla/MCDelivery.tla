------------------------------ MODULE MCDelivery -------------------------------
(* Instances of Delivery for TLC. *)
EXTENDS Delivery, TLC

\* Handlers and messages are interchangeable.
Symmetry == Permutations(Handlers) \cup Permutations(MessageIds)
===============================================================================
