---------------------------- MODULE MCMessageSync -----------------------------
(* Instances of MessageSync for TLC. *)
EXTENDS MessageSync, TLC

\* Ids of messages and of bodies are interchangeable in the safety runs.
Symmetry == Permutations(MessageIds) \cup Permutations(Bodies)
===============================================================================
