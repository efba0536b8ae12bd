---------------------------- MODULE MCRealtimeHub -----------------------------
(* Instances of RealtimeHub for TLC. *)
EXTENDS RealtimeHub, TLC

\* Connections, publishers and users are interchangeable.
Symmetry == Permutations(Conns) \cup Permutations(Publishers)
              \cup Permutations(Users)
===============================================================================
