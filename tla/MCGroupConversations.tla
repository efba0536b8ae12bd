-------------------------- MODULE MCGroupConversations ------------------------
(* Instances of GroupConversations for TLC. *)
EXTENDS GroupSerial, TLC

\* Handlers, users, titles and ids are interchangeable.
Symmetry == Permutations(Workers) \cup Permutations(Users)
              \cup Permutations(GroupIds) \cup Permutations(Titles)
===============================================================================
