------------------------------ MODULE MCMessages ------------------------------
(* Instances of Messages for TLC. *)
EXTENDS Messages, TLC

\* The operations that write messages.
Writing == {"send", "quote", "edit", "recall", "forward"}

\* Time passes, and what a user keeps about messages changes, only while there is
\* no more than one of them.
Bounded ==
  \/ Len(changes) <= 1
  \/ /\ clock = 0 /\ userStates = NoRows /\ receipts = NoRows
     /\ \A r \in DOMAIN requests : requests[r].op \in Writing

\* Requests, message ids and users are interchangeable in the safety runs.
Symmetry == Permutations(Requests) \cup Permutations(MessageIds)
              \cup Permutations(Users)
===============================================================================
