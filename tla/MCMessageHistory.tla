--------------------------- MODULE MCMessageHistory ----------------------------
(* Instances of MessageHistory for TLC. *)
EXTENDS MessageHistory, TLC

CONSTANTS Sender, Reader, Favorite

\* One user sends; the other walks the history and changes what it keeps, one
\* message as a favorite.
Roles ==
  \A r \in DOMAIN requests :
    LET q == requests[r]
    IN /\ q.user = IF q.op = "send" THEN Sender ELSE Reader
       /\ q.op \in {"favorite", "unfavorite"} => q.batch = <<Favorite>>

MCNext == HistoryNext /\ Roles'

MCSpec == HistoryInit /\ [][MCNext]_historyVars

\* Handlers are interchangeable.
Symmetry == Permutations(Requests)
===============================================================================
