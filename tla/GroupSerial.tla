------------------------------- MODULE GroupSerial -----------------------------
(*****************************************************************************)
(* GroupConversations with a history variable that tells the behaviours in   *)
(* which nothing ran beside a handler from the others.  What                 *)
(* docs/conversations.md says of the owner of a group holds in the former.   *)
(*****************************************************************************)
EXTENDS GroupConversations

VARIABLE overlapped  \* whether anything has run beside a handler

serialVars == <<vars, overlapped>>

\* Another handler runs, or friendships move, while one is under way.
Beside ==
  \/ Cardinality(DOMAIN calls') > 1
  \/ calls # NoRows /\ <<friends, blocks>>' # <<friends, blocks>>

SerialInit == Init /\ overlapped = FALSE

SerialNext == Next /\ overlapped' = (overlapped \/ Beside)

SerialSpec == SerialInit /\ [][SerialNext]_serialVars

-------------------------------------------------------------------------------
(* Properties *)

\* While nothing runs beside a handler, every group has its owner among its
\* members, only the owner changes it, and only friends of the owner without a
\* block between them are added (docs/conversations.md).
OwnersManage ==
  /\ OwnerIsMember
  /\ [][~ overlapped' => OwnerIsMember' /\ WrittenByOwner /\ FriendsAreAdded]_serialVars
===============================================================================
