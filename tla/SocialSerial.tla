------------------------------ MODULE SocialSerial -----------------------------
(*****************************************************************************)
(* SocialGraph with a history variable that tells the behaviours in which    *)
(* handlers overlapped from those in which they came one at a time.  What    *)
(* docs/social.md says of two users holds in the latter.                     *)
(*****************************************************************************)
EXTENDS SocialGraph

VARIABLE overlapped  \* whether two handlers have run at the same time

serialVars == <<vars, overlapped>>

Alone == \A w1, w2 \in DOMAIN calls : w1 = w2

SerialInit == Init /\ overlapped = FALSE

SerialNext == Next /\ overlapped' = (overlapped \/ ~ Alone')

SerialSpec == SerialInit /\ [][SerialNext]_serialVars

-------------------------------------------------------------------------------
(* Properties *)

\* While handlers come one at a time, a blocked pair has neither a friendship nor
\* a request, a pair has at most one pending request, friends have none, and no
\* two users are friends without the request that made them (docs/social.md).
PairsAreConsistent ==
  ~ overlapped =>
    /\ BlockedAreUnrelated
    /\ OnePendingPerPair
    /\ FriendsHaveNoPending
    /\ FriendsByRequest

\* While handlers come one at a time, whatever row of them it is, two users go
\* from one relation to the next as docs/social.md says, and answers stay.
ImplementsFriendGraph ==
  /\ Graph!Init
  /\ [][~ overlapped' => MovesAsFriendGraph /\ KeepsAnswers]_serialVars
===============================================================================
