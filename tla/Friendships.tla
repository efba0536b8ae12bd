------------------------------ MODULE Friendships ------------------------------
(*****************************************************************************)
(* What the rest of the server sees of friendships and blocks: two tables    *)
(* that one statement at a time moves, in whatever order handlers overlap.   *)
(* SocialGraph implements it; GroupConversations builds on it.               *)
(*****************************************************************************)
CONSTANTS
  Users,  \* accounts
  Moves   \* the moves an instance makes

AllMoves == {"befriend", "unfriend", "block", "unblock"}

ASSUME FriendshipsAssumption == Moves \subseteq AllMoves

VARIABLES
  friends,  \* the pairs {u, v} of friends
  blocks    \* user_blocks: <<blocker_id, blocked_id>>

\* The accept of a friend request, which looked at the blocks before.
Befriend(u, v) ==
  /\ friends' = friends \cup {{u, v}}
  /\ UNCHANGED blocks

Unfriend(u, v) ==
  /\ {u, v} \in friends
  /\ friends' = friends \ {{u, v}}
  /\ UNCHANGED blocks

\* A block takes the friendship with it.
Block(u, v) ==
  /\ <<u, v>> \notin blocks
  /\ blocks' = blocks \cup {<<u, v>>}
  /\ friends' = friends \ {{u, v}}

Unblock(u, v) ==
  /\ blocks' = blocks \ {<<u, v>>}
  /\ UNCHANGED friends

FriendshipsInit == friends = {} /\ blocks = {}

FriendshipsNext ==
  \E u \in Users : \E v \in Users \ {u} :
    \/ "befriend" \in Moves /\ Befriend(u, v)
    \/ "unfriend" \in Moves /\ Unfriend(u, v)
    \/ "block" \in Moves /\ Block(u, v)
    \/ "unblock" \in Moves /\ Unblock(u, v)

FriendshipsSpec == FriendshipsInit /\ [][FriendshipsNext]_<<friends, blocks>>
===============================================================================
