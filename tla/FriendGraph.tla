------------------------------ MODULE FriendGraph ------------------------------
(*****************************************************************************)
(* What docs/social.md promises about two users, without the tables: each    *)
(* pair is in one of four states, and these are the only ways between them.  *)
(* SocialGraph implements it when handlers do not overlap.                   *)
(*****************************************************************************)

CONSTANT Pairs      \* sets of two users

VARIABLE relation   \* what the two are to each other

Relation == {"strangers", "requested", "friends", "blocked"}

TypeOK == relation \in [Pairs -> Relation]

Init == relation = [p \in Pairs |-> "strangers"]

Move(p, from, to) ==
  relation[p] = from /\ relation' = [relation EXCEPT ![p] = to]

Request(p) == Move(p, "strangers", "requested")
Accept(p) == Move(p, "requested", "friends")
Decline(p) == Move(p, "requested", "strangers")
Unfriend(p) == Move(p, "friends", "strangers")
Block(p) == \E from \in Relation : Move(p, from, "blocked")
Unblock(p) == Move(p, "blocked", "strangers")

Next ==
  \E p \in Pairs :
    Request(p) \/ Accept(p) \/ Decline(p) \/ Unfriend(p) \/ Block(p) \/ Unblock(p)

Spec == Init /\ [][Next]_relation
===============================================================================
