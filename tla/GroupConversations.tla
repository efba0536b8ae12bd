-------------------------- MODULE GroupConversations ---------------------------
(*****************************************************************************)
(* Group conversations: the group operations of internal/service/social.go   *)
(* above internal/store/group_conversations.go.                              *)
(*                                                                           *)
(* A handler reads the conversation with its members in one statement, then  *)
(* the membership of its caller in another, then the friendship and blocks   *)
(* of each user it adds, and writes in a transaction.  Between any two of    *)
(* them other handlers write groups, friendships and blocks.                 *)
(*****************************************************************************)
EXTENDS Integers, Sequences, FiniteSets, Tables, Friendships

CONSTANTS
  GroupIds,    \* ids of conversations that ids.New may return
  Titles,      \* titles
  Workers,     \* handlers that may run at the same time
  MaxTargets,  \* users one call may name (50 in normalizeGroupMemberIDs)
  NoGroup,     \* the group in a call that creates one
  NoTitle,     \* the title in a call that gives none
  MaxBlocks    \* bound: blocks at one time

Operations == {"create", "rename", "transfer", "add", "remove", "leave"}

ASSUME GroupAssumption ==
  /\ NoGroup \notin GroupIds
  /\ NoTitle \notin Titles
  /\ MaxTargets \in Nat \ {0}
  /\ MaxBlocks \in Nat

VARIABLES
  groups,  \* conversations of type group with their conversation_members
  calls    \* handlers between two statements

groupVars == <<groups, calls>>
vars == <<friends, blocks, groups, calls>>

-------------------------------------------------------------------------------
(* Types *)

\* owner is created_by; roles has a row per member.
IsGroup(g) ==
  /\ g = [owner |-> g.owner, title |-> g.title, roles |-> g.roles]
  /\ g.owner \in Users
  /\ g.title \in Titles
  /\ IsTable(g.roles, Users, {"owner", "member"})

\* The caller, the group, the users it names and which of them is looked at.
Call == [op : Operations, user : Users, group : GroupIds \cup {NoGroup},
         title : Titles \cup {NoTitle}, targets : Seq(Users), pos : Nat \ {0},
         stage : {"find", "member", "friends", "blocks", "write"}]

Named(call) == {call.targets[i] : i \in DOMAIN call.targets}

\* The group of a call is stored (groups are never deleted), its loop is at one
\* of the users it names, and it does not name its caller, who may only leave.
CallOK(call) ==
  /\ call.op \in {"create", "rename"} => call.title \in Titles
  /\ call.op # "create" => call.group \in DOMAIN groups
  /\ call.op \in {"create", "add"} => call.pos <= Len(call.targets)
  /\ call.op \in {"transfer", "remove", "leave"} => Len(call.targets) = 1
  /\ call.op # "leave" => call.user \notin Named(call)

TypeOK ==
  /\ friends \subseteq SUBSET Users
  /\ blocks \subseteq Users \X Users
  /\ DOMAIN groups \subseteq GroupIds
  /\ groups = [g \in DOMAIN groups |-> groups[g]]
  /\ \A g \in DOMAIN groups : IsGroup(groups[g])
  /\ IsTable(calls, Workers, Call)
  /\ \A w \in DOMAIN calls : CallOK(calls[w])

Init ==
  /\ FriendshipsInit
  /\ groups = NoRows
  /\ calls = NoRows

-------------------------------------------------------------------------------
(* Requests *)

\* normalizeGroupMemberIDs: no duplicate, and never the caller.
Lists(u) ==
  UNION {{t \in [1 .. n -> Users \ {u}] :
            \A i, j \in 1 .. n : t[i] = t[j] => i = j} : n \in 1 .. MaxTargets}

\* The users each operation names besides its caller.
Targets(op, u) ==
  CASE op \in {"create", "add"} -> Lists(u)
    [] op \in {"transfer", "remove"} -> {<<v>> : v \in Users \ {u}}
    [] op = "leave" -> {<<u>>}
    [] OTHER -> {<< >>}

Begin(w) ==
  /\ w \notin DOMAIN calls
  /\ \E op \in Operations, u \in Users :
       \E g \in IF op = "create" THEN {NoGroup} ELSE DOMAIN groups,
          title \in IF op \in {"create", "rename"} THEN Titles ELSE {NoTitle},
          targets \in Targets(op, u) :
         calls' = Put(calls, w,
           [op |-> op, user |-> u, group |-> g, title |-> title,
            targets |-> targets, pos |-> 1,
            stage |-> IF op = "create" THEN "friends" ELSE "find"])
  /\ UNCHANGED <<friends, blocks, groups>>

At(w, ops, stage) ==
  w \in DOMAIN calls /\ calls[w].op \in ops /\ calls[w].stage = stage

Advance(w, next) ==
  /\ calls' = Put(calls, w, next)
  /\ UNCHANGED <<friends, blocks, groups>>

Finish(w) == calls' = Remove(calls, {w})

-------------------------------------------------------------------------------
(* Checks *)

Members(g) == DOMAIN groups[g].roles

\* Mutant: an owner may leave as well.
MayGoOnOrLeave(call) ==
  /\ call.op # "leave" => groups[call.group].owner = call.user
  /\ call.op \in {"transfer", "remove"} =>
       call.targets[1] \in Members(call.group)
  /\ call.op = "add" =>
       \A i \in DOMAIN call.targets : call.targets[i] \notin Members(call.group)

\* What the handler asks of the conversation it has read: the caller owns it, or
\* does not in order to leave; it transfers to or removes a member, and adds
\* users who are none.
MayGoOn(call) ==
  /\ (groups[call.group].owner = call.user) <=> (call.op # "leave")
  /\ call.op \in {"transfer", "remove"} =>
       call.targets[1] \in Members(call.group)
  /\ call.op = "add" =>
       \A i \in DOMAIN call.targets : call.targets[i] \notin Members(call.group)

\* FindConversationByID, one SELECT with a JOIN of the members: a conversation
\* without members is not found.
FindGroup(w) ==
  /\ At(w, Operations, "find")
  /\ Members(calls[w].group) # {}
  /\ MayGoOn(calls[w])
  /\ Advance(w, [calls[w] EXCEPT !.stage = "member"])

\* IsConversationMember for the caller.
CheckMember(w) ==
  LET call == calls[w]
  IN /\ At(w, Operations, "member")
     /\ call.user \in Members(call.group)
     /\ Advance(w, [call EXCEPT !.stage = IF call.op = "add" THEN "friends"
                                                             ELSE "write"])

\* AreFriends for the user the loop is at.
CheckFriends(w) ==
  LET call == calls[w]
  IN /\ At(w, {"create", "add"}, "friends")
     /\ {call.user, call.targets[call.pos]} \in friends
     /\ Advance(w, [call EXCEPT !.stage = "blocks"])

\* Mutant: the loop runs past its last turn.
AfterUserPastEnd(call) ==
  IF call.pos <= Len(call.targets)
  THEN [call EXCEPT !.stage = "friends", !.pos = @ + 1]
  ELSE [call EXCEPT !.stage = "write"]

\* The next turn of the loop, or the write.
AfterUser(call) ==
  IF call.pos < Len(call.targets)
  THEN [call EXCEPT !.stage = "friends", !.pos = @ + 1]
  ELSE [call EXCEPT !.stage = "write"]

\* HasBlockBetween for that user.
CheckBlocks(w) ==
  LET call   == calls[w]
      target == call.targets[call.pos]
  IN /\ At(w, {"create", "add"}, "blocks")
     /\ {<<call.user, target>>, <<target, call.user>>} \cap blocks = {}
     /\ Advance(w, AfterUser(call))

-------------------------------------------------------------------------------
(* Writes *)

CreateGroupConversation(w) ==
  LET call == calls[w]
  IN /\ At(w, {"create"}, "write")
     /\ \E g \in GroupIds \ DOMAIN groups :
          groups' = Put(groups, g,
            [owner |-> call.user, title |-> call.title,
             roles |-> [u \in {call.user} \cup Named(call) |->
                          IF u = call.user THEN "owner" ELSE "member"]])
     /\ Finish(w)
     /\ UNCHANGED <<friends, blocks>>

\* UPDATE ... SET title WHERE id = ?
RenameGroupConversation(w) ==
  LET call == calls[w]
  IN /\ At(w, {"rename"}, "write")
     /\ groups' = [groups EXCEPT ![call.group].title = call.title]
     /\ Finish(w)
     /\ UNCHANGED <<friends, blocks>>

\* Mutant: UPDATE conversations ... WHERE id = ? AND type = ?
MayTransferAnyway(g, from, to) == from \in Members(g) /\ to \in Members(g)

\* The transaction finds the new owner among the members, the old one as
\* created_by, and a role to change for both; otherwise it rolls back.
MayTransfer(g, from, to) ==
  /\ to \in Members(g)
  /\ groups[g].owner = from
  /\ from \in Members(g)

RolesAfter(roles, from, to) ==
  [roles EXCEPT ![from] = "member", ![to] = "owner"]

TransferGroupConversationOwner(w) ==
  LET call == calls[w]
      g    == call.group
      to   == call.targets[1]
  IN /\ At(w, {"transfer"}, "write")
     /\ MayTransfer(g, call.user, to)
     /\ groups' = [groups EXCEPT ![g] =
          [owner |-> to, title |-> groups[g].title,
           roles |-> RolesAfter(groups[g].roles, call.user, to)]]
     /\ Finish(w)
     /\ UNCHANGED <<friends, blocks>>

\* One INSERT of all rows: a member among them refuses it (PRIMARY KEY).
AddConversationMembers(w) ==
  LET call == calls[w]
      g    == call.group
  IN /\ At(w, {"add"}, "write")
     /\ Named(call) \cap Members(g) = {}
     /\ groups' = [groups EXCEPT
          ![g].roles = Merge(@, [u \in Named(call) |-> "member"])]
     /\ Finish(w)
     /\ UNCHANGED <<friends, blocks>>

\* DELETE ... WHERE user_id = ?: the owner's row too, if it is theirs by now.
RemoveConversationMember(w) ==
  LET call == calls[w]
      g    == call.group
  IN /\ At(w, {"remove", "leave"}, "write")
     /\ call.targets[1] \in Members(g)
     /\ groups' = [groups EXCEPT ![g].roles = Remove(@, {call.targets[1]})]
     /\ Finish(w)
     /\ UNCHANGED <<friends, blocks>>

\* A check failed, the client went away, an error, or the process stopped.
Abort(w) ==
  /\ w \in DOMAIN calls
  /\ Finish(w)
  /\ UNCHANGED <<friends, blocks, groups>>

-------------------------------------------------------------------------------

Handler(w) ==
  \/ Begin(w)
  \/ FindGroup(w)
  \/ CheckMember(w)
  \/ CheckFriends(w)
  \/ CheckBlocks(w)
  \/ CreateGroupConversation(w)
  \/ RenameGroupConversation(w)
  \/ TransferGroupConversationOwner(w)
  \/ AddConversationMembers(w)
  \/ RemoveConversationMember(w)
  \/ Abort(w)

\* Friend requests, removals and blocks by other handlers.
Social ==
  /\ FriendshipsNext
  /\ Cardinality(blocks') <= MaxBlocks
  /\ UNCHANGED groupVars

Next == Social \/ \E w \in Workers : Handler(w)

Spec == Init /\ [][Next]_vars

-------------------------------------------------------------------------------
(* Properties of any number of concurrent handlers *)

\* Nobody but the owner of a group has the role of one: two transfers that both
\* found their caller to be the owner cannot both commit (UPDATE ... WHERE
\* created_by = ?), and a user who is added back comes back as a member.
OnlyOwnersHaveTheRole ==
  \A g \in DOMAIN groups : \A u \in Members(g) :
    groups[g].roles[u] = "owner" => groups[g].owner = u

\* Ownership goes to somebody who is a member at that moment and from somebody
\* who is one too, and nobody comes or goes with it.
OwnershipIsHandedOver ==
  [][\A g \in DOMAIN groups :
       groups'[g].owner # groups[g].owner =>
         /\ {groups[g].owner, groups'[g].owner} \subseteq Members(g)
         /\ Members(g)' = Members(g)
         /\ groups'[g].roles[groups'[g].owner] = "owner"]_vars

-------------------------------------------------------------------------------
(* Properties of handlers that do not overlap *)

\* docs/conversations.md: "The current owner must transfer ownership before
\* leaving."  Only the owner can manage a group, so one whose owner is gone can
\* never be managed again.
OwnerIsMember ==
  \A g \in DOMAIN groups :
    groups[g].owner \in Members(g) /\ groups[g].roles[groups[g].owner] = "owner"

\* docs/conversations.md: "Only the owner can rename, transfer ownership, add
\* members, or remove members."
WrittenByOwner ==
  \A w \in DOMAIN calls \ DOMAIN calls' :
    LET call == calls[w]
    IN groups' # groups /\ call.op \notin {"create", "leave"} =>
         groups[call.group].owner = call.user

ManagedByOwner == [][WrittenByOwner]_vars

\* docs/conversations.md: "Added members must be accepted friends of the owner
\* and must not have an active block relationship with the owner."
FriendsAreAdded ==
  \A g \in DOMAIN groups : \A u \in Members(g)' \ Members(g) :
    LET owner == groups[g].owner
    IN /\ {owner, u} \in friends
       /\ {<<owner, u>>, <<u, owner>>} \cap blocks = {}

AddedAreFriends == [][FriendsAreAdded]_vars
===============================================================================
