----------------------- MODULE GroupConversations_proofs -----------------------
(*****************************************************************************)
(* Who owns a group, for any number of overlapping handlers.  The invariant  *)
(* is inductive with the types alone: the transaction of a transfer compares *)
(* created_by itself, so no other handler needs to be known about.           *)
(*****************************************************************************)
EXTENDS GroupSerial, Tables_proofs, FiniteSetTheorems, SequenceTheorems, TLAPS

GroupInv == TypeOK /\ OnlyOwnersHaveTheRole

-------------------------------------------------------------------------------
(* Handlers *)

\* The handlers are typed after a step.
CallsOK ==
  /\ IsTable(calls, Workers, Call)
  /\ \A w \in DOMAIN calls : CallOK(calls[w])

\* A handler that is under way.
LEMMA CallTyped ==
  ASSUME TypeOK, NEW w \in DOMAIN calls
  PROVE  w \in Workers /\ calls[w] \in Call /\ CallOK(calls[w])
BY RowOfTable DEF TypeOK

\* A handler that starts or goes on.
LEMMA AdvanceTyped ==
  ASSUME TypeOK, NEW w \in Workers, NEW next \in Call, CallOK(next),
         Advance(w, next)
  PROVE  CallsOK'
<1>1. calls' = Put(calls, w, next) /\ UNCHANGED groups
  BY DEF Advance
<1>2. IsTable(calls', Workers, Call)
  BY <1>1, PutIsTable DEF TypeOK
<1>3. ASSUME NEW x \in DOMAIN calls' PROVE CallOK(calls'[x])
  <2>1. CASE x = w
    BY <1>1, <2>1 DEF Put
  <2>2. CASE x # w
    BY <1>1, <2>2 DEF Put, TypeOK
  <2> QED
    BY <2>1, <2>2
<1> QED
  BY <1>1, <1>2, <1>3 DEF CallsOK, CallOK

\* A handler that ends, when no group went away.
LEMMA FinishTyped ==
  ASSUME TypeOK, NEW w, Finish(w), DOMAIN groups \subseteq DOMAIN groups'
  PROVE  CallsOK'
<1>1. calls' = Remove(calls, {w})
  BY DEF Finish
<1>2. IsTable(calls', Workers, Call)
  BY <1>1, RemoveIsTable DEF TypeOK
<1>3. ASSUME NEW x \in DOMAIN calls' PROVE CallOK(calls[x]) /\ calls'[x] = calls[x]
  BY <1>1, <1>3 DEF Remove, TypeOK
<1> QED
  BY <1>2, <1>3 DEF CallsOK, CallOK

\* The lists of users that a call may name.
LEMMA TargetsTyped ==
  ASSUME NEW op \in Operations, NEW u \in Users, NEW t \in Targets(op, u)
  PROVE  /\ t \in Seq(Users)
         /\ op \in {"create", "add"} => 1 <= Len(t)
         /\ op \in {"transfer", "remove", "leave"} => Len(t) = 1
         /\ op # "leave" => \A i \in DOMAIN t : t[i] # u
<1>1. CASE op \in {"create", "add"}
  <2>1. t \in Lists(u)
    BY <1>1 DEF Targets
  <2>2. PICK n \in 1 .. MaxTargets : t \in [1 .. n -> Users \ {u}]
    BY <2>1 DEF Lists
  <2>3. n \in Nat /\ 1 <= n
    BY <2>2, GroupAssumption
  <2>4. t \in Seq(Users \ {u}) /\ Len(t) = n
    BY <2>2, <2>3
  <2>5. t \in Seq(Users)
    BY <2>4, SeqMonotonic
  <2> QED
    BY <1>1, <2>2, <2>3, <2>4, <2>5
<1>2. CASE op \in {"transfer", "remove"}
  <2>1. PICK v \in Users \ {u} : t = <<v>>
    BY <1>2 DEF Targets
  <2>2. t \in Seq(Users) /\ Len(t) = 1 /\ DOMAIN t = {1} /\ t[1] = v
    BY <2>1
  <2> QED
    BY <1>2, <2>1, <2>2
<1>3. CASE op = "leave"
  <2>1. t = <<u>>
    BY <1>3 DEF Targets
  <2> QED
    BY <1>3, <2>1
<1>4. CASE op = "rename"
  <2>1. t = << >>
    BY <1>4 DEF Targets
  <2>2. t \in Seq(Users) /\ DOMAIN t = {}
    BY <2>1
  <2> QED
    BY <1>4, <2>2
<1> QED
  BY <1>1, <1>2, <1>3, <1>4 DEF Operations

\* Every step of the checks is a step to a typed call.
LEMMA ChecksTyped ==
  ASSUME TypeOK, NEW w \in Workers,
         FindGroup(w) \/ CheckMember(w) \/ CheckFriends(w) \/ CheckBlocks(w)
  PROVE  CallsOK' /\ UNCHANGED <<friends, blocks, groups>>
<1>0. UNCHANGED <<friends, blocks, groups>>
  BY DEF FindGroup, CheckMember, CheckFriends, CheckBlocks, Advance
<1> SUFFICES CallsOK'
  BY <1>0
<1> DEFINE call == calls[w]
<1>1. w \in DOMAIN calls
  BY DEF FindGroup, CheckMember, CheckFriends, CheckBlocks, At
<1>2. call \in Call /\ CallOK(call)
  BY <1>1, CallTyped
<1> HIDE DEF call
<1>3. ASSUME NEW stage \in {"find", "member", "friends", "blocks", "write"},
             Advance(w, [call EXCEPT !.stage = stage])
      PROVE  CallsOK'
  <2> DEFINE next == [call EXCEPT !.stage = stage]
  <2>1. next \in Call /\ next.op = call.op /\ next.group = call.group
        /\ next.user = call.user /\ next.title = call.title
        /\ next.targets = call.targets /\ next.pos = call.pos
    BY <1>2 DEF Call
  <2> HIDE DEF next
  <2>2. CallOK(next)
    BY <1>2, <2>1 DEF CallOK, Named
  <2>3. Advance(w, next)
    BY <1>3 DEF next
  <2> QED
    BY <2>1, <2>2, <2>3, AdvanceTyped
<1>4. CASE FindGroup(w)
  BY <1>3, <1>4 DEF FindGroup, call
<1>5. CASE CheckMember(w)
  BY <1>3, <1>5 DEF CheckMember, call
<1>6. CASE CheckFriends(w)
  BY <1>3, <1>6 DEF CheckFriends, call
<1>7. CASE CheckBlocks(w)
  <2>1. Advance(w, AfterUser(call)) /\ call.op \in {"create", "add"}
    BY <1>7 DEF CheckBlocks, At, call
  <2>2. CASE call.pos < Len(call.targets)
    <3> DEFINE next == [call EXCEPT !.stage = "friends", !.pos = @ + 1]
    <3>1. Len(call.targets) \in Nat /\ call.pos + 1 \in Nat \ {0}
          /\ call.pos + 1 <= Len(call.targets)
      BY <1>2, <2>2 DEF Call
    <3>2. next \in Call /\ next.op = call.op /\ next.group = call.group
          /\ next.user = call.user /\ next.title = call.title
          /\ next.targets = call.targets /\ next.pos = call.pos + 1
      BY <1>2, <3>1 DEF Call
    <3>3. Advance(w, next)
      BY <2>1, <2>2 DEF AfterUser
    <3> HIDE DEF next
    <3>4. CallOK(next)
      BY <1>2, <2>1, <3>1, <3>2 DEF CallOK, Named
    <3> QED
      BY <3>2, <3>3, <3>4, AdvanceTyped
  <2>3. CASE ~ (call.pos < Len(call.targets))
    BY <1>3, <2>1, <2>3 DEF AfterUser
  <2> QED
    BY <2>2, <2>3
<1> QED
  BY <1>4, <1>5, <1>6, <1>7

\* A new call is typed.
LEMMA BeginTyped ==
  ASSUME TypeOK, NEW w \in Workers, Begin(w)
  PROVE  CallsOK'
<1>1. PICK op \in Operations, u \in Users :
        \E g \in IF op = "create" THEN {NoGroup} ELSE DOMAIN groups,
           title \in IF op \in {"create", "rename"} THEN Titles ELSE {NoTitle},
           t \in Targets(op, u) :
          calls' = Put(calls, w,
            [op |-> op, user |-> u, group |-> g, title |-> title, targets |-> t,
             pos |-> 1, stage |-> IF op = "create" THEN "friends" ELSE "find"])
  BY DEF Begin
<1>2. PICK g \in IF op = "create" THEN {NoGroup} ELSE DOMAIN groups,
           title \in IF op \in {"create", "rename"} THEN Titles ELSE {NoTitle},
           t \in Targets(op, u) :
          calls' = Put(calls, w,
            [op |-> op, user |-> u, group |-> g, title |-> title, targets |-> t,
             pos |-> 1, stage |-> IF op = "create" THEN "friends" ELSE "find"])
  BY <1>1
<1> DEFINE next ==
      [op |-> op, user |-> u, group |-> g, title |-> title, targets |-> t,
       pos |-> 1, stage |-> IF op = "create" THEN "friends" ELSE "find"]
<1>3. /\ t \in Seq(Users)
      /\ op \in {"create", "add"} => 1 <= Len(t)
      /\ op \in {"transfer", "remove", "leave"} => Len(t) = 1
      /\ op # "leave" => \A i \in DOMAIN t : t[i] # u
  BY TargetsTyped
<1>4. /\ g \in GroupIds \cup {NoGroup} /\ (op # "create" => g \in DOMAIN groups)
      /\ title \in Titles \cup {NoTitle}
      /\ op \in {"create", "rename"} => title \in Titles
  BY DEF TypeOK
<1>5. next \in Call
  <2> DEFINE stage == IF op = "create" THEN "friends" ELSE "find"
  <2>1. stage \in {"find", "member", "friends", "blocks", "write"}
    OBVIOUS
  <2>2. g \in GroupIds \cup {NoGroup} /\ title \in Titles \cup {NoTitle}
        /\ t \in Seq(Users)
    BY <1>3, <1>4
  <2> HIDE DEF stage
  <2>3. [op |-> op, user |-> u, group |-> g, title |-> title, targets |-> t,
         pos |-> 1, stage |-> stage] \in Call
    BY <2>1, <2>2 DEF Call
  <2> QED
    BY <2>3 DEF stage
<1>6. next.op = op /\ next.group = g /\ next.targets = t /\ next.pos = 1
      /\ next.user = u /\ next.title = title
  OBVIOUS
<1>7. calls' = Put(calls, w, next)
  BY <1>2
<1> HIDE DEF next
<1>8. CallOK(next)
  BY <1>3, <1>4, <1>6 DEF CallOK, Named
<1>9. UNCHANGED <<friends, blocks, groups>>
  BY DEF Begin
<1> QED
  BY <1>5, <1>7, <1>8, <1>9, AdvanceTyped DEF Advance

-------------------------------------------------------------------------------
(* Groups *)

GroupsOK ==
  /\ DOMAIN groups \subseteq GroupIds
  /\ groups = [g \in DOMAIN groups |-> groups[g]]
  /\ \A g \in DOMAIN groups : IsGroup(groups[g])

\* Nobody but the owner has the role, in one group.
RolesOK(group) ==
  \A u \in DOMAIN group.roles : group.roles[u] = "owner" => group.owner = u

\* The invariant is about each group by itself.
LEMMA RolesOfGroups ==
  OnlyOwnersHaveTheRole <=> \A g \in DOMAIN groups : RolesOK(groups[g])
BY DEF OnlyOwnersHaveTheRole, RolesOK, Members

\* Rewriting one group.
LEMMA RewriteGroup ==
  ASSUME GroupInv, NEW g \in DOMAIN groups, NEW group, IsGroup(group),
         RolesOK(group), groups' = [groups EXCEPT ![g] = group]
  PROVE  /\ GroupsOK' /\ OnlyOwnersHaveTheRole'
         /\ DOMAIN groups' = DOMAIN groups
         /\ groups'[g] = group
         /\ \A h \in DOMAIN groups : h # g => groups'[h] = groups[h]
<1>0. TypeOK /\ \A h \in DOMAIN groups : RolesOK(groups[h])
  BY RolesOfGroups DEF GroupInv
<1>1. /\ DOMAIN groups' = DOMAIN groups
      /\ groups'[g] = group
      /\ \A h \in DOMAIN groups : h # g => groups'[h] = groups[h]
      /\ groups' = [h \in DOMAIN groups' |-> groups'[h]]
  BY <1>0 DEF TypeOK
<1>2. ASSUME NEW h \in DOMAIN groups' PROVE IsGroup(groups'[h]) /\ RolesOK(groups'[h])
  <2>1. CASE h = g
    BY <1>1, <2>1
  <2>2. CASE h # g
    BY <1>0, <1>1, <2>2 DEF TypeOK
  <2> QED
    BY <2>1, <2>2
<1>3. OnlyOwnersHaveTheRole'
  BY <1>2 DEF OnlyOwnersHaveTheRole, RolesOK, Members
<1>4. GroupsOK'
  BY <1>0, <1>1, <1>2 DEF GroupsOK, TypeOK, IsGroup
<1> QED
  BY <1>1, <1>3, <1>4

\* A stored group, taken apart.
LEMMA GroupTyped ==
  ASSUME GroupInv, NEW g \in DOMAIN groups
  PROVE  /\ groups[g] = [owner |-> groups[g].owner, title |-> groups[g].title,
                         roles |-> groups[g].roles]
         /\ groups[g].owner \in Users /\ groups[g].title \in Titles
         /\ IsTable(groups[g].roles, Users, {"owner", "member"})
         /\ \A u \in DOMAIN groups[g].roles :
              groups[g].roles[u] = "owner" => groups[g].owner = u
BY DEF GroupInv, TypeOK, IsGroup, OnlyOwnersHaveTheRole, Members

\* A handler at its write: what it knows of its call.
LEMMA WriterTyped ==
  ASSUME TypeOK, NEW w, NEW ops, At(w, ops, "write")
  PROVE  /\ w \in DOMAIN calls /\ calls[w].op \in ops
         /\ calls[w].user \in Users
         /\ calls[w].op \in {"create", "rename"} => calls[w].title \in Titles
         /\ Named(calls[w]) \subseteq Users
         /\ calls[w].op # "create" => calls[w].group \in DOMAIN groups
         /\ calls[w].op \in {"transfer", "remove", "leave"} =>
              calls[w].targets[1] \in Users
         /\ calls[w].op # "leave" => calls[w].user \notin Named(calls[w])
         /\ calls[w].op = "transfer" => calls[w].targets[1] # calls[w].user
<1>1. /\ w \in DOMAIN calls /\ calls[w].op \in ops
      /\ calls[w] \in Call /\ CallOK(calls[w])
  BY CallTyped DEF At
<1>2. calls[w].targets \in Seq(Users)
  BY <1>1 DEF Call
<1>3. \A i \in DOMAIN calls[w].targets : calls[w].targets[i] \in Users
  BY <1>2
<1>4. Len(calls[w].targets) = 1 => 1 \in DOMAIN calls[w].targets
  BY <1>2
<1> QED
  BY <1>1, <1>3, <1>4 DEF Call, CallOK, Named

-------------------------------------------------------------------------------
(* Writes *)

\* What a write has to keep.
GroupStep == GroupsOK' /\ OnlyOwnersHaveTheRole'
             /\ DOMAIN groups \subseteq DOMAIN groups'

\* A new group: the creator has the role.
LEMMA CreateKeeps ==
  ASSUME GroupInv, NEW w \in Workers, CreateGroupConversation(w)
  PROVE  GroupStep
<1> DEFINE call == calls[w]
           roles == [u \in {call.user} \cup Named(call) |->
                       IF u = call.user THEN "owner" ELSE "member"]
           group == [owner |-> call.user, title |-> call.title, roles |-> roles]
<1>0. TypeOK /\ \A h \in DOMAIN groups : RolesOK(groups[h])
  BY RolesOfGroups DEF GroupInv
<1>1. At(w, {"create"}, "write")
  BY DEF CreateGroupConversation
<1>2. PICK g \in GroupIds \ DOMAIN groups : groups' = Put(groups, g, group)
  BY DEF CreateGroupConversation
<1>3. /\ call.user \in Users /\ call.title \in Titles
      /\ Named(call) \subseteq Users
  BY <1>0, <1>1, WriterTyped
<1>4. IsTable(roles, Users, {"owner", "member"})
      /\ \A u \in DOMAIN roles : roles[u] = "owner" => u = call.user
  BY <1>3 DEF IsTable
<1> HIDE DEF call, roles
<1>5. IsGroup(group) /\ RolesOK(group)
  BY <1>3, <1>4 DEF IsGroup, RolesOK
<1> HIDE DEF group
<1>6. /\ DOMAIN groups' = DOMAIN groups \cup {g}
      /\ groups'[g] = group
      /\ \A h \in DOMAIN groups : groups'[h] = groups[h]
      /\ groups' = [h \in DOMAIN groups' |-> groups'[h]]
  BY <1>2 DEF Put
<1>7. \A h \in DOMAIN groups' : IsGroup(groups'[h]) /\ RolesOK(groups'[h])
  BY <1>0, <1>5, <1>6 DEF TypeOK
<1>8. OnlyOwnersHaveTheRole'
  BY <1>7 DEF OnlyOwnersHaveTheRole, RolesOK, Members
<1>9. GroupsOK'
  BY <1>0, <1>6, <1>7 DEF GroupsOK, TypeOK, IsGroup
<1> QED
  BY <1>6, <1>8, <1>9 DEF GroupStep

\* A new title touches no role.
LEMMA RenameKeeps ==
  ASSUME GroupInv, NEW w \in Workers, RenameGroupConversation(w)
  PROVE  GroupStep
<1> DEFINE g == calls[w].group
           title == calls[w].title
           group == [groups[g] EXCEPT !.title = title]
<1>1. At(w, {"rename"}, "write") /\ groups' = [groups EXCEPT ![g] = group]
  BY DEF RenameGroupConversation
<1>2. g \in DOMAIN groups /\ title \in Titles
  BY <1>1, WriterTyped DEF GroupInv
<1> HIDE DEF g, title
<1>3. /\ group = [owner |-> groups[g].owner, title |-> title,
                  roles |-> groups[g].roles]
  BY <1>2, GroupTyped
<1> HIDE DEF group
<1>4. IsGroup(group) /\ RolesOK(group)
  BY <1>2, <1>3, GroupTyped DEF IsGroup, RolesOK
<1> QED
  BY <1>1, <1>2, <1>4, RewriteGroup DEF GroupStep

\* A transfer moves the role with created_by: the one who had it is the owner
\* the UPDATE asked for.
LEMMA TransferKeeps ==
  ASSUME GroupInv, NEW w \in Workers, TransferGroupConversationOwner(w)
  PROVE  /\ GroupStep
         /\ \E g \in DOMAIN groups :
              /\ {groups[g].owner, groups'[g].owner} \subseteq Members(g)
              /\ Members(g)' = Members(g)
              /\ groups'[g].roles[groups'[g].owner] = "owner"
              /\ \A h \in DOMAIN groups : h # g => groups'[h] = groups[h]
<1>0. PICK g \in DOMAIN groups : g = calls[w].group
  BY WriterTyped DEF GroupInv, TransferGroupConversationOwner
<1> DEFINE from == calls[w].user
           to == calls[w].targets[1]
           old == groups[g].roles
           roles == RolesAfter(old, from, to)
           group == [owner |-> to, title |-> groups[g].title, roles |-> roles]
<1>1. /\ At(w, {"transfer"}, "write") /\ MayTransfer(g, from, to)
      /\ groups' = [groups EXCEPT ![g] = group]
  BY <1>0 DEF TransferGroupConversationOwner
<1>2. g \in DOMAIN groups /\ to \in Users /\ to # from
  BY <1>1, WriterTyped DEF GroupInv
<1>3. /\ groups[g].owner = from /\ from \in DOMAIN old /\ to \in DOMAIN old
  BY <1>1 DEF MayTransfer, Members
<1>4. /\ groups[g] = [owner |-> from, title |-> groups[g].title, roles |-> old]
      /\ groups[g].title \in Titles
      /\ IsTable(old, Users, {"owner", "member"})
      /\ \A u \in DOMAIN old : old[u] = "owner" => u = from
  BY <1>2, <1>3, GroupTyped
<1> HIDE DEF from, to, old
<1>5. /\ IsTable(roles, Users, {"owner", "member"})
      /\ DOMAIN roles = DOMAIN old
      /\ roles[to] = "owner"
      /\ \A u \in DOMAIN roles : roles[u] = "owner" => u = to
  BY <1>2, <1>3, <1>4 DEF RolesAfter, IsTable
<1> HIDE DEF roles
<1>7. IsGroup(group) /\ RolesOK(group) /\ group.owner = to /\ group.roles = roles
  BY <1>2, <1>4, <1>5 DEF IsGroup, RolesOK
<1>8. /\ GroupsOK' /\ OnlyOwnersHaveTheRole'
      /\ DOMAIN groups' = DOMAIN groups
      /\ groups'[g] = group
      /\ \A h \in DOMAIN groups : h # g => groups'[h] = groups[h]
  BY <1>1, <1>2, <1>7, RewriteGroup
<1>9. Members(g) = DOMAIN old /\ Members(g)' = DOMAIN roles
  BY <1>7, <1>8 DEF Members, old
<1> QED
  BY <1>2, <1>3, <1>5, <1>7, <1>8, <1>9 DEF GroupStep

\* Whoever is added comes as a member.
LEMMA AddKeeps ==
  ASSUME GroupInv, NEW w \in Workers, AddConversationMembers(w)
  PROVE  GroupStep
<1> DEFINE g == calls[w].group
           named == Named(calls[w])
           old == groups[g].roles
           new == [u \in named |-> "member"]
           roles == Merge(old, new)
           group == [groups[g] EXCEPT !.roles = roles]
<1>1. At(w, {"add"}, "write") /\ groups' = [groups EXCEPT ![g] = group]
  BY DEF AddConversationMembers
<1>2. g \in DOMAIN groups /\ named \subseteq Users
  BY <1>1, WriterTyped DEF GroupInv
<1> HIDE DEF g, named
<1>3. IsTable(old, Users, {"owner", "member"})
  BY <1>2, GroupTyped
<1>4. IsTable(new, Users, {"owner", "member"})
  BY <1>2 DEF IsTable
<1>5. IsTable(roles, Users, {"owner", "member"})
  BY <1>3, <1>4, MergeIsTable
<1>6. \A u \in DOMAIN roles :
        roles[u] = "owner" => u \in DOMAIN old /\ old[u] = "owner"
  BY DEF Merge
<1> HIDE DEF roles
<1>7. group = [owner |-> groups[g].owner, title |-> groups[g].title,
               roles |-> roles]
  BY <1>2, GroupTyped
<1> HIDE DEF group
<1>8. IsGroup(group) /\ RolesOK(group)
  BY <1>2, <1>5, <1>6, <1>7, GroupTyped DEF IsGroup, RolesOK
<1> QED
  BY <1>1, <1>2, <1>8, RewriteGroup DEF GroupStep

\* Whoever leaves takes their role along.
LEMMA RemoveKeeps ==
  ASSUME GroupInv, NEW w \in Workers, RemoveConversationMember(w)
  PROVE  GroupStep
<1> DEFINE g == calls[w].group
           gone == {calls[w].targets[1]}
           old == groups[g].roles
           roles == Remove(old, gone)
           group == [groups[g] EXCEPT !.roles = roles]
<1>1. At(w, {"remove", "leave"}, "write")
      /\ groups' = [groups EXCEPT ![g] = group]
  BY DEF RemoveConversationMember
<1>2. g \in DOMAIN groups
  BY <1>1, WriterTyped DEF GroupInv
<1> HIDE DEF g, gone
<1>3. IsTable(roles, Users, {"owner", "member"})
  BY <1>2, GroupTyped, RemoveIsTable
<1>4. \A u \in DOMAIN roles : u \in DOMAIN old /\ roles[u] = old[u]
  BY DEF Remove
<1> HIDE DEF roles
<1>5. group = [owner |-> groups[g].owner, title |-> groups[g].title,
               roles |-> roles]
  BY <1>2, GroupTyped
<1> HIDE DEF group
<1>6. IsGroup(group) /\ RolesOK(group)
  BY <1>2, <1>3, <1>4, <1>5, GroupTyped DEF IsGroup, RolesOK
<1> QED
  BY <1>1, <1>2, <1>6, RewriteGroup DEF GroupStep

-------------------------------------------------------------------------------
(* Steps *)

\* Whatever other handlers do to friendships and blocks.
LEMMA SocialTyped ==
  ASSUME TypeOK, FriendshipsNext
  PROVE  friends' \subseteq SUBSET Users /\ blocks' \subseteq Users \X Users
<1>1. friends \subseteq SUBSET Users /\ blocks \subseteq Users \X Users
  BY DEF TypeOK
<1>2. PICK u \in Users, v \in Users :
        Befriend(u, v) \/ Unfriend(u, v) \/ Block(u, v) \/ Unblock(u, v)
  BY DEF FriendshipsNext
<1> QED
  BY <1>1, <1>2 DEF Befriend, Unfriend, Block, Unblock

\* The invariant holds in the empty database.
LEMMA GroupInit == Init => GroupInv
BY DEF Init, FriendshipsInit, GroupInv, TypeOK, OnlyOwnersHaveTheRole, NoRows,
       IsTable

\* Every statement of every handler keeps the invariant.
LEMMA HandlerKeeps ==
  ASSUME GroupInv, NEW w \in Workers, Handler(w)
  PROVE  GroupInv'
<1>0. /\ TypeOK /\ GroupsOK /\ OnlyOwnersHaveTheRole
      /\ friends \subseteq SUBSET Users /\ blocks \subseteq Users \X Users
  BY DEF GroupInv, TypeOK, GroupsOK
<1>1. UNCHANGED <<friends, blocks>>
  BY ChecksTyped, <1>0
     DEF Handler, Begin, CreateGroupConversation, RenameGroupConversation,
         TransferGroupConversationOwner, AddConversationMembers,
         RemoveConversationMember, Abort
<1>2. ASSUME UNCHANGED groups, CallsOK' PROVE GroupInv'
  <2>1. GroupsOK' /\ OnlyOwnersHaveTheRole'
    BY <1>0, <1>2 DEF GroupsOK, IsGroup, OnlyOwnersHaveTheRole, Members
  <2> QED
    BY <1>0, <1>1, <1>2, <2>1 DEF GroupInv, TypeOK, GroupsOK, CallsOK
<1>3. ASSUME GroupStep, Finish(w) PROVE GroupInv'
  <2>1. CallsOK'
    BY <1>0, <1>3, FinishTyped DEF GroupStep
  <2> QED
    BY <1>0, <1>1, <1>3, <2>1 DEF GroupStep, GroupInv, TypeOK, GroupsOK, CallsOK
<1>4. CASE Begin(w)
  BY <1>0, <1>2, <1>4, BeginTyped DEF Begin
<1>5. CASE FindGroup(w) \/ CheckMember(w) \/ CheckFriends(w) \/ CheckBlocks(w)
  BY <1>0, <1>2, <1>5, ChecksTyped
<1>6. CASE Abort(w)
  BY <1>0, <1>2, <1>6, FinishTyped DEF Abort
<1>7. CASE \/ CreateGroupConversation(w) \/ RenameGroupConversation(w)
           \/ TransferGroupConversationOwner(w) \/ AddConversationMembers(w)
           \/ RemoveConversationMember(w)
  <2>1. GroupStep
    BY <1>7, CreateKeeps, RenameKeeps, TransferKeeps, AddKeeps, RemoveKeeps
  <2>2. Finish(w)
    BY <1>7 DEF CreateGroupConversation, RenameGroupConversation,
                TransferGroupConversationOwner, AddConversationMembers,
                RemoveConversationMember
  <2> QED
    BY <1>3, <2>1, <2>2
<1> QED
  BY <1>4, <1>5, <1>6, <1>7 DEF Handler

\* So does every step.
LEMMA GroupNext ==
  GroupInv /\ [Next]_vars => GroupInv'
<1> SUFFICES ASSUME GroupInv, [Next]_vars PROVE GroupInv'
  OBVIOUS
<1>1. CASE Social
  <2>1. UNCHANGED <<groups, calls>>
    BY <1>1 DEF Social, groupVars
  <2>2. friends' \subseteq SUBSET Users /\ blocks' \subseteq Users \X Users
    BY <1>1, SocialTyped DEF Social, GroupInv
  <2>3. TypeOK'
    BY <2>1, <2>2 DEF GroupInv, TypeOK, IsGroup, CallOK
  <2>4. OnlyOwnersHaveTheRole'
    BY <2>1 DEF GroupInv, OnlyOwnersHaveTheRole, Members
  <2> QED
    BY <2>3, <2>4 DEF GroupInv
<1>2. CASE UNCHANGED vars
  BY <1>2 DEF vars, GroupInv, TypeOK, IsGroup, CallOK, OnlyOwnersHaveTheRole,
              Members
<1> QED
  BY <1>1, <1>2, HandlerKeeps DEF Next

-------------------------------------------------------------------------------

\* Every group and every handler has its type.
THEOREM GroupTypeCorrect ==
  Spec => []TypeOK
<1>1. GroupInv => TypeOK
  BY DEF GroupInv
<1> QED
  BY <1>1, GroupInit, GroupNext, PTL DEF Spec

\* However many transfers, additions and departures overlap, nobody but the
\* owner of a group has the role of one.
THEOREM OneOwnerRole ==
  Spec => []OnlyOwnersHaveTheRole
<1>1. GroupInv => OnlyOwnersHaveTheRole
  BY DEF GroupInv
<1> QED
  BY <1>1, GroupInit, GroupNext, PTL DEF Spec

\* Only the transaction of a transfer changes the owner of a group, from one
\* member to another.
LEMMA HandOver ==
  ASSUME GroupInv, [Next]_vars, NEW g \in DOMAIN groups,
         groups'[g].owner # groups[g].owner
  PROVE  /\ {groups[g].owner, groups'[g].owner} \subseteq Members(g)
         /\ Members(g)' = Members(g)
         /\ groups'[g].roles[groups'[g].owner] = "owner"
<1>0. TypeOK
  BY DEF GroupInv
<1>1. PICK w \in Workers : Handler(w)
  BY DEF Next, Social, groupVars, vars
<1>2. ~ UNCHANGED groups
  OBVIOUS
<1>3. CASE TransferGroupConversationOwner(w)
  BY <1>3, TransferKeeps
<1>4. CASE CreateGroupConversation(w)
  BY <1>4 DEF CreateGroupConversation, Put
<1>5. ASSUME NEW h \in DOMAIN groups, NEW group, group.owner = groups[h].owner,
             groups' = [groups EXCEPT ![h] = group]
      PROVE  FALSE
  BY <1>5
<1>6. CASE RenameGroupConversation(w)
  <2> DEFINE h == calls[w].group
             group == [groups[h] EXCEPT !.title = calls[w].title]
  <2>1. h \in DOMAIN groups
    BY <1>0, <1>6, WriterTyped DEF RenameGroupConversation
  <2>2. group.owner = groups[h].owner
    BY <2>1, GroupTyped
  <2>3. groups' = [groups EXCEPT ![h] = group]
    BY <1>6 DEF RenameGroupConversation
  <2> HIDE DEF group
  <2> QED
    BY <1>5, <2>1, <2>2, <2>3
<1>7. CASE AddConversationMembers(w)
  <2> DEFINE h == calls[w].group
             group == [groups[h] EXCEPT !.roles =
                         Merge(@, [u \in Named(calls[w]) |-> "member"])]
  <2>1. h \in DOMAIN groups
    BY <1>0, <1>7, WriterTyped DEF AddConversationMembers
  <2>2. group.owner = groups[h].owner
    BY <2>1, GroupTyped
  <2>3. groups' = [groups EXCEPT ![h] = group]
    BY <1>7 DEF AddConversationMembers
  <2> HIDE DEF group
  <2> QED
    BY <1>5, <2>1, <2>2, <2>3
<1>8. CASE RemoveConversationMember(w)
  <2> DEFINE h == calls[w].group
             group == [groups[h] EXCEPT !.roles =
                         Remove(@, {calls[w].targets[1]})]
  <2>1. h \in DOMAIN groups
    BY <1>0, <1>8, WriterTyped DEF RemoveConversationMember
  <2>2. group.owner = groups[h].owner
    BY <2>1, GroupTyped
  <2>3. groups' = [groups EXCEPT ![h] = group]
    BY <1>8 DEF RemoveConversationMember
  <2> HIDE DEF group
  <2> QED
    BY <1>5, <2>1, <2>2, <2>3
<1> QED
  BY <1>0, <1>1, <1>2, <1>3, <1>4, <1>6, <1>7, <1>8, ChecksTyped
  DEF Handler, Begin, Abort

\* Ownership passes between two members, for any number of handlers.
THEOREM OwnershipPassesBetweenMembers ==
  Spec => OwnershipIsHandedOver
<1>1. GroupInv /\ [Next]_vars =>
        [\A g \in DOMAIN groups :
           groups'[g].owner # groups[g].owner =>
             /\ {groups[g].owner, groups'[g].owner} \subseteq Members(g)
             /\ Members(g)' = Members(g)
             /\ groups'[g].roles[groups'[g].owner] = "owner"]_vars
  BY HandOver
<1> QED
  BY <1>1, GroupInit, GroupNext, PTL DEF Spec, OwnershipIsHandedOver

-------------------------------------------------------------------------------
(* Nothing beside a handler *)

Alone == \A w1, w2 \in DOMAIN calls : w1 = w2

\* A group has its owner among its members, with the role.
HasItsOwner(group) ==
  group.owner \in DOMAIN group.roles /\ group.roles[group.owner] = "owner"

MayBeAdded(u, v) ==
  {u, v} \in friends /\ {<<u, v>>, <<v, u>>} \cap blocks = {}

\* What the one handler under way has made sure of: once it has read the group,
\* its answers still stand, and the loop over the users it adds leaves friends
\* without a block behind.
Checked(w) ==
  LET call == calls[w]
  IN /\ call.op = "leave" => call.targets[1] = call.user
     /\ call.op # "create" /\ call.stage # "find" => MayGoOn(call)
     /\ call.op = "add" =>
          \A i \in DOMAIN call.targets :
            /\ i < call.pos \/ call.stage = "write" =>
                 MayBeAdded(call.user, call.targets[i])
            /\ i = call.pos /\ call.stage = "blocks" =>
                 {call.user, call.targets[i]} \in friends

SerialInv ==
  /\ GroupInv
  /\ ~ overlapped =>
       /\ Alone
       /\ OwnerIsMember
       /\ \A w \in DOMAIN calls : Checked(w)

\* The property of groups is one of each group.
LEMMA OwnersOfGroups ==
  OwnerIsMember <=> \A g \in DOMAIN groups : HasItsOwner(groups[g])
BY DEF OwnerIsMember, HasItsOwner, Members

\* A second handler next to a first one is two of them.
LEMMA NotBesideIsAlone ==
  ASSUME Alone, NEW w, DOMAIN calls' \subseteq DOMAIN calls \cup {w}, ~ Beside
  PROVE  Alone'
<1> SUFFICES ASSUME NEW w1 \in DOMAIN calls', NEW w2 \in DOMAIN calls', w1 # w2
             PROVE  FALSE
  BY DEF Alone
<1>1. IsFiniteSet(DOMAIN calls')
  <2>1. CASE DOMAIN calls = {}
    BY <2>1, FS_EmptySet, FS_AddElement, FS_Subset
  <2>2. CASE DOMAIN calls # {}
    <3>1. PICK x : DOMAIN calls = {x}
      BY <2>2 DEF Alone
    <3>2. IsFiniteSet({x})
      BY FS_EmptySet, FS_AddElement
    <3>3. IsFiniteSet(DOMAIN calls \cup {w})
      BY <3>1, <3>2, FS_AddElement
    <3> QED
      BY <3>3, FS_Subset
  <2> QED
    BY <2>1, <2>2
<1>2. {w1, w2} \subseteq DOMAIN calls'
  OBVIOUS
<1>3. Cardinality({w1, w2}) = 2 /\ IsFiniteSet({w1, w2})
  <2>1. IsFiniteSet({w1}) /\ Cardinality({w1}) = 1
    BY FS_Singleton
  <2>2. {w1} \cup {w2} = {w1, w2} /\ w2 \notin {w1}
    OBVIOUS
  <2> QED
    BY <2>1, <2>2, FS_AddElement
<1>4. Cardinality({w1, w2}) <= Cardinality(DOMAIN calls')
      /\ Cardinality(DOMAIN calls') \in Nat
  BY <1>1, <1>2, FS_Subset, FS_CardinalityType
<1> QED
  BY <1>3, <1>4 DEF Beside

\* The call of a handler that is under way has a list of users.
LEMMA TargetsOfCall ==
  ASSUME TypeOK, NEW w \in DOMAIN calls
  PROVE  /\ Len(calls[w].targets) \in Nat
         /\ DOMAIN calls[w].targets = 1 .. Len(calls[w].targets)
         /\ calls[w].pos \in Nat \ {0}
<1>1. calls[w] \in Call
  BY CallTyped
<1> QED
  BY <1>1 DEF Call

\* What a step of the only handler leaves to show.
SerialStep ==
  /\ OwnerIsMember'
  /\ \A w \in DOMAIN calls' : Checked(w)'
  /\ WrittenByOwner
  /\ FriendsAreAdded

\* A step that goes on to another call writes no group.
LEMMA AdvanceSerial ==
  ASSUME OwnerIsMember, Alone', NEW w, NEW next, Advance(w, next), Checked(w)'
  PROVE  SerialStep
<1>1. /\ calls' = Put(calls, w, next) /\ UNCHANGED <<friends, blocks, groups>>
  BY DEF Advance
<1>2. w \in DOMAIN calls' /\ DOMAIN calls \subseteq DOMAIN calls'
  BY <1>1 DEF Put
<1>3. \A x \in DOMAIN calls' : Checked(x)'
  BY <1>2 DEF Alone
<1>4. OwnerIsMember'
  BY <1>1 DEF OwnerIsMember, Members
<1>5. WrittenByOwner /\ FriendsAreAdded
  BY <1>1 DEF WrittenByOwner, FriendsAreAdded, Members
<1> QED
  BY <1>3, <1>4, <1>5 DEF SerialStep

\* The checks.
LEMMA ChecksSerial ==
  ASSUME TypeOK, OwnerIsMember, Alone', NEW w \in Workers,
         \A x \in DOMAIN calls : Checked(x),
         FindGroup(w) \/ CheckMember(w) \/ CheckFriends(w) \/ CheckBlocks(w)
  PROVE  SerialStep
<1> DEFINE call == calls[w]
<1>1. w \in DOMAIN calls /\ UNCHANGED <<friends, blocks, groups>>
  BY DEF FindGroup, CheckMember, CheckFriends, CheckBlocks, At, Advance
<1>2. call \in Call /\ Checked(w)
  BY <1>1, CallTyped
<1>3. /\ Len(call.targets) \in Nat /\ DOMAIN call.targets = 1 .. Len(call.targets)
      /\ call.pos \in Nat \ {0}
  BY <1>1, TargetsOfCall
<1>4. \A u, v : MayBeAdded(u, v)' <=> MayBeAdded(u, v)
  BY <1>1 DEF MayBeAdded
<1>5. ASSUME NEW next, Advance(w, next),
             next.op = call.op, next.group = call.group, next.user = call.user,
             next.targets = call.targets,
             next.op # "create" => MayGoOn(call),
             next.op = "add" =>
               \A i \in DOMAIN call.targets :
                 /\ i < next.pos \/ next.stage = "write" =>
                      MayBeAdded(call.user, call.targets[i])
                 /\ i = next.pos /\ next.stage = "blocks" =>
                      {call.user, call.targets[i]} \in friends
      PROVE  SerialStep
  <2>1. calls'[w] = next
    BY <1>5 DEF Advance, Put
  <2>2. MayGoOn(call) => MayGoOn(calls[w])'
    BY <1>1, <1>5, <2>1 DEF MayGoOn, Members
  <2> HIDE DEF call
  <2>3. Checked(w)'
    BY <1>1, <1>2, <1>4, <1>5, <2>1, <2>2 DEF Checked, call
  <2> QED
    BY <1>5, <2>3, AdvanceSerial
<1>6. ASSUME NEW stage
      PROVE  LET next == [call EXCEPT !.stage = stage]
             IN /\ next.op = call.op /\ next.group = call.group
                /\ next.user = call.user /\ next.targets = call.targets
                /\ next.pos = call.pos /\ next.stage = stage
  BY <1>2 DEF Call
<1>7. CASE FindGroup(w)
  <2> DEFINE next == [call EXCEPT !.stage = "member"]
  <2>1. call.stage = "find" /\ MayGoOn(call) /\ Advance(w, next)
    BY <1>7 DEF FindGroup, At
  <2>2. /\ next.op = call.op /\ next.group = call.group
        /\ next.user = call.user /\ next.targets = call.targets
        /\ next.pos = call.pos /\ next.stage = "member"
    BY <1>6
  <2> HIDE DEF next
  <2>3. call.op = "add" => \A i \in DOMAIN call.targets : i < call.pos =>
          MayBeAdded(call.user, call.targets[i])
    BY <1>2 DEF Checked
  <2> HIDE DEF call
  <2> QED
    BY <1>5, <2>1, <2>2, <2>3
<1>8. CASE CheckMember(w)
  <2> DEFINE stage == IF call.op = "add" THEN "friends" ELSE "write"
             next == [call EXCEPT !.stage = stage]
  <2>1. call.stage = "member" /\ Advance(w, next)
    BY <1>8 DEF CheckMember, At
  <2>2. /\ next.op = call.op /\ next.group = call.group
        /\ next.user = call.user /\ next.targets = call.targets
        /\ next.pos = call.pos /\ next.stage = stage
    BY <1>6
  <2> HIDE DEF next
  <2>3. /\ call.op # "create" => MayGoOn(call)
        /\ call.op = "add" => \A i \in DOMAIN call.targets : i < call.pos =>
             MayBeAdded(call.user, call.targets[i])
    BY <1>2, <2>1 DEF Checked
  <2> HIDE DEF call
  <2> QED
    BY <1>5, <2>1, <2>2, <2>3
<1>9. CASE CheckFriends(w)
  <2> DEFINE next == [call EXCEPT !.stage = "blocks"]
  <2>1. /\ call.stage = "friends" /\ Advance(w, next)
        /\ {call.user, call.targets[call.pos]} \in friends
    BY <1>9 DEF CheckFriends, At
  <2>2. /\ next.op = call.op /\ next.group = call.group
        /\ next.user = call.user /\ next.targets = call.targets
        /\ next.pos = call.pos /\ next.stage = "blocks"
    BY <1>6
  <2> HIDE DEF next
  <2>3. /\ call.op # "create" => MayGoOn(call)
        /\ call.op = "add" => \A i \in DOMAIN call.targets : i < call.pos =>
             MayBeAdded(call.user, call.targets[i])
    BY <1>2, <2>1 DEF Checked
  <2> HIDE DEF call
  <2> QED
    BY <1>5, <2>1, <2>2, <2>3
<1>10. CASE CheckBlocks(w)
  <2>1. /\ At(w, {"create", "add"}, "blocks") /\ Advance(w, AfterUser(call))
        /\ {<<call.user, call.targets[call.pos]>>,
            <<call.targets[call.pos], call.user>>} \cap blocks = {}
    BY <1>10 DEF CheckBlocks
  <2>2. call.stage = "blocks"
    BY <2>1 DEF At
  <2>3. /\ call.op # "create" => MayGoOn(call)
        /\ call.op = "add" => \A i \in DOMAIN call.targets :
             /\ i < call.pos => MayBeAdded(call.user, call.targets[i])
             /\ i = call.pos => {call.user, call.targets[i]} \in friends
    BY <1>2, <2>2 DEF Checked
  <2>4. call.op = "add" => \A i \in DOMAIN call.targets :
          i <= call.pos => MayBeAdded(call.user, call.targets[i])
    <3> HIDE DEF call
    <3> QED
      BY <1>3, <2>1, <2>3 DEF MayBeAdded
  <2>5. CASE call.pos < Len(call.targets)
    <3> DEFINE next == [call EXCEPT !.stage = "friends", !.pos = @ + 1]
    <3>1. Advance(w, next)
      BY <2>1, <2>5 DEF AfterUser
    <3>2. /\ next.op = call.op /\ next.group = call.group
          /\ next.user = call.user /\ next.targets = call.targets
          /\ next.pos = call.pos + 1 /\ next.stage = "friends"
      BY <1>2 DEF Call
    <3> HIDE DEF next, call
    <3> QED
      BY <1>3, <1>5, <2>3, <2>4, <3>1, <3>2
  <2>6. CASE ~ (call.pos < Len(call.targets))
    <3> DEFINE next == [call EXCEPT !.stage = "write"]
    <3>1. Advance(w, next)
      BY <2>1, <2>6 DEF AfterUser
    <3>2. /\ next.op = call.op /\ next.group = call.group
          /\ next.user = call.user /\ next.targets = call.targets
          /\ next.pos = call.pos /\ next.stage = "write"
      BY <1>6
    <3> HIDE DEF next, call
    <3> QED
      BY <1>3, <1>5, <2>3, <2>4, <2>6, <3>1, <3>2
  <2> QED
    BY <2>5, <2>6
<1> QED
  BY <1>7, <1>8, <1>9, <1>10

\* A new handler.
LEMMA BeginSerial ==
  ASSUME TypeOK, OwnerIsMember, Alone', NEW w \in Workers, Begin(w)
  PROVE  SerialStep
<1>1. PICK op \in Operations, u \in Users :
        \E t \in Targets(op, u) : \E g, title :
          calls' = Put(calls, w,
            [op |-> op, user |-> u, group |-> g, title |-> title, targets |-> t,
             pos |-> 1, stage |-> IF op = "create" THEN "friends" ELSE "find"])
  BY DEF Begin
<1>2. PICK t \in Targets(op, u) : \E g, title :
          calls' = Put(calls, w,
            [op |-> op, user |-> u, group |-> g, title |-> title, targets |-> t,
             pos |-> 1, stage |-> IF op = "create" THEN "friends" ELSE "find"])
  BY <1>1
<1>g. PICK g, title :
          calls' = Put(calls, w,
            [op |-> op, user |-> u, group |-> g, title |-> title, targets |-> t,
             pos |-> 1, stage |-> IF op = "create" THEN "friends" ELSE "find"])
  BY <1>2
<1> DEFINE next ==
      [op |-> op, user |-> u, group |-> g, title |-> title, targets |-> t,
       pos |-> 1, stage |-> IF op = "create" THEN "friends" ELSE "find"]
<1>3. Advance(w, next) /\ calls'[w] = next
  BY <1>g DEF Begin, Advance, Put
<1>4. op = "leave" => t[1] = u
  BY DEF Targets
<1>5. \A i \in DOMAIN t : ~ (i < 1)
  <2>1. t \in Seq(Users)
    BY TargetsTyped
  <2>2. DOMAIN t = 1 .. Len(t) /\ Len(t) \in Nat
    BY <2>1
  <2> QED
    BY <2>2
<1>6. /\ next.op = op /\ next.user = u /\ next.targets = t /\ next.pos = 1
      /\ next.op # "create" => next.stage = "find"
  OBVIOUS
<1> HIDE DEF next
<1>7. Checked(w)'
  BY <1>3, <1>4, <1>5, <1>6 DEF Checked
<1> QED
  BY <1>3, <1>7, AdvanceSerial

\* The only handler writes and ends.
LEMMA WritesSerial ==
  ASSUME GroupInv, OwnerIsMember, Alone, NEW w \in Workers,
         \A x \in DOMAIN calls : Checked(x),
         \/ CreateGroupConversation(w) \/ RenameGroupConversation(w)
         \/ TransferGroupConversationOwner(w) \/ AddConversationMembers(w)
         \/ RemoveConversationMember(w)
  PROVE  SerialStep
<1> DEFINE call == calls[w]
           g == call.group
<1>0. TypeOK /\ \A h \in DOMAIN groups : HasItsOwner(groups[h])
  BY OwnersOfGroups DEF GroupInv
<1>1. /\ \E op \in Operations : At(w, {op}, "write")
      /\ Finish(w)
  BY DEF CreateGroupConversation, RenameGroupConversation, At, Operations,
         TransferGroupConversationOwner, AddConversationMembers,
         RemoveConversationMember
<1>2. w \in DOMAIN calls /\ call.stage = "write" /\ Checked(w)
  BY <1>1 DEF At
<1>3. DOMAIN calls = {w} /\ DOMAIN calls' = {}
  <2>1. DOMAIN calls' = DOMAIN calls \ {w}
    BY <1>1 DEF Finish, Remove
  <2> QED
    BY <1>2, <2>1 DEF Alone
<1>4. /\ call.user \in Users /\ Named(call) \subseteq Users
      /\ call.op # "create" => g \in DOMAIN groups
      /\ call.op # "leave" => call.user \notin Named(call)
      /\ call.op \in {"transfer", "remove", "leave"} => call.targets[1] \in Named(call)
  <2>1. CallOK(call) /\ call \in Call
    BY <1>0, <1>2, CallTyped
  <2>2. Len(call.targets) = 1 => 1 \in DOMAIN call.targets
    BY <2>1 DEF Call
  <2> QED
    BY <1>0, <1>1, <2>1, <2>2, WriterTyped DEF CallOK, Named
<1>5. call.op # "create" => MayGoOn(call)
  BY <1>2 DEF Checked
<1>6. call.op \notin {"create", "leave"} => groups[g].owner = call.user
  BY <1>5 DEF MayGoOn
<1>7. WrittenByOwner
  BY <1>3, <1>6 DEF WrittenByOwner
<1>8. SUFFICES OwnerIsMember' /\ FriendsAreAdded
  BY <1>3, <1>7 DEF SerialStep
<1>9. ASSUME NEW group, HasItsOwner(group), g \in DOMAIN groups,
             groups' = [groups EXCEPT ![g] = group],
             \A u \in DOMAIN group.roles \ Members(g) :
               MayBeAdded(groups[g].owner, u)
      PROVE  OwnerIsMember' /\ FriendsAreAdded
  <2>1. /\ DOMAIN groups' = DOMAIN groups /\ groups'[g] = group
        /\ \A h \in DOMAIN groups : h # g => groups'[h] = groups[h]
    BY <1>9
  <2>2. OwnerIsMember'
    BY <1>0, <1>9, <2>1 DEF OwnerIsMember, HasItsOwner, Members
  <2>3. FriendsAreAdded
    <3> SUFFICES ASSUME NEW h \in DOMAIN groups, NEW u \in Members(h)' \ Members(h)
                 PROVE  MayBeAdded(groups[h].owner, u)
      BY DEF FriendsAreAdded, MayBeAdded
    <3>1. h = g
      BY <2>1 DEF Members
    <3> QED
      BY <1>9, <2>1, <3>1 DEF Members
  <2> QED
    BY <2>2, <2>3
<1>10. CASE CreateGroupConversation(w)
  <2> DEFINE roles == [u \in {call.user} \cup Named(call) |->
                         IF u = call.user THEN "owner" ELSE "member"]
             group == [owner |-> call.user, title |-> call.title, roles |-> roles]
  <2>1. PICK h \in GroupIds \ DOMAIN groups : groups' = Put(groups, h, group)
    BY <1>10 DEF CreateGroupConversation
  <2>2. HasItsOwner(group)
    BY DEF HasItsOwner
  <2> HIDE DEF group
  <2>3. /\ DOMAIN groups' = DOMAIN groups \cup {h} /\ groups'[h] = group
        /\ \A k \in DOMAIN groups : groups'[k] = groups[k]
    BY <2>1 DEF Put
  <2>4. OwnerIsMember'
    BY <1>0, <2>2, <2>3 DEF OwnerIsMember, HasItsOwner, Members
  <2>5. FriendsAreAdded
    BY <2>3 DEF FriendsAreAdded, Members
  <2> QED
    BY <2>4, <2>5
<1>11. CASE RenameGroupConversation(w)
  <2> DEFINE group == [groups[g] EXCEPT !.title = call.title]
  <2>1. call.op = "rename" /\ groups' = [groups EXCEPT ![g] = group]
    BY <1>11 DEF RenameGroupConversation, At
  <2>2. group.owner = groups[g].owner /\ group.roles = groups[g].roles
    BY <1>4, <2>1, GroupTyped
  <2> HIDE DEF group
  <2> QED
    BY <1>0, <1>4, <1>9, <2>1, <2>2 DEF HasItsOwner, Members
<1>12. CASE TransferGroupConversationOwner(w)
  <2> DEFINE to == call.targets[1]
             roles == RolesAfter(groups[g].roles, call.user, to)
             group == [owner |-> to, title |-> groups[g].title, roles |-> roles]
  <2>1. /\ call.op = "transfer" /\ MayTransfer(g, call.user, to)
        /\ groups' = [groups EXCEPT ![g] = group]
    BY <1>12 DEF TransferGroupConversationOwner, At
  <2>2. g \in DOMAIN groups /\ to \in Members(g)
    BY <1>4, <2>1 DEF MayTransfer
  <2>3. IsTable(groups[g].roles, Users, {"owner", "member"})
    BY <2>2, GroupTyped
  <2>4. DOMAIN roles = Members(g) /\ roles[to] = "owner"
    BY <2>2, <2>3 DEF RolesAfter, IsTable, Members
  <2>5. group.owner = to /\ group.roles = roles
    OBVIOUS
  <2> HIDE DEF roles, group, to
  <2> QED
    BY <1>9, <2>1, <2>2, <2>4, <2>5 DEF HasItsOwner
<1>13. CASE AddConversationMembers(w)
  <2> DEFINE new == [u \in Named(call) |-> "member"]
             roles == Merge(groups[g].roles, new)
             group == [groups[g] EXCEPT !.roles = roles]
  <2>1. call.op = "add" /\ groups' = [groups EXCEPT ![g] = group]
    BY <1>13 DEF AddConversationMembers, At
  <2>2. /\ g \in DOMAIN groups /\ groups[g].owner = call.user
        /\ call.user \notin Named(call)
    BY <1>4, <1>6, <2>1
  <2>3. group.owner = groups[g].owner /\ group.roles = roles
    BY <2>2, GroupTyped
  <2>4. /\ DOMAIN roles = Members(g) \cup Named(call)
        /\ \A u \in Members(g) \ Named(call) : roles[u] = groups[g].roles[u]
    BY DEF Merge, Members
  <2> HIDE DEF roles, group
  <2>5. HasItsOwner(group)
    BY <1>0, <2>2, <2>3, <2>4 DEF HasItsOwner, Members
  <2>6. \A u \in Named(call) : MayBeAdded(call.user, u)
    BY <1>2, <2>1 DEF Checked, Named
  <2> QED
    BY <1>9, <2>1, <2>2, <2>3, <2>4, <2>5, <2>6
<1>14. CASE RemoveConversationMember(w)
  <2> DEFINE roles == Remove(groups[g].roles, {call.targets[1]})
             group == [groups[g] EXCEPT !.roles = roles]
  <2>1. call.op \in {"remove", "leave"} /\ groups' = [groups EXCEPT ![g] = group]
    BY <1>14 DEF RemoveConversationMember, At
  <2>2. g \in DOMAIN groups
    BY <1>4, <2>1
  <2>3. call.targets[1] # groups[g].owner
    <3>1. CASE call.op = "remove"
      BY <1>4, <1>6, <3>1
    <3>2. CASE call.op = "leave"
      BY <1>2, <1>5, <3>2 DEF Checked, MayGoOn
    <3> QED
      BY <2>1, <3>1, <3>2
  <2>4. group.owner = groups[g].owner /\ group.roles = roles
    BY <2>2, GroupTyped
  <2>5. /\ DOMAIN roles = Members(g) \ {call.targets[1]}
        /\ \A u \in DOMAIN roles : roles[u] = groups[g].roles[u]
    BY DEF Remove, Members
  <2> HIDE DEF roles, group
  <2> QED
    BY <1>0, <1>9, <2>1, <2>2, <2>3, <2>4, <2>5 DEF HasItsOwner, Members
<1> QED
  BY <1>10, <1>11, <1>12, <1>13, <1>14

\* The end of a handler that writes nothing.
LEMMA AbortSerial ==
  ASSUME OwnerIsMember, Alone, NEW w, Abort(w)
  PROVE  SerialStep
<1>1. w \in DOMAIN calls /\ Finish(w) /\ UNCHANGED groups
  BY DEF Abort
<1>2. DOMAIN calls' = {}
  <2>1. DOMAIN calls' = DOMAIN calls \ {w}
    BY <1>1 DEF Finish, Remove
  <2> QED
    BY <1>1, <2>1 DEF Alone
<1>3. OwnerIsMember' /\ WrittenByOwner /\ FriendsAreAdded
  BY <1>1 DEF OwnerIsMember, WrittenByOwner, FriendsAreAdded, Members
<1> QED
  BY <1>2, <1>3 DEF SerialStep

\* A step while nothing is beside a handler.
LEMMA StepSerial ==
  ASSUME SerialInv, SerialNext, ~ overlapped'
  PROVE  SerialStep /\ Alone'
<1>1. ~ overlapped /\ ~ Beside /\ Next
  BY DEF SerialNext
<1>2. /\ GroupInv /\ TypeOK /\ Alone /\ OwnerIsMember
      /\ \A w \in DOMAIN calls : Checked(w)
  BY <1>1 DEF SerialInv, GroupInv
<1>3. CASE Social
  <2>1. UNCHANGED <<groups, calls>>
    BY <1>3 DEF Social, groupVars
  <2>2. OwnerIsMember' /\ WrittenByOwner /\ FriendsAreAdded /\ Alone'
    BY <1>2, <2>1
    DEF OwnerIsMember, WrittenByOwner, FriendsAreAdded, Members, Alone
  <2>3. \A w \in DOMAIN calls' : Checked(w)'
    <3>1. CASE DOMAIN calls = {}
      BY <2>1, <3>1
    <3>2. CASE DOMAIN calls # {}
      <4>1. calls # NoRows
        BY <3>2 DEF NoRows
      <4>2. UNCHANGED <<friends, blocks>>
        BY <1>1, <4>1 DEF Beside
      <4> QED
        BY <1>2, <2>1, <4>2 DEF Checked, MayGoOn, Members, MayBeAdded
    <3> QED
      BY <3>1, <3>2
  <2> QED
    BY <2>2, <2>3 DEF SerialStep
<1>4. ASSUME NEW w \in Workers, Handler(w)
      PROVE  SerialStep /\ Alone'
  <2>1. DOMAIN calls' \subseteq DOMAIN calls \cup {w}
    <3>1. \/ \E next : calls' = Put(calls, w, next)
          \/ Finish(w)
      BY <1>4
      DEF Handler, Begin, FindGroup, CheckMember, CheckFriends, CheckBlocks,
          Advance, CreateGroupConversation, RenameGroupConversation, Abort,
          TransferGroupConversationOwner, AddConversationMembers,
          RemoveConversationMember
    <3> QED
      BY <3>1 DEF Put, Finish, Remove
  <2>2. Alone'
    BY <1>1, <1>2, <2>1, NotBesideIsAlone
  <2> QED
    BY <1>2, <1>4, <2>2, BeginSerial, ChecksSerial, WritesSerial, AbortSerial
    DEF Handler
<1> QED
  BY <1>1, <1>3, <1>4 DEF Next

\* The invariant holds in the empty database.
LEMMA SerialGroupInit == SerialInit => SerialInv /\ OwnerIsMember
BY GroupInit
DEF SerialInit, SerialInv, Init, NoRows, Alone, OwnerIsMember, Members

\* Every step keeps it.
LEMMA SerialGroupNext == SerialInv /\ [SerialNext]_serialVars => SerialInv'
<1> SUFFICES ASSUME SerialInv, [SerialNext]_serialVars PROVE SerialInv'
  OBVIOUS
<1>1. GroupInv'
  BY GroupNext DEF SerialInv, SerialNext, serialVars
<1>2. CASE UNCHANGED serialVars
  BY <1>1, <1>2
  DEF SerialInv, serialVars, vars, Alone, OwnerIsMember, Members, Checked,
      MayGoOn, MayBeAdded
<1>3. CASE SerialNext
  BY <1>1, <1>3, StepSerial DEF SerialInv, SerialStep
<1> QED
  BY <1>2, <1>3

\* While nothing runs beside a handler, the owner of a group is one of its
\* members, and the only one who changes it or adds to it, among their friends.
THEOREM OwnersManageTheirGroups == SerialSpec => OwnersManage
<1>1. SerialInv /\ [SerialNext]_serialVars
      => [~ overlapped' => OwnerIsMember' /\ WrittenByOwner /\ FriendsAreAdded]_serialVars
  BY StepSerial DEF SerialStep
<1> QED
  BY <1>1, SerialGroupInit, SerialGroupNext, PTL DEF SerialSpec, OwnersManage
===============================================================================
