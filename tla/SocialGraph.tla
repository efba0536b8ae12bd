------------------------------ MODULE SocialGraph ------------------------------
(*****************************************************************************)
(* Friend requests, friendships, blocks and direct conversations:            *)
(* internal/service/social.go above internal/store/social.go.                *)
(*                                                                           *)
(* A handler is a row of SQL statements: tests, each of which may end it     *)
(* with an error, and then writes.  The pool has one connection, so a        *)
(* statement or transaction is atomic and the other handlers run in between. *)
(* The tables `Statements' and `calls' say which handler is at which one.    *)
(*****************************************************************************)
EXTENDS Integers, Sequences, FiniteSets, Tables

CONSTANTS
  Users,          \* accounts
  RequestIds,     \* ids of friend requests that ids.New may return
  DirectIds,      \* ids of direct conversations that ids.New may return
  Workers,        \* handlers that may run at the same time
  Operations,     \* the operations an instance calls
  NoId            \* the id in a call that names no friend request

\* The statements of each operation, in the order of the code.
Statements ==
  [request  |-> <<"friends", "blocks", "pending", "write">>,
   accept   |-> <<"find", "blocks", "write", "reread", "lookup", "create">>,
   decline  |-> <<"find", "write">>,
   block    |-> <<"write">>,
   unblock  |-> <<"write">>,
   unfriend |-> <<"friends", "write">>,
   direct   |-> <<"friends", "blocks", "lookup", "create">>]

AllOperations == DOMAIN Statements
Answers == {"accept", "decline"}

ASSUME SocialAssumption ==
  /\ Operations \subseteq AllOperations
  /\ NoId \notin RequestIds

VARIABLES
  friendRequests, \* friend_requests, by id
  issued,         \* the ids that ids.New has returned: no UUID comes twice
  friendships,    \* friendships: the pairs <<user_id, friend_id>>
  blocks,         \* user_blocks: the pairs <<blocker_id, blocked_id>>
  directs,        \* direct_conversations, by the pair of its two users
  directMembers,  \* conversation_members of the direct conversations
  calls           \* handlers between two statements

vars == <<friendRequests, issued, friendships, blocks, directs, directMembers,
          calls>>

-------------------------------------------------------------------------------
(* Types *)

FriendRequest ==
  {r \in [from : Users, to : Users, status : {"pending", "accepted", "declined"}] :
     r.from # r.to}

\* orderedPair: the same key whichever of the two comes first.
Pair(u, v) == {u, v}
Pairs == {Pair(p[1], p[2]) : p \in {q \in Users \X Users : q[1] # q[2]}}

\* The caller, the user it names (to answer a request: the requester, once the
\* row was read), the request it names, and the next statement.
Call ==
  {call \in [op : AllOperations, user : Users, other : Users,
             id : RequestIds \cup {NoId}, pos : Nat \ {0}] :
     /\ call.pos <= Len(Statements[call.op])
     /\ \/ call.user # call.other
        \/ call.op \in Answers /\ call.pos = 1}

TypeOK ==
  /\ IsTable(friendRequests, RequestIds, FriendRequest)
  /\ issued \subseteq RequestIds
  /\ DOMAIN friendRequests \subseteq issued
  /\ friendships \subseteq Users \X Users
  /\ blocks \subseteq Users \X Users
  /\ IsTable(directs, Pairs, DirectIds)
  /\ IsTable(directMembers, DirectIds, SUBSET Users)
  /\ IsTable(calls, Workers, Call)

Init ==
  /\ friendRequests = NoRows
  /\ issued = {}
  /\ friendships = {}
  /\ blocks = {}
  /\ directs = NoRows
  /\ directMembers = NoRows
  /\ calls = NoRows

-------------------------------------------------------------------------------
(* Reads *)

AreFriends(u, v) == <<u, v>> \in friendships

BothWays(u, v) == {<<u, v>>, <<v, u>>}

HasBlockBetween(u, v) == BothWays(u, v) \cap blocks # {}

\* The requests between two users, in either direction.
RequestsBetween(u, v) ==
  {i \in DOMAIN friendRequests :
     <<friendRequests[i].from, friendRequests[i].to>> \in BothWays(u, v)}

PendingBetween(u, v) ==
  {i \in RequestsBetween(u, v) : friendRequests[i].status = "pending"}

-------------------------------------------------------------------------------
(* Handlers *)

\* The handler is at this statement of one of these operations.
At(w, ops, statement) ==
  /\ w \in DOMAIN calls
  /\ calls[w].op \in ops
  /\ Statements[calls[w].op][calls[w].pos] = statement

Finish(w) == calls' = Remove(calls, {w})

\* The handler goes on to the next statement, with `other' as the other user.
GoOn(w, other) ==
  calls' = Put(calls, w, [calls[w] EXCEPT !.other = other, !.pos = @ + 1])

Proceed(w) ==
  /\ GoOn(w, calls[w].other)
  /\ UNCHANGED <<friendRequests, issued, friendships, blocks, directs,
                 directMembers>>

Begin(w, op, u, v, i) ==
  /\ w \notin DOMAIN calls
  /\ calls' = Put(calls, w, [op |-> op, user |-> u, other |-> v, id |-> i,
                             pos |-> 1])
  /\ UNCHANGED <<friendRequests, issued, friendships, blocks, directs,
                 directMembers>>

\* An answer names a friend request somebody sent.
BeginAnswer(w) ==
  \E op \in Operations \cap Answers, u \in Users, i \in issued :
    Begin(w, op, u, u, i)

\* Mutant: a user may name themselves.
BeginWithSelf(w) ==
  \E op \in Operations \ Answers, u, v \in Users : Begin(w, op, u, v, NoId)

\* The other operations name an existing user who is not the caller.
BeginOther(w) ==
  \E op \in Operations \ Answers, u \in Users : \E v \in Users \ {u} :
    Begin(w, op, u, v, NoId)

\* AreFriends: a request wants no friendship, the others want one.
CheckFriends(w) ==
  /\ At(w, {"request", "unfriend", "direct"}, "friends")
  /\ AreFriends(calls[w].user, calls[w].other) <=> calls[w].op # "request"
  /\ Proceed(w)

CheckBlocks(w) ==
  /\ At(w, {"request", "accept", "direct"}, "blocks")
  /\ ~ HasBlockBetween(calls[w].user, calls[w].other)
  /\ Proceed(w)

\* Mutant: only the requests the caller sent count.
CheckPendingSent(w) ==
  /\ At(w, {"request"}, "pending")
  /\ \A i \in PendingBetween(calls[w].user, calls[w].other) :
       friendRequests[i].from # calls[w].user
  /\ Proceed(w)

CheckPending(w) ==
  /\ At(w, {"request"}, "pending")
  /\ PendingBetween(calls[w].user, calls[w].other) = {}
  /\ Proceed(w)

\* Mutant: an answered request is answered again.
FindAnyRequest(w) ==
  LET call == calls[w]
  IN /\ At(w, Answers, "find")
     /\ call.id \in DOMAIN friendRequests
     /\ friendRequests[call.id].to = call.user
     /\ GoOn(w, friendRequests[call.id].from)
     /\ UNCHANGED <<friendRequests, issued, friendships, blocks, directs,
                    directMembers>>

\* findRawFriendRequest: only the addressee answers, and only while pending.
FindRequest(w) ==
  LET call == calls[w]
  IN /\ At(w, Answers, "find")
     /\ call.id \in DOMAIN friendRequests
     /\ friendRequests[call.id].to = call.user
     /\ friendRequests[call.id].status = "pending"
     /\ GoOn(w, friendRequests[call.id].from)
     /\ UNCHANGED <<friendRequests, issued, friendships, blocks, directs,
                    directMembers>>

-------------------------------------------------------------------------------
(* Writes *)

\* CreateFriendRequest; UNIQUE (requester_id, addressee_id).
SendFriendRequest(w) ==
  LET u == calls[w].user
      v == calls[w].other
  IN /\ At(w, {"request"}, "write")
     /\ \A i \in DOMAIN friendRequests :
          <<friendRequests[i].from, friendRequests[i].to>> # <<u, v>>
     /\ \E i \in RequestIds \ issued :
          /\ issued' = issued \cup {i}
          /\ friendRequests' = Put(friendRequests, i,
                                 [from |-> u, to |-> v, status |-> "pending"])
     /\ Finish(w)
     /\ UNCHANGED <<friendships, blocks, directs, directMembers>>

\* UPDATE friend_requests SET status = ... WHERE id = ...: whatever its status
\* is by now, and nothing if the row is gone.
Answer(i, status) ==
  friendRequests' = IF i \in DOMAIN friendRequests
                    THEN [friendRequests EXCEPT ![i].status = status]
                    ELSE friendRequests

\* INSERT OR IGNORE INTO friendships, both rows.
Befriend(u, v) == friendships \cup BothWays(u, v)

\* The transaction of AcceptFriendRequest.  The handler then reads the request
\* again and goes on to the direct conversation.
AcceptFriendRequest(w) ==
  /\ At(w, {"accept"}, "write")
  /\ Answer(calls[w].id, "accepted")
  /\ friendships' = Befriend(calls[w].user, calls[w].other)
  /\ GoOn(w, calls[w].other)
  /\ UNCHANGED <<issued, blocks, directs, directMembers>>

\* FindFriendRequestByID after the commit.
RereadRequest(w) ==
  /\ At(w, {"accept"}, "reread")
  /\ calls[w].id \in DOMAIN friendRequests
  /\ Proceed(w)

\* No row affected is an error, which changes nothing either.
DeclineFriendRequest(w) ==
  /\ At(w, {"decline"}, "write")
  /\ Answer(calls[w].id, "declined")
  /\ Finish(w)
  /\ UNCHANGED <<issued, friendships, blocks, directs, directMembers>>

\* Mutant: the requests stay.
WithoutPending(u, v) == Remove(friendRequests, PendingBetween(u, v))

\* DELETE FROM friend_requests between the two users, in any state.
WithoutRequests(u, v) == Remove(friendRequests, RequestsBetween(u, v))

\* Mutant: the friendship of the caller only.
WithoutOwnFriendship(u, v) == friendships \ {<<u, v>>}

\* DELETE FROM friendships, both rows.
WithoutFriendship(u, v) == friendships \ BothWays(u, v)

\* The transaction of BlockUser; a second block by the same user is refused.
BlockUser(w) ==
  LET u == calls[w].user
      v == calls[w].other
  IN /\ At(w, {"block"}, "write")
     /\ <<u, v>> \notin blocks
     /\ blocks' = blocks \cup {<<u, v>>}
     /\ friendships' = WithoutFriendship(u, v)
     /\ friendRequests' = WithoutRequests(u, v)
     /\ Finish(w)
     /\ UNCHANGED <<issued, directs, directMembers>>

UnblockUser(w) ==
  /\ At(w, {"unblock"}, "write")
  /\ blocks' = blocks \ {<<calls[w].user, calls[w].other>>}
  /\ Finish(w)
  /\ UNCHANGED <<friendRequests, issued, friendships, directs, directMembers>>

\* The transaction of RemoveFriendship, rolled back when there is none.
RemoveFriend(w) ==
  LET u == calls[w].user
      v == calls[w].other
  IN /\ At(w, {"unfriend"}, "write")
     /\ BothWays(u, v) \cap friendships # {}
     /\ friendships' = WithoutFriendship(u, v)
     /\ friendRequests' = WithoutRequests(u, v)
     /\ Finish(w)
     /\ UNCHANGED <<issued, blocks, directs, directMembers>>

\* findDirectConversationID: an existing one is the result.
LookUpDirect(w) ==
  /\ At(w, {"accept", "direct"}, "lookup")
  /\ IF Pair(calls[w].user, calls[w].other) \in DOMAIN directs
     THEN /\ Finish(w)
          /\ UNCHANGED <<friendRequests, issued, friendships, blocks, directs,
                         directMembers>>
     ELSE Proceed(w)

\* Mutant: the loser of a race keeps its conversation.
CreatedAnyway(pair, c) ==
  /\ directs' = IF pair \in DOMAIN directs THEN directs ELSE Put(directs, pair, c)
  /\ directMembers' = Put(directMembers, c, pair)

\* The rows of one direct conversation; when the pair has got one since it was
\* looked up, UNIQUE rolls all of them back and that one is the result.
Created(pair, c) ==
  IF pair \in DOMAIN directs THEN UNCHANGED <<directs, directMembers>>
  ELSE /\ directs' = Put(directs, pair, c)
       /\ directMembers' = Put(directMembers, c, pair)

CreateDirect(w) ==
  /\ At(w, {"accept", "direct"}, "create")
  /\ \E c \in DirectIds \ DOMAIN directMembers :
       Created(Pair(calls[w].user, calls[w].other), c)
  /\ Finish(w)
  /\ UNCHANGED <<friendRequests, issued, friendships, blocks>>

-------------------------------------------------------------------------------

\* A test failed, the client went away, the database gave an error, or the
\* process stopped.
Abort(w) ==
  /\ w \in DOMAIN calls
  /\ Finish(w)
  /\ UNCHANGED <<friendRequests, issued, friendships, blocks, directs,
                 directMembers>>

Handler(w) ==
  \/ BeginAnswer(w)
  \/ BeginOther(w)
  \/ CheckFriends(w)
  \/ CheckBlocks(w)
  \/ CheckPending(w)
  \/ FindRequest(w)
  \/ SendFriendRequest(w)
  \/ AcceptFriendRequest(w)
  \/ RereadRequest(w)
  \/ DeclineFriendRequest(w)
  \/ BlockUser(w)
  \/ UnblockUser(w)
  \/ RemoveFriend(w)
  \/ LookUpDirect(w)
  \/ CreateDirect(w)
  \/ Abort(w)

Next == \E w \in Workers : Handler(w)

Spec == Init /\ [][Next]_vars

-------------------------------------------------------------------------------
(* Properties of any number of concurrent handlers *)

\* Two users are friends of each other or not at all, whatever interleaving of
\* accepts, blocks and removals wrote the two rows.
FriendsAreMutual ==
  \A u, v \in Users : AreFriends(u, v) => AreFriends(v, u)

\* A request that shows as accepted is one between friends: a removal or a block
\* takes the accepted request with the friendship, and an accept that was under
\* way brings back both or only the friendship (UPDATE ... WHERE id, INSERT OR
\* IGNORE in one transaction).
AcceptedAreFriends ==
  \A i \in DOMAIN friendRequests :
    friendRequests[i].status = "accepted"
    => AreFriends(friendRequests[i].from, friendRequests[i].to)

\* Two users share one direct conversation for good, with just them in it: two
\* handlers that create it at once end up with the same one, and the rows the
\* slower one wrote before UNIQUE refused it are gone.
OneDirectPerPair ==
  /\ \A p \in DOMAIN directs :
       directs[p] \in DOMAIN directMembers /\ directMembers[directs[p]] = p
  /\ \A c \in DOMAIN directMembers :
       directMembers[c] \in DOMAIN directs /\ directs[directMembers[c]] = c

\* What an answer under way knows of the request it read: while the row is
\* there, its two users are the ones the handler goes on with.
AnswersKnow ==
  \A w \in DOMAIN calls :
    LET call == calls[w]
    IN call.op \in Answers =>
         /\ call.id \in issued
         /\ call.pos > 1 /\ call.id \in DOMAIN friendRequests =>
              /\ friendRequests[call.id].to = call.user
              /\ friendRequests[call.id].from = call.other

SocialInv ==
  /\ TypeOK
  /\ FriendsAreMutual
  /\ AnswersKnow
  /\ AcceptedAreFriends
  /\ OneDirectPerPair

\* What groups and conversations build on (module Friendships): every statement
\* moves the pairs of friends and the blocks in one of four ways, so a block
\* ends a friendship in the same moment, whatever the handlers checked before.
FriendTables ==
  INSTANCE Friendships WITH
    Moves   <- {"befriend", "unfriend", "block", "unblock"},
    friends <- {Pair(f[1], f[2]) : f \in friendships}

ImplementsFriendships == FriendTables!FriendshipsSpec

-------------------------------------------------------------------------------
(* Properties of handlers that do not overlap *)

\* docs/social.md: blocking "removes any friendship and friend-request state
\* between the two users ... and prevents new friend requests".
BlockedAreUnrelated ==
  \A b \in blocks :
    ~ AreFriends(b[1], b[2]) /\ RequestsBetween(b[1], b[2]) = {}

\* docs/social.md: the service rejects "duplicate pending requests between the
\* same two users".
OnePendingPerPair ==
  \A u, v \in Users : \A i, j \in PendingBetween(u, v) : i = j

\* docs/social.md: the service rejects "requests between users who are already
\* friends"; the request that made them friends is no longer pending either.
FriendsHaveNoPending ==
  \A u, v \in Users : AreFriends(u, v) => PendingBetween(u, v) = {}

\* What two users are to each other, read off the tables.
relation ==
  [p \in Pairs |->
     LET rows == p \X p
     IN CASE rows \cap blocks # {} -> "blocked"
          [] rows \cap friendships # {} -> "friends"
          [] \E u, v \in p : PendingBetween(u, v) # {} -> "requested"
          [] OTHER -> "strangers"]

Graph == INSTANCE FriendGraph

\* docs/social.md: a friendship comes from a request that was accepted, a block
\* ends everything, and unblocking "does not recreate a friendship" nor a
\* request: a step moves each pair between the four relations as FriendGraph does.
MovesAsFriendGraph == Graph!Next \/ UNCHANGED relation

\* docs/social.md: accept and decline are for "an incoming pending request": a
\* step replaces no answer by another one.
KeepsAnswers ==
  \A i \in DOMAIN friendRequests \cap DOMAIN friendRequests' :
    friendRequests[i].status # "pending"
    => friendRequests'[i].status = friendRequests[i].status

\* docs/social.md: removing a friend "clears prior friend-request state between
\* them", and who wants the friendship back sends a new request.
FriendsByRequest ==
  \A u, v \in Users : AreFriends(u, v) => RequestsBetween(u, v) # {}

\* docs/social.md: "Accepting a friend request also creates or returns a
\* one-to-one conversation", once the handler has ended.
AcceptedHaveConversation ==
  \A i \in DOMAIN friendRequests :
    LET pair == Pair(friendRequests[i].from, friendRequests[i].to)
    IN friendRequests[i].status = "accepted"
       => \/ pair \in DOMAIN directs
          \/ \E w \in DOMAIN calls : calls[w].op = "accept" /\ calls[w].id = i
===============================================================================
