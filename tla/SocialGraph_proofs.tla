-------------------------- MODULE SocialGraph_proofs ---------------------------
(*****************************************************************************)
(* What the transactions of the social graph keep, however many handlers     *)
(* overlap and at whichever statement each of them is.                       *)
(*****************************************************************************)
EXTENDS SocialSerial, Tables_proofs, TLAPS

-------------------------------------------------------------------------------
(* Statements *)

\* Where each statement is in its operation: only a write or the creation of a
\* conversation is last, and an answer starts by reading the request.
LEMMA StatementPositions ==
  ASSUME NEW op \in AllOperations, NEW pos \in Nat \ {0},
         pos <= Len(Statements[op])
  PROVE  /\ \/ Statements[op][pos] \notin {"write", "create"}
            \/ op = "accept" /\ Statements[op][pos] = "write"
            => pos + 1 <= Len(Statements[op])
         /\ op \in Answers /\ Statements[op][pos] # "find" => pos > 1
<1>1. CASE op = "request"
  BY <1>1 DEF Statements, Answers
<1>2. CASE op = "accept"
  BY <1>2 DEF Statements, Answers
<1>3. CASE op = "decline"
  BY <1>3 DEF Statements, Answers
<1>4. CASE op \in {"block", "unblock"}
  BY <1>4 DEF Statements, Answers
<1>5. CASE op = "unfriend"
  BY <1>5 DEF Statements, Answers
<1>6. CASE op = "direct"
  BY <1>6 DEF Statements, Answers
<1> QED
  BY <1>1, <1>2, <1>3, <1>4, <1>5, <1>6 DEF AllOperations, Statements

\* What the type says of a handler that is under way.
LEMMA CallTyped ==
  ASSUME TypeOK, NEW w \in DOMAIN calls
  PROVE  /\ w \in Workers
         /\ calls[w] \in Call
         /\ calls[w].op \in AllOperations
         /\ calls[w].user \in Users /\ calls[w].other \in Users
         /\ calls[w].pos \in Nat \ {0}
         /\ calls[w].pos <= Len(Statements[calls[w].op])
BY DEF TypeOK, IsTable, Call

\* A handler that goes on, with another user than its caller.
LEMMA GoOnTyped ==
  ASSUME TypeOK, NEW w \in DOMAIN calls, NEW other \in Users,
         other # calls[w].user,
         calls[w].pos + 1 <= Len(Statements[calls[w].op]),
         GoOn(w, other)
  PROVE  IsTable(calls', Workers, Call)
<1> DEFINE call == calls[w]
           next == [call EXCEPT !.other = other, !.pos = @ + 1]
<1>1. call \in Call /\ w \in Workers
  BY CallTyped
<1>2. calls' = Put(calls, w, next)
  BY DEF GoOn
<1>3. call.pos + 1 <= Len(Statements[call.op]) /\ other # call.user
  OBVIOUS
<1> HIDE DEF call
<1>4. call \in [op : AllOperations, user : Users, other : Users,
                id : RequestIds \cup {NoId}, pos : Nat \ {0}]
  BY <1>1 DEF Call
<1>5. /\ call = [op |-> call.op, user |-> call.user, other |-> call.other,
                 id |-> call.id, pos |-> call.pos]
      /\ call.op \in AllOperations /\ call.user \in Users
      /\ call.id \in RequestIds \cup {NoId} /\ call.pos \in Nat \ {0}
  BY <1>4
<1>6. call.pos + 1 \in Nat \ {0} /\ call.user # other
  BY <1>3, <1>5
<1>7. /\ next.op = call.op /\ next.user = call.user
      /\ next.other = other /\ next.pos = call.pos + 1
  BY <1>4
<1>8. next \in Call
  <2>1. next \in [op : AllOperations, user : Users, other : Users,
                  id : RequestIds \cup {NoId}, pos : Nat \ {0}]
    BY <1>4, <1>6
  <2> HIDE DEF next
  <2> QED
    BY <1>3, <1>6, <1>7, <2>1 DEF Call
<1> QED
  BY <1>1, <1>2, <1>8, PutIsTable DEF TypeOK

\* A handler that is at a statement of some operations.
LEMMA AtTyped ==
  ASSUME TypeOK, NEW w, NEW ops, NEW statement, At(w, ops, statement)
  PROVE  /\ w \in DOMAIN calls /\ w \in Workers
         /\ calls[w].op \in ops /\ calls[w].op \in AllOperations
         /\ calls[w].user \in Users /\ calls[w].other \in Users
         /\ \/ statement \notin {"write", "create"}
            \/ calls[w].op = "accept" /\ statement = "write"
            => calls[w].pos + 1 <= Len(Statements[calls[w].op])
         /\ ~ (calls[w].op \in Answers /\ statement = "find")
            => calls[w].user # calls[w].other
         /\ calls[w].op \in Answers /\ statement # "find" => calls[w].pos > 1
<1>1. /\ w \in DOMAIN calls /\ calls[w].op \in ops
      /\ Statements[calls[w].op][calls[w].pos] = statement
  BY DEF At
<1>2. /\ w \in Workers /\ calls[w] \in Call
      /\ calls[w].op \in AllOperations
      /\ calls[w].user \in Users /\ calls[w].other \in Users
      /\ calls[w].pos \in Nat \ {0}
      /\ calls[w].pos <= Len(Statements[calls[w].op])
  BY <1>1, CallTyped
<1>3. \/ calls[w].user # calls[w].other
      \/ calls[w].op \in Answers /\ calls[w].pos = 1
  BY <1>2 DEF Call
<1>4. calls[w].op \in Answers /\ calls[w].pos = 1 => statement = "find"
  BY <1>1, <1>2 DEF Answers, Statements
<1>5. /\ \/ statement \notin {"write", "create"}
         \/ calls[w].op = "accept" /\ statement = "write"
         => calls[w].pos + 1 <= Len(Statements[calls[w].op])
      /\ calls[w].op \in Answers /\ statement # "find" => calls[w].pos > 1
  BY <1>1, <1>2, StatementPositions
<1> QED
  BY <1>1, <1>2, <1>3, <1>4, <1>5

-------------------------------------------------------------------------------
(* What a step does to the handlers *)

\* Every call after a step was there before, is a new one, or is the one that
\* went on: with the user it had, except after FindRequest.
CallsStep ==
  /\ IsTable(calls', Workers, Call)
  /\ \A w \in DOMAIN calls' :
       \/ w \in DOMAIN calls /\ calls'[w] = calls[w]
       \/ calls'[w].op \in Answers => calls'[w].pos = 1 /\ calls'[w].id \in issued
       \/ /\ w \in DOMAIN calls
          /\ calls'[w].op = calls[w].op
          /\ calls'[w].id = calls[w].id
          /\ calls'[w].user = calls[w].user
          /\ \/ /\ calls'[w].other = calls[w].other
                /\ calls[w].op \in Answers => calls[w].pos > 1
             \/ calls[w].id \in DOMAIN friendRequests =>
                  /\ friendRequests[calls[w].id].to = calls[w].user
                  /\ friendRequests[calls[w].id].from = calls'[w].other

\* A handler that ends.
LEMMA FinishStep ==
  ASSUME TypeOK, NEW w, Finish(w)
  PROVE  CallsStep
<1>1. calls' = Remove(calls, {w})
  BY DEF Finish
<1>2. IsTable(calls', Workers, Call)
  BY <1>1, RemoveIsTable DEF TypeOK
<1> QED
  BY <1>1, <1>2 DEF CallsStep, Remove

\* Every operation has a first statement.
LEMMA EveryOperationStarts ==
  ASSUME NEW op \in AllOperations
  PROVE  1 <= Len(Statements[op])
<1>1. CASE op = "request"
  BY <1>1 DEF Statements
<1>2. CASE op = "accept"
  BY <1>2 DEF Statements
<1>3. CASE op = "decline"
  BY <1>3 DEF Statements
<1>4. CASE op = "block"
  BY <1>4 DEF Statements
<1>5. CASE op = "unblock"
  BY <1>5 DEF Statements
<1>6. CASE op = "unfriend"
  BY <1>6 DEF Statements
<1>7. CASE op = "direct"
  BY <1>7 DEF Statements
<1> QED
  BY <1>1, <1>2, <1>3, <1>4, <1>5, <1>6, <1>7 DEF AllOperations, Statements

\* A handler that starts.
LEMMA BeginStep ==
  ASSUME TypeOK, NEW w \in Workers, NEW op \in AllOperations,
         NEW u \in Users, NEW v \in Users, NEW i \in RequestIds \cup {NoId},
         IF op \in Answers THEN i \in issued ELSE u # v,
         Begin(w, op, u, v, i)
  PROVE  CallsStep
<1> DEFINE call == [op |-> op, user |-> u, other |-> v, id |-> i, pos |-> 1]
<1>1. calls' = Put(calls, w, call)
  BY DEF Begin
<1>2. 1 <= Len(Statements[op])
  BY EveryOperationStarts
<1>3. call \in Call
  BY <1>2 DEF Call
<1>4. IsTable(calls', Workers, Call)
  BY <1>1, <1>3, PutIsTable DEF TypeOK
<1>5. call.op = op /\ call.pos = 1 /\ call.id = i
  OBVIOUS
<1> HIDE DEF call
<1> QED
  BY <1>1, <1>4, <1>5 DEF CallsStep, Put

\* A handler that goes on.
LEMMA GoOnStep ==
  ASSUME TypeOK, NEW w \in DOMAIN calls, NEW other \in Users,
         other # calls[w].user,
         calls[w].pos + 1 <= Len(Statements[calls[w].op]),
         GoOn(w, other),
         \/ /\ other = calls[w].other
            /\ calls[w].op \in Answers => calls[w].pos > 1
         \/ calls[w].id \in DOMAIN friendRequests =>
              /\ friendRequests[calls[w].id].to = calls[w].user
              /\ friendRequests[calls[w].id].from = other
  PROVE  CallsStep
<1> DEFINE next == [calls[w] EXCEPT !.other = other, !.pos = @ + 1]
<1>1. calls' = Put(calls, w, next)
  BY DEF GoOn
<1>2. IsTable(calls', Workers, Call)
  BY GoOnTyped
<1>3. calls[w] \in Call
  BY CallTyped
<1>4. /\ next.op = calls[w].op /\ next.id = calls[w].id
      /\ next.user = calls[w].user /\ next.other = other
  BY <1>3 DEF Call
<1> HIDE DEF next
<1>5. \A x \in DOMAIN calls' : x # w => x \in DOMAIN calls /\ calls'[x] = calls[x]
  BY <1>1 DEF Put
<1>6. calls'[w] = next
  BY <1>1 DEF Put
<1> QED
  BY <1>2, <1>4, <1>5, <1>6 DEF CallsStep

-------------------------------------------------------------------------------
(* What a step does to the friend requests *)

\* Every request after a step was there before, with the same two users, or has
\* an id that nobody had been given.
RequestsStep ==
  /\ IsTable(friendRequests', RequestIds, FriendRequest)
  /\ issued \subseteq issued' /\ issued' \subseteq RequestIds
  /\ DOMAIN friendRequests' \subseteq issued'
  /\ \A i \in DOMAIN friendRequests' \cap issued :
       /\ i \in DOMAIN friendRequests
       /\ friendRequests'[i].to = friendRequests[i].to
       /\ friendRequests'[i].from = friendRequests[i].from

\* An answer under way goes on knowing what it read.
LEMMA AnswersStillKnow ==
  ASSUME AnswersKnow, CallsStep, RequestsStep
  PROVE  AnswersKnow'
<1> SUFFICES ASSUME NEW w \in DOMAIN calls', calls'[w].op \in Answers
             PROVE  /\ calls'[w].id \in issued'
                    /\ calls'[w].pos > 1 /\ calls'[w].id \in DOMAIN friendRequests' =>
                         /\ friendRequests'[calls'[w].id].to = calls'[w].user
                         /\ friendRequests'[calls'[w].id].from = calls'[w].other
  BY DEF AnswersKnow
<1>1. issued \subseteq issued'
      /\ \A i \in DOMAIN friendRequests' \cap issued :
           /\ i \in DOMAIN friendRequests
           /\ friendRequests'[i].to = friendRequests[i].to
           /\ friendRequests'[i].from = friendRequests[i].from
  BY DEF RequestsStep
<1>2. ASSUME NEW x \in DOMAIN calls, calls[x].op \in Answers
      PROVE  /\ calls[x].id \in issued
             /\ calls[x].pos > 1 /\ calls[x].id \in DOMAIN friendRequests =>
                  /\ friendRequests[calls[x].id].to = calls[x].user
                  /\ friendRequests[calls[x].id].from = calls[x].other
  BY <1>2 DEF AnswersKnow
<1>3. CASE w \in DOMAIN calls /\ calls'[w] = calls[w]
  BY <1>1, <1>2, <1>3
<1>4. CASE calls'[w].pos = 1 /\ calls'[w].id \in issued
  BY <1>1, <1>4
<1>5. CASE /\ w \in DOMAIN calls
           /\ calls'[w].op = calls[w].op
           /\ calls'[w].id = calls[w].id
           /\ calls'[w].user = calls[w].user
           /\ \/ /\ calls'[w].other = calls[w].other
                 /\ calls[w].op \in Answers => calls[w].pos > 1
              \/ calls[w].id \in DOMAIN friendRequests =>
                   /\ friendRequests[calls[w].id].to = calls[w].user
                   /\ friendRequests[calls[w].id].from = calls'[w].other
  <2>1. calls[w].op \in Answers /\ calls[w].id \in issued
    BY <1>2, <1>5
  <2>2. ASSUME calls[w].id \in DOMAIN friendRequests'
        PROVE  /\ friendRequests'[calls[w].id].to = calls[w].user
               /\ friendRequests'[calls[w].id].from = calls'[w].other
    <3>1. /\ calls[w].id \in DOMAIN friendRequests
          /\ friendRequests'[calls[w].id].to = friendRequests[calls[w].id].to
          /\ friendRequests'[calls[w].id].from = friendRequests[calls[w].id].from
      BY <1>1, <2>1, <2>2
    <3>2. /\ friendRequests[calls[w].id].to = calls[w].user
          /\ friendRequests[calls[w].id].from = calls'[w].other
      <4>1. CASE calls'[w].other = calls[w].other /\ calls[w].pos > 1
        <5>1. /\ friendRequests[calls[w].id].to = calls[w].user
              /\ friendRequests[calls[w].id].from = calls[w].other
          BY <1>2, <1>5, <2>1, <3>1, <4>1
        <5> QED
          BY <4>1, <5>1
      <4> QED
        BY <1>5, <2>1, <3>1, <4>1
    <3> QED
      BY <3>1, <3>2
  <2> QED
    BY <1>1, <1>5, <2>1, <2>2
<1> QED
  BY <1>3, <1>4, <1>5 DEF CallsStep

\* Deleting the requests between two users.
LEMMA RemoveRequestsStep ==
  ASSUME TypeOK, NEW u, NEW v, friendRequests' = WithoutRequests(u, v),
         UNCHANGED issued
  PROVE  RequestsStep
<1>1. friendRequests' = Remove(friendRequests, RequestsBetween(u, v))
  BY DEF WithoutRequests
<1>2. IsTable(friendRequests', RequestIds, FriendRequest)
  BY <1>1, RemoveIsTable DEF TypeOK
<1> QED
  BY <1>1, <1>2 DEF RequestsStep, Remove, TypeOK

\* Answering a request changes its status only.
LEMMA AnswerStep ==
  ASSUME TypeOK, NEW i, NEW status \in {"accepted", "declined"},
         Answer(i, status), UNCHANGED issued
  PROVE  /\ RequestsStep
         /\ DOMAIN friendRequests' = DOMAIN friendRequests
         /\ \A k \in DOMAIN friendRequests :
              /\ friendRequests'[k].to = friendRequests[k].to
              /\ friendRequests'[k].from = friendRequests[k].from
              /\ k # i => friendRequests'[k] = friendRequests[k]
         /\ i \in DOMAIN friendRequests => friendRequests'[i].status = status
<1>1. CASE i \notin DOMAIN friendRequests
  BY <1>1 DEF Answer, RequestsStep, TypeOK
<1>2. CASE i \in DOMAIN friendRequests
  <2> DEFINE row == friendRequests[i]
             answered == [row EXCEPT !.status = status]
  <2>1. friendRequests' = [friendRequests EXCEPT ![i] = answered]
    BY <1>2 DEF Answer
  <2>2. row \in [from : Users, to : Users,
                 status : {"pending", "accepted", "declined"}]
        /\ row.from # row.to
    BY <1>2 DEF TypeOK, IsTable, FriendRequest
  <2> HIDE DEF row
  <2>3. answered \in [from : Users, to : Users,
                      status : {"pending", "accepted", "declined"}]
    BY <2>2
  <2>4. answered.from = row.from /\ answered.to = row.to
        /\ answered.status = status
    BY <2>2
  <2> HIDE DEF answered
  <2>5. answered \in FriendRequest
    BY <2>2, <2>3, <2>4 DEF FriendRequest
  <2>6. IsTable(friendRequests, RequestIds, FriendRequest)
        /\ DOMAIN friendRequests \subseteq issued /\ issued \subseteq RequestIds
    BY DEF TypeOK
  <2>7. IsTable(friendRequests', RequestIds, FriendRequest)
    BY <2>1, <2>5, <2>6 DEF IsTable
  <2>8. DOMAIN friendRequests' = DOMAIN friendRequests
        /\ friendRequests'[i] = answered
        /\ \A k \in DOMAIN friendRequests :
             k # i => friendRequests'[k] = friendRequests[k]
    BY <1>2, <2>1, <2>6 DEF IsTable
  <2> QED
    BY <1>2, <2>4, <2>6, <2>7, <2>8 DEF RequestsStep, row
<1> QED
  BY <1>1, <1>2

-------------------------------------------------------------------------------
(* What a step does to the friendships *)

FriendshipsStep ==
  /\ friendships' \subseteq Users \X Users
  /\ FriendsAreMutual'
  /\ AcceptedAreFriends'

\* Ending a friendship together with the requests between the two users.
LEMMA UnrelateStep ==
  ASSUME TypeOK, FriendsAreMutual, AcceptedAreFriends, NEW u, NEW v,
         friendships' = WithoutFriendship(u, v),
         friendRequests' = WithoutRequests(u, v)
  PROVE  FriendshipsStep
<1>1. FriendsAreMutual'
  BY DEF FriendsAreMutual, AreFriends, WithoutFriendship, BothWays
<1>2. AcceptedAreFriends'
  <2> SUFFICES ASSUME NEW i \in DOMAIN friendRequests',
                      friendRequests'[i].status = "accepted"
               PROVE  <<friendRequests'[i].from, friendRequests'[i].to>>
                        \in friendships'
    BY DEF AcceptedAreFriends, AreFriends
  <2>1. /\ i \in DOMAIN friendRequests /\ i \notin RequestsBetween(u, v)
        /\ friendRequests'[i] = friendRequests[i]
    BY DEF WithoutRequests, Remove
  <2>2. <<friendRequests[i].from, friendRequests[i].to>> \notin BothWays(u, v)
    BY <2>1 DEF RequestsBetween
  <2>3. <<friendRequests[i].from, friendRequests[i].to>> \in friendships
    BY <2>1 DEF AcceptedAreFriends, AreFriends
  <2> QED
    BY <2>1, <2>2, <2>3 DEF WithoutFriendship
<1> QED
  BY <1>1, <1>2 DEF FriendshipsStep, WithoutFriendship, TypeOK

\* A new friendship is written in both directions.
LEMMA BefriendIsMutual ==
  ASSUME FriendsAreMutual, NEW u \in Users, NEW v \in Users,
         friendships' = Befriend(u, v)
  PROVE  FriendsAreMutual'
<1> SUFFICES ASSUME NEW x \in Users, NEW y \in Users, <<x, y>> \in friendships'
             PROVE  <<y, x>> \in friendships'
  BY DEF FriendsAreMutual, AreFriends
<1>1. CASE <<x, y>> \in friendships
  BY <1>1 DEF FriendsAreMutual, AreFriends, Befriend
<1>2. CASE <<x, y>> \in BothWays(u, v)
  BY <1>2 DEF Befriend, BothWays
<1> QED
  BY <1>1, <1>2 DEF Befriend

-------------------------------------------------------------------------------
(* What a step does to the conversations *)

DirectsStep ==
  /\ IsTable(directs', Pairs, DirectIds)
  /\ IsTable(directMembers', DirectIds, SUBSET Users)
  /\ OneDirectPerPair'

\* Two different users are a pair, and every pair has members who are users.
LEMMA PairTyped ==
  ASSUME NEW u \in Users, NEW v \in Users, u # v
  PROVE  Pair(u, v) \in Pairs /\ Pair(u, v) \in SUBSET Users
<1>1. <<u, v>> \in {q \in Users \X Users : q[1] # q[2]}
      /\ Pair(u, v) = Pair(<<u, v>>[1], <<u, v>>[2])
  OBVIOUS
<1> QED
  BY <1>1 DEF Pairs, Pair

\* A conversation that is created is the only one of its pair.
LEMMA CreatedStep ==
  ASSUME TypeOK, OneDirectPerPair, NEW pair \in Pairs, pair \in SUBSET Users,
         NEW c \in DirectIds \ DOMAIN directMembers, Created(pair, c)
  PROVE  DirectsStep
<1>1. CASE pair \in DOMAIN directs
  <2>1. UNCHANGED <<directs, directMembers>>
    BY <1>1 DEF Created
  <2> QED
    BY <2>1 DEF DirectsStep, OneDirectPerPair, TypeOK
<1>2. CASE pair \notin DOMAIN directs
  <2>1. /\ directs' = Put(directs, pair, c)
        /\ directMembers' = Put(directMembers, c, pair)
    BY <1>2 DEF Created
  <2>2. /\ IsTable(directs', Pairs, DirectIds)
        /\ IsTable(directMembers', DirectIds, SUBSET Users)
    BY <2>1, PutIsTable DEF TypeOK
  <2>3. /\ DOMAIN directs' = DOMAIN directs \cup {pair}
        /\ directs'[pair] = c
        /\ \A p \in DOMAIN directs : directs'[p] = directs[p]
    BY <1>2, <2>1 DEF Put
  <2>4. /\ DOMAIN directMembers' = DOMAIN directMembers \cup {c}
        /\ directMembers'[c] = pair
        /\ \A k \in DOMAIN directMembers : directMembers'[k] = directMembers[k]
    BY <2>1 DEF Put
  <2>5. /\ \A p \in DOMAIN directs :
             directs[p] \in DOMAIN directMembers /\ directMembers[directs[p]] = p
        /\ \A k \in DOMAIN directMembers :
             directMembers[k] \in DOMAIN directs /\ directs[directMembers[k]] = k
    BY DEF OneDirectPerPair
  <2>6. OneDirectPerPair'
    BY <2>3, <2>4, <2>5 DEF OneDirectPerPair
  <2> QED
    BY <2>2, <2>6 DEF DirectsStep
<1> QED
  BY <1>1, <1>2

-------------------------------------------------------------------------------
(* A step *)

SocialStep ==
  /\ CallsStep
  /\ RequestsStep
  /\ FriendshipsStep
  /\ DirectsStep
  /\ blocks' \subseteq Users \X Users

\* A step of this form keeps the invariant.
LEMMA StepKeepsInv ==
  ASSUME SocialInv, SocialStep
  PROVE  SocialInv'
<1>1. TypeOK'
  BY DEF SocialStep, CallsStep, RequestsStep, FriendshipsStep, DirectsStep,
         TypeOK
<1>2. AnswersKnow'
  BY AnswersStillKnow DEF SocialInv, SocialStep
<1> QED
  BY <1>1, <1>2 DEF SocialInv, SocialStep, FriendshipsStep, DirectsStep

\* A statement that changes no table leaves all but the handlers as they are.
LEMMA TablesUnchanged ==
  ASSUME SocialInv
  PROVE  /\ UNCHANGED <<friendRequests, issued>> => RequestsStep
         /\ UNCHANGED <<friendRequests, friendships>> => FriendshipsStep
         /\ UNCHANGED <<directs, directMembers>> => DirectsStep
         /\ UNCHANGED blocks => blocks' \subseteq Users \X Users
<1>1. ASSUME UNCHANGED <<friendRequests, issued>> PROVE RequestsStep
  BY <1>1 DEF SocialInv, TypeOK, RequestsStep
<1>2. ASSUME UNCHANGED <<friendRequests, friendships>> PROVE FriendshipsStep
  BY <1>2 DEF SocialInv, TypeOK, FriendshipsStep, FriendsAreMutual, AreFriends,
              AcceptedAreFriends
<1>3. ASSUME UNCHANGED <<directs, directMembers>> PROVE DirectsStep
  BY <1>3 DEF SocialInv, TypeOK, DirectsStep, OneDirectPerPair
<1>4. ASSUME UNCHANGED blocks PROVE blocks' \subseteq Users \X Users
  BY <1>4 DEF SocialInv, TypeOK
<1> QED
  BY <1>1, <1>2, <1>3, <1>4

\* Handlers that start or end without a write.
LEMMA BeginsAndEnds ==
  ASSUME SocialInv, NEW w \in Workers,
         BeginAnswer(w) \/ BeginOther(w) \/ Abort(w)
  PROVE  SocialStep
<1>0. TypeOK /\ Operations \subseteq AllOperations
  BY SocialAssumption DEF SocialInv
<1>1. UNCHANGED <<friendRequests, issued, friendships, blocks, directs,
                  directMembers>>
  BY DEF BeginAnswer, BeginOther, Begin, Abort
<1>2. CASE BeginAnswer(w)
  <2>1. PICK op \in Operations \cap Answers, u \in Users, i \in issued :
          Begin(w, op, u, u, i)
    BY <1>2 DEF BeginAnswer
  <2>2. op \in AllOperations /\ op \in Answers /\ i \in RequestIds \cup {NoId}
    BY <1>0 DEF TypeOK
  <2>3. CallsStep
    BY <1>0, <2>1, <2>2, BeginStep
  <2> QED
    BY <1>1, <2>3, TablesUnchanged DEF SocialStep
<1>3. CASE BeginOther(w)
  <2>1. PICK op \in Operations \ Answers, u \in Users, v \in Users :
          u # v /\ Begin(w, op, u, v, NoId)
    BY <1>3 DEF BeginOther
  <2>2. CallsStep
    BY <1>0, <2>1, BeginStep
  <2> QED
    BY <1>1, <2>2, TablesUnchanged DEF SocialStep
<1>4. CASE Abort(w)
  <2>1. CallsStep
    BY <1>0, <1>4, FinishStep DEF Abort
  <2> QED
    BY <1>1, <2>1, TablesUnchanged DEF SocialStep
<1> QED
  BY <1>2, <1>3, <1>4

\* Statements that read.
LEMMA Reads ==
  ASSUME SocialInv, NEW w \in Workers,
         \/ CheckFriends(w) \/ CheckBlocks(w) \/ CheckPending(w)
         \/ FindRequest(w) \/ RereadRequest(w) \/ LookUpDirect(w)
  PROVE  SocialStep
<1>0. TypeOK
  BY DEF SocialInv
<1>1. UNCHANGED <<friendRequests, issued, friendships, blocks, directs,
                  directMembers>>
  BY DEF CheckFriends, CheckBlocks, CheckPending, FindRequest, RereadRequest,
         LookUpDirect, Proceed
<1>2. ASSUME NEW ops, NEW statement \in {"friends", "blocks", "pending",
                                        "reread", "lookup"},
             At(w, ops, statement), GoOn(w, calls[w].other)
      PROVE  CallsStep
  <2>1. /\ w \in DOMAIN calls /\ calls[w].other \in Users
        /\ calls[w].pos + 1 <= Len(Statements[calls[w].op])
        /\ calls[w].user # calls[w].other
        /\ calls[w].op \in Answers => calls[w].pos > 1
    BY <1>0, <1>2, AtTyped
  <2> QED
    BY <1>0, <1>2, <2>1, GoOnStep
<1>3. CASE CheckFriends(w) \/ CheckBlocks(w) \/ CheckPending(w) \/ RereadRequest(w)
  <2>1. CallsStep
    BY <1>2, <1>3 DEF CheckFriends, CheckBlocks, CheckPending, RereadRequest,
                      Proceed
  <2> QED
    BY <1>1, <2>1, TablesUnchanged DEF SocialStep
<1>4. CASE LookUpDirect(w)
  <2>1. CallsStep
    BY <1>0, <1>2, <1>4, FinishStep DEF LookUpDirect, Proceed
  <2> QED
    BY <1>1, <2>1, TablesUnchanged DEF SocialStep
<1>5. CASE FindRequest(w)
  <2> DEFINE row == friendRequests[calls[w].id]
  <2>1. /\ At(w, Answers, "find") /\ calls[w].id \in DOMAIN friendRequests
        /\ row.to = calls[w].user /\ GoOn(w, row.from)
    BY <1>5 DEF FindRequest
  <2>2. row.from \in Users /\ row.from # row.to
    BY <1>0, <2>1 DEF TypeOK, IsTable, FriendRequest
  <2>3. w \in DOMAIN calls /\ calls[w].pos + 1 <= Len(Statements[calls[w].op])
    BY <1>0, <2>1, AtTyped
  <2>4. CallsStep
    BY <1>0, <2>1, <2>2, <2>3, GoOnStep
  <2> QED
    BY <1>1, <2>4, TablesUnchanged DEF SocialStep
<1> QED
  BY <1>3, <1>4, <1>5

\* Statements that write friend requests or friendships.
LEMMA RequestWrites ==
  ASSUME SocialInv, NEW w \in Workers,
         SendFriendRequest(w) \/ AcceptFriendRequest(w) \/ DeclineFriendRequest(w)
  PROVE  SocialStep
<1>0. /\ TypeOK /\ FriendsAreMutual /\ AcceptedAreFriends /\ AnswersKnow
      /\ friendships \subseteq Users \X Users
  BY DEF SocialInv, TypeOK
<1>1. CASE SendFriendRequest(w)
  <2> DEFINE u == calls[w].user
             v == calls[w].other
             row == [from |-> u, to |-> v, status |-> "pending"]
  <2>1. /\ At(w, {"request"}, "write") /\ Finish(w)
        /\ UNCHANGED <<friendships, blocks, directs, directMembers>>
    BY <1>1 DEF SendFriendRequest
  <2>2. PICK i \in RequestIds \ issued :
          /\ issued' = issued \cup {i}
          /\ friendRequests' = Put(friendRequests, i, row)
    BY <1>1 DEF SendFriendRequest
  <2>3. u \in Users /\ v \in Users /\ u # v
    BY <1>0, <2>1, AtTyped
  <2>4. row \in FriendRequest /\ row.status = "pending"
    BY <2>3 DEF FriendRequest
  <2> HIDE DEF row
  <2>5. RequestsStep
    <3>1. IsTable(friendRequests', RequestIds, FriendRequest)
      BY <1>0, <2>2, <2>4, PutIsTable DEF TypeOK
    <3> QED
      BY <1>0, <2>2, <3>1 DEF RequestsStep, Put, TypeOK
  <2>6. AcceptedAreFriends'
    BY <1>0, <2>1, <2>2, <2>4 DEF AcceptedAreFriends, AreFriends, Put
  <2>7. FriendshipsStep
    BY <1>0, <2>1, <2>6 DEF FriendshipsStep, FriendsAreMutual, AreFriends
  <2> QED
    BY <1>0, <2>1, <2>5, <2>7, FinishStep, TablesUnchanged DEF SocialStep
<1>2. CASE AcceptFriendRequest(w)
  <2> DEFINE u == calls[w].user
             v == calls[w].other
             k == calls[w].id
  <2>1. /\ At(w, {"accept"}, "write") /\ Answer(k, "accepted")
        /\ friendships' = Befriend(u, v) /\ GoOn(w, v)
        /\ UNCHANGED <<issued, blocks, directs, directMembers>>
    BY <1>2 DEF AcceptFriendRequest
  <2>2. /\ w \in DOMAIN calls /\ calls[w].op = "accept"
        /\ u \in Users /\ v \in Users /\ u # v
        /\ calls[w].pos > 1
        /\ calls[w].pos + 1 <= Len(Statements[calls[w].op])
    BY <1>0, <2>1, AtTyped DEF Answers
  <2>3. CallsStep
    BY <1>0, <2>1, <2>2, GoOnStep
  <2>4. /\ RequestsStep
        /\ DOMAIN friendRequests' = DOMAIN friendRequests
        /\ \A i \in DOMAIN friendRequests :
             /\ friendRequests'[i].to = friendRequests[i].to
             /\ friendRequests'[i].from = friendRequests[i].from
             /\ i # k => friendRequests'[i] = friendRequests[i]
    BY <1>0, <2>1, AnswerStep
  <2>5. k \in DOMAIN friendRequests =>
          friendRequests[k].to = u /\ friendRequests[k].from = v
    BY <1>0, <2>2 DEF AnswersKnow, Answers
  <2>6. AcceptedAreFriends'
    <3> SUFFICES ASSUME NEW i \in DOMAIN friendRequests',
                        friendRequests'[i].status = "accepted"
                 PROVE  <<friendRequests'[i].from, friendRequests'[i].to>>
                          \in friendships'
      BY DEF AcceptedAreFriends, AreFriends
    <3>1. CASE i = k
      BY <2>1, <2>4, <2>5, <3>1 DEF Befriend, BothWays
    <3>2. CASE i # k
      BY <1>0, <2>1, <2>4, <3>2 DEF AcceptedAreFriends, AreFriends, Befriend
    <3> QED
      BY <3>1, <3>2
  <2>7. FriendsAreMutual'
    BY <1>0, <2>1, <2>2, BefriendIsMutual
  <2>8. friendships' \subseteq Users \X Users
    BY <1>0, <2>1, <2>2 DEF Befriend, BothWays
  <2> QED
    BY <2>1, <2>3, <2>4, <2>6, <2>7, <2>8, TablesUnchanged
       DEF SocialStep, FriendshipsStep
<1>3. CASE DeclineFriendRequest(w)
  <2> DEFINE k == calls[w].id
  <2>1. /\ Answer(k, "declined") /\ Finish(w)
        /\ UNCHANGED <<issued, friendships, blocks, directs, directMembers>>
    BY <1>3 DEF DeclineFriendRequest
  <2>2. /\ RequestsStep
        /\ DOMAIN friendRequests' = DOMAIN friendRequests
        /\ \A i \in DOMAIN friendRequests :
             /\ friendRequests'[i].to = friendRequests[i].to
             /\ friendRequests'[i].from = friendRequests[i].from
             /\ i # k => friendRequests'[i] = friendRequests[i]
        /\ k \in DOMAIN friendRequests => friendRequests'[k].status = "declined"
    BY <1>0, <2>1, AnswerStep
  <2>3. AcceptedAreFriends'
    BY <1>0, <2>1, <2>2 DEF AcceptedAreFriends, AreFriends
  <2>4. FriendshipsStep
    BY <1>0, <2>1, <2>3 DEF FriendshipsStep, FriendsAreMutual, AreFriends
  <2> QED
    BY <1>0, <2>1, <2>2, <2>4, FinishStep, TablesUnchanged DEF SocialStep
<1> QED
  BY <1>1, <1>2, <1>3

\* Statements that end a relation, and the removal of a block.
LEMMA RelationWrites ==
  ASSUME SocialInv, NEW w \in Workers,
         BlockUser(w) \/ UnblockUser(w) \/ RemoveFriend(w)
  PROVE  SocialStep
<1>0. /\ TypeOK /\ FriendsAreMutual /\ AcceptedAreFriends
      /\ blocks \subseteq Users \X Users
  BY DEF SocialInv, TypeOK
<1>1. CallsStep
  BY <1>0, FinishStep DEF BlockUser, UnblockUser, RemoveFriend
<1>2. UNCHANGED <<issued, directs, directMembers>>
  BY DEF BlockUser, UnblockUser, RemoveFriend
<1>3. CASE BlockUser(w) \/ RemoveFriend(w)
  <2> DEFINE u == calls[w].user
             v == calls[w].other
  <2>1. /\ friendships' = WithoutFriendship(u, v)
        /\ friendRequests' = WithoutRequests(u, v)
    BY <1>3 DEF BlockUser, RemoveFriend
  <2>2. RequestsStep
    BY <1>0, <1>2, <2>1, RemoveRequestsStep
  <2>3. FriendshipsStep
    BY <1>0, <2>1, UnrelateStep
  <2>4. blocks' \subseteq Users \X Users
    <3>1. CASE BlockUser(w)
      <4>1. At(w, {"block"}, "write") /\ blocks' = blocks \cup {<<u, v>>}
        BY <3>1 DEF BlockUser
      <4>2. u \in Users /\ v \in Users
        BY <1>0, <4>1, AtTyped
      <4> QED
        BY <1>0, <4>1, <4>2
    <3>2. CASE RemoveFriend(w)
      BY <1>0, <3>2 DEF RemoveFriend
    <3> QED
      BY <1>3, <3>1, <3>2
  <2> QED
    BY <1>1, <1>2, <2>2, <2>3, <2>4, TablesUnchanged DEF SocialStep
<1>4. CASE UnblockUser(w)
  <2>1. /\ blocks' = blocks \ {<<calls[w].user, calls[w].other>>}
        /\ UNCHANGED <<friendRequests, issued, friendships>>
    BY <1>4 DEF UnblockUser
  <2> QED
    BY <1>0, <1>1, <1>2, <2>1, TablesUnchanged DEF SocialStep
<1> QED
  BY <1>3, <1>4

\* The creation of a direct conversation.
LEMMA DirectWrites ==
  ASSUME SocialInv, NEW w \in Workers, CreateDirect(w)
  PROVE  SocialStep
<1> DEFINE pair == Pair(calls[w].user, calls[w].other)
<1>0. TypeOK /\ OneDirectPerPair
  BY DEF SocialInv
<1>1. /\ At(w, {"accept", "direct"}, "create") /\ Finish(w)
      /\ UNCHANGED <<friendRequests, issued, friendships, blocks>>
  BY DEF CreateDirect
<1>2. PICK c \in DirectIds \ DOMAIN directMembers : Created(pair, c)
  BY DEF CreateDirect
<1>3. pair \in Pairs /\ pair \in SUBSET Users
  BY <1>0, <1>1, AtTyped, PairTyped
<1> HIDE DEF pair
<1>4. DirectsStep
  BY <1>0, <1>2, <1>3, CreatedStep
<1> QED
  BY <1>0, <1>1, <1>4, FinishStep, TablesUnchanged DEF SocialStep

-------------------------------------------------------------------------------

\* The invariant holds in the empty database.
LEMMA SocialInit ==
  Init => SocialInv
BY DEF Init, SocialInv, TypeOK, FriendsAreMutual, AreFriends, AnswersKnow,
       AcceptedAreFriends, OneDirectPerPair, NoRows, IsTable

\* Every statement of every handler keeps it.
LEMMA SocialNext ==
  SocialInv /\ [Next]_vars => SocialInv'
<1> SUFFICES ASSUME SocialInv, [Next]_vars PROVE SocialInv'
  OBVIOUS
<1>1. ASSUME NEW w \in Workers, Handler(w) PROVE SocialInv'
  BY <1>1, BeginsAndEnds, Reads, RequestWrites, RelationWrites, DirectWrites,
     StepKeepsInv DEF Handler
<1>2. CASE UNCHANGED vars
  BY <1>2 DEF vars, SocialInv, TypeOK, FriendsAreMutual, AreFriends, AnswersKnow,
              AcceptedAreFriends, OneDirectPerPair
<1> QED
  BY <1>1, <1>2 DEF Next

\* However many handlers overlap, and wherever each of them stopped, the social
\* tables keep the invariant.
THEOREM SocialInvariant ==
  Spec => []SocialInv
BY SocialInit, SocialNext, PTL DEF Spec

\* Every row of the tables and every handler has its type.
THEOREM SocialTypeCorrect ==
  Spec => []TypeOK
<1>1. SocialInv => TypeOK
  BY DEF SocialInv
<1> QED
  BY <1>1, SocialInvariant, PTL

\* Friendship is mutual after every statement of AcceptFriendRequest, BlockUser
\* and RemoveFriendship.
THEOREM FriendshipIsMutual ==
  Spec => []FriendsAreMutual
<1>1. SocialInv => FriendsAreMutual
  BY DEF SocialInv
<1> QED
  BY <1>1, SocialInvariant, PTL

\* An accepted friend request is one between friends, whatever was removed or
\* blocked between the statements of the accept.
THEOREM AcceptedRequestsAreFriendships ==
  Spec => []AcceptedAreFriends
<1>1. SocialInv => AcceptedAreFriends
  BY DEF SocialInv
<1> QED
  BY <1>1, SocialInvariant, PTL

\* Two users share at most one direct conversation, with just them in it.
THEOREM DirectConversationIsUnique ==
  Spec => []OneDirectPerPair
<1>1. SocialInv => OneDirectPerPair
  BY DEF SocialInv
<1> QED
  BY <1>1, SocialInvariant, PTL

-------------------------------------------------------------------------------
(* What groups build on *)

FriendPairs == {Pair(f[1], f[2]) : f \in friendships}

\* The pairs of friends after a friendship is written, and after it is deleted.
LEMMA FriendPairsMove ==
  ASSUME TypeOK, NEW u \in Users, NEW v \in Users
  PROVE  /\ friendships' = Befriend(u, v)
            => FriendPairs' = FriendPairs \cup {{u, v}}
         /\ friendships' = WithoutFriendship(u, v)
            => FriendPairs' = FriendPairs \ {{u, v}}
         /\ BothWays(u, v) \cap friendships # {} => {u, v} \in FriendPairs
<1>1. ASSUME NEW f \in Users \X Users
      PROVE  f \in BothWays(u, v) <=> Pair(f[1], f[2]) = {u, v}
  <2>1. f = <<f[1], f[2]>>
    OBVIOUS
  <2>2. f \in BothWays(u, v) <=>
          (f[1] = u /\ f[2] = v) \/ (f[1] = v /\ f[2] = u)
    BY <2>1 DEF BothWays
  <2> QED
    BY <2>2 DEF Pair
<1>2. friendships \subseteq Users \X Users /\ BothWays(u, v) \subseteq Users \X Users
  BY DEF TypeOK, BothWays
<1>3. BothWays(u, v) # {}
  BY DEF BothWays
<1>4. ASSUME friendships' = Befriend(u, v)
      PROVE  FriendPairs' = FriendPairs \cup {{u, v}}
  <2>1. friendships' = friendships \cup BothWays(u, v)
    BY <1>4 DEF Befriend
  <2>2. \A f \in BothWays(u, v) : Pair(f[1], f[2]) = {u, v}
    BY <1>1, <1>2
  <2> QED
    BY <1>3, <2>1, <2>2 DEF FriendPairs
<1>5. ASSUME friendships' = WithoutFriendship(u, v)
      PROVE  FriendPairs' = FriendPairs \ {{u, v}}
  <2>1. friendships' = friendships \ BothWays(u, v)
    BY <1>5 DEF WithoutFriendship
  <2>2. \A f \in friendships : f \in BothWays(u, v) <=> Pair(f[1], f[2]) = {u, v}
    BY <1>1, <1>2
  <2> QED
    BY <2>1, <2>2 DEF FriendPairs
<1>6. ASSUME BothWays(u, v) \cap friendships # {} PROVE {u, v} \in FriendPairs
  <2>1. PICK f \in friendships : f \in BothWays(u, v)
    BY <1>6
  <2> QED
    BY <1>1, <1>2, <2>1 DEF FriendPairs
<1> QED
  BY <1>4, <1>5, <1>6

\* Every statement is one of the four moves, or none.
LEMMA StatementMovesFriends ==
  ASSUME SocialInv, [Next]_vars
  PROVE  [FriendTables!FriendshipsNext]_<<FriendPairs, blocks>>
<1>0. TypeOK
  BY DEF SocialInv
<1>1. ASSUME NEW w \in Workers, Handler(w), UNCHANGED <<friendships, blocks>>
      PROVE  UNCHANGED <<FriendPairs, blocks>>
  BY <1>1 DEF FriendPairs
<1>2. ASSUME NEW w \in Workers,
             \/ AcceptFriendRequest(w) \/ BlockUser(w) \/ UnblockUser(w)
             \/ RemoveFriend(w)
      PROVE  FriendTables!FriendshipsNext
  <2> DEFINE u == calls[w].user
             v == calls[w].other
  <2>1. u \in Users /\ v \in Users /\ u # v
    BY <1>0, <1>2, AtTyped
       DEF AcceptFriendRequest, BlockUser, UnblockUser, RemoveFriend
  <2>2. CASE AcceptFriendRequest(w)
    <3>1. friendships' = Befriend(u, v) /\ UNCHANGED blocks
      BY <2>2 DEF AcceptFriendRequest
    <3>2. FriendTables!Befriend(u, v)
      BY <1>0, <2>1, <3>1, FriendPairsMove DEF FriendTables!Befriend, FriendPairs
    <3> QED
      BY <2>1, <3>2 DEF FriendTables!FriendshipsNext
  <2>3. CASE BlockUser(w)
    <3>1. /\ friendships' = WithoutFriendship(u, v)
          /\ <<u, v>> \notin blocks /\ blocks' = blocks \cup {<<u, v>>}
      BY <2>3 DEF BlockUser
    <3>2. FriendTables!Block(u, v)
      BY <1>0, <2>1, <3>1, FriendPairsMove DEF FriendTables!Block, FriendPairs
    <3> QED
      BY <2>1, <3>2 DEF FriendTables!FriendshipsNext
  <2>4. CASE UnblockUser(w)
    <3>1. blocks' = blocks \ {<<u, v>>} /\ UNCHANGED friendships
      BY <2>4 DEF UnblockUser
    <3>2. FriendTables!Unblock(u, v)
      BY <3>1 DEF FriendTables!Unblock
    <3> QED
      BY <2>1, <3>2 DEF FriendTables!FriendshipsNext
  <2>5. CASE RemoveFriend(w)
    <3>1. /\ friendships' = WithoutFriendship(u, v)
          /\ BothWays(u, v) \cap friendships # {} /\ UNCHANGED blocks
      BY <2>5 DEF RemoveFriend
    <3>2. FriendTables!Unfriend(u, v)
      BY <1>0, <2>1, <3>1, FriendPairsMove DEF FriendTables!Unfriend, FriendPairs
    <3> QED
      BY <2>1, <3>2 DEF FriendTables!FriendshipsNext
  <2> QED
    BY <1>2, <2>2, <2>3, <2>4, <2>5
<1>3. ASSUME NEW w \in Workers, Handler(w)
      PROVE  \/ UNCHANGED <<friendships, blocks>>
             \/ AcceptFriendRequest(w) \/ BlockUser(w) \/ UnblockUser(w)
             \/ RemoveFriend(w)
  BY <1>3
     DEF Handler, BeginAnswer, BeginOther, Begin, CheckFriends, CheckBlocks,
         CheckPending, FindRequest, SendFriendRequest, RereadRequest,
         DeclineFriendRequest, LookUpDirect, CreateDirect, Abort, Proceed
<1>4. CASE UNCHANGED vars
  BY <1>4 DEF vars, FriendPairs
<1> QED
  BY <1>1, <1>2, <1>3, <1>4 DEF Next

\* However handlers overlap, the friendships and blocks that the rest of the
\* server reads move as module Friendships says.
THEOREM SocialImplementsFriendships ==
  Spec => ImplementsFriendships
<1>1. Init => FriendTables!FriendshipsInit
  BY DEF Init, FriendTables!FriendshipsInit
<1>2. SocialInv /\ [Next]_vars
      => [FriendTables!FriendshipsNext]_<<FriendPairs, blocks>>
  BY StatementMovesFriends
<1> QED
  BY <1>1, <1>2, SocialInvariant, PTL
  DEF Spec, ImplementsFriendships, FriendTables!FriendshipsSpec, FriendPairs

-------------------------------------------------------------------------------
(* Handlers that come one at a time *)

\* A request is one between two users.
Joins(r, u, v) == (r.from = u /\ r.to = v) \/ (r.from = v /\ r.to = u)

\* What docs/social.md says of a pair, of the rows of three tables.
RowsAgree(requests, pairs, blocked) ==
  /\ \A b \in blocked : <<b[1], b[2]>> \notin pairs
  /\ \A b \in blocked, i \in DOMAIN requests : ~ Joins(requests[i], b[1], b[2])
  /\ \A i, j \in DOMAIN requests :
       /\ requests[i].status = "pending" /\ requests[j].status = "pending"
       /\ Joins(requests[i], requests[j].from, requests[j].to)
       => i = j
  /\ \A i \in DOMAIN requests :
       requests[i].status = "pending"
       => /\ <<requests[i].from, requests[i].to>> \notin pairs
          /\ <<requests[i].to, requests[i].from>> \notin pairs
  /\ \A f \in pairs : \E i \in DOMAIN requests : Joins(requests[i], f[1], f[2])

TablesAgree == RowsAgree(friendRequests, friendships, blocks)

PairsHold ==
  /\ BlockedAreUnrelated
  /\ OnePendingPerPair
  /\ FriendsHaveNoPending
  /\ FriendsByRequest

\* The requests between two users, row by row.
LEMMA BetweenIsJoins ==
  ASSUME NEW u, NEW v, NEW i
  PROVE  /\ i \in RequestsBetween(u, v) <=>
              i \in DOMAIN friendRequests /\ Joins(friendRequests[i], u, v)
         /\ i \in PendingBetween(u, v) <=>
              /\ i \in DOMAIN friendRequests /\ Joins(friendRequests[i], u, v)
              /\ friendRequests[i].status = "pending"
BY DEF RequestsBetween, PendingBetween, BothWays, Joins

\* The properties of pairs say just that of the rows.
LEMMA RowsArePairs == TypeOK => (TablesAgree <=> PairsHold)
<1> SUFFICES ASSUME TypeOK PROVE TablesAgree <=> PairsHold
  OBVIOUS
<1>0. /\ friendships \subseteq Users \X Users
      /\ blocks \subseteq Users \X Users
      /\ \A i \in DOMAIN friendRequests :
           friendRequests[i].from \in Users /\ friendRequests[i].to \in Users
  BY RowOfTable DEF TypeOK, FriendRequest
<1>1. BlockedAreUnrelated <=>
        /\ \A b \in blocks : <<b[1], b[2]>> \notin friendships
        /\ \A b \in blocks, i \in DOMAIN friendRequests :
             ~ Joins(friendRequests[i], b[1], b[2])
  BY BetweenIsJoins DEF BlockedAreUnrelated, AreFriends
<1>2. OnePendingPerPair <=>
        \A i, j \in DOMAIN friendRequests :
          /\ friendRequests[i].status = "pending"
          /\ friendRequests[j].status = "pending"
          /\ Joins(friendRequests[i], friendRequests[j].from, friendRequests[j].to)
          => i = j
  <2>1. ASSUME OnePendingPerPair,
               NEW i \in DOMAIN friendRequests, NEW j \in DOMAIN friendRequests,
               friendRequests[i].status = "pending",
               friendRequests[j].status = "pending",
               Joins(friendRequests[i], friendRequests[j].from, friendRequests[j].to)
        PROVE  i = j
    <3> DEFINE u == friendRequests[j].from
               v == friendRequests[j].to
    <3>1. u \in Users /\ v \in Users
      BY <1>0, <2>1
    <3>2. i \in PendingBetween(u, v)
      BY <2>1, BetweenIsJoins
    <3>3. Joins(friendRequests[j], u, v)
      BY DEF Joins
    <3>4. j \in PendingBetween(u, v)
      BY <2>1, <3>3, BetweenIsJoins
    <3> QED
      BY <2>1, <3>1, <3>2, <3>4 DEF OnePendingPerPair
  <2>2. ASSUME NEW u, NEW v, NEW i \in PendingBetween(u, v),
               NEW j \in PendingBetween(u, v)
        PROVE  /\ i \in DOMAIN friendRequests /\ j \in DOMAIN friendRequests
               /\ friendRequests[i].status = "pending"
               /\ friendRequests[j].status = "pending"
               /\ Joins(friendRequests[i], friendRequests[j].from,
                        friendRequests[j].to)
    <3>1. /\ i \in DOMAIN friendRequests /\ j \in DOMAIN friendRequests
          /\ friendRequests[i].status = "pending"
          /\ friendRequests[j].status = "pending"
          /\ Joins(friendRequests[i], u, v) /\ Joins(friendRequests[j], u, v)
      BY BetweenIsJoins
    <3> QED
      BY <3>1 DEF Joins
  <2> QED
    BY <2>1, <2>2 DEF OnePendingPerPair
<1>3. FriendsHaveNoPending <=>
        \A i \in DOMAIN friendRequests :
          friendRequests[i].status = "pending"
          => /\ <<friendRequests[i].from, friendRequests[i].to>> \notin friendships
             /\ <<friendRequests[i].to, friendRequests[i].from>> \notin friendships
  <2>1. FriendsHaveNoPending <=>
          \A u, v \in Users, i \in DOMAIN friendRequests :
            /\ <<u, v>> \in friendships
            /\ friendRequests[i].status = "pending"
            => ~ Joins(friendRequests[i], u, v)
    BY BetweenIsJoins DEF FriendsHaveNoPending, AreFriends
  <2> QED
    BY <1>0, <2>1 DEF Joins
<1>4. FriendsByRequest <=>
        \A f \in friendships :
          \E i \in DOMAIN friendRequests : Joins(friendRequests[i], f[1], f[2])
  <2>1. \A u, v : RequestsBetween(u, v) # {} <=>
          \E i \in DOMAIN friendRequests : Joins(friendRequests[i], u, v)
    BY BetweenIsJoins
  <2>2. FriendsByRequest <=>
          \A u, v \in Users : <<u, v>> \in friendships
            => \E i \in DOMAIN friendRequests : Joins(friendRequests[i], u, v)
    BY <2>1 DEF FriendsByRequest, AreFriends
  <2> QED
    BY <1>0, <2>2
<1> QED
  BY <1>1, <1>2, <1>3, <1>4 DEF TablesAgree, RowsAgree, PairsHold

\* What the one handler under way has made sure of by its tests.
Tested(w) ==
  LET call == calls[w]
  IN /\ call.op = "request" =>
          /\ call.pos > 1 => ~ AreFriends(call.user, call.other)
          /\ call.pos > 2 => ~ HasBlockBetween(call.user, call.other)
          /\ call.pos > 3 => PendingBetween(call.user, call.other) = {}
     /\ call.op = "accept" /\ call.pos = 3
          => ~ HasBlockBetween(call.user, call.other)
     /\ call.op \in Answers /\ call.pos > 1 /\ call.pos < 4 =>
          /\ call.id \in DOMAIN friendRequests
          /\ friendRequests[call.id].status = "pending"

SerialInv ==
  /\ SocialInv
  /\ ~ overlapped =>
       /\ Alone
       /\ TablesAgree
       /\ \A w \in DOMAIN calls : Tested(w)

\* Where the statements of a request and of the answers are.
LEMMA PositionOf ==
  ASSUME TypeOK, NEW w, NEW ops, NEW statement, At(w, ops, statement)
  PROVE  LET op  == calls[w].op
             pos == calls[w].pos
         IN /\ pos \in Nat \ {0}
            /\ op = "request" =>
                 /\ statement = "friends" => pos = 1
                 /\ statement = "blocks" => pos = 2
                 /\ statement = "pending" => pos = 3
                 /\ statement = "write" => pos = 4
            /\ op = "accept" =>
                 /\ statement = "find" => pos = 1
                 /\ statement = "blocks" => pos = 2
                 /\ statement = "write" => pos = 3
                 /\ statement \in {"reread", "lookup", "create"} => pos > 3
            /\ op = "decline" =>
                 /\ statement = "find" => pos = 1
                 /\ statement = "write" => pos = 2
<1> DEFINE op  == calls[w].op
           pos == calls[w].pos
<1>1. /\ w \in DOMAIN calls /\ op \in ops
      /\ Statements[op][pos] = statement
  BY DEF At
<1>2. op \in AllOperations /\ pos \in Nat \ {0} /\ pos <= Len(Statements[op])
  BY <1>1, CallTyped
<1> HIDE DEF op, pos
<1>3. CASE op = "request"
  <2>1. pos \in {1, 2, 3, 4}
    BY <1>2, <1>3 DEF Statements
  <2> QED
    BY <1>1, <1>3, <2>1 DEF Statements, op, pos
<1>4. CASE op = "accept"
  <2>1. pos \in {1, 2, 3, 4, 5, 6}
    BY <1>2, <1>4 DEF Statements
  <2> QED
    BY <1>1, <1>4, <2>1 DEF Statements, op, pos
<1>5. CASE op = "decline"
  <2>1. pos \in {1, 2}
    BY <1>2, <1>5 DEF Statements
  <2> QED
    BY <1>1, <1>5, <2>1 DEF Statements, op, pos
<1> QED
  BY <1>2, <1>3, <1>4, <1>5 DEF op, pos

-------------------------------------------------------------------------------
(* The writes, on rows *)

\* A request between two users who have none pending, no friendship and no block.
LEMMA SendAgrees ==
  ASSUME NEW requests, NEW pairs, NEW blocked, RowsAgree(requests, pairs, blocked),
         NEW i, i \notin DOMAIN requests, NEW row, row.status = "pending",
         \A k \in DOMAIN requests :
           requests[k].status = "pending" => ~ Joins(requests[k], row.from, row.to),
         <<row.from, row.to>> \notin pairs, <<row.to, row.from>> \notin pairs,
         \A b \in blocked : ~ Joins(row, b[1], b[2])
  PROVE  RowsAgree(Put(requests, i, row), pairs, blocked)
<1> DEFINE new == Put(requests, i, row)
<1>1. /\ DOMAIN new = DOMAIN requests \cup {i} /\ new[i] = row
      /\ \A k \in DOMAIN requests : new[k] = requests[k]
  BY DEF Put
<1> HIDE DEF new
<1>2. \A b \in blocked, k \in DOMAIN new : ~ Joins(new[k], b[1], b[2])
  BY <1>1 DEF RowsAgree
<1>3. \A k, j \in DOMAIN new :
        /\ new[k].status = "pending" /\ new[j].status = "pending"
        /\ Joins(new[k], new[j].from, new[j].to)
        => k = j
  <2>1. \A k \in DOMAIN requests : requests[k].status = "pending"
          => /\ ~ Joins(requests[k], row.from, row.to)
             /\ ~ Joins(row, requests[k].from, requests[k].to)
    BY DEF Joins
  <2> QED
    BY <1>1, <2>1 DEF RowsAgree
<1>4. \A k \in DOMAIN new : new[k].status = "pending"
        => /\ <<new[k].from, new[k].to>> \notin pairs
           /\ <<new[k].to, new[k].from>> \notin pairs
  BY <1>1 DEF RowsAgree
<1>5. \A f \in pairs : \E k \in DOMAIN new : Joins(new[k], f[1], f[2])
  BY <1>1 DEF RowsAgree
<1> QED
  BY <1>2, <1>3, <1>4, <1>5 DEF RowsAgree, new

\* The answer of a pending request; a friendship comes with it or not.
LEMMA AnswerAgrees ==
  ASSUME NEW requests, NEW pairs, NEW blocked, RowsAgree(requests, pairs, blocked),
         NEW new, DOMAIN new = DOMAIN requests,
         NEW i \in DOMAIN requests, requests[i].status = "pending",
         new[i].status # "pending",
         \A k \in DOMAIN requests :
           /\ new[k].from = requests[k].from /\ new[k].to = requests[k].to
           /\ k # i => new[k] = requests[k],
         NEW more, pairs \subseteq more,
         \A f \in more \ pairs : Joins(new[i], f[1], f[2]),
         more # pairs => \A b \in blocked : ~ Joins(new[i], b[1], b[2])
  PROVE  RowsAgree(new, more, blocked)
<1>1. \A k \in DOMAIN requests : \A u, v :
        Joins(new[k], u, v) <=> Joins(requests[k], u, v)
  BY DEF Joins
<1>2. \A b \in blocked : <<b[1], b[2]>> \notin more
  <2>1. ASSUME NEW b \in blocked, <<b[1], b[2]>> \in more PROVE FALSE
    <3>1. <<b[1], b[2]>> \in more \ pairs
      BY <2>1 DEF RowsAgree
    <3> DEFINE f == <<b[1], b[2]>>
    <3>2. Joins(new[i], f[1], f[2])
      BY <3>1
    <3>3. f[1] = b[1] /\ f[2] = b[2]
      OBVIOUS
    <3> QED
      BY <3>1, <3>2, <3>3
  <2> QED
    BY <2>1
<1>3. \A b \in blocked, k \in DOMAIN new : ~ Joins(new[k], b[1], b[2])
  BY <1>1 DEF RowsAgree
<1>4. \A k, j \in DOMAIN new :
        /\ new[k].status = "pending" /\ new[j].status = "pending"
        /\ Joins(new[k], new[j].from, new[j].to)
        => k = j
  BY DEF RowsAgree
<1>5. ASSUME NEW k \in DOMAIN new, new[k].status = "pending"
      PROVE  /\ <<new[k].from, new[k].to>> \notin more
             /\ <<new[k].to, new[k].from>> \notin more
  <2>1. k # i /\ new[k] = requests[k] /\ requests[k].status = "pending"
    BY <1>5
  <2>2. ~ Joins(requests[k], requests[i].from, requests[i].to)
    BY <2>1 DEF RowsAgree
  <2>3. /\ ~ Joins(new[i], new[k].from, new[k].to)
        /\ ~ Joins(new[i], new[k].to, new[k].from)
    BY <2>1, <2>2 DEF Joins
  <2>4. \A u, v : <<u, v>> \in more \ pairs => Joins(new[i], u, v)
    <3>1. ASSUME NEW u, NEW v, <<u, v>> \in more \ pairs PROVE Joins(new[i], u, v)
      <4> DEFINE f == <<u, v>>
      <4>1. Joins(new[i], f[1], f[2])
        BY <3>1
      <4>2. f[1] = u /\ f[2] = v
        OBVIOUS
      <4> QED
        BY <4>1, <4>2
    <3> QED
      BY <3>1
  <2>5. /\ <<new[k].from, new[k].to>> \notin pairs
        /\ <<new[k].to, new[k].from>> \notin pairs
    BY <2>1 DEF RowsAgree
  <2> QED
    BY <2>3, <2>4, <2>5
<1>6. \A f \in more : \E k \in DOMAIN new : Joins(new[k], f[1], f[2])
  BY <1>1 DEF RowsAgree
<1> QED
  BY <1>2, <1>3, <1>4, <1>5, <1>6 DEF RowsAgree

\* The end of all there is between two users, and a block of one by the other
\* that comes with it or not.
LEMMA UnrelateAgrees ==
  ASSUME NEW requests, NEW pairs \in SUBSET (Users \X Users),
         NEW blocked \in SUBSET (Users \X Users),
         RowsAgree(requests, pairs, blocked), NEW u, NEW v,
         NEW new, NEW fewer, NEW more \in SUBSET (Users \X Users),
         DOMAIN new = {i \in DOMAIN requests : ~ Joins(requests[i], u, v)},
         \A i \in DOMAIN new : new[i] = requests[i],
         fewer = pairs \ BothWays(u, v),
         more \subseteq blocked \cup {<<u, v>>}
  PROVE  RowsAgree(new, fewer, more)
<1>1. <<u, v>> \notin fewer /\ <<v, u>> \notin fewer
  BY DEF BothWays
<1>2. \A b \in more : b \in blocked \/ (b[1] = u /\ b[2] = v)
  OBVIOUS
<1>3. \A b \in more : <<b[1], b[2]>> \notin fewer
  BY <1>1, <1>2 DEF RowsAgree
<1>4. \A b \in more, i \in DOMAIN new : ~ Joins(new[i], b[1], b[2])
  BY <1>2 DEF RowsAgree
<1>5. /\ \A i, j \in DOMAIN new :
           /\ new[i].status = "pending" /\ new[j].status = "pending"
           /\ Joins(new[i], new[j].from, new[j].to)
           => i = j
      /\ \A i \in DOMAIN new :
           new[i].status = "pending"
           => /\ <<new[i].from, new[i].to>> \notin fewer
              /\ <<new[i].to, new[i].from>> \notin fewer
  BY DEF RowsAgree
<1>6. ASSUME NEW f \in fewer
      PROVE  \E i \in DOMAIN new : Joins(new[i], f[1], f[2])
  <2>1. PICK i \in DOMAIN requests : Joins(requests[i], f[1], f[2])
    BY DEF RowsAgree
  <2>2. f = <<f[1], f[2]>>
    OBVIOUS
  <2>3. ~ (f[1] = u /\ f[2] = v) /\ ~ (f[1] = v /\ f[2] = u)
    BY <1>1, <2>2
  <2>4. ~ Joins(requests[i], u, v)
    BY <2>1, <2>3 DEF Joins
  <2> QED
    BY <2>1, <2>4
<1> QED
  BY <1>3, <1>4, <1>5, <1>6 DEF RowsAgree

-------------------------------------------------------------------------------
(* Every statement, when no other handler is under way *)

\* What a step of the only handler leaves to show.
SerialStep ==
  /\ TablesAgree'
  /\ \A w \in DOMAIN calls' : Tested(w)'

\* The only handler ends.
LEMMA SerialFinish ==
  ASSUME Alone, NEW w \in DOMAIN calls, Finish(w)
  PROVE  \A x \in DOMAIN calls' : Tested(x)'
<1>1. DOMAIN calls' = DOMAIN calls \ {w}
  BY DEF Finish, Remove
<1>2. DOMAIN calls' = {}
  BY <1>1 DEF Alone
<1> QED
  BY <1>2

\* The only handler starts, or goes on: the others' tests do not matter.
LEMMA SerialPut ==
  ASSUME Alone', NEW w, NEW call, calls' = Put(calls, w, call), Tested(w)'
  PROVE  \A x \in DOMAIN calls' : Tested(x)'
<1>1. w \in DOMAIN calls'
  BY DEF Put
<1> QED
  BY <1>1 DEF Alone

\* What the call of a handler that went on is.
LEMMA WentOn ==
  ASSUME TypeOK, NEW w \in DOMAIN calls, NEW other, GoOn(w, other)
  PROVE  /\ calls' = Put(calls, w, calls'[w])
         /\ calls'[w].op = calls[w].op /\ calls'[w].user = calls[w].user
         /\ calls'[w].id = calls[w].id /\ calls'[w].other = other
         /\ calls'[w].pos = calls[w].pos + 1
<1> DEFINE next == [calls[w] EXCEPT !.other = other, !.pos = @ + 1]
<1>1. calls' = Put(calls, w, next)
  BY DEF GoOn
<1>2. calls[w] \in Call
  BY CallTyped
<1>3. /\ next.op = calls[w].op /\ next.id = calls[w].id
      /\ next.user = calls[w].user /\ next.other = other
      /\ next.pos = calls[w].pos + 1
  BY <1>2 DEF Call
<1>4. calls'[w] = next
  BY <1>1 DEF Put
<1> HIDE DEF next
<1> QED
  BY <1>1, <1>3, <1>4

\* The statements that only read.
LEMMA SerialReads ==
  ASSUME TypeOK, TablesAgree, Alone', NEW w \in Workers,
         \A x \in DOMAIN calls : Tested(x),
         \/ CheckFriends(w) \/ CheckBlocks(w) \/ CheckPending(w)
         \/ FindRequest(w) \/ RereadRequest(w)
         \/ LookUpDirect(w) /\ ~ Finish(w)
  PROVE  SerialStep
<1>1. w \in DOMAIN calls /\ UNCHANGED <<friendRequests, friendships, blocks>>
  BY DEF CheckFriends, CheckBlocks, CheckPending, FindRequest, RereadRequest,
         LookUpDirect, Proceed, At
<1>2. TablesAgree'
  BY <1>1 DEF TablesAgree
<1>3. PICK other : GoOn(w, other) /\ (FindRequest(w) \/ other = calls[w].other)
  BY DEF CheckFriends, CheckBlocks, CheckPending, FindRequest, RereadRequest,
         LookUpDirect, Proceed
<1>4. /\ calls' = Put(calls, w, calls'[w])
      /\ calls'[w].op = calls[w].op /\ calls'[w].user = calls[w].user
      /\ calls'[w].id = calls[w].id /\ calls'[w].other = other
      /\ calls'[w].pos = calls[w].pos + 1
  BY <1>1, <1>3, WentOn
<1>5. SUFFICES Tested(w)'
  BY <1>2, <1>4, SerialPut DEF SerialStep
<1>6. calls[w].pos \in Nat \ {0} /\ calls[w].op \in AllOperations /\ Tested(w)
  BY <1>1, CallTyped
<1>7. \A u, v : /\ AreFriends(u, v)' <=> AreFriends(u, v)
                /\ HasBlockBetween(u, v)' <=> HasBlockBetween(u, v)
                /\ PendingBetween(u, v)' = PendingBetween(u, v)
  BY <1>1 DEF AreFriends, HasBlockBetween, PendingBetween, RequestsBetween
<1>8. CASE CheckFriends(w)
  <2>1. /\ At(w, {"request", "unfriend", "direct"}, "friends")
        /\ calls[w].op = "request" => ~ AreFriends(calls[w].user, calls[w].other)
    BY <1>8 DEF CheckFriends
  <2>2. /\ calls[w].op \in {"request", "unfriend", "direct"}
        /\ calls[w].op = "request" => calls[w].pos = 1
        /\ other = calls[w].other
    BY <1>3, <1>8, <2>1, PositionOf DEF At, FindRequest, Answers
  <2> QED
    BY <1>4, <1>7, <2>1, <2>2 DEF Tested, Answers
<1>9. CASE CheckBlocks(w)
  <2>1. /\ At(w, {"request", "accept", "direct"}, "blocks")
        /\ ~ HasBlockBetween(calls[w].user, calls[w].other)
    BY <1>9 DEF CheckBlocks
  <2>2. /\ calls[w].op \in {"request", "accept", "direct"}
        /\ calls[w].op \in {"request", "accept"} => calls[w].pos = 2
        /\ other = calls[w].other
    <3>1. ~ FindRequest(w)
      BY <2>1 DEF At, FindRequest
    <3> QED
      BY <1>3, <2>1, <3>1, PositionOf DEF At
  <2> QED
    BY <1>1, <1>4, <1>6, <1>7, <2>1, <2>2 DEF Tested, Answers
<1>10. CASE CheckPending(w)
  <2>1. /\ At(w, {"request"}, "pending")
        /\ PendingBetween(calls[w].user, calls[w].other) = {}
    BY <1>10 DEF CheckPending
  <2>2. calls[w].op = "request" /\ calls[w].pos = 3 /\ other = calls[w].other
    BY <1>3, <2>1, PositionOf DEF At, FindRequest, Answers
  <2> QED
    BY <1>4, <1>6, <1>7, <2>1, <2>2 DEF Tested, Answers
<1>11. CASE FindRequest(w)
  <2>1. /\ At(w, Answers, "find")
        /\ calls[w].id \in DOMAIN friendRequests
        /\ friendRequests[calls[w].id].status = "pending"
    BY <1>11 DEF FindRequest
  <2>2. calls[w].op \in Answers /\ calls[w].pos = 1
    BY <2>1, PositionOf DEF At, Answers
  <2> QED
    BY <1>1, <1>4, <2>1, <2>2 DEF Tested, Answers
<1>12. CASE RereadRequest(w) \/ LookUpDirect(w)
  <2>1. \/ At(w, {"accept"}, "reread")
        \/ At(w, {"accept", "direct"}, "lookup")
    BY <1>12 DEF RereadRequest, LookUpDirect
  <2>2. \/ calls[w].op = "direct"
        \/ calls[w].op = "accept" /\ calls[w].pos > 3
    BY <2>1, PositionOf DEF At
  <2> QED
    BY <1>4, <1>6, <2>2 DEF Tested, Answers
<1> QED
  BY <1>8, <1>9, <1>10, <1>11, <1>12

\* The statements that write the friend requests.
LEMMA SerialRequestWrites ==
  ASSUME SocialInv, TablesAgree, Alone, Alone', NEW w \in Workers,
         \A x \in DOMAIN calls : Tested(x),
         SendFriendRequest(w) \/ AcceptFriendRequest(w) \/ DeclineFriendRequest(w)
  PROVE  SerialStep
<1> DEFINE u == calls[w].user
           v == calls[w].other
           k == calls[w].id
<1>0. /\ TypeOK /\ FriendsAreMutual /\ AnswersKnow
      /\ friendships \subseteq Users \X Users /\ blocks \subseteq Users \X Users
  BY DEF SocialInv, TypeOK
<1>1. CASE SendFriendRequest(w)
  <2> DEFINE row == [from |-> u, to |-> v, status |-> "pending"]
  <2>1. /\ At(w, {"request"}, "write") /\ Finish(w)
        /\ UNCHANGED <<friendships, blocks>>
    BY <1>1 DEF SendFriendRequest
  <2>2. PICK i \in RequestIds \ issued : friendRequests' = Put(friendRequests, i, row)
    BY <1>1 DEF SendFriendRequest
  <2>3. w \in DOMAIN calls /\ calls[w].op = "request" /\ calls[w].pos = 4
        /\ u \in Users /\ v \in Users
    BY <1>0, <2>1, AtTyped, PositionOf
  <2>4. /\ ~ AreFriends(u, v) /\ ~ HasBlockBetween(u, v)
        /\ PendingBetween(u, v) = {}
    BY <2>3 DEF Tested
  <2> HIDE DEF u, v
  <2>5. /\ <<u, v>> \notin friendships /\ <<v, u>> \notin friendships
        /\ <<u, v>> \notin blocks /\ <<v, u>> \notin blocks
    BY <1>0, <2>3, <2>4
       DEF AreFriends, FriendsAreMutual, HasBlockBetween, BothWays
  <2>6. \A j \in DOMAIN friendRequests :
          friendRequests[j].status = "pending" => ~ Joins(friendRequests[j], u, v)
    BY <2>4, BetweenIsJoins
  <2>7. i \notin DOMAIN friendRequests
    BY <1>0, <2>2 DEF TypeOK
  <2>8. row.from = u /\ row.to = v /\ row.status = "pending"
    OBVIOUS
  <2> HIDE DEF row
  <2>9. \A b \in blocks : ~ Joins(row, b[1], b[2])
    <3>1. \A b \in blocks : b = <<b[1], b[2]>>
      BY <1>0
    <3> QED
      BY <2>5, <2>8, <3>1 DEF Joins
  <2>10. RowsAgree(Put(friendRequests, i, row), friendships, blocks)
    BY <2>5, <2>6, <2>7, <2>8, <2>9, SendAgrees DEF TablesAgree
  <2> QED
    BY <2>1, <2>2, <2>3, <2>10, SerialFinish DEF SerialStep, TablesAgree
<1>2. CASE AcceptFriendRequest(w)
  <2>1. /\ At(w, {"accept"}, "write") /\ Answer(k, "accepted")
        /\ friendships' = Befriend(u, v) /\ GoOn(w, v)
        /\ UNCHANGED <<issued, blocks>>
    BY <1>2 DEF AcceptFriendRequest
  <2>2. /\ w \in DOMAIN calls /\ calls[w].op = "accept" /\ calls[w].pos = 3
    BY <1>0, <2>1, AtTyped, PositionOf
  <2>3. /\ k \in DOMAIN friendRequests /\ friendRequests[k].status = "pending"
        /\ ~ HasBlockBetween(u, v)
        /\ friendRequests[k].to = u /\ friendRequests[k].from = v
    BY <1>0, <2>2 DEF Tested, Answers, AnswersKnow
  <2>4. /\ DOMAIN friendRequests' = DOMAIN friendRequests
        /\ \A i \in DOMAIN friendRequests :
             /\ friendRequests'[i].to = friendRequests[i].to
             /\ friendRequests'[i].from = friendRequests[i].from
             /\ i # k => friendRequests'[i] = friendRequests[i]
        /\ friendRequests'[k].status = "accepted"
    BY <1>0, <2>1, <2>3, AnswerStep
  <2>5. Tested(w)'
    <3>1. calls'[w].op = "accept" /\ calls'[w].pos = 4
      BY <1>0, <2>1, <2>2, WentOn
    <3> QED
      BY <3>1 DEF Tested, Answers
  <2>6. \A x \in DOMAIN calls' : Tested(x)'
    <3>1. calls' = Put(calls, w, calls'[w])
      BY <1>0, <2>1, <2>2, WentOn
    <3> QED
      BY <2>5, <3>1, SerialPut
  <2> HIDE DEF u, v, k
  <2>7. \A f \in friendships' \ friendships : Joins(friendRequests'[k], f[1], f[2])
    BY <2>1, <2>3, <2>4 DEF Befriend, BothWays, Joins
  <2>8. \A b \in blocks : ~ Joins(friendRequests'[k], b[1], b[2])
    <3>1. \A b \in blocks : b = <<b[1], b[2]>>
      BY <1>0
    <3>2. <<u, v>> \notin blocks /\ <<v, u>> \notin blocks
      BY <2>3 DEF HasBlockBetween, BothWays
    <3> QED
      BY <2>3, <2>4, <3>1, <3>2 DEF Joins
  <2>9. friendships \subseteq friendships'
    BY <2>1 DEF Befriend
  <2>10. RowsAgree(friendRequests', friendships', blocks)
    BY <2>3, <2>4, <2>7, <2>8, <2>9, AnswerAgrees DEF TablesAgree
  <2> QED
    BY <2>1, <2>6, <2>10 DEF SerialStep, TablesAgree
<1>3. CASE DeclineFriendRequest(w)
  <2>1. /\ At(w, {"decline"}, "write") /\ Answer(k, "declined") /\ Finish(w)
        /\ UNCHANGED <<issued, friendships, blocks>>
    BY <1>3 DEF DeclineFriendRequest
  <2>2. /\ w \in DOMAIN calls /\ calls[w].op = "decline" /\ calls[w].pos = 2
    BY <1>0, <2>1, AtTyped, PositionOf
  <2>3. k \in DOMAIN friendRequests /\ friendRequests[k].status = "pending"
    BY <2>2 DEF Tested, Answers
  <2>4. /\ DOMAIN friendRequests' = DOMAIN friendRequests
        /\ \A i \in DOMAIN friendRequests :
             /\ friendRequests'[i].to = friendRequests[i].to
             /\ friendRequests'[i].from = friendRequests[i].from
             /\ i # k => friendRequests'[i] = friendRequests[i]
        /\ friendRequests'[k].status = "declined"
    BY <1>0, <2>1, <2>3, AnswerStep
  <2> HIDE DEF k
  <2>5. RowsAgree(friendRequests', friendships, blocks)
    BY <2>3, <2>4, AnswerAgrees DEF TablesAgree
  <2> QED
    BY <2>1, <2>2, <2>5, SerialFinish DEF SerialStep, TablesAgree
<1> QED
  BY <1>1, <1>2, <1>3

\* The statements that end a relation or a block.
LEMMA SerialRelationWrites ==
  ASSUME SocialInv, TablesAgree, Alone, NEW w \in Workers,
         BlockUser(w) \/ UnblockUser(w) \/ RemoveFriend(w)
  PROVE  SerialStep
<1> DEFINE u == calls[w].user
           v == calls[w].other
<1>0. /\ TypeOK
      /\ friendships \subseteq Users \X Users /\ blocks \subseteq Users \X Users
  BY DEF SocialInv, TypeOK
<1>1. /\ \E op \in AllOperations : At(w, {op}, "write")
      /\ Finish(w)
  BY DEF BlockUser, UnblockUser, RemoveFriend, AllOperations, Statements
<1>2. w \in DOMAIN calls /\ u \in Users /\ v \in Users
  BY <1>0, <1>1, AtTyped
<1>3. SUFFICES TablesAgree'
  BY <1>1, <1>2, SerialFinish DEF SerialStep
<1>4. CASE BlockUser(w) \/ RemoveFriend(w)
  <2>1. /\ friendships' = friendships \ BothWays(u, v)
        /\ friendRequests' = Remove(friendRequests, RequestsBetween(u, v))
        /\ blocks' \subseteq blocks \cup {<<u, v>>}
    BY <1>4 DEF BlockUser, RemoveFriend, WithoutFriendship, WithoutRequests
  <2>2. /\ DOMAIN friendRequests' =
             {i \in DOMAIN friendRequests : ~ Joins(friendRequests[i], u, v)}
        /\ \A i \in DOMAIN friendRequests' : friendRequests'[i] = friendRequests[i]
    BY <2>1, BetweenIsJoins DEF Remove
  <2> HIDE DEF u, v
  <2>3. blocks' \in SUBSET (Users \X Users)
    BY <1>0, <1>2, <2>1
  <2> QED
    BY <1>0, <2>1, <2>2, <2>3, UnrelateAgrees DEF TablesAgree
<1>5. CASE UnblockUser(w)
  BY <1>5 DEF UnblockUser, TablesAgree, RowsAgree
<1> QED
  BY <1>4, <1>5

\* The first statement of a handler, the last one of those that write nothing
\* of this, and the end of a handler in between.
LEMMA SerialBeginsAndEnds ==
  ASSUME TablesAgree, Alone, Alone', NEW w \in Workers,
         \/ BeginAnswer(w) \/ BeginOther(w)
         \/ LookUpDirect(w) /\ Finish(w)
         \/ CreateDirect(w) \/ Abort(w)
  PROVE  SerialStep
<1>1. UNCHANGED <<friendRequests, friendships, blocks>>
  BY DEF BeginAnswer, BeginOther, Begin, LookUpDirect, Proceed, CreateDirect, Abort
<1>2. SUFFICES \A x \in DOMAIN calls' : Tested(x)'
  BY <1>1 DEF SerialStep, TablesAgree
<1>3. CASE BeginAnswer(w) \/ BeginOther(w)
  <2>1. PICK op, u, v, i : Begin(w, op, u, v, i)
    BY <1>3 DEF BeginAnswer, BeginOther
  <2> DEFINE call == [op |-> op, user |-> u, other |-> v, id |-> i, pos |-> 1]
  <2>2. calls' = Put(calls, w, call) /\ call.pos = 1
    BY <2>1 DEF Begin
  <2> HIDE DEF call
  <2>3. calls'[w].pos = 1
    BY <2>2 DEF Put
  <2>4. Tested(w)'
    BY <2>3 DEF Tested
  <2> QED
    BY <2>2, <2>4, SerialPut
<1>4. ASSUME Finish(w), w \in DOMAIN calls
      PROVE  \A x \in DOMAIN calls' : Tested(x)'
  BY <1>4, SerialFinish
<1> QED
  BY <1>3, <1>4 DEF LookUpDirect, CreateDirect, Abort, At

-------------------------------------------------------------------------------

\* The invariant of handlers that come one at a time holds at the start.
LEMMA SerialInvInit == SerialInit => SerialInv
<1> SUFFICES ASSUME SerialInit PROVE SerialInv
  OBVIOUS
<1>1. SocialInv
  BY SocialInit DEF SerialInit
<1>2. Alone /\ \A w \in DOMAIN calls : Tested(w)
  BY DEF SerialInit, Init, NoRows, Alone
<1>3. TablesAgree
  BY DEF SerialInit, Init, NoRows, TablesAgree, RowsAgree
<1> QED
  BY <1>1, <1>2, <1>3 DEF SerialInv

\* Every statement keeps it.
LEMMA SerialInvNext == SerialInv /\ [SerialNext]_serialVars => SerialInv'
<1> SUFFICES ASSUME SerialInv, [SerialNext]_serialVars PROVE SerialInv'
  OBVIOUS
<1>1. SocialInv /\ SocialInv'
  BY SocialNext DEF SerialInv, SerialNext, serialVars
<1>2. CASE UNCHANGED serialVars
  BY <1>1, <1>2
  DEF SerialInv, serialVars, vars, Alone, TablesAgree, Tested, AreFriends,
      HasBlockBetween, PendingBetween, RequestsBetween
<1>3. CASE SerialNext
  <2>1. SUFFICES ASSUME ~ overlapped' PROVE Alone' /\ SerialStep
    BY <1>1 DEF SerialInv, SerialStep
  <2>2. ~ overlapped /\ Alone'
    BY <1>3, <2>1 DEF SerialNext
  <2>3. Alone /\ TablesAgree /\ \A w \in DOMAIN calls : Tested(w)
    BY <2>2 DEF SerialInv
  <2>4. PICK w \in Workers : Handler(w)
    BY <1>3 DEF SerialNext, Next
  <2>5. TypeOK
    BY <1>1 DEF SocialInv
  <2> QED
    BY <1>1, <2>2, <2>3, <2>4, <2>5, SerialReads, SerialRequestWrites,
       SerialRelationWrites, SerialBeginsAndEnds DEF Handler
<1> QED
  BY <1>2, <1>3

\* While handlers come one at a time, all that docs/social.md says of a pair
\* holds: what each handler tested is still true when it writes.
THEOREM PairsStayConsistent == SerialSpec => []PairsAreConsistent
<1>1. SerialInv => PairsAreConsistent
  BY RowsArePairs DEF SerialInv, SocialInv, PairsHold, PairsAreConsistent
<1> QED
  BY <1>1, SerialInvInit, SerialInvNext, PTL DEF SerialSpec

-------------------------------------------------------------------------------
(* The relation of two users *)

\* Nobody blocks themselves.
BlocksApart == \A b \in blocks : b[1] # b[2]

\* What two users are to each other, of the rows of three tables.
RelationOf(requests, pairs, blocked, u, v) ==
  IF BothWays(u, v) \cap blocked # {} THEN "blocked"
  ELSE IF BothWays(u, v) \cap pairs # {} THEN "friends"
  ELSE IF \E i \in DOMAIN requests :
            requests[i].status = "pending" /\ Joins(requests[i], u, v)
       THEN "requested"
  ELSE "strangers"

\* The rows agree, none of them relates a user to themselves, and friendships
\* have both of theirs.
RowsApart(requests, pairs, blocked) ==
  /\ RowsAgree(requests, pairs, blocked)
  /\ \A u, v : <<u, v>> \in pairs => <<v, u>> \in pairs
  /\ \A u : <<u, u>> \notin pairs /\ <<u, u>> \notin blocked
  /\ \A i \in DOMAIN requests : requests[i].from # requests[i].to

\* The relation as SocialGraph reads it off rows.
RelationIn(requests, pairs, blocked) ==
  [p \in Pairs |->
     LET rows == p \X p
     IN CASE rows \cap blocked # {} -> "blocked"
          [] rows \cap pairs # {} -> "friends"
          [] \E u, v \in p : \E i \in DOMAIN requests :
               requests[i].status = "pending" /\ Joins(requests[i], u, v)
             -> "requested"
          [] OTHER -> "strangers"]

\* Pending requests between two users are rows.
LEMMA PendingIsRow ==
  ASSUME NEW u, NEW v
  PROVE  PendingBetween(u, v) # {} <=>
           \E i \in DOMAIN friendRequests :
             friendRequests[i].status = "pending" /\ Joins(friendRequests[i], u, v)
BY BetweenIsJoins

\* The relation, before and after a step, is one of rows.
LEMMA RelationIsOfRows ==
  /\ relation = RelationIn(friendRequests, friendships, blocks)
  /\ relation' = RelationIn(friendRequests', friendships', blocks')
<1>1. relation = RelationIn(friendRequests, friendships, blocks)
  BY PendingIsRow DEF relation, RelationIn
<1>2. ASSUME NEW u, NEW v
      PROVE  PendingBetween(u, v)' # {} <=>
               \E i \in DOMAIN friendRequests' :
                 /\ friendRequests'[i].status = "pending"
                 /\ Joins(friendRequests'[i], u, v)
  BY DEF RequestsBetween, PendingBetween, BothWays, Joins
<1>3. relation' = RelationIn(friendRequests', friendships', blocks')
  BY <1>2 DEF relation, RelationIn
<1> QED
  BY <1>1, <1>3

\* Of a pair, it is that of its two users.
LEMMA RelationOfPair ==
  ASSUME NEW requests, NEW pairs, NEW blocked, RowsApart(requests, pairs, blocked),
         NEW u \in Users, NEW v \in Users, u # v
  PROVE  /\ Pair(u, v) \in Pairs
         /\ RelationIn(requests, pairs, blocked)[Pair(u, v)]
              = RelationOf(requests, pairs, blocked, u, v)
<1> DEFINE p == Pair(u, v)
           rows == p \X p
           Pending(x, y) == \E i \in DOMAIN requests :
             requests[i].status = "pending" /\ Joins(requests[i], x, y)
<1>1. p \in Pairs
  <2> DEFINE q == <<u, v>>
  <2>1. q \in {r \in Users \X Users : r[1] # r[2]} /\ p = Pair(q[1], q[2])
    OBVIOUS
  <2> QED
    BY <2>1 DEF Pairs
<1>2. rows = BothWays(u, v) \cup {<<u, u>>, <<v, v>>}
  BY DEF Pair, BothWays
<1>3. /\ rows \cap blocked # {} <=> BothWays(u, v) \cap blocked # {}
      /\ rows \cap pairs # {} <=> BothWays(u, v) \cap pairs # {}
  BY <1>2 DEF RowsApart
<1>4. (\E x, y \in p : Pending(x, y)) <=> Pending(u, v)
  <2>1. \A x, y : Pending(x, y) => x # y
    BY DEF Joins, RowsApart
  <2>2. \A x, y : Pending(x, y) => Pending(y, x)
    BY DEF Joins
  <2>3. \A x, y \in p : x = y \/ (x = u /\ y = v) \/ (x = v /\ y = u)
    BY DEF Pair
  <2>4. u \in p /\ v \in p
    BY DEF Pair
  <2> HIDE DEF Pending, p
  <2> QED
    BY <2>1, <2>2, <2>3, <2>4
<1>5. RelationIn(requests, pairs, blocked)[p] =
        CASE rows \cap blocked # {} -> "blocked"
          [] rows \cap pairs # {} -> "friends"
          [] \E x, y \in p : Pending(x, y) -> "requested"
          [] OTHER -> "strangers"
  BY <1>1 DEF RelationIn
<1>6. RelationOf(requests, pairs, blocked, u, v) =
        IF BothWays(u, v) \cap blocked # {} THEN "blocked"
        ELSE IF BothWays(u, v) \cap pairs # {} THEN "friends"
        ELSE IF Pending(u, v) THEN "requested"
        ELSE "strangers"
  BY DEF RelationOf
<1>7. /\ BothWays(u, v) \cap blocked # {} =>
           BothWays(u, v) \cap pairs = {} /\ ~ Pending(u, v)
      /\ BothWays(u, v) \cap pairs # {} => ~ Pending(u, v)
  <2>1. BothWays(u, v) \cap pairs # {} => <<u, v>> \in pairs /\ <<v, u>> \in pairs
    BY DEF BothWays, RowsApart
  <2>2. ASSUME BothWays(u, v) \cap blocked # {}
        PROVE  ~ (<<u, v>> \in pairs /\ <<v, u>> \in pairs) /\ ~ Pending(u, v)
    <3>1. PICK b \in blocked : (b[1] = u /\ b[2] = v) \/ (b[1] = v /\ b[2] = u)
      BY <2>2 DEF BothWays
    <3>2. /\ <<b[1], b[2]>> \notin pairs
          /\ \A i \in DOMAIN requests : ~ Joins(requests[i], b[1], b[2])
      BY DEF RowsApart, RowsAgree
    <3> QED
      BY <3>1, <3>2 DEF Joins
  <2>3. Pending(u, v) => ~ (<<u, v>> \in pairs /\ <<v, u>> \in pairs)
    BY DEF RowsApart, RowsAgree, Joins
  <2> QED
    BY <2>1, <2>2, <2>3
<1> HIDE DEF Pending, rows, p
<1>8. RelationIn(requests, pairs, blocked)[p]
        = RelationOf(requests, pairs, blocked, u, v)
  <2>1. CASE BothWays(u, v) \cap blocked # {}
    BY <1>3, <1>4, <1>5, <1>6, <1>7, <2>1
  <2>2. CASE BothWays(u, v) \cap blocked = {} /\ BothWays(u, v) \cap pairs # {}
    BY <1>3, <1>4, <1>5, <1>6, <1>7, <2>2
  <2>3. CASE BothWays(u, v) \cap blocked = {} /\ BothWays(u, v) \cap pairs = {}
    BY <1>3, <1>4, <1>5, <1>6, <2>3
  <2> QED
    BY <2>1, <2>2, <2>3
<1> QED
  BY <1>1, <1>8 DEF p

\* A step on the rows of one pair moves that pair only.
LEMMA MovesOnePair ==
  ASSUME NEW requests, NEW pairs, NEW blocked, RowsApart(requests, pairs, blocked),
         NEW requests2, NEW pairs2, NEW blocked2,
         RowsApart(requests2, pairs2, blocked2),
         NEW u \in Users, NEW v \in Users, u # v,
         \A x, y : {x, y} # {u, v} =>
           /\ <<x, y>> \in blocked <=> <<x, y>> \in blocked2
           /\ <<x, y>> \in pairs <=> <<x, y>> \in pairs2,
         \A i \in DOMAIN requests :
           \/ i \in DOMAIN requests2 /\ requests2[i] = requests[i]
           \/ Joins(requests[i], u, v),
         \A i \in DOMAIN requests2 :
           \/ i \in DOMAIN requests /\ requests2[i] = requests[i]
           \/ Joins(requests2[i], u, v)
  PROVE  RelationIn(requests2, pairs2, blocked2) =
           [RelationIn(requests, pairs, blocked) EXCEPT
              ![Pair(u, v)] = RelationOf(requests2, pairs2, blocked2, u, v)]
<1> DEFINE old == RelationIn(requests, pairs, blocked)
           new == RelationIn(requests2, pairs2, blocked2)
<1>1. /\ Pair(u, v) \in Pairs
      /\ new[Pair(u, v)] = RelationOf(requests2, pairs2, blocked2, u, v)
  BY RelationOfPair
<1>2. ASSUME NEW p \in Pairs, p # Pair(u, v) PROVE new[p] = old[p]
  <2>1. PICK x \in Users, y \in Users : x # y /\ p = Pair(x, y)
    BY <1>2 DEF Pairs
  <2>2. /\ old[p] = RelationOf(requests, pairs, blocked, x, y)
        /\ new[p] = RelationOf(requests2, pairs2, blocked2, x, y)
    BY <2>1, RelationOfPair
  <2>3. {x, y} # {u, v} /\ {y, x} # {u, v}
    BY <1>2, <2>1 DEF Pair
  <2>4. /\ BothWays(x, y) \cap blocked # {} <=> BothWays(x, y) \cap blocked2 # {}
        /\ BothWays(x, y) \cap pairs # {} <=> BothWays(x, y) \cap pairs2 # {}
    BY <2>3 DEF BothWays
  <2>5. \A r : Joins(r, u, v) => ~ Joins(r, x, y)
    BY <2>3 DEF Joins
  <2>6. (\E i \in DOMAIN requests :
           requests[i].status = "pending" /\ Joins(requests[i], x, y))
        <=> (\E i \in DOMAIN requests2 :
               requests2[i].status = "pending" /\ Joins(requests2[i], x, y))
    BY <2>5
  <2> QED
    BY <2>2, <2>4, <2>6 DEF RelationOf
<1>3. /\ old = [p \in Pairs |-> old[p]] /\ new = [p \in Pairs |-> new[p]]
  BY DEF RelationIn
<1> HIDE DEF old, new
<1>4. new = [old EXCEPT ![Pair(u, v)] = RelationOf(requests2, pairs2, blocked2, u, v)]
  BY <1>1, <1>2, <1>3
<1> QED
  BY <1>4 DEF old, new

-------------------------------------------------------------------------------
(* Every statement moves as FriendGraph does *)

\* What the proof of a step knows of the states before and after it.
GraphInv == SerialInv /\ BlocksApart

Apart == SocialInv /\ TablesAgree /\ BlocksApart

LEMMA RowsAreApart == Apart => RowsApart(friendRequests, friendships, blocks)
<1> SUFFICES ASSUME Apart PROVE RowsApart(friendRequests, friendships, blocks)
  OBVIOUS
<1>1. TypeOK /\ FriendsAreMutual /\ RowsAgree(friendRequests, friendships, blocks)
  BY DEF Apart, SocialInv, TablesAgree
<1>2. \A i \in DOMAIN friendRequests : friendRequests[i].from # friendRequests[i].to
  BY <1>1, RowOfTable DEF TypeOK, FriendRequest
<1>3. \A u, v : <<u, v>> \in friendships => <<v, u>> \in friendships
  BY <1>1 DEF TypeOK, FriendsAreMutual, AreFriends
<1>4. ASSUME NEW u PROVE <<u, u>> \notin friendships
  <2> SUFFICES ASSUME <<u, u>> \in friendships PROVE FALSE
    OBVIOUS
  <2> DEFINE f == <<u, u>>
  <2>1. PICK i \in DOMAIN friendRequests : Joins(friendRequests[i], f[1], f[2])
    BY <1>1 DEF RowsAgree
  <2> QED
    BY <1>2, <2>1 DEF Joins
<1>5. ASSUME NEW u PROVE <<u, u>> \notin blocks
  <2> DEFINE b == <<u, u>>
  <2>1. b[1] = b[2]
    OBVIOUS
  <2> QED
    BY <2>1 DEF Apart, BlocksApart
<1> QED
  BY <1>1, <1>2, <1>3, <1>4, <1>5 DEF RowsApart

\* Only users who differ from the caller are blocked.
LEMMA BlocksStayApart == SocialInv /\ BlocksApart /\ [Next]_vars => BlocksApart'
<1> SUFFICES ASSUME SocialInv, BlocksApart, [Next]_vars PROVE BlocksApart'
  OBVIOUS
<1>1. ASSUME NEW w \in Workers, BlockUser(w) PROVE BlocksApart'
  <2>1. /\ At(w, {"block"}, "write")
        /\ blocks' = blocks \cup {<<calls[w].user, calls[w].other>>}
    BY <1>1 DEF BlockUser
  <2>2. calls[w].user # calls[w].other
    <3>1. TypeOK
      BY DEF SocialInv
    <3> QED
      BY <2>1, <3>1, AtTyped DEF Answers
  <2> QED
    BY <2>1, <2>2 DEF BlocksApart
<1>2. ASSUME NEW w \in Workers, Handler(w), ~ BlockUser(w)
      PROVE  blocks' \subseteq blocks
  BY <1>2
  DEF Handler, BeginAnswer, BeginOther, Begin, CheckFriends, CheckBlocks,
      CheckPending, FindRequest, Proceed, SendFriendRequest, AcceptFriendRequest,
      RereadRequest, DeclineFriendRequest, UnblockUser, RemoveFriend,
      LookUpDirect, CreateDirect, Abort
<1>3. CASE UNCHANGED vars
  BY <1>3 DEF vars, BlocksApart
<1> QED
  BY <1>1, <1>2, <1>3 DEF Next, BlocksApart

\* The moves of FriendGraph, by what they lead from and to.
LEMMA GraphMoves ==
  ASSUME NEW p \in Pairs, NEW to, relation' = [relation EXCEPT ![p] = to],
         \/ relation[p] = "strangers" /\ to = "requested"
         \/ relation[p] = "requested" /\ to \in {"friends", "strangers"}
         \/ relation[p] \in {"friends", "blocked"} /\ to = "strangers"
         \/ to = "blocked"
            /\ relation[p] \in {"strangers", "requested", "friends", "blocked"}
  PROVE  MovesAsFriendGraph
BY DEF MovesAsFriendGraph, Graph!Next, Graph!Move, Graph!Request, Graph!Accept,
       Graph!Decline, Graph!Unfriend, Graph!Block, Graph!Unblock, Graph!Relation

\* A statement that changes none of the three tables.
LEMMA TablesStay ==
  ASSUME UNCHANGED <<friendRequests, friendships, blocks>>
  PROVE  MovesAsFriendGraph /\ KeepsAnswers
BY RelationIsOfRows DEF MovesAsFriendGraph, KeepsAnswers

\* A statement on the rows of one pair.
LEMMA PairMoves ==
  ASSUME Apart, Apart',
         NEW u \in Users, NEW v \in Users, u # v,
         \A x, y : {x, y} # {u, v} =>
           /\ <<x, y>> \in blocks <=> <<x, y>> \in blocks'
           /\ <<x, y>> \in friendships <=> <<x, y>> \in friendships',
         \A i \in DOMAIN friendRequests :
           \/ i \in DOMAIN friendRequests' /\ friendRequests'[i] = friendRequests[i]
           \/ Joins(friendRequests[i], u, v),
         \A i \in DOMAIN friendRequests' :
           \/ i \in DOMAIN friendRequests /\ friendRequests'[i] = friendRequests[i]
           \/ Joins(friendRequests'[i], u, v)
  PROVE  /\ Pair(u, v) \in Pairs
         /\ relation[Pair(u, v)]
              = RelationOf(friendRequests, friendships, blocks, u, v)
         /\ relation' = [relation EXCEPT
              ![Pair(u, v)]
                = RelationOf(friendRequests', friendships', blocks', u, v)]
<1>1. RowsApart(friendRequests, friendships, blocks)
  BY RowsAreApart
<1>2. RowsApart(friendRequests', friendships', blocks')
  <2>1. (Apart => RowsApart(friendRequests, friendships, blocks))'
    BY RowsAreApart, PTL
  <2> QED
    BY <2>1
<1> QED
  BY <1>1, <1>2, RelationOfPair, MovesOnePair, RelationIsOfRows

\* A request: strangers become requested.
LEMMA SendMoves ==
  ASSUME Apart, Apart', NEW w \in Workers, \A x \in DOMAIN calls : Tested(x),
         SendFriendRequest(w)
  PROVE  MovesAsFriendGraph /\ KeepsAnswers
<1> DEFINE u == calls[w].user
           v == calls[w].other
           row == [from |-> u, to |-> v, status |-> "pending"]
<1>0. TypeOK /\ FriendsAreMutual
  BY DEF Apart, SocialInv
<1>1. At(w, {"request"}, "write") /\ UNCHANGED <<friendships, blocks>>
  BY DEF SendFriendRequest
<1>2. PICK i \in RequestIds \ issued : friendRequests' = Put(friendRequests, i, row)
  BY DEF SendFriendRequest
<1>3. /\ w \in DOMAIN calls /\ calls[w].op = "request" /\ calls[w].pos = 4
      /\ u \in Users /\ v \in Users /\ u # v
  BY <1>0, <1>1, AtTyped, PositionOf DEF Answers
<1>4. /\ ~ AreFriends(u, v) /\ ~ HasBlockBetween(u, v)
      /\ PendingBetween(u, v) = {}
  BY <1>3 DEF Tested
<1>5. row.from = u /\ row.to = v /\ row.status = "pending"
  OBVIOUS
<1>6. i \notin DOMAIN friendRequests
  BY <1>0, <1>2 DEF TypeOK
<1> HIDE DEF row, u, v
<1>7. /\ DOMAIN friendRequests' = DOMAIN friendRequests \cup {i}
      /\ friendRequests'[i] = row
      /\ \A k \in DOMAIN friendRequests : friendRequests'[k] = friendRequests[k]
  BY <1>2, <1>6 DEF Put
<1>8. Joins(friendRequests'[i], u, v)
  BY <1>5, <1>7 DEF Joins
<1>9. /\ Pair(u, v) \in Pairs
      /\ relation[Pair(u, v)]
           = RelationOf(friendRequests, friendships, blocks, u, v)
      /\ relation' = [relation EXCEPT
           ![Pair(u, v)]
             = RelationOf(friendRequests', friendships', blocks', u, v)]
  BY <1>1, <1>3, <1>7, <1>8, PairMoves
<1>10. BothWays(u, v) \cap friendships = {} /\ BothWays(u, v) \cap blocks = {}
  BY <1>0, <1>3, <1>4
     DEF AreFriends, FriendsAreMutual, HasBlockBetween, BothWays
<1>11. RelationOf(friendRequests, friendships, blocks, u, v) = "strangers"
  BY <1>4, <1>10, PendingIsRow DEF RelationOf
<1>12. RelationOf(friendRequests', friendships', blocks', u, v) = "requested"
  BY <1>1, <1>5, <1>7, <1>8, <1>10 DEF RelationOf
<1>13. MovesAsFriendGraph
  BY <1>9, <1>11, <1>12, GraphMoves
<1> QED
  BY <1>7, <1>13 DEF KeepsAnswers

\* An answer: the requested become friends or strangers.
LEMMA AnswerMoves ==
  ASSUME Apart, Apart', NEW w \in Workers, \A x \in DOMAIN calls : Tested(x),
         AcceptFriendRequest(w) \/ DeclineFriendRequest(w)
  PROVE  MovesAsFriendGraph /\ KeepsAnswers
<1> DEFINE u == calls[w].user
           v == calls[w].other
           k == calls[w].id
<1>0. TypeOK /\ FriendsAreMutual /\ AnswersKnow /\ TablesAgree
  BY DEF Apart, SocialInv
<1>1. PICK status \in {"accepted", "declined"} :
        /\ Answer(k, status) /\ UNCHANGED <<issued, blocks>>
        /\ status = "accepted" =>
             At(w, {"accept"}, "write") /\ friendships' = Befriend(u, v)
        /\ status = "declined" =>
             At(w, {"decline"}, "write") /\ UNCHANGED friendships
  BY DEF AcceptFriendRequest, DeclineFriendRequest
<1>2. /\ w \in DOMAIN calls /\ calls[w].op \in Answers
      /\ calls[w].pos > 1 /\ calls[w].pos < 4
      /\ u \in Users /\ v \in Users /\ u # v
  <2>1. CASE status = "accepted"
    BY <1>0, <1>1, <2>1, AtTyped, PositionOf DEF Answers
  <2>2. CASE status = "declined"
    BY <1>0, <1>1, <2>2, AtTyped, PositionOf DEF Answers
  <2> QED
    BY <2>1, <2>2
<1>3. /\ k \in DOMAIN friendRequests /\ friendRequests[k].status = "pending"
      /\ friendRequests[k].to = u /\ friendRequests[k].from = v
  BY <1>0, <1>2 DEF Tested, AnswersKnow
<1>4. /\ DOMAIN friendRequests' = DOMAIN friendRequests
      /\ \A i \in DOMAIN friendRequests :
           /\ friendRequests'[i].to = friendRequests[i].to
           /\ friendRequests'[i].from = friendRequests[i].from
           /\ i # k => friendRequests'[i] = friendRequests[i]
      /\ friendRequests'[k].status = status
  BY <1>0, <1>1, <1>3, AnswerStep
<1> HIDE DEF u, v, k
<1>5. Joins(friendRequests[k], u, v) /\ Joins(friendRequests'[k], u, v)
  BY <1>3, <1>4 DEF Joins
<1>6. /\ Pair(u, v) \in Pairs
      /\ relation[Pair(u, v)]
           = RelationOf(friendRequests, friendships, blocks, u, v)
      /\ relation' = [relation EXCEPT
           ![Pair(u, v)]
             = RelationOf(friendRequests', friendships', blocks', u, v)]
  <2>1. \A x, y : {x, y} # {u, v} =>
          (<<x, y>> \in friendships <=> <<x, y>> \in friendships')
    BY <1>1 DEF Befriend, BothWays
  <2> QED
    BY <1>1, <1>2, <1>4, <1>5, <2>1, PairMoves
<1>7. BothWays(u, v) \cap blocks = {}
  <2>1. \A b \in blocks : b = <<b[1], b[2]>> /\ ~ Joins(friendRequests[k], b[1], b[2])
    BY <1>0, <1>3 DEF TypeOK, TablesAgree, RowsAgree
  <2> QED
    BY <1>3, <2>1 DEF BothWays, Joins
<1>8. BothWays(u, v) \cap friendships = {}
  BY <1>0, <1>3 DEF TablesAgree, RowsAgree, BothWays
<1>9. RelationOf(friendRequests, friendships, blocks, u, v) = "requested"
  BY <1>3, <1>5, <1>7, <1>8 DEF RelationOf
<1>10. RelationOf(friendRequests', friendships', blocks', u, v)
         = IF status = "accepted" THEN "friends" ELSE "strangers"
  <2>1. CASE status = "accepted"
    <3>1. BothWays(u, v) \cap friendships' # {}
      BY <1>1, <2>1 DEF Befriend, BothWays
    <3> QED
      BY <1>1, <1>7, <2>1, <3>1 DEF RelationOf
  <2>2. CASE status = "declined"
    <3>1. ASSUME NEW i \in DOMAIN friendRequests',
                 friendRequests'[i].status = "pending",
                 Joins(friendRequests'[i], u, v)
          PROVE  FALSE
      <4>1. i # k /\ friendRequests'[i] = friendRequests[i]
        BY <1>4, <2>2, <3>1
      <4>2. Joins(friendRequests[i], friendRequests[k].from, friendRequests[k].to)
        BY <1>3, <3>1, <4>1 DEF Joins
      <4> QED
        BY <1>0, <1>3, <1>4, <3>1, <4>1, <4>2 DEF TablesAgree, RowsAgree
    <3> QED
      BY <1>1, <1>7, <1>8, <2>2, <3>1 DEF RelationOf
  <2> QED
    BY <2>1, <2>2
<1>11. MovesAsFriendGraph
  BY <1>6, <1>9, <1>10, GraphMoves
<1> QED
  BY <1>3, <1>4, <1>11 DEF KeepsAnswers

\* A block, the end of a friendship, and the end of a block.
LEMMA RelationMoves ==
  ASSUME Apart, Apart', NEW w \in Workers,
         BlockUser(w) \/ RemoveFriend(w) \/ UnblockUser(w)
  PROVE  MovesAsFriendGraph /\ KeepsAnswers
<1> DEFINE u == calls[w].user
           v == calls[w].other
<1>0. TypeOK /\ FriendsAreMutual /\ TablesAgree
  BY DEF Apart, SocialInv
<1>1. /\ u \in Users /\ v \in Users /\ u # v
  <2>1. \E op \in {"block", "unblock", "unfriend"} : At(w, {op}, "write")
    BY DEF BlockUser, UnblockUser, RemoveFriend
  <2> QED
    BY <1>0, <2>1, AtTyped DEF Answers
<1>2. /\ \/ friendships' = WithoutFriendship(u, v)
            /\ friendRequests' = WithoutRequests(u, v)
         \/ UNCHANGED <<friendships, friendRequests>>
      /\ \/ blocks' = blocks \cup {<<u, v>>}
         \/ blocks' = blocks \ {<<u, v>>}
         \/ UNCHANGED blocks
  BY DEF BlockUser, UnblockUser, RemoveFriend
<1>3. /\ DOMAIN friendRequests' \subseteq DOMAIN friendRequests
      /\ \A i \in DOMAIN friendRequests' : friendRequests'[i] = friendRequests[i]
      /\ \A i \in DOMAIN friendRequests :
           i \in DOMAIN friendRequests' \/ Joins(friendRequests[i], u, v)
  BY <1>2, BetweenIsJoins DEF WithoutRequests, Remove
<1>4. KeepsAnswers
  BY <1>3 DEF KeepsAnswers
<1>5. /\ Pair(u, v) \in Pairs
      /\ relation[Pair(u, v)]
           = RelationOf(friendRequests, friendships, blocks, u, v)
      /\ relation' = [relation EXCEPT
           ![Pair(u, v)]
             = RelationOf(friendRequests', friendships', blocks', u, v)]
  <2>1. \A x, y : {x, y} # {u, v} =>
          /\ <<x, y>> \in blocks <=> <<x, y>> \in blocks'
          /\ <<x, y>> \in friendships <=> <<x, y>> \in friendships'
    BY <1>2 DEF WithoutFriendship, BothWays
  <2> HIDE DEF u, v
  <2> QED
    BY <1>1, <1>3, <2>1, PairMoves
<1>6. RelationOf(friendRequests, friendships, blocks, u, v)
        \in {"strangers", "requested", "friends", "blocked"}
  BY DEF RelationOf
<1>7. CASE BlockUser(w)
  <2>1. BothWays(u, v) \cap blocks' # {}
    BY <1>7 DEF BlockUser, BothWays
  <2>2. RelationOf(friendRequests', friendships', blocks', u, v) = "blocked"
    BY <2>1 DEF RelationOf
  <2> QED
    BY <1>4, <1>5, <1>6, <2>2, GraphMoves
<1>8. CASE RemoveFriend(w)
  <2>1. /\ friendships' = WithoutFriendship(u, v)
        /\ friendRequests' = WithoutRequests(u, v) /\ UNCHANGED blocks
        /\ BothWays(u, v) \cap friendships # {}
    BY <1>8 DEF RemoveFriend
  <2> HIDE DEF u, v
  <2>2. <<u, v>> \in friendships /\ <<v, u>> \in friendships
    BY <1>0, <1>1, <2>1 DEF FriendsAreMutual, AreFriends, BothWays
  <2>3. BothWays(u, v) \cap blocks = {}
    <3>1. \A b \in blocks : <<b[1], b[2]>> \notin friendships
      BY <1>0 DEF TablesAgree, RowsAgree
    <3>2. \A b \in blocks : b = <<b[1], b[2]>>
      BY <1>0 DEF TypeOK
    <3> QED
      BY <2>2, <3>1, <3>2 DEF BothWays
  <2>4. RelationOf(friendRequests, friendships, blocks, u, v) = "friends"
    BY <2>1, <2>3 DEF RelationOf
  <2>5. \A i \in DOMAIN friendRequests' : ~ Joins(friendRequests'[i], u, v)
    BY <1>3, <2>1, BetweenIsJoins DEF WithoutRequests, Remove
  <2>6. BothWays(u, v) \cap friendships' = {}
    BY <2>1 DEF WithoutFriendship
  <2>7. RelationOf(friendRequests', friendships', blocks', u, v) = "strangers"
    BY <2>1, <2>3, <2>5, <2>6 DEF RelationOf
  <2> QED
    BY <1>4, <1>5, <2>4, <2>7, GraphMoves
<1>9. CASE UnblockUser(w)
  <2>1. blocks' = blocks \ {<<u, v>>} /\ UNCHANGED <<friendRequests, friendships>>
    BY <1>9 DEF UnblockUser
  <2> HIDE DEF u, v
  <2>2. CASE <<u, v>> \notin blocks
    <3>1. UNCHANGED <<friendRequests, friendships, blocks>>
      BY <2>1, <2>2
    <3> QED
      BY <3>1, TablesStay
  <2>3. CASE <<u, v>> \in blocks
    <3>1. RelationOf(friendRequests, friendships, blocks, u, v) = "blocked"
      BY <2>3 DEF RelationOf, BothWays
    <3>2. CASE <<v, u>> \in blocks'
      <4>1. RelationOf(friendRequests', friendships', blocks', u, v) = "blocked"
        BY <3>2 DEF RelationOf, BothWays
      <4> QED
        BY <1>4, <1>5, <3>1, <4>1, GraphMoves
    <3>3. CASE <<v, u>> \notin blocks'
      <4>1. BothWays(u, v) \cap blocks' = {}
        BY <2>1, <3>3 DEF BothWays
      <4> DEFINE b == <<u, v>>
      <4>2. /\ <<b[1], b[2]>> \notin friendships
            /\ \A i \in DOMAIN friendRequests : ~ Joins(friendRequests[i], b[1], b[2])
        BY <1>0, <2>3 DEF TablesAgree, RowsAgree
      <4>3. BothWays(u, v) \cap friendships = {}
        BY <1>0, <1>1, <4>2 DEF FriendsAreMutual, AreFriends, BothWays
      <4>4. RelationOf(friendRequests', friendships', blocks', u, v) = "strangers"
        BY <2>1, <4>1, <4>2, <4>3 DEF RelationOf
      <4> QED
        BY <1>4, <1>5, <3>1, <4>4, GraphMoves
    <3> QED
      BY <3>2, <3>3
  <2> QED
    BY <2>2, <2>3
<1> QED
  BY <1>7, <1>8, <1>9

\* Every other statement leaves the three tables.
LEMMA OthersStay ==
  ASSUME NEW w \in Workers,
         \/ BeginAnswer(w) \/ BeginOther(w) \/ CheckFriends(w) \/ CheckBlocks(w)
         \/ CheckPending(w) \/ FindRequest(w) \/ RereadRequest(w)
         \/ LookUpDirect(w) \/ CreateDirect(w) \/ Abort(w)
  PROVE  MovesAsFriendGraph /\ KeepsAnswers
<1>1. UNCHANGED <<friendRequests, friendships, blocks>>
  BY DEF BeginAnswer, BeginOther, Begin, CheckFriends, CheckBlocks, CheckPending,
         FindRequest, RereadRequest, LookUpDirect, CreateDirect, Abort, Proceed
<1> QED
  BY <1>1, TablesStay

\* docs/social.md: while handlers come one at a time every pair of users moves
\* between strangers, requested, friends and blocked as FriendGraph does, and no
\* answer replaces another.
THEOREM SocialImplementsFriendGraph == SerialSpec => ImplementsFriendGraph
<1>1. SerialInit => GraphInv
  BY SerialInvInit DEF GraphInv, BlocksApart, SerialInit, Init
<1>2. GraphInv /\ [SerialNext]_serialVars => GraphInv'
  BY SerialInvNext, BlocksStayApart
  DEF GraphInv, SerialInv, SerialNext, serialVars
<1>3. SerialInit => Graph!Init
  <2>1. Init => relation = [p \in Pairs |-> "strangers"]
    BY RelationIsOfRows DEF Init, NoRows, RelationIn
  <2> QED
    BY <2>1 DEF SerialInit, Graph!Init
<1>4. GraphInv /\ GraphInv' /\ [SerialNext]_serialVars
      => [~ overlapped' => MovesAsFriendGraph /\ KeepsAnswers]_serialVars
  <2> SUFFICES ASSUME GraphInv, GraphInv', SerialNext, ~ overlapped'
               PROVE  MovesAsFriendGraph /\ KeepsAnswers
    OBVIOUS
  <2>1. ~ overlapped
    BY DEF SerialNext
  <2>2. Apart /\ Apart' /\ \A x \in DOMAIN calls : Tested(x)
    BY <2>1 DEF GraphInv, SerialInv, Apart
  <2>3. PICK w \in Workers : Handler(w)
    BY DEF SerialNext, Next
  <2> QED
    BY <2>2, <2>3, SendMoves, AnswerMoves, RelationMoves, OthersStay DEF Handler
<1> QED
  BY <1>1, <1>2, <1>3, <1>4, PTL DEF SerialSpec, ImplementsFriendGraph
===============================================================================
