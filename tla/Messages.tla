------------------------------- MODULE Messages -------------------------------
(*****************************************************************************)
(* The message operations of the server: internal/service/messages.go above  *)
(* internal/store/messages.go.                                               *)
(*                                                                           *)
(* An HTTP request runs a service method: it reads (is the caller a member,  *)
(* is the message visible), then writes.  The database pool holds one        *)
(* connection (storage.Open), so each statement outside a transaction and    *)
(* each transaction is atomic and they happen in one order; between two of   *)
(* them any other request may run, and a request may end at any of them (a   *)
(* failed check, a cancelled context, a crash of the process).  One action   *)
(* is one such step; `requests' holds the handlers that are between steps.   *)
(*****************************************************************************)
EXTENDS Integers, Sequences, FiniteSets, Tables

CONSTANTS
  Users,            \* accounts
  Conversations,    \* rows of the table conversations
  Groups,           \* those of type group: the ones whose members change
  MessageIds,       \* UUIDs that ids.New may return
  Bodies,           \* message bodies (or sticker ids)
  MessageTypes,     \* the types an instance sends: "text", "sticker"
  Requests,         \* handlers that may run at the same time
  Operations,       \* the operations an instance calls
  NoBody,           \* the body of a recalled message: ''
  NoMessage,        \* quoted_message_id IS NULL
  MaxBatchSize,     \* maxMessageBatchSize
  MillisPerSecond,  \* conversations.updated_at counts seconds, the rest ms
  MaxChanges,       \* bound: rows of message_changes
  MaxClock          \* bound: milliseconds that pass

AllOperations == {"send", "quote", "edit", "recall", "forward", "delete",
                  "favorite", "unfavorite", "read"}

ASSUME MessagesAssumption ==
  /\ Groups \subseteq Conversations
  /\ NoBody \notin Bodies
  /\ NoMessage \notin MessageIds
  /\ MessageTypes \subseteq {"text", "sticker"}
  /\ Operations \subseteq AllOperations
  /\ MaxBatchSize \in Nat \ {0}
  /\ MillisPerSecond \in Nat \ {0}
  /\ MaxChanges \in Nat
  /\ MaxClock \in Nat

VARIABLES
  members,      \* conversation_members: the users of each conversation
  joinedAt,     \* their joined_at, as the length `changes' had when they joined
  messages,     \* messages, by id
  changes,      \* message_changes, in the order of its AUTOINCREMENT id
  userStates,   \* message_user_states, by <<message, user>>
  receipts,     \* read_receipts.read_at, by <<message, user>>
  updatedAt,    \* conversations.updated_at
  clock,        \* time.Now
  requests      \* handlers between two steps

vars == <<members, joinedAt, messages, changes, userStates, receipts,
          updatedAt, clock, requests>>

-------------------------------------------------------------------------------
(* Types *)

Message == [conv : Conversations, sender : Users, type : {"text", "sticker"},
            body : Bodies \cup {NoBody}, recalled : BOOLEAN,
            quoted : MessageIds \cup {NoMessage},
            createdAt : Nat, updatedAt : Nat]

Change == [message : MessageIds, changedAt : Nat]

UserState == [favorited : BOOLEAN, deleted : BOOLEAN]

\* A handler: its caller and arguments, `pos' the element of the batch it is
\* at, `at' the earliest value its s.now() may still take, or the value it
\* took, and what it read of the message it forwards.
Request == [op : AllOperations, user : Users, conv : Conversations,
            dest : Conversations, batch : Seq(MessageIds), pos : Nat \ {0},
            at : Nat, stage : {"target", "find", "check", "write"},
            body : Bodies \cup {NoBody}, type : {"text", "sticker"}]

\* A request with a batch is at one of its elements, and they are all stored
\* (messages are never deleted).
BatchOK(q) ==
  /\ q.op # "send" => q.pos <= Len(q.batch)
  /\ \A i \in DOMAIN q.batch : q.batch[i] \in DOMAIN messages

TypeOK ==
  /\ members \in [Conversations -> SUBSET Users]
  /\ joinedAt \in [Conversations -> [Users -> Nat]]
  /\ IsTable(messages, MessageIds, Message)
  /\ changes \in Seq(Change)
  /\ IsTable(userStates, MessageIds \X Users, UserState)
  /\ IsTable(receipts, MessageIds \X Users, Nat)
  /\ updatedAt \in [Conversations -> Nat]
  /\ clock \in Nat
  /\ IsTable(requests, Requests, Request)
  /\ \A r \in DOMAIN requests : BatchOK(requests[r])

Init ==
  /\ members = [c \in Conversations |-> Users]
  /\ joinedAt = [c \in Conversations |-> [u \in Users |-> 0]]
  /\ messages = NoRows
  /\ changes = << >>
  /\ userStates = NoRows
  /\ receipts = NoRows
  /\ updatedAt = [c \in Conversations |-> 0]
  /\ clock = 0
  /\ requests = NoRows

-------------------------------------------------------------------------------
(* Reads *)

\* The user deleted the message for themselves: deleted_at IS NOT NULL.
Hidden(u, m) ==
  <<m, u>> \in DOMAIN userStates /\ userStates[<<m, u>>].deleted

\* FindVisibleMessageByID finds a row.
VisibleIn(u, c, m) ==
  /\ m \in DOMAIN messages
  /\ messages[m].conv = c
  /\ ~ Hidden(u, m)

\* message_user_states of a message the user never touched.
StateOf(u, m) ==
  IF <<m, u>> \in DOMAIN userStates THEN userStates[<<m, u>>]
  ELSE [favorited |-> FALSE, deleted |-> FALSE]

-------------------------------------------------------------------------------
(* Statements of the transactions *)

\* Mutant: a message has one row in the log, as 0010 fills it.
RecordFirstChange(m, now) ==
  IF \E i \in DOMAIN changes : changes[i].message = m THEN UNCHANGED changes
  ELSE changes' = Append(changes, [message |-> m, changedAt |-> now])

\* INSERT INTO message_changes; its id is the next of an AUTOINCREMENT column,
\* which a rolled back transaction gives back.
RecordMessageChange(m, now) ==
  /\ Len(changes) < MaxChanges
  /\ changes' = Append(changes, [message |-> m, changedAt |-> now])

\* Mutant: the second before.
TouchConversationEarlier(c, now) ==
  updatedAt' = [updatedAt EXCEPT ![c] = (now \div MillisPerSecond) - 1]

\* UPDATE conversations SET updated_at = now.Unix()
TouchConversation(c, now) ==
  updatedAt' = [updatedAt EXCEPT ![c] = now \div MillisPerSecond]

\* The transaction of CreateMessage, under a fresh id.
CreateMessage(m, c, sender, type, body, quoted, now) ==
  /\ m \notin DOMAIN messages
  /\ messages' = Put(messages, m,
       [conv |-> c, sender |-> sender, type |-> type, body |-> body,
        recalled |-> FALSE, quoted |-> quoted,
        createdAt |-> now, updatedAt |-> now])
  /\ RecordMessageChange(m, now)
  /\ TouchConversation(c, now)

-------------------------------------------------------------------------------
(* Requests *)

\* The arguments a request may name: normalizeMessageIDs leaves a non-empty
\* list without duplicates, of at most maxMessageBatchSize existing or unknown
\* ids (an unknown one fails before it changes anything, so is not tried).
Batches(op) ==
  LET one  == {<<m>> : m \in DOMAIN messages}
      many == UNION {{b \in [1 .. n -> DOMAIN messages] :
                        \A i, j \in 1 .. n : b[i] = b[j] => i = j} :
                     n \in 1 .. MaxBatchSize}
  IN CASE op = "send" -> {<< >>}
       [] op \in {"forward", "delete", "favorite"} -> many
       [] OTHER -> one

\* What a handler does after it knows that the caller is a member.
FirstStage(op) ==
  CASE op = "forward" -> "target"
    [] op = "edit" -> "find"
    [] op \in {"quote", "favorite", "unfavorite"} -> "check"
    [] OTHER -> "write"

\* requireConversationMember: the caller is a member of an existing
\* conversation.  From here on membership is not looked at again.
Begin(r, op, u, c, d, b) ==
  /\ r \notin DOMAIN requests
  /\ u \in members[c]
  /\ op # "forward" => d = c
  /\ requests' = Put(requests, r,
       [op |-> op, user |-> u, conv |-> c, dest |-> d, batch |-> b, pos |-> 1,
        at |-> clock, stage |-> FirstStage(op), body |-> NoBody,
        type |-> "text"])
  /\ UNCHANGED <<members, joinedAt, messages, changes, userStates, receipts,
                 updatedAt, clock>>

BeginAny(r) ==
  \E op \in Operations, u \in Users, c, d \in Conversations :
    \E b \in Batches(op) : Begin(r, op, u, c, d, b)

\* A step that only reads: the handler goes on as `next'.
Advance(r, next) ==
  /\ requests' = Put(requests, r, next)
  /\ UNCHANGED <<members, joinedAt, messages, changes, userStates, receipts,
                 updatedAt, clock>>

\* The handler has made its last write.
Finish(r) == requests' = Remove(requests, {r})

At(r, ops, stage) ==
  r \in DOMAIN requests /\ requests[r].op \in ops /\ requests[r].stage = stage

\* ForwardMessages: the second requireConversationMember.
CheckTarget(r) ==
  /\ At(r, {"forward"}, "target")
  /\ requests[r].user \in members[requests[r].dest]
  /\ Advance(r, [requests[r] EXCEPT !.stage = "check", !.at = clock])

\* EditMessage: the message is the caller's own text message of this
\* conversation.  None of the three can change, and recalls are not looked at.
FindEditable(r) ==
  LET q == requests[r]
      m == q.batch[1]
  IN /\ At(r, {"edit"}, "find")
     /\ messages[m].conv = q.conv
     /\ messages[m].sender = q.user
     /\ messages[m].type = "text"
     /\ Advance(r, [q EXCEPT !.stage = "write", !.at = clock])

\* Mutant: a caller takes any visible message.
MayReuseRecalled(m) == TRUE

\* The test of recalled_at of SendMessage, FavoriteMessages, ForwardMessages.
MayReuse(m) == ~ messages[m].recalled

\* FindVisibleMessageByID for one element of the batch, and the test that
\* all callers but UnfavoriteMessage make.
FindVisible(r) ==
  LET q == requests[r]
      m == q.batch[q.pos]
  IN /\ At(r, {"quote", "favorite", "unfavorite"}, "check")
     /\ VisibleIn(q.user, q.conv, m)
     /\ q.op # "unfavorite" => MayReuse(m)
     /\ Advance(r, IF q.pos < Len(q.batch)
                   THEN [q EXCEPT !.pos = @ + 1]
                   ELSE [q EXCEPT !.stage = "write", !.at = clock])

\* One turn of the loop of ForwardMessages up to its write.  s.now() was read
\* before the first turn.
FindForwarded(r) ==
  LET q == requests[r]
      m == q.batch[q.pos]
  IN /\ At(r, {"forward"}, "check")
     /\ VisibleIn(q.user, q.conv, m)
     /\ MayReuse(m)
     /\ \E now \in IF q.pos = 1 THEN q.at .. clock ELSE {q.at} :
          Advance(r, [q EXCEPT !.stage = "write", !.at = now,
                               !.body = messages[m].body,
                               !.type = messages[m].type])

-------------------------------------------------------------------------------
(* Writes *)

\* Mutant: the transaction trusts the checks made before it.
MayRewriteUnchecked(q, m) == messages[m].conv = q.conv /\ messages[m].sender = q.user

\* What the transactions of EditMessage and RecallMessage read again first.
MayRewrite(q, m) ==
  /\ messages[m].conv = q.conv
  /\ messages[m].sender = q.user
  /\ ~ messages[m].recalled

SendMessage(r) ==
  LET q == requests[r]
  IN /\ At(r, {"send", "quote"}, "write")
     /\ \E m \in MessageIds, type \in MessageTypes, body \in Bodies,
           now \in q.at .. clock :
          CreateMessage(m, q.conv, q.user, type, body,
                        IF q.op = "quote" THEN q.batch[1] ELSE NoMessage, now)
     /\ Finish(r)
     /\ UNCHANGED <<members, joinedAt, userStates, receipts, clock>>

\* Each element is a transaction of its own, stamped i ms after the first.
ForwardMessages(r) ==
  LET q == requests[r]
  IN /\ At(r, {"forward"}, "write")
     /\ \E m \in MessageIds :
          CreateMessage(m, q.dest, q.user, q.type, q.body, NoMessage,
                        q.at + q.pos - 1)
     /\ IF q.pos < Len(q.batch)
        THEN requests' = Put(requests, r, [q EXCEPT !.pos = @ + 1,
                                                    !.stage = "check"])
        ELSE Finish(r)
     /\ UNCHANGED <<members, joinedAt, userStates, receipts, clock>>

EditMessage(r) ==
  LET q == requests[r]
      m == q.batch[1]
  IN /\ At(r, {"edit"}, "write")
     /\ MayRewrite(q, m)
     /\ \E body \in Bodies, now \in q.at .. clock :
          /\ messages' = [messages EXCEPT ![m].body = body,
                                          ![m].updatedAt = now]
          /\ RecordMessageChange(m, now)
          /\ TouchConversation(q.conv, now)
     /\ Finish(r)
     /\ UNCHANGED <<members, joinedAt, userStates, receipts, clock>>

RecallMessage(r) ==
  LET q == requests[r]
      m == q.batch[1]
  IN /\ At(r, {"recall"}, "write")
     /\ MayRewrite(q, m)
     /\ \E now \in q.at .. clock :
          /\ messages' = [messages EXCEPT ![m].body = NoBody,
                                          ![m].recalled = TRUE,
                                          ![m].updatedAt = now]
          /\ RecordMessageChange(m, now)
          /\ TouchConversation(q.conv, now)
     /\ Finish(r)
     /\ UNCHANGED <<members, joinedAt, userStates, receipts, clock>>

\* Mutant: of the target's millisecond only the target.
ReadBefore(u, c, target) ==
  {m \in DOMAIN messages :
     /\ VisibleIn(u, c, m)
     /\ messages[m].createdAt < messages[target].createdAt \/ m = target
     /\ messages[m].sender # u}

\* The received, visible messages up to the target's created_at.
ReadThrough(u, c, target) ==
  {m \in DOMAIN messages :
     /\ VisibleIn(u, c, m)
     /\ messages[m].createdAt <= messages[target].createdAt
     /\ messages[m].sender # u}

\* Mutant: the upsert has no WHERE.
OverwritesReceipt(k, now) == TRUE

\* ON CONFLICT DO UPDATE ... WHERE excluded.read_at > read_receipts.read_at
UpdatesReceipt(k, now) == k \in DOMAIN receipts => now > receipts[k]

\* One INSERT ... SELECT; the target's row, read by the statement before, never
\* changes its conversation or created_at.
MarkRead(r) ==
  LET q == requests[r]
      target == q.batch[1]
  IN /\ At(r, {"read"}, "write")
     /\ messages[target].conv = q.conv
     /\ \E now \in q.at .. clock :
          receipts' = Merge(receipts,
            [k \in {k \in ReadThrough(q.user, q.conv, target) \X {q.user} :
                      UpdatesReceipt(k, now)} |-> now])
     /\ Finish(r)
     /\ UNCHANGED <<members, joinedAt, messages, changes, userStates,
                    updatedAt, clock>>

\* The rows a batch of the caller has in message_user_states.
StateKeys(q) == {<<q.batch[i], q.user>> : i \in DOMAIN q.batch}

\* All the elements are messages of the conversation, or the transaction rolls
\* back.
BatchInConversation(q) ==
  \A i \in DOMAIN q.batch : messages[q.batch[i]].conv = q.conv

DeleteMessagesForMe(r) ==
  LET q == requests[r]
  IN /\ At(r, {"delete"}, "write")
     /\ BatchInConversation(q)
     /\ userStates' = Merge(userStates,
          [k \in StateKeys(q) |-> [StateOf(k[2], k[1]) EXCEPT !.deleted = TRUE]])
     /\ Finish(r)
     /\ UNCHANGED <<members, joinedAt, messages, changes, receipts, updatedAt,
                    clock>>

\* The transaction does not look at deleted_at or recalled_at again.
FavoriteMessages(r) ==
  LET q == requests[r]
  IN /\ At(r, {"favorite"}, "write")
     /\ BatchInConversation(q)
     /\ userStates' = Merge(userStates,
          [k \in StateKeys(q) |-> [StateOf(k[2], k[1]) EXCEPT !.favorited = TRUE]])
     /\ Finish(r)
     /\ UNCHANGED <<members, joinedAt, messages, changes, receipts, updatedAt,
                    clock>>

\* Mutant: the row goes with the favorite.
WithoutFavoriteRow(u, m) == Remove(userStates, {<<m, u>>})

\* UPDATE favorited_at = NULL, then DELETE of a row with both columns NULL.
WithoutFavorite(u, m) ==
  IF Hidden(u, m) THEN [userStates EXCEPT ![<<m, u>>].favorited = FALSE]
  ELSE Remove(userStates, {<<m, u>>})

UnfavoriteMessage(r) ==
  LET q == requests[r]
  IN /\ At(r, {"unfavorite"}, "write")
     /\ userStates' = WithoutFavorite(q.user, q.batch[1])
     /\ Finish(r)
     /\ UNCHANGED <<members, joinedAt, messages, changes, receipts, updatedAt,
                    clock>>

-------------------------------------------------------------------------------
(* The rest of the system *)

\* A check failed, the client went away, the database gave an error, or the
\* process stopped: what was not committed is rolled back.
Abort(r) ==
  /\ r \in DOMAIN requests
  /\ Finish(r)
  /\ UNCHANGED <<members, joinedAt, messages, changes, userStates, receipts,
                 updatedAt, clock>>

\* AddConversationMembers and RemoveConversationMember, which the group
\* handlers call; they stamp the conversation with a time read before.
AddMember(c, u) ==
  /\ u \notin members[c]
  /\ members' = [members EXCEPT ![c] = @ \cup {u}]
  /\ joinedAt' = [joinedAt EXCEPT ![c][u] = Len(changes)]
  /\ \E now \in 0 .. clock : TouchConversation(c, now)
  /\ UNCHANGED <<messages, changes, userStates, receipts, clock, requests>>

RemoveMember(c, u) ==
  /\ u \in members[c]
  /\ members' = [members EXCEPT ![c] = @ \ {u}]
  /\ \E now \in 0 .. clock : TouchConversation(c, now)
  /\ UNCHANGED <<joinedAt, messages, changes, userStates, receipts, clock,
                 requests>>

Tick ==
  /\ clock < MaxClock
  /\ clock' = clock + 1
  /\ UNCHANGED <<members, joinedAt, messages, changes, userStates, receipts,
                 updatedAt, requests>>

Handler(r) ==
  \/ BeginAny(r)
  \/ CheckTarget(r)
  \/ FindEditable(r)
  \/ FindVisible(r)
  \/ FindForwarded(r)
  \/ SendMessage(r)
  \/ ForwardMessages(r)
  \/ EditMessage(r)
  \/ RecallMessage(r)
  \/ MarkRead(r)
  \/ DeleteMessagesForMe(r)
  \/ FavoriteMessages(r)
  \/ UnfavoriteMessage(r)
  \/ Abort(r)

Next ==
  \/ \E r \in Requests : Handler(r)
  \/ \E c \in Groups, u \in Users : AddMember(c, u) \/ RemoveMember(c, u)
  \/ Tick

Spec == Init /\ [][Next]_vars

-------------------------------------------------------------------------------
(* Properties *)

\* A recalled message keeps its row for good: no edit that was under way when
\* the recall committed brings a body back, and no second recall restamps it
\* (the test of recalled_at inside the transactions).
RecalledIsFinal ==
  [][\A m \in DOMAIN messages :
       messages[m].recalled => messages'[m] = messages[m]]_vars

\* Exactly the recalled messages are without a body, copies included: no forward
\* stores the empty body of a message that is recalled while it runs (the body
\* and recalled_at it copies by come from one statement).
RecalledHasNoBody ==
  \A m \in DOMAIN messages :
    messages[m].recalled <=> messages[m].body = NoBody

\* The time a user read a message never moves back, whichever of two
\* concurrent MarkRead requests commits last.
ReadAtOnlyGrows ==
  [][\A k \in DOMAIN receipts :
       k \in DOMAIN receipts' /\ receipts'[k] >= receipts[k]]_vars

\* A message deleted for a user never comes back to that user, in particular
\* not through the clean-up of UnfavoriteMessage when it overlaps the deletion.
DeletedForMeIsFinal ==
  [][\A u \in Users, m \in MessageIds : Hidden(u, m) => Hidden(u, m)']_vars

\* What the rest of the system relies on: a commit writes one row and logs its
\* message, so that nothing changes behind the log.
Log == INSTANCE ChangeLog WITH rows <- messages,
         log <- [i \in DOMAIN changes |-> changes[i].message]

ImplementsChangeLog == Log!LogSpec

\* The request found m without a recall and has yet to write what it asked for.
HasTested(q, m) ==
  \/ q.op = "forward" /\ q.stage = "write" /\ q.batch[q.pos] = m
  \/ /\ q.op \in {"quote", "favorite"}
     /\ \E i \in DOMAIN q.batch :
          q.batch[i] = m /\ (i < q.pos \/ q.stage = "write")

\* m is recalled, and every request that had tested it before has ended.
Settled(m) ==
  /\ messages[m].recalled
  /\ \A r \in DOMAIN requests : ~ HasTested(requests[r], m)

\* The step stores a quote, a new favorite or a copy of m.
Reused(m) ==
  \/ \E n \in DOMAIN messages' \ DOMAIN messages : messages'[n].quoted = m
  \/ \E u \in Users : StateOf(u, m)'.favorited /\ ~ StateOf(u, m).favorited
  \/ \E r \in DOMAIN requests :
       ForwardMessages(r) /\ requests[r].batch[requests[r].pos] = m

\* The recalled_at tests leave a window that closes: after a recall only the
\* requests that had already tested the message can still quote, favorite or
\* forward it, and once they have ended nobody ever does again, whatever batches
\* are under way.
RecalledStaysOut ==
  [][\A m \in DOMAIN messages :
       Settled(m) => Settled(m)' /\ ~ Reused(m)]_vars

\* docs/messages.md: "Recalled messages cannot be newly favorited or
\* forwarded."  The services test recalled_at in a statement of its own, before
\* the transaction that stores the favorite or the copy.
RecalledIsNotReused ==
  [][\A r \in DOMAIN requests :
       LET q == requests[r]
           written == IF q.op = "forward" THEN {q.batch[q.pos]}
                      ELSE {q.batch[i] : i \in DOMAIN q.batch}
       IN ForwardMessages(r) \/ FavoriteMessages(r)
            => \A m \in written : ~ messages[m].recalled]_vars

\* docs/messages.md: message APIs require "a conversation membership".  It is
\* read before the write, so a caller removed in between still posts.
PostedByMember ==
  [][\A m \in DOMAIN messages' \ DOMAIN messages :
       messages'[m].sender \in members[messages'[m].conv]]_vars

\* docs/conversations.md: the list is ordered by latest activity.  The time
\* stored is the one the handler read before its transaction waited its turn.
ActivityNeverMovesBack ==
  [][\A c \in Conversations : updatedAt'[c] >= updatedAt[c]]_vars
===============================================================================
