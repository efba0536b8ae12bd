--------------------------- MODULE Messages_proofs ----------------------------
(*****************************************************************************)
(* Messages and the sync that reads what they wrote, for every number of     *)
(* users, messages and changes and every page size.                          *)
(*                                                                           *)
(* The first part is about Messages alone: its types, what one of its steps  *)
(* may do to a row, that its transactions write a ChangeLog, and that only   *)
(* requests that tested a message before its recall can still reuse it.      *)
(*                                                                           *)
(* The second part shows that a sync client never misses a change.  The      *)
(* invariant SyncInv says what the reply on its way to a client has to hold  *)
(* for the client's copy to stay right when it arrives.  It is kept by the   *)
(* steps of the other handlers because a write of a message appends to the   *)
(* log (LogEffect), because a message deleted for the user stays so          *)
(* (HiddenEffect), and because a user who joins has nothing to catch up with *)
(* (MemberEffect).  It is established by the statement that reads the page:  *)
(* the last change of a message is the one its window groups by, and the     *)
(* page takes the changes of the window from the lowest id on (PageCovers).  *)
(*                                                                           *)
(* The third part is about the history: a page is closed upwards in the      *)
(* order by createdAt and id, so a walk that goes on below its cursor leaves *)
(* nothing out and lists nothing twice (HistoryInv), whatever is sent or     *)
(* deleted meanwhile.                                                        *)
(*****************************************************************************)
EXTENDS MessageSync, MessageHistory, Tables_proofs, SequenceTheorems, FiniteSetTheorems, TLAPS

-------------------------------------------------------------------------------
(* Numbers *)

\* The seconds of a time in milliseconds.
LEMMA SecondsAreNat ==
  ASSUME NEW now \in Nat
  PROVE  now \div MillisPerSecond \in Nat
BY MessagesAssumption

-------------------------------------------------------------------------------
(* Requests *)

\* What a request may name: a list of stored ids, empty only for a send.
LEMMA BatchesTyped ==
  ASSUME TypeOK, NEW op \in AllOperations, NEW b \in Batches(op)
  PROVE  /\ b \in Seq(MessageIds)
         /\ op # "send" => 1 <= Len(b)
         /\ \A i \in DOMAIN b : b[i] \in DOMAIN messages
<1>1. DOMAIN messages \subseteq MessageIds
  BY DEF TypeOK, IsTable
<1>2. CASE op = "send"
  BY <1>2 DEF Batches
<1>3. CASE op \in {"forward", "delete", "favorite"}
  <2>1. PICK n \in 1 .. MaxBatchSize : b \in [1 .. n -> DOMAIN messages]
    BY <1>3 DEF Batches
  <2>2. n \in Nat /\ n >= 1
    BY MessagesAssumption
  <2> QED
    BY <1>1, <1>3, <2>1, <2>2
<1>4. CASE op \in {"quote", "edit", "recall", "unfavorite", "read"}
  <2>1. PICK m \in DOMAIN messages : b = <<m>>
    BY <1>4 DEF Batches
  <2> QED
    BY <1>1, <1>4, <2>1
<1> QED
  BY <1>2, <1>3, <1>4 DEF AllOperations

\* The request a handler is at, as a step finds it.
LEMMA RequestTyped ==
  ASSUME TypeOK, NEW r \in DOMAIN requests
  PROVE  requests[r] \in Request /\ BatchOK(requests[r])
BY RowOfTable DEF TypeOK

\* The element of its batch that a handler is at is a stored message.
LEMMA ElementStored ==
  ASSUME NEW q \in Request, BatchOK(q), q.op # "send"
  PROVE  /\ q.batch[q.pos] \in DOMAIN messages
         /\ q.batch[1] \in DOMAIN messages
<1>1. q.pos \in 1 .. Len(q.batch) /\ 1 \in 1 .. Len(q.batch)
  BY DEF Request, BatchOK
<1>2. DOMAIN q.batch = 1 .. Len(q.batch)
  BY DEF Request
<1> QED
  BY <1>1, <1>2 DEF BatchOK

\* The part of the type invariant about requests.
RequestsOK ==
  /\ IsTable(requests, Requests, Request)
  /\ \A r \in DOMAIN requests : BatchOK(requests[r])

\* A handler goes on as q while no message disappears.
LEMMA PutRequest ==
  ASSUME TypeOK, DOMAIN messages \subseteq DOMAIN messages',
         NEW r \in Requests, NEW q \in Request, BatchOK(q),
         requests' = Put(requests, r, q)
  PROVE  RequestsOK'
<1>1. IsTable(requests', Requests, Request)
  BY PutIsTable DEF TypeOK
<1>2. \A k \in DOMAIN requests' : BatchOK(requests'[k])
  BY DEF TypeOK, Put
<1> QED
  BY <1>1, <1>2 DEF RequestsOK, BatchOK

\* A handler ends while no message disappears.
LEMMA FinishRequest ==
  ASSUME TypeOK, DOMAIN messages \subseteq DOMAIN messages',
         NEW r, Finish(r)
  PROVE  RequestsOK'
<1>1. IsTable(requests', Requests, Request)
  BY RemoveIsTable DEF TypeOK, Finish
<1>2. \A k \in DOMAIN requests' : BatchOK(requests'[k])
  BY DEF TypeOK, Finish, Remove
<1> QED
  BY <1>1, <1>2 DEF RequestsOK, BatchOK

-------------------------------------------------------------------------------
(* Writes of messages *)

\* A change is appended to message_changes and the conversation is stamped.
LEMMA RecordedAndTouched ==
  ASSUME TypeOK, NEW m \in MessageIds, NEW c \in Conversations, NEW now \in Nat,
         RecordMessageChange(m, now), TouchConversation(c, now)
  PROVE  changes' \in Seq(Change) /\ updatedAt' \in [Conversations -> Nat]
<1>1. now \div MillisPerSecond \in Nat
  BY SecondsAreNat
<1>2. [message |-> m, changedAt |-> now] \in Change
  BY DEF Change
<1> QED
  BY <1>1, <1>2 DEF TypeOK, RecordMessageChange, TouchConversation

\* The transaction of CreateMessage.
LEMMA CreateTyped ==
  ASSUME TypeOK, NEW m \in MessageIds, NEW c \in Conversations,
         NEW sender \in Users, NEW type \in {"text", "sticker"},
         NEW body \in Bodies \cup {NoBody},
         NEW quoted \in MessageIds \cup {NoMessage}, NEW now \in Nat,
         CreateMessage(m, c, sender, type, body, quoted, now)
  PROVE  /\ IsTable(messages', MessageIds, Message)
         /\ DOMAIN messages \subseteq DOMAIN messages'
         /\ changes' \in Seq(Change)
         /\ updatedAt' \in [Conversations -> Nat]
<1> DEFINE row == [conv |-> c, sender |-> sender, type |-> type, body |-> body,
                   recalled |-> FALSE, quoted |-> quoted,
                   createdAt |-> now, updatedAt |-> now]
<1>1. row \in Message
  BY DEF Message
<1>2. messages' = Put(messages, m, row)
  BY DEF CreateMessage
<1>3. IsTable(messages', MessageIds, Message)
  BY <1>1, <1>2, PutIsTable DEF TypeOK
<1>4. DOMAIN messages \subseteq DOMAIN messages'
  BY <1>2 DEF Put
<1> QED
  BY <1>3, <1>4, RecordedAndTouched DEF CreateMessage

\* An edit or a recall rewrites a row.
LEMMA EditTyped ==
  ASSUME TypeOK, NEW m \in DOMAIN messages, NEW body \in Bodies, NEW now \in Nat,
         messages' = [messages EXCEPT ![m].body = body,
                                      ![m].updatedAt = now]
  PROVE  /\ IsTable(messages', MessageIds, Message)
         /\ DOMAIN messages' = DOMAIN messages
<1>1. messages[m] \in Message
  BY RowOfTable DEF TypeOK
<1>2. [messages[m] EXCEPT !.body = body, !.updatedAt = now] \in Message
  BY <1>1 DEF Message
<1> QED
  BY <1>2 DEF TypeOK, IsTable

\* Recalling a stored message keeps the table of messages typed.
LEMMA RecallTyped ==
  ASSUME TypeOK, NEW m \in DOMAIN messages, NEW now \in Nat,
         messages' = [messages EXCEPT ![m].body = NoBody,
                                      ![m].recalled = TRUE,
                                      ![m].updatedAt = now]
  PROVE  /\ IsTable(messages', MessageIds, Message)
         /\ DOMAIN messages' = DOMAIN messages
<1>1. messages[m] \in Message
  BY RowOfTable DEF TypeOK
<1>2. [messages[m] EXCEPT !.body = NoBody, !.recalled = TRUE, !.updatedAt = now]
        \in Message
  BY <1>1 DEF Message
<1> QED
  BY <1>2 DEF TypeOK, IsTable

-------------------------------------------------------------------------------
(* What a user keeps about messages *)

\* The row of message_user_states, or the one of a message never touched.
LEMMA StateTyped ==
  ASSUME TypeOK, NEW u, NEW m
  PROVE  StateOf(u, m) \in UserState
BY DEF StateOf, UserState, TypeOK, IsTable

\* The rows a batch of the caller writes.
LEMMA BatchStatesTyped ==
  ASSUME TypeOK, NEW q \in Request, BatchOK(q), NEW new,
         DOMAIN new = StateKeys(q), IsTable(new, StateKeys(q), UserState)
  PROVE  IsTable(new, MessageIds \X Users, UserState)
<1>1. \A i \in DOMAIN q.batch : q.batch[i] \in MessageIds
  BY DEF TypeOK, IsTable, BatchOK
<1>2. StateKeys(q) \subseteq MessageIds \X Users
  BY <1>1 DEF StateKeys, Request
<1> QED
  BY <1>2 DEF IsTable

-------------------------------------------------------------------------------
(* Type correctness *)

\* The empty database is typed.
LEMMA TypeInit == Init => TypeOK
BY DEF Init, TypeOK, IsTable, NoRows

\* The steps of a handler that only read.
LEMMA AdvanceTyped ==
  ASSUME TypeOK, NEW r \in Requests, NEW q \in Request, BatchOK(q),
         Advance(r, q)
  PROVE  TypeOK'
<1>1. DOMAIN messages \subseteq DOMAIN messages'
  BY DEF Advance
<1>2. RequestsOK'
  BY <1>1, PutRequest DEF Advance
<1> QED
  BY <1>2 DEF TypeOK, Advance, RequestsOK, IsTable

\* The statements of the handlers that only read keep the types.
LEMMA TypeReads ==
  ASSUME TypeOK, NEW r \in Requests,
         \/ BeginAny(r) \/ CheckTarget(r) \/ FindEditable(r)
         \/ FindVisible(r) \/ FindForwarded(r)
  PROVE  TypeOK'
<1> DEFINE q == requests[r]
<1>0. clock \in Nat
  BY DEF TypeOK
<1>1. CASE BeginAny(r)
  <2>1. PICK op \in Operations, u \in Users, c \in Conversations,
             d \in Conversations :
               \E b \in Batches(op) : Begin(r, op, u, c, d, b)
    BY <1>1 DEF BeginAny
  <2>2. PICK b \in Batches(op) : Begin(r, op, u, c, d, b)
    BY <2>1
  <2>3. op \in AllOperations
    BY MessagesAssumption
  <2>4. /\ b \in Seq(MessageIds)
        /\ op # "send" => 1 <= Len(b)
        /\ \A i \in DOMAIN b : b[i] \in DOMAIN messages
    BY <2>3, BatchesTyped
  <2> DEFINE new == [op |-> op, user |-> u, conv |-> c, dest |-> d,
                     batch |-> b, pos |-> 1, at |-> clock,
                     stage |-> FirstStage(op), body |-> NoBody,
                     type |-> "text"]
  <2>5. FirstStage(op) \in {"target", "find", "check", "write"}
    BY DEF FirstStage
  <2>6. new \in Request
    BY <1>0, <2>3, <2>4, <2>5 DEF Request
  <2>7. BatchOK(new)
    BY <2>4 DEF BatchOK
  <2>8. Advance(r, new)
    BY <2>2 DEF Begin, Advance
  <2> QED
    BY <2>6, <2>7, <2>8, AdvanceTyped
<1>2. CASE CheckTarget(r)
  <2>1. q \in Request /\ BatchOK(q)
    BY <1>2, RequestTyped DEF CheckTarget, At
  <2> DEFINE new == [q EXCEPT !.stage = "check", !.at = clock]
  <2>2. new \in Request /\ BatchOK(new)
    BY <1>0, <2>1 DEF Request, BatchOK
  <2> QED
    BY <1>2, <2>2, AdvanceTyped DEF CheckTarget
<1>3. CASE FindEditable(r)
  <2>1. q \in Request /\ BatchOK(q)
    BY <1>3, RequestTyped DEF FindEditable, At
  <2> DEFINE new == [q EXCEPT !.stage = "write", !.at = clock]
  <2>2. new \in Request /\ BatchOK(new)
    BY <1>0, <2>1 DEF Request, BatchOK
  <2> QED
    BY <1>3, <2>2, AdvanceTyped DEF FindEditable
<1>4. CASE FindVisible(r)
  <2>1. q \in Request /\ BatchOK(q)
    BY <1>4, RequestTyped DEF FindVisible, At
  <2>2. CASE q.pos < Len(q.batch)
    <3> DEFINE new == [q EXCEPT !.pos = q.pos + 1]
    <3>1. new \in Request /\ BatchOK(new)
      BY <2>1, <2>2 DEF Request, BatchOK
    <3>2. Advance(r, new)
      BY <1>4, <2>2 DEF FindVisible
    <3> QED
      BY <3>1, <3>2, AdvanceTyped
  <2>3. CASE ~ (q.pos < Len(q.batch))
    <3> DEFINE new == [q EXCEPT !.stage = "write", !.at = clock]
    <3>1. new \in Request /\ BatchOK(new)
      BY <1>0, <2>1 DEF Request, BatchOK
    <3>2. Advance(r, new)
      BY <1>4, <2>3 DEF FindVisible
    <3> QED
      BY <3>1, <3>2, AdvanceTyped
  <2> QED
    BY <2>2, <2>3
<1>5. CASE FindForwarded(r)
  <2> DEFINE m == q.batch[q.pos]
  <2>1. q \in Request /\ BatchOK(q)
    BY <1>5, RequestTyped DEF FindForwarded, At
  <2>2. messages[m] \in Message
    <3>1. m \in DOMAIN messages
      BY <1>5 DEF FindForwarded, VisibleIn
    <3> QED
      BY <3>1, RowOfTable DEF TypeOK
  <2>3. PICK now \in IF q.pos = 1 THEN q.at .. clock ELSE {q.at} :
          Advance(r, [q EXCEPT !.stage = "write", !.at = now,
                               !.body = messages[m].body,
                               !.type = messages[m].type])
    BY <1>5 DEF FindForwarded
  <2> DEFINE new == [q EXCEPT !.stage = "write", !.at = now,
                              !.body = messages[m].body,
                              !.type = messages[m].type]
  <2>4. now \in Nat
    BY <1>0, <2>1 DEF Request
  <2>5. new \in Request /\ BatchOK(new)
    BY <2>1, <2>2, <2>4 DEF Request, BatchOK, Message
  <2> QED
    BY <2>3, <2>5, AdvanceTyped
<1> QED
  BY <1>1, <1>2, <1>3, <1>4, <1>5

\* The writes of messages.
LEMMA TypeMessageWrites ==
  ASSUME TypeOK, NEW r \in Requests,
         SendMessage(r) \/ ForwardMessages(r) \/ EditMessage(r) \/ RecallMessage(r)
  PROVE  TypeOK'
<1> DEFINE q == requests[r]
<1>0. clock \in Nat /\ DOMAIN messages \subseteq MessageIds
  BY DEF TypeOK, IsTable
<1>1. SUFFICES ASSUME IsTable(messages', MessageIds, Message),
                      DOMAIN messages \subseteq DOMAIN messages',
                      changes' \in Seq(Change),
                      updatedAt' \in [Conversations -> Nat],
                      RequestsOK'
               PROVE  TypeOK'
  <2>1. q \in Request /\ BatchOK(q)
    BY RequestTyped DEF SendMessage, ForwardMessages, EditMessage,
                        RecallMessage, At
  <2>2. CASE SendMessage(r)
    <3> DEFINE quoted == IF q.op = "quote" THEN q.batch[1] ELSE NoMessage
    <3>1. PICK m \in MessageIds, type \in MessageTypes, body \in Bodies,
               now \in q.at .. clock :
                 CreateMessage(m, q.conv, q.user, type, body, quoted, now)
      BY <2>2 DEF SendMessage
    <3>2. /\ quoted \in MessageIds \cup {NoMessage}
          /\ type \in {"text", "sticker"}
          /\ now \in Nat
          /\ q.conv \in Conversations /\ q.user \in Users
      BY <1>0, <2>1, ElementStored, MessagesAssumption DEF Request
    <3> HIDE DEF quoted
    <3>3. /\ IsTable(messages', MessageIds, Message)
          /\ DOMAIN messages \subseteq DOMAIN messages'
          /\ changes' \in Seq(Change)
          /\ updatedAt' \in [Conversations -> Nat]
      BY <3>1, <3>2, CreateTyped
    <3> QED
      BY <1>1, <2>2, <3>3, FinishRequest DEF SendMessage
  <2>3. CASE ForwardMessages(r)
    <3>1. PICK m \in MessageIds :
                 CreateMessage(m, q.dest, q.user, q.type, q.body, NoMessage,
                               q.at + q.pos - 1)
      BY <2>3 DEF ForwardMessages
    <3>2. /\ q.at + q.pos - 1 \in Nat
          /\ q.dest \in Conversations /\ q.user \in Users
          /\ q.type \in {"text", "sticker"}
          /\ q.body \in Bodies \cup {NoBody}
      BY <2>1 DEF Request
    <3>3. /\ IsTable(messages', MessageIds, Message)
          /\ DOMAIN messages \subseteq DOMAIN messages'
          /\ changes' \in Seq(Change)
          /\ updatedAt' \in [Conversations -> Nat]
      BY <3>1, <3>2, CreateTyped
    <3>4. CASE q.pos < Len(q.batch)
      <4> DEFINE new == [q EXCEPT !.pos = q.pos + 1, !.stage = "check"]
      <4>1. new \in Request
        <5>1. ASSUME NEW p \in Nat \ {0}, NEW k \in Request
              PROVE  [k EXCEPT !.pos = p, !.stage = "check"] \in Request
          BY DEF Request
        <5>2. q.pos + 1 \in Nat \ {0}
          BY <2>1 DEF Request
        <5> HIDE DEF q
        <5> QED
          BY <2>1, <5>1, <5>2
      <4>2. BatchOK(new)
        <5>1. new.op = q.op /\ new.batch = q.batch /\ new.pos = q.pos + 1
          BY <2>1 DEF Request
        <5>2. new.pos <= Len(new.batch)
          BY <2>1, <3>4, <5>1 DEF Request
        <5> QED
          BY <2>1, <5>1, <5>2 DEF BatchOK
      <4>3. requests' = Put(requests, r, new)
        BY <2>3, <3>4 DEF ForwardMessages
      <4> QED
        BY <1>1, <3>3, <4>1, <4>2, <4>3, PutRequest
    <3>5. CASE ~ (q.pos < Len(q.batch))
      BY <1>1, <2>3, <3>3, <3>5, FinishRequest DEF ForwardMessages
    <3> QED
      BY <3>4, <3>5
  <2>4. CASE EditMessage(r)
    <3> DEFINE m == q.batch[1]
    <3>1. m \in DOMAIN messages
      BY <2>1, <2>4, ElementStored DEF EditMessage, At
    <3>2. PICK body \in Bodies, now \in q.at .. clock :
            /\ messages' = [messages EXCEPT ![m].body = body,
                                            ![m].updatedAt = now]
            /\ RecordMessageChange(m, now)
            /\ TouchConversation(q.conv, now)
      BY <2>4 DEF EditMessage
    <3>3. now \in Nat /\ q.conv \in Conversations /\ m \in MessageIds
      BY <1>0, <2>1, <3>1 DEF Request
    <3>4. /\ IsTable(messages', MessageIds, Message)
          /\ DOMAIN messages' = DOMAIN messages
      BY <3>1, <3>2, <3>3, EditTyped
    <3>5. changes' \in Seq(Change) /\ updatedAt' \in [Conversations -> Nat]
      BY <3>2, <3>3, RecordedAndTouched
    <3> QED
      BY <1>1, <2>4, <3>4, <3>5, FinishRequest DEF EditMessage
  <2>5. CASE RecallMessage(r)
    <3> DEFINE m == q.batch[1]
    <3>1. m \in DOMAIN messages
      BY <2>1, <2>5, ElementStored DEF RecallMessage, At
    <3>2. PICK now \in q.at .. clock :
            /\ messages' = [messages EXCEPT ![m].body = NoBody,
                                            ![m].recalled = TRUE,
                                            ![m].updatedAt = now]
            /\ RecordMessageChange(m, now)
            /\ TouchConversation(q.conv, now)
      BY <2>5 DEF RecallMessage
    <3>3. now \in Nat /\ q.conv \in Conversations /\ m \in MessageIds
      BY <1>0, <2>1, <3>1 DEF Request
    <3>4. /\ IsTable(messages', MessageIds, Message)
          /\ DOMAIN messages' = DOMAIN messages
      BY <3>1, <3>2, <3>3, RecallTyped
    <3>5. changes' \in Seq(Change) /\ updatedAt' \in [Conversations -> Nat]
      BY <3>2, <3>3, RecordedAndTouched
    <3> QED
      BY <1>1, <2>5, <3>4, <3>5, FinishRequest DEF RecallMessage
  <2> QED
    BY <2>2, <2>3, <2>4, <2>5
<1>2. UNCHANGED <<members, joinedAt, userStates, receipts, clock>>
  BY DEF SendMessage, ForwardMessages, EditMessage, RecallMessage
<1> QED
  BY <1>1, <1>2 DEF TypeOK, RequestsOK, IsTable

\* The writes of what a user keeps about messages.
LEMMA TypeUserWrites ==
  ASSUME TypeOK, NEW r \in Requests,
         \/ MarkRead(r) \/ DeleteMessagesForMe(r) \/ FavoriteMessages(r)
         \/ UnfavoriteMessage(r)
  PROVE  TypeOK'
<1> DEFINE q == requests[r]
<1>1. q \in Request /\ BatchOK(q)
  BY RequestTyped DEF MarkRead, DeleteMessagesForMe, FavoriteMessages,
                      UnfavoriteMessage, At
<1>2. UNCHANGED <<members, joinedAt, messages, changes, updatedAt, clock>>
  BY DEF MarkRead, DeleteMessagesForMe, FavoriteMessages, UnfavoriteMessage
<1>3. RequestsOK'
  <2>1. Finish(r)
    BY DEF MarkRead, DeleteMessagesForMe, FavoriteMessages, UnfavoriteMessage
  <2> QED
    BY <1>2, <2>1, FinishRequest
<1>4. IsTable(receipts', MessageIds \X Users, Nat)
  <2>1. CASE MarkRead(r)
    <3> DEFINE keys(now) ==
          {k \in ReadThrough(q.user, q.conv, q.batch[1]) \X {q.user} :
             UpdatesReceipt(k, now)}
    <3>1. PICK now \in q.at .. clock :
            receipts' = Merge(receipts, [k \in keys(now) |-> now])
      BY <2>1 DEF MarkRead
    <3>2. now \in Nat
      BY <1>1 DEF Request, TypeOK
    <3>3. keys(now) \subseteq MessageIds \X Users
      BY <1>1 DEF ReadThrough, Request, TypeOK, IsTable
    <3>4. IsTable([k \in keys(now) |-> now], MessageIds \X Users, Nat)
      BY <3>2, <3>3 DEF IsTable
    <3> HIDE DEF keys
    <3> QED
      BY <3>1, <3>4, MergeIsTable DEF TypeOK
  <2>2. CASE UNCHANGED receipts
    BY <2>2 DEF TypeOK, IsTable
  <2> QED
    BY <2>1, <2>2 DEF DeleteMessagesForMe, FavoriteMessages, UnfavoriteMessage
<1>5. IsTable(userStates', MessageIds \X Users, UserState)
  <2>1. CASE DeleteMessagesForMe(r)
    <3> DEFINE new == [k \in StateKeys(q) |->
                         [StateOf(k[2], k[1]) EXCEPT !.deleted = TRUE]]
    <3>1. IsTable(new, StateKeys(q), UserState)
      BY StateTyped DEF IsTable, UserState
    <3>2. userStates' = Merge(userStates, new) /\ DOMAIN new = StateKeys(q)
      BY <2>1 DEF DeleteMessagesForMe
    <3> HIDE DEF new
    <3>3. IsTable(new, MessageIds \X Users, UserState)
      BY <1>1, <3>1, <3>2, BatchStatesTyped
    <3> QED
      BY <3>2, <3>3, MergeIsTable DEF TypeOK
  <2>2. CASE FavoriteMessages(r)
    <3> DEFINE new == [k \in StateKeys(q) |->
                         [StateOf(k[2], k[1]) EXCEPT !.favorited = TRUE]]
    <3>1. IsTable(new, StateKeys(q), UserState)
      BY StateTyped DEF IsTable, UserState
    <3>2. userStates' = Merge(userStates, new) /\ DOMAIN new = StateKeys(q)
      BY <2>2 DEF FavoriteMessages
    <3> HIDE DEF new
    <3>3. IsTable(new, MessageIds \X Users, UserState)
      BY <1>1, <3>1, <3>2, BatchStatesTyped
    <3> QED
      BY <3>2, <3>3, MergeIsTable DEF TypeOK
  <2>3. CASE UnfavoriteMessage(r)
    <3> DEFINE k == <<q.batch[1], q.user>>
    <3>1. CASE Hidden(q.user, q.batch[1])
      <4>1. k \in DOMAIN userStates /\ userStates[k] \in UserState
        BY <3>1, RowOfTable DEF Hidden, TypeOK
      <4>2. userStates' = [userStates EXCEPT ![k] =
                             [userStates[k] EXCEPT !.favorited = FALSE]]
        BY <2>3, <3>1 DEF UnfavoriteMessage, WithoutFavorite
      <4>3. [userStates[k] EXCEPT !.favorited = FALSE] \in UserState
        BY <4>1 DEF UserState
      <4> HIDE DEF k
      <4> QED
        BY <4>1, <4>2, <4>3 DEF TypeOK, IsTable
    <3>2. CASE ~ Hidden(q.user, q.batch[1])
      BY <2>3, <3>2, RemoveIsTable
      DEF UnfavoriteMessage, WithoutFavorite, TypeOK
    <3> QED
      BY <3>1, <3>2
  <2>4. CASE UNCHANGED userStates
    BY <2>4 DEF TypeOK, IsTable
  <2> QED
    BY <2>1, <2>2, <2>3, <2>4 DEF MarkRead
<1> QED
  BY <1>2, <1>3, <1>4, <1>5 DEF TypeOK, RequestsOK, IsTable

\* The end of a handler, membership changes and the clock.
LEMMA TypeOthers ==
  ASSUME TypeOK,
         \/ \E r \in Requests : Abort(r)
         \/ \E c \in Groups, u \in Users : AddMember(c, u) \/ RemoveMember(c, u)
         \/ Tick
  PROVE  TypeOK'
<1>1. ASSUME NEW r \in Requests, Abort(r) PROVE TypeOK'
  <2>1. RequestsOK'
    BY <1>1, FinishRequest DEF Abort
  <2> QED
    BY <1>1, <2>1 DEF TypeOK, RequestsOK, Abort, IsTable
<1>2. ASSUME NEW c \in Groups, NEW u \in Users,
             AddMember(c, u) \/ RemoveMember(c, u)
      PROVE  TypeOK'
  <2>1. c \in Conversations /\ clock \in Nat /\ Len(changes) \in Nat
    BY MessagesAssumption DEF TypeOK
  <2>2. PICK now \in 0 .. clock : TouchConversation(c, now)
    BY <1>2 DEF AddMember, RemoveMember
  <2>3. updatedAt' \in [Conversations -> Nat]
    BY <2>1, <2>2, SecondsAreNat DEF TouchConversation, TypeOK
  <2>4. /\ members' \in [Conversations -> SUBSET Users]
        /\ joinedAt' \in [Conversations -> [Users -> Nat]]
    <3>1. CASE AddMember(c, u)
      <4>1. members' \in [Conversations -> SUBSET Users]
        BY <2>1, <3>1 DEF AddMember, TypeOK
      <4>2. [joinedAt[c] EXCEPT ![u] = Len(changes)] \in [Users -> Nat]
        BY <2>1 DEF TypeOK
      <4>3. joinedAt' = [joinedAt EXCEPT ![c] =
                           [joinedAt[c] EXCEPT ![u] = Len(changes)]]
        BY <3>1 DEF AddMember
      <4> QED
        BY <4>1, <4>2, <4>3 DEF TypeOK
    <3>2. CASE RemoveMember(c, u)
      BY <2>1, <3>2 DEF RemoveMember, TypeOK
    <3> QED
      BY <1>2, <3>1, <3>2
  <2>5. UNCHANGED <<messages, changes, userStates, receipts, clock, requests>>
    BY <1>2 DEF AddMember, RemoveMember
  <2> QED
    BY <2>3, <2>4, <2>5 DEF TypeOK, BatchOK, IsTable
<1>3. ASSUME Tick PROVE TypeOK'
  BY <1>3 DEF Tick, TypeOK, BatchOK, IsTable
<1> QED
  BY <1>1, <1>2, <1>3

\* Every step keeps the types.
LEMMA TypeStep == TypeOK /\ [Next]_vars => TypeOK'
<1> SUFFICES ASSUME TypeOK, [Next]_vars PROVE TypeOK'
  OBVIOUS
<1>1. CASE Next
  BY <1>1, TypeReads, TypeMessageWrites, TypeUserWrites, TypeOthers
  DEF Next, Handler
<1>2. CASE UNCHANGED vars
  BY <1>2 DEF vars, TypeOK, BatchOK, IsTable
<1> QED
  BY <1>1, <1>2

\* Every reachable state is well typed; in particular each request between two
\* steps names stored messages only and is within its batch.
THEOREM TypeCorrect == Spec => []TypeOK
BY TypeInit, TypeStep, PTL DEF Spec

-------------------------------------------------------------------------------
(* What a step does to the tables *)

\* Nothing was written, or one message was, and its change was recorded.
OneChangeRecorded ==
  \E m \in MessageIds, t \in Nat :
    /\ changes' = Append(changes, [message |-> m, changedAt |-> t])
    /\ \A k \in DOMAIN messages' \ {m} :
         k \in DOMAIN messages /\ messages'[k] = messages[k]

\* Messages are neither removed nor moved, and a recalled one keeps its row.
RowsAreKept ==
  \A k \in DOMAIN messages :
    /\ k \in DOMAIN messages'
    /\ messages'[k].conv = messages[k].conv
    /\ messages'[k].createdAt = messages[k].createdAt
    /\ messages[k].recalled => messages'[k] = messages[k]

\* The handlers that write messages, and those that write message_user_states.
WritesMessages(r) ==
  SendMessage(r) \/ ForwardMessages(r) \/ EditMessage(r) \/ RecallMessage(r)
WritesUserStates(r) ==
  DeleteMessagesForMe(r) \/ FavoriteMessages(r) \/ UnfavoriteMessage(r)

\* The kinds of steps, by the tables they write.
LEMMA StepKinds ==
  ASSUME [Next]_vars
  PROVE  \/ UNCHANGED <<members, joinedAt, messages, changes, userStates>>
         \/ /\ \E r \in Requests : WritesMessages(r)
            /\ UNCHANGED <<members, joinedAt, userStates>>
         \/ /\ \E r \in Requests : WritesUserStates(r)
            /\ UNCHANGED <<members, joinedAt, messages, changes>>
         \/ /\ \E c \in Groups, u \in Users :
                 AddMember(c, u) \/ RemoveMember(c, u)
            /\ UNCHANGED <<messages, changes, userStates>>
<1>1. ASSUME NEW r \in Requests,
             \/ BeginAny(r) \/ CheckTarget(r) \/ FindEditable(r)
             \/ FindVisible(r) \/ FindForwarded(r) \/ MarkRead(r) \/ Abort(r)
      PROVE  UNCHANGED <<members, joinedAt, messages, changes, userStates>>
  BY <1>1, Zenon
  DEF BeginAny, Begin, CheckTarget, FindEditable, FindVisible, FindForwarded,
      Advance, MarkRead, Abort
<1>2. ASSUME NEW r \in Requests, WritesMessages(r)
      PROVE  UNCHANGED <<members, joinedAt, userStates>>
  BY <1>2, Zenon
  DEF WritesMessages, SendMessage, ForwardMessages, EditMessage, RecallMessage
<1>3. ASSUME NEW r \in Requests, WritesUserStates(r)
      PROVE  UNCHANGED <<members, joinedAt, messages, changes>>
  BY <1>3, Zenon
  DEF WritesUserStates, DeleteMessagesForMe, FavoriteMessages,
      UnfavoriteMessage
<1>4. ASSUME NEW c \in Groups, NEW u \in Users,
             AddMember(c, u) \/ RemoveMember(c, u)
      PROVE  UNCHANGED <<messages, changes, userStates>>
  BY <1>4, Zenon DEF AddMember, RemoveMember
<1>5. CASE Tick \/ UNCHANGED vars
  BY <1>5, Zenon DEF Tick, vars
<1> QED
  BY <1>1, <1>2, <1>3, <1>4, <1>5, Zenon
  DEF Next, Handler, WritesMessages, WritesUserStates

\* A fresh message.
LEMMA CreateEffect ==
  ASSUME TypeOK, NEW m \in MessageIds, NEW c \in Conversations, NEW sender,
         NEW type, NEW body, NEW quoted, NEW now \in Nat,
         CreateMessage(m, c, sender, type, body, quoted, now)
  PROVE  OneChangeRecorded /\ RowsAreKept
BY DEF CreateMessage, RecordMessageChange, OneChangeRecorded, RowsAreKept, Put

\* Each step of a handler that writes messages records exactly that write.
LEMMA WriteEffect ==
  ASSUME TypeOK, NEW r \in Requests, WritesMessages(r)
  PROVE  OneChangeRecorded /\ RowsAreKept
<1> DEFINE q == requests[r]
<1>1. q \in Request /\ BatchOK(q) /\ clock \in Nat
  BY RequestTyped DEF WritesMessages, SendMessage, ForwardMessages,
                      EditMessage, RecallMessage, At, TypeOK
<1>2. /\ q.conv \in Conversations /\ q.dest \in Conversations
      /\ q.at \in Nat /\ q.at + q.pos - 1 \in Nat
  BY <1>1 DEF Request
<1>3. CASE SendMessage(r)
  <2>1. PICK m \in MessageIds, type \in MessageTypes, body \in Bodies,
             now \in q.at .. clock :
               CreateMessage(m, q.conv, q.user, type, body,
                             IF q.op = "quote" THEN q.batch[1] ELSE NoMessage,
                             now)
    BY <1>3 DEF SendMessage
  <2>2. now \in Nat
    BY <1>1, <1>2
  <2> QED
    BY <1>2, <2>1, <2>2, CreateEffect
<1>4. CASE ForwardMessages(r)
  <2>1. PICK m \in MessageIds :
               CreateMessage(m, q.dest, q.user, q.type, q.body, NoMessage,
                             q.at + q.pos - 1)
    BY <1>4 DEF ForwardMessages
  <2> QED
    BY <1>2, <2>1, CreateEffect
<1>5. CASE EditMessage(r) \/ RecallMessage(r)
  <2> DEFINE m == q.batch[1]
  <2>1. m \in DOMAIN messages
    BY <1>1, <1>5, ElementStored DEF EditMessage, RecallMessage, At
  <2>2. m \in MessageIds /\ messages[m] \in Message
    BY <2>1, RowOfTable DEF TypeOK
  <2>3. ~ messages[m].recalled
    BY <1>5 DEF EditMessage, RecallMessage, MayRewrite
  <2>4. /\ DOMAIN messages' = DOMAIN messages
        /\ \A k \in DOMAIN messages \ {m} : messages'[k] = messages[k]
        /\ messages'[m].conv = messages[m].conv
        /\ messages'[m].createdAt = messages[m].createdAt
        /\ \E now \in q.at .. clock : RecordMessageChange(m, now)
    <3>1. CASE EditMessage(r)
      <4>1. PICK body \in Bodies, now \in q.at .. clock :
              /\ messages' = [messages EXCEPT ![m].body = body,
                                              ![m].updatedAt = now]
              /\ RecordMessageChange(m, now)
        BY <3>1 DEF EditMessage
      <4> DEFINE row == [messages[m] EXCEPT !.body = body, !.updatedAt = now]
      <4>2. messages' = [messages EXCEPT ![m] = row]
        BY <4>1, <2>1 DEF TypeOK, IsTable
      <4>3. row.conv = messages[m].conv /\ row.createdAt = messages[m].createdAt
        BY <2>2 DEF Message
      <4> HIDE DEF row
      <4> QED
        BY <2>1, <4>1, <4>2, <4>3
    <3>2. CASE RecallMessage(r)
      <4>1. PICK now \in q.at .. clock :
              /\ messages' = [messages EXCEPT ![m].body = NoBody,
                                              ![m].recalled = TRUE,
                                              ![m].updatedAt = now]
              /\ RecordMessageChange(m, now)
        BY <3>2 DEF RecallMessage
      <4> DEFINE row == [messages[m] EXCEPT !.body = NoBody, !.recalled = TRUE,
                                            !.updatedAt = now]
      <4>2. messages' = [messages EXCEPT ![m] = row]
        BY <4>1, <2>1 DEF TypeOK, IsTable
      <4>3. row.conv = messages[m].conv /\ row.createdAt = messages[m].createdAt
        BY <2>2 DEF Message
      <4> HIDE DEF row
      <4> QED
        BY <2>1, <4>1, <4>2, <4>3
    <3> QED
      BY <1>5, <3>1, <3>2
  <2>5. PICK now \in q.at .. clock : RecordMessageChange(m, now)
    BY <2>4
  <2>6. OneChangeRecorded
    BY <1>1, <1>2, <2>2, <2>4, <2>5 DEF OneChangeRecorded, RecordMessageChange
  <2>7. RowsAreKept
    BY <2>3, <2>4 DEF RowsAreKept
  <2> QED
    BY <2>6, <2>7
<1> QED
  BY <1>3, <1>4, <1>5 DEF WritesMessages

\* Every step leaves the messages and the log alone or writes one of each.
LEMMA LogEffect ==
  ASSUME TypeOK, [Next]_vars
  PROVE  /\ UNCHANGED <<messages, changes>> \/ OneChangeRecorded
         /\ RowsAreKept
<1>1. CASE UNCHANGED <<messages, changes>>
  BY <1>1 DEF RowsAreKept
<1> QED
  BY <1>1, StepKinds, WriteEffect

\* A message deleted for a user stays deleted for them.
LEMMA HiddenEffect ==
  ASSUME TypeOK, [Next]_vars, NEW u, NEW m, Hidden(u, m)
  PROVE  Hidden(u, m)'
<1>1. CASE UNCHANGED userStates
  BY <1>1 DEF Hidden
<1>2. ASSUME NEW r \in Requests, DeleteMessagesForMe(r) PROVE Hidden(u, m)'
  <2>1. StateOf(u, m) \in UserState /\ StateOf(u, m).deleted
    BY StateTyped DEF Hidden, StateOf
  <2>2. [StateOf(u, m) EXCEPT !.deleted = TRUE].deleted
    BY <2>1 DEF UserState
  <2> QED
    BY <1>2, <2>2 DEF DeleteMessagesForMe, Merge, Hidden
<1>3. ASSUME NEW r \in Requests, FavoriteMessages(r) PROVE Hidden(u, m)'
  <2>1. StateOf(u, m) \in UserState /\ StateOf(u, m).deleted
    BY StateTyped DEF Hidden, StateOf
  <2>2. [StateOf(u, m) EXCEPT !.favorited = TRUE].deleted
    BY <2>1 DEF UserState
  <2> QED
    BY <1>3, <2>2 DEF FavoriteMessages, Merge, Hidden
<1>4. ASSUME NEW r \in Requests, UnfavoriteMessage(r) PROVE Hidden(u, m)'
  <2> DEFINE k == <<requests[r].batch[1], requests[r].user>>
  <2>1. CASE k = <<m, u>>
    <3>1. userStates[k] \in UserState
      BY <2>1, RowOfTable DEF Hidden, TypeOK
    <3>2. userStates' = [userStates EXCEPT ![k].favorited = FALSE]
      BY <1>4, <2>1 DEF UnfavoriteMessage, WithoutFavorite
    <3> QED
      BY <2>1, <3>1, <3>2 DEF Hidden, UserState
  <2>2. CASE k # <<m, u>>
    BY <1>4, <2>2 DEF UnfavoriteMessage, WithoutFavorite, Remove, Hidden
  <2> QED
    BY <2>1, <2>2
<1> QED
  BY <1>1, <1>2, <1>3, <1>4, StepKinds DEF WritesUserStates

\* A user is a member they were not before only as of the end of the log.
LEMMA MemberEffect ==
  ASSUME TypeOK, [Next]_vars, NEW c \in Conversations, NEW u \in Users
  PROVE  \/ /\ u \in members'[c] => u \in members[c]
            /\ joinedAt'[c][u] = joinedAt[c][u]
         \/ /\ UNCHANGED <<messages, changes>>
            /\ joinedAt'[c][u] = Len(changes)
<1>1. CASE UNCHANGED <<members, joinedAt>>
  BY <1>1
<1>2. ASSUME NEW d \in Groups, NEW v \in Users, AddMember(d, v)
      PROVE  \/ /\ u \in members'[c] => u \in members[c]
                /\ joinedAt'[c][u] = joinedAt[c][u]
             \/ /\ UNCHANGED <<messages, changes>>
                /\ joinedAt'[c][u] = Len(changes)
  <2>1. CASE c = d /\ u = v
    BY <1>2, <2>1 DEF AddMember, TypeOK
  <2>2. CASE ~ (c = d /\ u = v)
    BY <1>2, <2>2 DEF AddMember, TypeOK
  <2> QED
    BY <2>1, <2>2
<1>3. ASSUME NEW d \in Groups, NEW v \in Users, RemoveMember(d, v)
      PROVE  /\ u \in members'[c] => u \in members[c]
             /\ joinedAt'[c][u] = joinedAt[c][u]
  BY <1>3 DEF RemoveMember, TypeOK
<1> QED
  BY <1>1, <1>2, <1>3, StepKinds

-------------------------------------------------------------------------------
(* Action properties *)

\* No interleaving of handlers changes a recalled message: the transactions of
\* edit and recall read recalled_at again.
THEOREM RecallIsFinal == Spec => RecalledIsFinal
<1>1. TypeOK /\ [Next]_vars
        => [\A m \in DOMAIN messages :
              messages[m].recalled => messages'[m] = messages[m]]_vars
  BY LogEffect DEF RowsAreKept
<1> QED
  BY <1>1, TypeCorrect, PTL DEF Spec, RecalledIsFinal

\* No interleaving of handlers brings back a message deleted for a user.
THEOREM DeletionIsFinal == Spec => DeletedForMeIsFinal
<1>1. TypeOK /\ [Next]_vars
        => [\A u \in Users, m \in MessageIds :
              Hidden(u, m) => Hidden(u, m)']_vars
  BY HiddenEffect
<1> QED
  BY <1>1, TypeCorrect, PTL DEF Spec, DeletedForMeIsFinal

\* No interleaving of MarkRead requests moves a read_at back: the upsert
\* compares the two times itself.
THEOREM ReadAtGrows == Spec => ReadAtOnlyGrows
<1> DEFINE Grows == \A k \in DOMAIN receipts :
                      k \in DOMAIN receipts' /\ receipts'[k] >= receipts[k]
<1>1. ASSUME TypeOK, [Next]_vars PROVE Grows
  <2>1. \A k \in DOMAIN receipts : receipts[k] \in Nat
    BY <1>1, RowOfTable DEF TypeOK
  <2>2. ASSUME UNCHANGED receipts PROVE Grows
    BY <2>1, <2>2
  <2>3. ASSUME NEW r \in Requests, MarkRead(r) PROVE Grows
    <3> DEFINE q == requests[r]
               keys(now) ==
                 {k \in ReadThrough(q.user, q.conv, q.batch[1]) \X {q.user} :
                    UpdatesReceipt(k, now)}
    <3>1. PICK now \in q.at .. clock :
            receipts' = Merge(receipts, [k \in keys(now) |-> now])
      BY <2>3 DEF MarkRead
    <3>2. now \in Nat
      <4>1. q \in Request
        BY <1>1, <2>3, RequestTyped DEF MarkRead, At
      <4>2. q.at \in Nat /\ clock \in Nat
        BY <1>1, <4>1 DEF Request, TypeOK
      <4> QED
        BY <4>2
    <3>3. \A k \in keys(now) \cap DOMAIN receipts : now > receipts[k]
      BY DEF UpdatesReceipt
    <3> HIDE DEF keys
    <3> QED
      BY <2>1, <3>1, <3>2, <3>3 DEF Merge
  <2>4. ASSUME NEW r \in Requests, BeginAny(r) \/ CheckTarget(r)
          \/ FindEditable(r) \/ FindVisible(r) \/ FindForwarded(r) \/ Abort(r)
        PROVE  UNCHANGED receipts
    BY <2>4, Zenon DEF BeginAny, Begin, CheckTarget, FindEditable, FindVisible,
                       FindForwarded, Advance, Abort
  <2>5. ASSUME NEW r \in Requests, WritesMessages(r) \/ WritesUserStates(r)
        PROVE  UNCHANGED receipts
    BY <2>5, Zenon
    DEF WritesMessages, SendMessage, ForwardMessages, EditMessage,
        RecallMessage, WritesUserStates, DeleteMessagesForMe,
        FavoriteMessages, UnfavoriteMessage
  <2>6. ASSUME NEW c, NEW u, AddMember(c, u) \/ RemoveMember(c, u)
        PROVE  UNCHANGED receipts
    BY <2>6, Zenon DEF AddMember, RemoveMember
  <2>7. ASSUME Tick \/ UNCHANGED vars PROVE UNCHANGED receipts
    BY <2>7 DEF Tick, vars
  <2> HIDE DEF Grows
  <2> QED
    BY <1>1, <2>2, <2>3, <2>4, <2>5, <2>6, <2>7, Zenon
    DEF Next, Handler, WritesMessages, WritesUserStates
<1>2. TypeOK /\ [Next]_vars
        => [\A k \in DOMAIN receipts :
              k \in DOMAIN receipts' /\ receipts'[k] >= receipts[k]]_vars
  BY <1>1
<1> QED
  BY <1>2, TypeCorrect, PTL DEF Spec, ReadAtOnlyGrows

-------------------------------------------------------------------------------
(* Bodies, and the log that the other components rely on *)

\* What a request that is about to store a copy has read is a body: the row it
\* came from was not recalled when one statement read both columns.
BodiesOK ==
  /\ RecalledHasNoBody
  /\ \A r \in DOMAIN requests :
       At(r, {"forward"}, "write") => requests[r].body \in Bodies

\* One row is written and logged, and it has a body unless it is recalled.
RowIsLogged(m, t, row) ==
  /\ messages' = Put(messages, m, row)
  /\ changes' = Append(changes, [message |-> m, changedAt |-> t])
  /\ row.recalled <=> row.body = NoBody

\* The transaction of CreateMessage writes a row with the body it is given.
LEMMA CreateIsLogged ==
  ASSUME NEW m \in MessageIds, NEW c, NEW sender, NEW type,
         NEW body \in Bodies, NEW quoted, NEW now \in Nat,
         CreateMessage(m, c, sender, type, body, quoted, now)
  PROVE  \E k \in MessageIds, t \in Nat : \E row : RowIsLogged(k, t, row)
<1> DEFINE row == [conv |-> c, sender |-> sender, type |-> type, body |-> body,
                   recalled |-> FALSE, quoted |-> quoted,
                   createdAt |-> now, updatedAt |-> now]
<1>1. row.body = body /\ row.recalled = FALSE /\ body # NoBody
  BY MessagesAssumption
<1>2. /\ messages' = Put(messages, m, row)
      /\ changes' = Append(changes, [message |-> m, changedAt |-> now])
  BY DEF CreateMessage, RecordMessageChange
<1> HIDE DEF row
<1> QED
  BY <1>1, <1>2 DEF RowIsLogged

\* Updating a stored row is putting the new one.
LEMMA UpdateIsPut ==
  ASSUME NEW table, table \in [DOMAIN table -> Message], NEW m \in DOMAIN table,
         NEW row
  PROVE  [table EXCEPT ![m] = row] = Put(table, m, row)
BY DEF Put

\* Each step that writes messages writes one row, and logs it.
LEMMA WriteIsLogged ==
  ASSUME TypeOK, BodiesOK, NEW r \in Requests, WritesMessages(r)
  PROVE  \E m \in MessageIds, t \in Nat : \E row : RowIsLogged(m, t, row)
<1> DEFINE q == requests[r]
           m == q.batch[1]
<1>0. r \in DOMAIN requests
  BY Zenon DEF WritesMessages, SendMessage, ForwardMessages, EditMessage,
               RecallMessage, At
<1>1. q \in Request /\ BatchOK(q) /\ clock \in Nat
  BY <1>0, RequestTyped DEF TypeOK
<1>t. q.at \in Nat /\ q.at + q.pos - 1 \in Nat
  BY <1>1 DEF Request
<1>2. CASE SendMessage(r)
  <2>1. PICK k \in MessageIds, type \in MessageTypes, body \in Bodies,
             now \in q.at .. clock :
               CreateMessage(k, q.conv, q.user, type, body,
                             IF q.op = "quote" THEN q.batch[1] ELSE NoMessage,
                             now)
    BY <1>2 DEF SendMessage
  <2>2. now \in Nat
    BY <1>1, <1>t
  <2> QED
    BY <2>1, <2>2, CreateIsLogged
<1>3. CASE ForwardMessages(r)
  <2>1. PICK k \in MessageIds :
               CreateMessage(k, q.dest, q.user, q.type, q.body, NoMessage,
                             q.at + q.pos - 1)
    BY <1>3 DEF ForwardMessages
  <2>2. q.body \in Bodies
    BY <1>0, <1>3 DEF ForwardMessages, BodiesOK
  <2> QED
    BY <1>t, <2>1, <2>2, CreateIsLogged
<1>4. ASSUME EditMessage(r) \/ RecallMessage(r)
      PROVE  m \in DOMAIN messages /\ m \in MessageIds /\ messages[m] \in Message
             /\ messages \in [DOMAIN messages -> Message] /\ ~ messages[m].recalled
  <2>1. m \in DOMAIN messages
    <3>1. q.op # "send"
      BY <1>4 DEF EditMessage, RecallMessage, At
    <3> QED
      BY <1>1, <3>1, ElementStored
  <2>2. ~ messages[m].recalled
    BY <1>4 DEF EditMessage, RecallMessage, MayRewrite
  <2> QED
    BY <2>1, <2>2, RowOfTable DEF TypeOK, IsTable
<1>5. CASE EditMessage(r)
  <2>1. PICK body \in Bodies, now \in q.at .. clock :
          /\ messages' = [messages EXCEPT ![m].body = body,
                                          ![m].updatedAt = now]
          /\ RecordMessageChange(m, now)
    BY <1>5 DEF EditMessage
  <2> DEFINE row == [messages[m] EXCEPT !.body = body, !.updatedAt = now]
  <2>2. messages' = [messages EXCEPT ![m] = row]
    BY <1>4, <1>5, <2>1
  <2>3. row.body = body /\ ~ row.recalled /\ body # NoBody
    BY <1>4, <1>5, MessagesAssumption DEF Message
  <2> HIDE DEF row, m
  <2>4. messages' = Put(messages, m, row)
    BY <1>4, <1>5, <2>2, UpdateIsPut
  <2>5. now \in Nat
    BY <1>1, <1>t
  <2> QED
    BY <1>4, <1>5, <2>1, <2>3, <2>4, <2>5 DEF RowIsLogged, RecordMessageChange
<1>6. CASE RecallMessage(r)
  <2>1. PICK now \in q.at .. clock :
          /\ messages' = [messages EXCEPT ![m].body = NoBody,
                                          ![m].recalled = TRUE,
                                          ![m].updatedAt = now]
          /\ RecordMessageChange(m, now)
    BY <1>6 DEF RecallMessage
  <2> DEFINE row == [messages[m] EXCEPT !.body = NoBody, !.recalled = TRUE,
                                        !.updatedAt = now]
  <2>2. messages' = [messages EXCEPT ![m] = row]
    BY <1>4, <1>6, <2>1
  <2>3. row.body = NoBody /\ row.recalled
    BY <1>4, <1>6 DEF Message
  <2> HIDE DEF row, m
  <2>4. messages' = Put(messages, m, row)
    BY <1>4, <1>6, <2>2, UpdateIsPut
  <2>5. now \in Nat
    BY <1>1, <1>t
  <2> QED
    BY <1>4, <1>6, <2>1, <2>3, <2>4, <2>5 DEF RowIsLogged, RecordMessageChange
<1> QED
  BY <1>2, <1>3, <1>5, <1>6 DEF WritesMessages

\* Every step leaves the messages and the log alone or writes one row of each.
LEMMA StepIsLogged ==
  ASSUME TypeOK, BodiesOK, [Next]_vars
  PROVE  \/ UNCHANGED <<messages, changes>>
         \/ \E m \in MessageIds, t \in Nat : \E row : RowIsLogged(m, t, row)
BY StepKinds, WriteIsLogged

\* A request that is at a write either was there before, as it is, or has just
\* passed its last check.
LEMMA ForwardsKeepBodies ==
  ASSUME TypeOK, BodiesOK, [Next]_vars
  PROVE  \A r \in DOMAIN requests' :
           At(r, {"forward"}, "write")' => requests'[r].body \in Bodies
<1> DEFINE Good(q) == q.op = "forward" /\ q.stage = "write" => q.body \in Bodies
<1>1. \A r \in DOMAIN requests : Good(requests[r])
  BY DEF BodiesOK, At
<1>2. SUFFICES \A r \in DOMAIN requests' : Good(requests'[r])
  BY DEF At
<1>3. ASSUME NEW r, NEW q, Good(q), requests' = Put(requests, r, q)
      PROVE  \A k \in DOMAIN requests' : Good(requests'[k])
  BY <1>1, <1>3 DEF Put
<1>4. ASSUME NEW r, Finish(r) PROVE \A k \in DOMAIN requests' : Good(requests'[k])
  BY <1>1, <1>4 DEF Finish, Remove
<1>5. ASSUME UNCHANGED requests PROVE \A k \in DOMAIN requests' : Good(requests'[k])
  BY <1>1, <1>5
<1> HIDE DEF Good
<1>6. ASSUME NEW r \in Requests, BeginAny(r)
      PROVE  \A k \in DOMAIN requests' : Good(requests'[k])
  <2>1. PICK op \in Operations, u \in Users, c \in Conversations,
             d \in Conversations : \E b \in Batches(op) : Begin(r, op, u, c, d, b)
    BY <1>6 DEF BeginAny
  <2>2. PICK b : Begin(r, op, u, c, d, b)
    BY <2>1
  <2> DEFINE new == [op |-> op, user |-> u, conv |-> c, dest |-> d,
                     batch |-> b, pos |-> 1, at |-> clock,
                     stage |-> FirstStage(op), body |-> NoBody,
                     type |-> "text"]
  <2>3. Good(new)
    BY DEF Good, FirstStage
  <2>4. requests' = Put(requests, r, new)
    BY <2>2 DEF Begin
  <2> HIDE DEF new
  <2> QED
    BY <1>3, <2>3, <2>4
<1>7. ASSUME NEW r \in Requests,
             CheckTarget(r) \/ FindEditable(r) \/ FindVisible(r)
             \/ FindForwarded(r)
      PROVE  \A k \in DOMAIN requests' : Good(requests'[k])
  <2> DEFINE q == requests[r]
  <2>1. q \in Request
    <3>1. r \in DOMAIN requests
      BY <1>7, Zenon DEF CheckTarget, FindEditable, FindVisible, FindForwarded, At
    <3> QED
      BY <3>1, RequestTyped
  <2>2. CASE CheckTarget(r)
    <3>1. requests' = Put(requests, r, [q EXCEPT !.stage = "check", !.at = clock])
      BY <2>2 DEF CheckTarget, Advance
    <3>2. Good([q EXCEPT !.stage = "check", !.at = clock])
      BY <2>1 DEF Good, Request
    <3> QED
      BY <1>3, <3>1, <3>2
  <2>3. CASE FindEditable(r)
    <3>1. /\ requests' = Put(requests, r, [q EXCEPT !.stage = "write", !.at = clock])
          /\ q.op = "edit"
      BY <2>3 DEF FindEditable, Advance, At
    <3>2. Good([q EXCEPT !.stage = "write", !.at = clock])
      BY <2>1, <3>1 DEF Good, Request
    <3> QED
      BY <1>3, <3>1, <3>2
  <2>4. CASE FindVisible(r)
    <3>1. q.op # "forward"
      BY <2>4 DEF FindVisible, At
    <3>2. \/ requests' = Put(requests, r, [q EXCEPT !.pos = @ + 1])
          \/ requests' = Put(requests, r, [q EXCEPT !.stage = "write", !.at = clock])
      BY <2>4 DEF FindVisible, Advance
    <3>3. /\ Good([q EXCEPT !.pos = @ + 1])
          /\ Good([q EXCEPT !.stage = "write", !.at = clock])
      BY <2>1, <3>1 DEF Good, Request
    <3> QED
      BY <1>3, <3>2, <3>3
  <2>5. CASE FindForwarded(r)
    <3> DEFINE m == q.batch[q.pos]
    <3>1. PICK now : requests' = Put(requests, r,
            [q EXCEPT !.stage = "write", !.at = now, !.body = messages[m].body,
                      !.type = messages[m].type])
      BY <2>5 DEF FindForwarded, Advance
    <3>2. messages[m].body \in Bodies
      <4>1. m \in DOMAIN messages /\ ~ messages[m].recalled
        BY <2>5 DEF FindForwarded, VisibleIn, MayReuse
      <4>2. messages[m].body # NoBody
        BY <4>1 DEF BodiesOK, RecalledHasNoBody
      <4>3. messages[m] \in Message
        BY <4>1, RowOfTable DEF TypeOK
      <4> QED
        BY <4>2, <4>3 DEF Message
    <3>3. Good([q EXCEPT !.stage = "write", !.at = now,
                         !.body = messages[m].body, !.type = messages[m].type])
      BY <2>1, <3>2 DEF Good, Request
    <3> QED
      BY <1>3, <3>1, <3>3
  <2> QED
    BY <1>7, <2>2, <2>3, <2>4, <2>5
<1>8. ASSUME NEW r \in Requests, ForwardMessages(r)
      PROVE  \A k \in DOMAIN requests' : Good(requests'[k])
  <2> DEFINE q == requests[r]
             new == [q EXCEPT !.pos = @ + 1, !.stage = "check"]
  <2>1. q \in Request
    BY <1>8, RequestTyped DEF ForwardMessages, At
  <2>2. Good(new)
    BY <2>1 DEF Good, Request
  <2>3. requests' = Put(requests, r, new) \/ Finish(r)
    BY <1>8 DEF ForwardMessages
  <2> HIDE DEF new
  <2> QED
    BY <1>3, <1>4, <2>2, <2>3
<1>9. ASSUME NEW r \in Requests,
             \/ SendMessage(r) \/ EditMessage(r) \/ RecallMessage(r)
             \/ MarkRead(r) \/ DeleteMessagesForMe(r) \/ FavoriteMessages(r)
             \/ UnfavoriteMessage(r) \/ Abort(r)
      PROVE  Finish(r)
  BY <1>9, Zenon DEF SendMessage, EditMessage, RecallMessage, MarkRead,
    DeleteMessagesForMe, FavoriteMessages, UnfavoriteMessage, Abort
<1>10. ASSUME NEW c, NEW u, AddMember(c, u) \/ RemoveMember(c, u)
       PROVE  UNCHANGED requests
  BY <1>10, Zenon DEF AddMember, RemoveMember
<1>11. ASSUME Tick \/ UNCHANGED vars PROVE UNCHANGED requests
  BY <1>11 DEF Tick, vars
<1> QED
  BY <1>4, <1>5, <1>6, <1>7, <1>8, <1>9, <1>10, <1>11, Zenon DEF Next, Handler

\* BodiesOK is inductive.
LEMMA BodiesStep == TypeOK /\ BodiesOK /\ [Next]_vars => BodiesOK'
<1> SUFFICES ASSUME TypeOK, BodiesOK, [Next]_vars PROVE BodiesOK'
  OBVIOUS
<1>1. RecalledHasNoBody'
  <2>1. CASE UNCHANGED <<messages, changes>>
    BY <2>1 DEF BodiesOK, RecalledHasNoBody
  <2>2. ASSUME NEW m \in MessageIds, NEW t \in Nat, NEW row, RowIsLogged(m, t, row)
        PROVE  RecalledHasNoBody'
    BY <2>2 DEF RowIsLogged, BodiesOK, RecalledHasNoBody, Put
  <2> QED
    BY <2>1, <2>2, StepIsLogged
<1> QED
  BY <1>1, ForwardsKeepBodies DEF BodiesOK

\* The database starts empty.
LEMMA BodiesInit == Init => BodiesOK
BY DEF Init, BodiesOK, RecalledHasNoBody, NoRows

\* Exactly the recalled messages are without a body, whatever overlaps: what a
\* forward copies was read with recalled_at, in one statement.
THEOREM RecalledAreEmpty == Spec => []RecalledHasNoBody
<1>1. BodiesOK => RecalledHasNoBody
  BY DEF BodiesOK
<1> QED
  BY <1>1, BodiesInit, BodiesStep, TypeCorrect, PTL DEF Spec

-------------------------------------------------------------------------------
(* What may still be made of a recalled message *)

\* A recalled message that a handler has not tested yet stays untested by its
\* reads.
LEMMA ReadsTestRecalled ==
  ASSUME TypeOK, NEW r \in Requests, NEW m, messages[m].recalled,
         r \in DOMAIN requests => ~ HasTested(requests[r], m),
         CheckTarget(r) \/ FindEditable(r) \/ FindVisible(r) \/ FindForwarded(r)
  PROVE  \E new : requests' = Put(requests, r, new) /\ ~ HasTested(new, m)
<1> DEFINE q == requests[r]
<1>1. r \in DOMAIN requests
  BY Zenon DEF CheckTarget, FindEditable, FindVisible, FindForwarded, At
<1>2. q \in Request /\ BatchOK(q) /\ ~ HasTested(q, m)
  BY <1>1, RequestTyped
<1>3. /\ q.pos \in Nat \ {0} /\ DOMAIN q.batch = 1 .. Len(q.batch)
      /\ Len(q.batch) \in Nat
      /\ q = [op |-> q.op, user |-> q.user, conv |-> q.conv, dest |-> q.dest,
              batch |-> q.batch, pos |-> q.pos, at |-> q.at, stage |-> q.stage,
              body |-> q.body, type |-> q.type]
  BY <1>2 DEF Request
<1>4. CASE CheckTarget(r)
  <2>1. ~ HasTested([q EXCEPT !.stage = "check", !.at = clock], m)
    BY <1>3, <1>4 DEF CheckTarget, At, HasTested
  <2> QED
    BY <1>4, <2>1 DEF CheckTarget, Advance
<1>5. CASE FindEditable(r)
  <2>1. ~ HasTested([q EXCEPT !.stage = "write", !.at = clock], m)
    BY <1>3, <1>5 DEF FindEditable, At, HasTested
  <2> QED
    BY <1>5, <2>1 DEF FindEditable, Advance
<1>6. CASE FindVisible(r)
  <2> DEFINE next == [q EXCEPT !.pos = @ + 1]
             last == [q EXCEPT !.stage = "write", !.at = clock]
  <2>1. /\ requests' = Put(requests, r, IF q.pos < Len(q.batch) THEN next ELSE last)
        /\ q.op \in {"quote", "favorite", "unfavorite"} /\ q.stage = "check"
        /\ q.op # "unfavorite" => q.batch[q.pos] # m
    BY <1>6 DEF FindVisible, At, Advance, MayReuse
  <2>2. q.op \in {"quote", "favorite"} =>
          \A i \in DOMAIN q.batch : i <= q.pos => q.batch[i] # m
    BY <1>2, <1>3, <2>1 DEF HasTested
  <2>3. ~ HasTested(next, m)
    <3>1. /\ next.op = q.op /\ next.stage = "check" /\ next.pos = q.pos + 1
          /\ next.batch = q.batch
      BY <1>3, <2>1
    <3> HIDE DEF next
    <3> QED
      BY <1>3, <2>1, <2>2, <3>1 DEF HasTested
  <2>4. ~ q.pos < Len(q.batch) => ~ HasTested(last, m)
    <3>1. last.op = q.op /\ last.pos = q.pos /\ last.batch = q.batch
      BY <1>3
    <3> HIDE DEF last
    <3> QED
      BY <1>3, <2>1, <2>2, <3>1 DEF HasTested
  <2> QED
    BY <2>1, <2>3, <2>4
<1>7. CASE FindForwarded(r)
  <2> DEFINE row == messages[q.batch[q.pos]]
  <2>1. PICK now : requests' = Put(requests, r,
          [q EXCEPT !.stage = "write", !.at = now, !.body = row.body,
                    !.type = row.type])
    BY <1>7 DEF FindForwarded, Advance
  <2>2. q.op = "forward" /\ q.batch[q.pos] # m
    BY <1>7 DEF FindForwarded, At, MayReuse
  <2>3. ~ HasTested([q EXCEPT !.stage = "write", !.at = now,
                              !.body = row.body, !.type = row.type], m)
    BY <1>3, <2>2 DEF HasTested
  <2> QED
    BY <2>1, <2>3
<1> QED
  BY <1>4, <1>5, <1>6, <1>7

\* A handler that goes on with a request that has not tested m, or ends.
LEMMA StaysUntested ==
  ASSUME NEW m, NEW r, \A k \in DOMAIN requests : ~ HasTested(requests[k], m),
         \/ \E new : requests' = Put(requests, r, new) /\ ~ HasTested(new, m)
         \/ Finish(r)
         \/ UNCHANGED requests
  PROVE  \A k \in DOMAIN requests' : ~ HasTested(requests'[k], m)
BY DEF Put, Finish, Remove

\* No handler gets past its test with a message that is recalled.
LEMMA RecalledStaysUntested ==
  ASSUME TypeOK, [Next]_vars, NEW m, Settled(m)
  PROVE  \A k \in DOMAIN requests' : ~ HasTested(requests'[k], m)
<1> DEFINE Untested == \A k \in DOMAIN requests' : ~ HasTested(requests'[k], m)
<1>1. /\ messages[m].recalled
      /\ \A k \in DOMAIN requests : ~ HasTested(requests[k], m)
  BY DEF Settled
<1>2. ASSUME NEW r, \/ \E new : requests' = Put(requests, r, new)
                                  /\ ~ HasTested(new, m)
                    \/ Finish(r)
                    \/ UNCHANGED requests
      PROVE  Untested
  BY <1>1, <1>2, StaysUntested
<1>3. ASSUME NEW r \in Requests, BeginAny(r) PROVE Untested
  <2>1. PICK op \in Operations, u \in Users, c \in Conversations,
             d \in Conversations : \E b \in Batches(op) : Begin(r, op, u, c, d, b)
    BY <1>3 DEF BeginAny
  <2>2. PICK b \in Batches(op) : Begin(r, op, u, c, d, b)
    BY <2>1
  <2> DEFINE new == [op |-> op, user |-> u, conv |-> c, dest |-> d,
                     batch |-> b, pos |-> 1, at |-> clock,
                     stage |-> FirstStage(op), body |-> NoBody,
                     type |-> "text"]
  <2>3. new.op = op /\ new.pos = 1 /\ new.stage = FirstStage(op) /\ new.batch = b
    OBVIOUS
  <2>4. requests' = Put(requests, r, new)
    BY <2>2 DEF Begin
  <2>5. op \in {"quote", "favorite"} => \A i \in DOMAIN b : ~ i < 1
    <3>1. op \in AllOperations
      BY MessagesAssumption
    <3>2. b \in Seq(MessageIds)
      BY <3>1, BatchesTyped
    <3> QED
      BY <3>2
  <2> HIDE DEF new
  <2>6. ~ HasTested(new, m)
    BY <2>3, <2>5 DEF HasTested, FirstStage
  <2> QED
    BY <1>2, <2>4, <2>6
<1>4. ASSUME NEW r \in Requests,
             CheckTarget(r) \/ FindEditable(r) \/ FindVisible(r)
             \/ FindForwarded(r)
      PROVE  Untested
  BY <1>1, <1>2, <1>4, ReadsTestRecalled
<1>5. ASSUME NEW r \in Requests, ForwardMessages(r) PROVE Untested
  <2> DEFINE new == [requests[r] EXCEPT !.pos = @ + 1, !.stage = "check"]
  <2>1. requests[r] \in Request /\ requests[r].op = "forward"
    BY <1>5, RequestTyped DEF ForwardMessages, At
  <2>2. requests' = Put(requests, r, new) \/ Finish(r)
    BY <1>5 DEF ForwardMessages
  <2>3. new.op = "forward" /\ new.stage = "check"
    BY <2>1 DEF Request
  <2> HIDE DEF new
  <2>4. ~ HasTested(new, m)
    BY <2>3 DEF HasTested
  <2> QED
    BY <1>2, <2>2, <2>4
<1>6. ASSUME NEW r \in Requests,
             \/ SendMessage(r) \/ EditMessage(r) \/ RecallMessage(r)
             \/ MarkRead(r) \/ DeleteMessagesForMe(r) \/ FavoriteMessages(r)
             \/ UnfavoriteMessage(r) \/ Abort(r)
      PROVE  Finish(r)
  BY <1>6, Zenon DEF SendMessage, EditMessage, RecallMessage, MarkRead,
    DeleteMessagesForMe, FavoriteMessages, UnfavoriteMessage, Abort
<1>7. ASSUME NEW c, NEW u, AddMember(c, u) \/ RemoveMember(c, u)
      PROVE  UNCHANGED requests
  BY <1>7, Zenon DEF AddMember, RemoveMember
<1>8. ASSUME Tick \/ UNCHANGED vars PROVE UNCHANGED requests
  BY <1>8 DEF Tick, vars
<1> HIDE DEF Untested
<1>9. Untested
  BY <1>2, <1>3, <1>4, <1>5, <1>6, <1>7, <1>8, Zenon DEF Next, Handler
<1> QED
  BY <1>9 DEF Untested

\* A new message quotes what its handler has tested.
LEMMA QuotesAreTested ==
  ASSUME TypeOK, NEW r \in Requests, WritesMessages(r),
         NEW n \in DOMAIN messages' \ DOMAIN messages,
         messages'[n].quoted # NoMessage
  PROVE  r \in DOMAIN requests /\ HasTested(requests[r], messages'[n].quoted)
<1> DEFINE q == requests[r]
<1>1. r \in DOMAIN requests
  BY Zenon
  DEF WritesMessages, SendMessage, ForwardMessages, EditMessage, RecallMessage, At
<1>2. q \in Request /\ BatchOK(q)
  BY <1>1, RequestTyped
<1>3. SendMessage(r) /\ messages'[n].quoted = IF q.op = "quote" THEN q.batch[1]
                                              ELSE NoMessage
  <2>1. CASE SendMessage(r)
    <3>1. PICK m, type, body, now :
            CreateMessage(m, q.conv, q.user, type, body,
                          IF q.op = "quote" THEN q.batch[1] ELSE NoMessage, now)
      BY <2>1 DEF SendMessage
    <3> QED
      BY <2>1, <3>1 DEF CreateMessage, Put
  <2>2. CASE ForwardMessages(r)
    <3>1. PICK m : CreateMessage(m, q.dest, q.user, q.type, q.body, NoMessage,
                                 q.at + q.pos - 1)
      BY <2>2 DEF ForwardMessages
    <3> QED
      BY <3>1 DEF CreateMessage, Put
  <2>3. CASE EditMessage(r) \/ RecallMessage(r)
    <3>1. DOMAIN messages' = DOMAIN messages
      BY <2>3 DEF EditMessage, RecallMessage
    <3> QED
      BY <3>1
  <2> QED
    BY <2>1, <2>2, <2>3 DEF WritesMessages
<1>4. q.op = "quote" /\ q.stage = "write" /\ messages'[n].quoted = q.batch[1]
  BY <1>3 DEF SendMessage, At
<1>5. 1 \in DOMAIN q.batch
  <2>1. q.pos \in Nat \ {0} /\ Len(q.batch) \in Nat /\ q.pos <= Len(q.batch)
        /\ DOMAIN q.batch = 1 .. Len(q.batch)
    BY <1>2, <1>4 DEF Request, BatchOK
  <2> QED
    BY <2>1
<1> QED
  BY <1>1, <1>4, <1>5 DEF HasTested

\* A favorite that is new is one its handler has tested.
LEMMA FavoritesAreTested ==
  ASSUME TypeOK, [Next]_vars, NEW u, NEW m,
         StateOf(u, m)'.favorited, ~ StateOf(u, m).favorited
  PROVE  \E r \in DOMAIN requests : HasTested(requests[r], m)
<1>1. ~ UNCHANGED userStates
  BY DEF StateOf
<1>2. StateOf(u, m) \in UserState
  BY StateTyped DEF UserState, StateOf
<1>3. PICK r \in Requests : WritesUserStates(r)
  BY <1>1, StepKinds
<1> DEFINE q == requests[r]
           k == <<m, u>>
<1>4. r \in DOMAIN requests
  BY <1>3, Zenon DEF WritesUserStates, DeleteMessagesForMe, FavoriteMessages,
                     UnfavoriteMessage, At
<1>5. CASE DeleteMessagesForMe(r)
  <2>1. CASE k \in StateKeys(q)
    <3>1. userStates'[k] = [StateOf(u, m) EXCEPT !.deleted = TRUE]
          /\ k \in DOMAIN userStates'
      BY <1>5, <2>1 DEF DeleteMessagesForMe, Merge
    <3> QED
      BY <1>2, <3>1 DEF StateOf, UserState
  <2>2. CASE k \notin StateKeys(q)
    BY <1>5, <2>2 DEF DeleteMessagesForMe, Merge, StateOf
  <2> QED
    BY <2>1, <2>2
<1>6. CASE UnfavoriteMessage(r)
  <2> DEFINE j == <<q.batch[1], q.user>>
  <2>1. CASE k = j /\ Hidden(u, m)
    <3>1. /\ userStates[k] \in UserState /\ k \in DOMAIN userStates
          /\ userStates' = [userStates EXCEPT ![k].favorited = FALSE]
      BY <1>6, <2>1, RowOfTable DEF UnfavoriteMessage, WithoutFavorite, Hidden,
                                    TypeOK
    <3> QED
      BY <3>1 DEF StateOf, UserState
  <2>2. CASE k = j /\ ~ Hidden(u, m)
    BY <1>6, <2>2 DEF UnfavoriteMessage, WithoutFavorite, Remove, StateOf
  <2>3. CASE k # j
    BY <1>6, <2>3 DEF UnfavoriteMessage, WithoutFavorite, Remove, StateOf
  <2> QED
    BY <2>1, <2>2, <2>3
<1>7. CASE FavoriteMessages(r)
  <2>1. k \in StateKeys(q)
    BY <1>7 DEF FavoriteMessages, Merge, StateOf
  <2>2. \E i \in DOMAIN q.batch : q.batch[i] = m
    BY <2>1 DEF StateKeys
  <2> QED
    BY <1>4, <1>7, <2>2 DEF FavoriteMessages, At, HasTested
<1> QED
  BY <1>3, <1>5, <1>6, <1>7 DEF WritesUserStates

\* However many handlers run: what a recall has not stopped is what had tested
\* the message before it, and no handler comes to that later.
THEOREM RecallReachesEveryone == Spec => RecalledStaysOut
<1>1. TypeOK /\ [Next]_vars => \A m \in DOMAIN messages :
                                 Settled(m) => Settled(m)' /\ ~ Reused(m)
  <2> SUFFICES ASSUME TypeOK, [Next]_vars, NEW m \in DOMAIN messages, Settled(m)
               PROVE  Settled(m)' /\ ~ Reused(m)
    OBVIOUS
  <2>1. Settled(m)'
    <3>1. messages'[m].recalled
      BY LogEffect DEF RowsAreKept, Settled
    <3> QED
      BY <3>1, RecalledStaysUntested DEF Settled
  <2>2. \A r \in DOMAIN requests : ~ HasTested(requests[r], m)
    BY DEF Settled
  <2>3. ASSUME NEW n \in DOMAIN messages' \ DOMAIN messages,
               messages'[n].quoted = m
        PROVE  FALSE
    <3>1. m # NoMessage
      BY MessagesAssumption DEF TypeOK, IsTable
    <3>2. PICK r \in Requests : WritesMessages(r)
      BY <2>3, StepKinds
    <3> QED
      BY <2>2, <2>3, <3>1, <3>2, QuotesAreTested
  <2>4. ASSUME NEW u \in Users, StateOf(u, m)'.favorited,
               ~ StateOf(u, m).favorited
        PROVE  FALSE
    BY <2>2, <2>4, FavoritesAreTested
  <2>5. ASSUME NEW r \in DOMAIN requests, ForwardMessages(r),
               requests[r].batch[requests[r].pos] = m
        PROVE  FALSE
    BY <2>2, <2>5 DEF ForwardMessages, At, HasTested
  <2> QED
    BY <2>1, <2>3, <2>4, <2>5 DEF Reused
<1>2. TypeOK /\ [Next]_vars => [\A m \in DOMAIN messages :
                                  Settled(m) => Settled(m)' /\ ~ Reused(m)]_vars
  BY <1>1
<1> QED
  BY <1>2, TypeCorrect, PTL DEF Spec, RecalledStaysOut

\* The messages that a list of changes names, in its order.
Named(s) == [i \in DOMAIN s |-> s[i].message]

\* They are a sequence as long as the list.
LEMMA NamedIsSeq ==
  ASSUME NEW t \in Seq(Change)
  PROVE  /\ Named(t) \in Seq(MessageIds)
         /\ Len(Named(t)) = Len(t)
         /\ \A i \in 1 .. Len(t) : Named(t)[i] = t[i].message
         /\ Len(t) = 0 => Named(t) = << >>
<1>1. Len(t) \in Nat /\ DOMAIN t = 1 .. Len(t)
  OBVIOUS
<1>2. ASSUME NEW i \in 1 .. Len(t) PROVE t[i].message \in MessageIds
  <2>1. t[i] \in Change
    BY ElementOfSeq
  <2> QED
    BY <2>1 DEF Change
<1>3. Named(t) \in [1 .. Len(t) -> MessageIds]
  BY <1>1, <1>2 DEF Named
<1>4. Named(t) \in Seq(MessageIds)
  BY <1>1, <1>3, SeqDef
<1>5. Len(Named(t)) = Len(t)
  BY <1>1, <1>3, <1>4, LenProperties
<1>6. \A i \in 1 .. Len(t) : Named(t)[i] = t[i].message
  BY <1>1 DEF Named
<1>7. Len(t) = 0 => Named(t) = << >>
  BY <1>4, <1>5, EmptySeq
<1> QED
  BY <1>4, <1>5, <1>6, <1>7

\* A change that is appended appends its message.
LEMMA NamedGrows ==
  ASSUME NEW s \in Seq(Change), NEW e \in Change
  PROVE  Named(Append(s, e)) = Append(Named(s), e.message)
<1>1. Append(s, e) \in Seq(Change) /\ e.message \in MessageIds
  BY DEF Change
<1>2. Append(Named(s), e.message) \in Seq(MessageIds)
  BY <1>1, NamedIsSeq
<1>3. /\ Len(Append(s, e)) = Len(s) + 1 /\ Len(s) \in Nat
      /\ Len(Append(Named(s), e.message)) = Len(s) + 1
  BY <1>1, NamedIsSeq
<1>4. /\ Named(Append(s, e)) \in Seq(MessageIds)
      /\ Len(Named(Append(s, e))) = Len(s) + 1
  BY <1>1, <1>3, NamedIsSeq
<1>5. ASSUME NEW i \in 1 .. Len(s) + 1
      PROVE  Named(Append(s, e))[i] = Append(Named(s), e.message)[i]
  <2>1. Named(Append(s, e))[i] = Append(s, e)[i].message
    BY <1>1, <1>3, NamedIsSeq
  <2>2. CASE i = Len(s) + 1
    BY <2>1, <2>2, NamedIsSeq
  <2>3. CASE i # Len(s) + 1
    <3>1. i \in 1 .. Len(s)
      BY <1>3, <2>3
    <3>2. Append(s, e)[i] = s[i] /\ Append(Named(s), e.message)[i] = Named(s)[i]
      BY <3>1, NamedIsSeq
    <3> QED
      BY <2>1, <3>1, <3>2, NamedIsSeq
  <2> QED
    BY <2>2, <2>3
<1> QED
  BY <1>2, <1>3, <1>4, <1>5, SeqEqual

\* The messages and message_changes tables are a change log: every commit that
\* writes a message writes that one row and appends one change that names it.
THEOREM ChangesAreLogged == Spec => ImplementsChangeLog
<1> DEFINE logged == [i \in DOMAIN changes |-> changes[i].message]
<1>0. logged = Named(changes) /\ logged' = Named(changes')
  BY DEF Named
<1>1. Init => Log!LogInit
  <2> SUFFICES ASSUME Init PROVE Log!LogInit
    OBVIOUS
  <2>1. changes = << >> /\ changes \in Seq(Change) /\ Len(changes) = 0
    BY DEF Init
  <2>2. logged = << >>
    BY <1>0, <2>1, NamedIsSeq
  <2> QED
    BY <2>2 DEF Init, Log!LogInit, NoRows, Log!NoRows
<1>2. TypeOK /\ BodiesOK /\ [Next]_vars => [Log!LogNext]_<<messages, logged>>
  <2> SUFFICES ASSUME TypeOK, BodiesOK, [Next]_vars
               PROVE  [Log!LogNext]_<<messages, logged>>
    OBVIOUS
  <2>1. CASE UNCHANGED <<messages, changes>>
    BY <2>1
  <2>2. ASSUME NEW m \in MessageIds, NEW t \in Nat, NEW row, RowIsLogged(m, t, row)
        PROVE  Log!LogNext
    <3>1. /\ messages' = Put(messages, m, row)
          /\ changes' = Append(changes, [message |-> m, changedAt |-> t])
          /\ changes \in Seq(Change)
      BY <2>2 DEF RowIsLogged, TypeOK
    <3>2. /\ m \in DOMAIN messages' /\ messages'[m] = row
          /\ messages' = Log!Put(messages, m, messages'[m])
      BY <3>1 DEF Put, Log!Put
    <3>3. logged' = Append(logged, m)
      <4>1. [message |-> m, changedAt |-> t] \in Change
        BY DEF Change
      <4> QED
        BY <1>0, <3>1, <4>1, NamedGrows
    <3> QED
      BY <3>2, <3>3 DEF Log!LogNext, Log!Record
  <2> QED
    BY <2>1, <2>2, StepIsLogged
<1> QED
  BY <1>1, <1>2, BodiesInit, BodiesStep, TypeInit, TypeStep, PTL
  DEF Spec, ImplementsChangeLog, Log!LogSpec

-------------------------------------------------------------------------------
(* Pages of change ids *)

\* A page takes the ids from the lowest on.
LEMMA FirstOfIsDownClosed ==
  ASSUME NEW L \in Nat, NEW S \in SUBSET (1 .. L), NEW n \in Nat,
         NEW j \in FirstOf(S, n), NEW i \in S, i <= j
  PROVE  i \in FirstOf(S, n)
<1> DEFINE upTo(x) == {k \in S : k <= x}
<1>1. IsFiniteSet(upTo(j)) /\ IsFiniteSet(upTo(i))
  <2>1. IsFiniteSet(1 .. L)
    BY FS_Interval
  <2> QED
    BY <2>1, FS_Subset
<1>2. upTo(i) \subseteq upTo(j)
  <2>1. \A k \in S : k \in Nat
    OBVIOUS
  <2>2. i \in Nat /\ j \in Nat
    BY <2>1 DEF FirstOf
  <2>3. ASSUME NEW k \in S, k <= i PROVE k <= j
    BY <2>1, <2>2, <2>3
  <2> QED
    BY <2>3
<1>3. Cardinality(upTo(i)) <= Cardinality(upTo(j))
  BY <1>1, <1>2, FS_Subset
<1>4. Cardinality(upTo(i)) \in Nat /\ Cardinality(upTo(j)) \in Nat
  BY <1>1, FS_CardinalityType
<1>5. Cardinality(upTo(j)) <= n
  BY DEF FirstOf
<1> QED
  BY <1>3, <1>4, <1>5 DEF FirstOf

-------------------------------------------------------------------------------
(* What a page holds *)

\* The page of a window and the next cursor go together: a message that the
\* user may see, with a change after the start of the window and none after the
\* next cursor, is on the page.
LEMMA PageCovers ==
  ASSUME TypeOK, NEW u \in Users,
         NEW after \in Nat, NEW before \in Nat, NEW next \in Nat,
         after <= before, before <= Len(changes),
         NEW m \in DOMAIN messages, Shown(u, m),
         ChangedSince(m, after), ~ ChangedSince(m, next),
         IsNextCursor(FirstOf(LastChanges(Window(u, after, before)), Limit),
                      LastChanges(Window(u, after, before)), before, next)
  PROVE  \E i \in FirstOf(LastChanges(Window(u, after, before)), Limit) :
           changes[i].message = m
<1> DEFINE window == Window(u, after, before)
           found == LastChanges(window)
           page == FirstOf(found, Limit)
           ofMessage == {i \in 1 .. Len(changes) :
                           i > after /\ changes[i].message = m}
<1>1. Len(changes) \in Nat /\ Limit \in Nat
  BY MessageSyncAssumption DEF TypeOK
<1>2. ofMessage # {}
  BY <1>1 DEF ChangedSince, ChangedAfter
<1>3. PICK x \in ofMessage : \A y \in ofMessage : y <= x
  BY <1>1, <1>2, MaxExists
<1>4. x <= next
  BY <1>1, <1>3 DEF ChangedSince, ChangedAfter
<1>5. window \subseteq 1 .. Len(changes) /\ found \subseteq window
      /\ page \subseteq found
  BY DEF Window, LastChanges, FirstOf
<1>6. next \in page \/ next = before
  BY DEF IsNextCursor
<1>7. before = 0 \/ next <= before
  BY <1>5, <1>6 DEF Window, Between
<1>8. x \in window
  BY <1>1, <1>3, <1>4, <1>7 DEF Window, Between
<1>9. x \in found
  <2>1. ASSUME NEW y \in window, changes[y].message = changes[x].message
        PROVE  y <= x
    <3>1. y \in 1 .. Len(changes) /\ y > after
      BY DEF Window, Between
    <3> QED
      BY <1>3, <2>1, <3>1
  <2> QED
    BY <1>8, <2>1 DEF LastChanges
<1>10. CASE page = found
  BY <1>3, <1>9, <1>10
<1>11. CASE page # found
  <2>1. next \in page
    BY <1>11 DEF IsNextCursor
  <2>2. found \in SUBSET (1 .. Len(changes))
    BY <1>5
  <2> HIDE DEF found
  <2>3. x \in page
    BY <1>1, <1>4, <1>9, <2>1, <2>2, FirstOfIsDownClosed
  <2>4. changes[x].message = m
    BY <1>3
  <2> HIDE DEF page
  <2>5. \E i \in page : changes[i].message = m
    BY <2>3, <2>4
  <2> QED
    BY <2>5 DEF page, found
<1> QED
  BY <1>10, <1>11

-------------------------------------------------------------------------------
(* What a step of another handler leaves alone *)

\* A message without a change after the n-th, after the step, was not written
\* by it.
LEMMA NotWritten ==
  ASSUME TypeOK, [Next]_vars, NEW n \in 0 .. Len(changes),
         NEW m \in DOMAIN messages', ~ ChangedAfter(changes', m, n)
  PROVE  /\ m \in DOMAIN messages
         /\ messages'[m] = messages[m]
         /\ ~ ChangedAfter(changes, m, n)
         /\ \A j \in Nat :
              ChangedAfter(changes', m, j) => ChangedAfter(changes, m, j)
<1>1. CASE UNCHANGED <<messages, changes>>
  BY <1>1
<1>2. CASE OneChangeRecorded
  <2>1. PICK w \in MessageIds, t \in Nat :
          /\ changes' = Append(changes, [message |-> w, changedAt |-> t])
          /\ \A k \in DOMAIN messages' \ {w} :
               k \in DOMAIN messages /\ messages'[k] = messages[k]
    BY <1>2 DEF OneChangeRecorded
  <2>2. /\ Len(changes) \in Nat /\ Len(changes') = Len(changes) + 1
        /\ changes'[Len(changes) + 1].message = w
        /\ \A i \in 1 .. Len(changes) : changes'[i] = changes[i]
    BY <2>1 DEF TypeOK
  <2>3. m # w
    BY <2>2 DEF ChangedAfter
  <2>4. ~ ChangedAfter(changes, m, n)
    BY <2>2 DEF ChangedAfter
  <2>5. ASSUME NEW j \in Nat, ChangedAfter(changes', m, j)
        PROVE  ChangedAfter(changes, m, j)
    BY <2>2, <2>3, <2>5 DEF ChangedAfter
  <2> QED
    BY <2>1, <2>3, <2>4, <2>5
<1> QED
  BY <1>1, <1>2, LogEffect

\* The log only grows.
LEMMA LogGrows ==
  ASSUME TypeOK, [Next]_vars
  PROVE  /\ Len(changes) \in Nat /\ Len(changes') \in Nat
         /\ Len(changes) <= Len(changes')
         /\ \A m, n : n \in Nat =>
              (ChangedAfter(changes, m, n) => ChangedAfter(changes', m, n))
<1>1. Len(changes) \in Nat
  BY DEF TypeOK
<1>2. CASE UNCHANGED changes
  BY <1>1, <1>2
<1>3. CASE OneChangeRecorded
  <2>1. PICK w \in MessageIds, t \in Nat :
          changes' = Append(changes, [message |-> w, changedAt |-> t])
    BY <1>3 DEF OneChangeRecorded
  <2>2. /\ Len(changes') = Len(changes) + 1
        /\ \A i \in 1 .. Len(changes) : changes'[i] = changes[i]
    BY <2>1 DEF TypeOK
  <2> QED
    BY <1>1, <2>2 DEF ChangedAfter
<1> QED
  BY <1>2, <1>3, LogEffect

\* A message that the device must hold after the step had to be held before.
LEMMA StillShown ==
  ASSUME TypeOK, [Next]_vars, NEW u \in Users, NEW n \in 0 .. Len(changes),
         NEW m \in DOMAIN messages', Shown(u, m)',
         ChangedAfter(changes', m, joinedAt'[messages'[m].conv][u]),
         ~ ChangedAfter(changes', m, n)
  PROVE  /\ m \in DOMAIN messages
         /\ messages'[m] = messages[m]
         /\ Shown(u, m)
         /\ ChangedAfter(changes, m, joinedAt[messages[m].conv][u])
         /\ ~ ChangedAfter(changes, m, n)
         /\ \A j \in Nat :
              ChangedAfter(changes', m, j) => ChangedAfter(changes, m, j)
<1> DEFINE c == messages[m].conv
<1>1. /\ m \in DOMAIN messages
      /\ messages'[m] = messages[m]
      /\ ~ ChangedAfter(changes, m, n)
      /\ \A j \in Nat :
           ChangedAfter(changes', m, j) => ChangedAfter(changes, m, j)
  BY NotWritten
<1>2. c \in Conversations
  <2>1. messages[m] \in Message
    BY <1>1, RowOfTable DEF TypeOK
  <2> QED
    BY <2>1 DEF Message
<1>3. u \in members'[c] /\ ~ Hidden(u, m)
  BY <1>1, HiddenEffect DEF Shown
<1>4. joinedAt[c][u] \in Nat /\ Len(changes) \in Nat
  BY <1>2 DEF TypeOK
<1>5. ChangedAfter(changes', m, joinedAt'[c][u])
  BY <1>1
<1>6. ~ (/\ UNCHANGED <<messages, changes>>
         /\ joinedAt'[c][u] = Len(changes))
  BY <1>4, <1>5 DEF ChangedAfter
<1>7. u \in members[c] /\ joinedAt'[c][u] = joinedAt[c][u]
  BY <1>2, <1>3, <1>6, MemberEffect
<1> QED
  BY <1>1, <1>3, <1>4, <1>5, <1>7 DEF Shown

-------------------------------------------------------------------------------
(* Types of sync *)

\* The initial state of the server and its clients is typed.
LEMMA SyncTypeInit == SyncInit => SyncTypeOK
BY TypeInit, MessageSyncAssumption DEF SyncInit, SyncTypeOK, IsTable, NoRows

\* The part of the type invariant about calls.
CallsOK ==
  /\ calls = [u \in DOMAIN calls |-> calls[u]]
  /\ DOMAIN calls \subseteq Clients
  /\ \A u \in DOMAIN calls : IsCall(calls[u])

\* A call that starts or goes on keeps the table of calls typed.
LEMMA PutCall ==
  ASSUME CallsOK, NEW u \in Clients, NEW call, IsCall(call),
         calls' = Put(calls, u, call)
  PROVE  CallsOK'
<1>1. /\ DOMAIN calls' = DOMAIN calls \cup {u}
      /\ calls'[u] = call
      /\ \A v \in DOMAIN calls \ {u} : calls'[v] = calls[v]
      /\ calls' = [v \in DOMAIN calls' |-> calls'[v]]
  BY DEF Put
<1>2. \A v \in DOMAIN calls' : IsCall(calls'[v])
  BY <1>1 DEF CallsOK
<1> QED
  BY <1>1, <1>2 DEF CallsOK, IsCall

\* So does one that ends.
LEMMA RemoveCall ==
  ASSUME CallsOK, NEW u, calls' = Remove(calls, {u})
  PROVE  CallsOK'
<1>1. /\ DOMAIN calls' = DOMAIN calls \ {u}
      /\ \A v \in DOMAIN calls' : calls'[v] = calls[v]
      /\ calls' = [v \in DOMAIN calls' |-> calls'[v]]
  BY DEF Remove
<1>2. \A v \in DOMAIN calls' : IsCall(calls'[v])
  BY <1>1 DEF CallsOK
<1> QED
  BY <1>1, <1>2 DEF CallsOK, IsCall

\* What of the type invariant is not about the tables of Messages.
OwnTypeOK ==
  /\ cursor \in [Clients -> Nat]
  /\ since \in [Clients -> Nat]
  /\ resume \in [Clients -> {"cursor", "since"}]
  /\ copy = [u \in Clients |-> copy[u]]
  /\ \A u \in Clients : IsTable(copy[u], MessageIds, Message)
  /\ CallsOK

\* The type invariant is that of the server and that of the clients.
LEMMA SyncTypeParts == SyncTypeOK <=> TypeOK /\ OwnTypeOK
BY DEF SyncTypeOK, OwnTypeOK, CallsOK

\* What the types say of a call.
LEMMA CallFields ==
  ASSUME OwnTypeOK, NEW u \in DOMAIN calls
  PROVE  /\ u \in Clients
         /\ calls[u].stage \in {"since", "list", "reply"}
         /\ calls[u].after \in Nat /\ calls[u].before \in Nat
         /\ calls[u].next \in Nat /\ calls[u].serverTime \in Nat
         /\ calls[u].more \in BOOLEAN
         /\ IsTable(calls[u].entries, MessageIds, Message)
BY DEF OwnTypeOK, CallsOK, IsCall

-------------------------------------------------------------------------------
(* The invariant, step by step *)

\* The invariant holds before anything was sent or asked for.
LEMMA InvInit == SyncInit => SyncInv
<1> SUFFICES ASSUME SyncInit PROVE SyncInv
  OBVIOUS
<1>1. SyncTypeOK
  BY SyncTypeInit
<1>2. DOMAIN calls = {} /\ DOMAIN messages = {} /\ Len(changes) = 0
  BY DEF SyncInit, Init, NoRows
<1>3. \A u \in Clients : cursor[u] = 0
  BY DEF SyncInit
<1>4. StartsAtZero
  BY DEF SyncInit, StartsAtZero
<1> QED
  BY <1>1, <1>2, <1>3, <1>4
  DEF SyncInv, CursorIsKnown, CallsCover, NoMissedChange, UpToDate

\* A step of another handler, or none.
LEMMA InvOther ==
  ASSUME SyncInv, [Next]_vars, UNCHANGED syncVars
  PROVE  SyncInv'
<1>1. TypeOK /\ OwnTypeOK /\ TypeOK'
  BY SyncTypeParts, TypeStep DEF SyncInv
<1>2. SyncTypeOK'
  <2>1. OwnTypeOK'
    BY <1>1, Zenon DEF OwnTypeOK, CallsOK, IsCall, IsTable, syncVars
  <2>2. SyncTypeOK' <=> TypeOK' /\ OwnTypeOK'
    BY Zenon DEF SyncTypeOK, OwnTypeOK, CallsOK
  <2> QED
    BY <1>1, <2>1, <2>2
<1>3. /\ Len(changes) \in Nat /\ Len(changes') \in Nat
      /\ Len(changes) <= Len(changes')
      /\ \A m, n : n \in Nat =>
           (ChangedAfter(changes, m, n) => ChangedAfter(changes', m, n))
  BY <1>1, LogGrows
<1>4. StartsAtZero'
  BY DEF SyncInv, StartsAtZero, syncVars
<1>5. CursorIsKnown'
  BY <1>1, <1>3 DEF SyncInv, CursorIsKnown, syncVars, OwnTypeOK
<1>6. \A u \in DOMAIN calls' :
        /\ calls'[u].before <= Len(changes')
        /\ calls'[u].stage = "reply" => calls'[u].next <= Len(changes')
  <2>1. ASSUME NEW u \in DOMAIN calls
        PROVE  /\ calls[u].before <= Len(changes')
               /\ calls[u].stage = "reply" => calls[u].next <= Len(changes')
    <3>1. /\ calls[u].before <= Len(changes) /\ calls[u].before \in Nat
          /\ calls[u].stage = "reply" => calls[u].next <= Len(changes)
          /\ calls[u].next \in Nat
      BY <1>1, CallFields DEF SyncInv
    <3> QED
      BY <1>3, <3>1
  <2> QED
    BY <2>1 DEF syncVars
<1>7. NoMissedChange'
  <2>1. ASSUME NEW u \in Clients \ Legacy, NEW m \in DOMAIN messages',
               Shown(u, m)',
               ChangedAfter(changes', m, joinedAt'[messages'[m].conv][u]),
               ~ ChangedAfter(changes', m, cursor[u])
        PROVE  m \in DOMAIN copy[u] /\ copy[u][m] = messages'[m]
    <3>1. cursor[u] \in 0 .. Len(changes) /\ u \in Users
      BY <1>1, <1>3, MessageSyncAssumption DEF SyncInv, CursorIsKnown, OwnTypeOK
    <3>2. /\ m \in DOMAIN messages
          /\ messages'[m] = messages[m]
          /\ Shown(u, m)
          /\ ChangedAfter(changes, m, joinedAt[messages[m].conv][u])
          /\ ~ ChangedAfter(changes, m, cursor[u])
      BY <1>1, <2>1, <3>1, StillShown
    <3> QED
      BY <3>2 DEF SyncInv, NoMissedChange, UpToDate, ChangedSince
  <2> QED
    BY <2>1 DEF NoMissedChange, UpToDate, ChangedSince, syncVars
<1>8. CallsCover'
  <2> SUFFICES ASSUME NEW u \in DOMAIN calls \ Legacy
               PROVE
        /\ calls[u].stage = "since" => calls[u].after = 0
        /\ calls[u].after = cursor[u]
        /\ calls[u].after <= calls[u].before
        /\ calls[u].before <= Len(changes')
        /\ calls[u].stage = "reply" =>
             /\ \A m \in DOMAIN messages' :
                  /\ Shown(u, m)'
                  /\ ChangedAfter(changes', m, joinedAt'[messages'[m].conv][u])
                  /\ ChangedAfter(changes', m, calls[u].after)
                  /\ ~ ChangedAfter(changes', m, calls[u].next)
                  => m \in DOMAIN calls[u].entries
             /\ \A m \in DOMAIN calls[u].entries :
                  ~ ChangedAfter(changes', m, calls[u].next)
                  => /\ m \in DOMAIN messages'
                     /\ calls[u].entries[m] = messages'[m]
    BY Zenon DEF CallsCover, CallCovers, ChangedSince, syncVars
  <2>1. /\ u \in Users
        /\ calls[u].after \in Nat /\ calls[u].before \in Nat
        /\ calls[u].next \in Nat
    BY <1>1, CallFields, MessageSyncAssumption
  <2>2. /\ calls[u].stage = "since" => calls[u].after = 0
        /\ calls[u].after = cursor[u]
        /\ calls[u].after <= calls[u].before
        /\ calls[u].before <= Len(changes)
    BY DEF SyncInv, CallsCover, CallCovers
  <2>3. calls[u].stage = "reply" =>
          /\ \A m \in DOMAIN messages :
               /\ Shown(u, m)
               /\ ChangedAfter(changes, m, joinedAt[messages[m].conv][u])
               /\ ChangedAfter(changes, m, calls[u].after)
               /\ ~ ChangedAfter(changes, m, calls[u].next)
               => m \in DOMAIN calls[u].entries
          /\ \A m \in DOMAIN calls[u].entries :
               ~ ChangedAfter(changes, m, calls[u].next)
               => m \in DOMAIN messages /\ calls[u].entries[m] = messages[m]
    BY DEF SyncInv, CallsCover, CallCovers, ChangedSince
  <2>4. calls[u].before <= Len(changes')
    BY <1>3, <2>1, <2>2
  <2>5. calls[u].stage = "reply" => calls[u].next \in 0 .. Len(changes)
    BY <1>3, <2>1 DEF SyncInv
  <2>6. ASSUME calls[u].stage = "reply", NEW m \in DOMAIN messages',
               Shown(u, m)',
               ChangedAfter(changes', m, joinedAt'[messages'[m].conv][u]),
               ChangedAfter(changes', m, calls[u].after),
               ~ ChangedAfter(changes', m, calls[u].next)
        PROVE  m \in DOMAIN calls[u].entries
    <3>1. /\ m \in DOMAIN messages
          /\ Shown(u, m)
          /\ ChangedAfter(changes, m, joinedAt[messages[m].conv][u])
          /\ ~ ChangedAfter(changes, m, calls[u].next)
          /\ \A j \in Nat :
               ChangedAfter(changes', m, j) => ChangedAfter(changes, m, j)
      BY <1>1, <2>1, <2>5, <2>6, StillShown
    <3> QED
      BY <2>1, <2>3, <2>6, <3>1
  <2>7. ASSUME calls[u].stage = "reply", NEW m \in DOMAIN calls[u].entries,
               ~ ChangedAfter(changes', m, calls[u].next)
        PROVE  m \in DOMAIN messages' /\ calls[u].entries[m] = messages'[m]
    <3>1. m \in DOMAIN messages /\ calls[u].entries[m] = messages[m]
      BY <1>3, <2>1, <2>3, <2>7
    <3>2. m \in DOMAIN messages'
      BY <1>1, <3>1, LogEffect DEF RowsAreKept
    <3>3. messages'[m] = messages[m]
      BY <1>1, <2>5, <2>7, <3>2, NotWritten
    <3> QED
      BY <3>1, <3>2, <3>3
  <2> QED
    BY <2>2, <2>4, <2>6, <2>7
<1> QED
  BY <1>2, <1>4, <1>5, <1>6, <1>7, <1>8 DEF SyncInv

\* A statement of Sync for one client leaves those of the others alone.
LEMMA OtherCallsCover ==
  ASSUME SyncInv, UNCHANGED vars, NEW u,
         NEW v \in DOMAIN calls' \ Legacy, v # u,
         v \in DOMAIN calls, calls'[v] = calls[v], cursor'[v] = cursor[v]
  PROVE  CallCovers(v)'
<1>1. CallCovers(v)
  BY DEF SyncInv, CallsCover
<1>2. UNCHANGED <<members, joinedAt, messages, changes, userStates>>
  BY DEF vars
<1> QED
  BY <1>1, <1>2, Zenon DEF CallCovers, Shown, Hidden, ChangedSince

\* A statement of Sync that moves a call on to its next stage.
LEMMA InvPutCall ==
  ASSUME SyncInv, UNCHANGED <<vars, cursor, since, resume, copy>>,
         NEW u \in Clients, NEW call, IsCall(call), calls' = Put(calls, u, call),
         call.before <= Len(changes),
         call.stage = "reply" => call.next <= Len(changes),
         u \notin Legacy => CallCovers(u)'
  PROVE  SyncInv'
<1>1. TypeOK /\ OwnTypeOK
  BY SyncTypeParts DEF SyncInv
<1>2. /\ DOMAIN calls' = DOMAIN calls \cup {u}
      /\ calls'[u] = call
      /\ \A v \in DOMAIN calls \ {u} : calls'[v] = calls[v]
  BY DEF Put
<1>3. SyncTypeOK'
  <2>1. TypeOK'
    BY <1>1, TypeStep
  <2>2. CallsOK'
    BY <1>1, PutCall DEF OwnTypeOK
  <2>3. OwnTypeOK'
    BY <1>1, <2>2, Zenon DEF OwnTypeOK, IsTable
  <2>4. SyncTypeOK' <=> TypeOK' /\ OwnTypeOK'
    BY Zenon DEF SyncTypeOK, OwnTypeOK, CallsOK
  <2> QED
    BY <2>1, <2>3, <2>4
<1>4. UNCHANGED <<members, joinedAt, messages, changes, userStates>>
  BY DEF vars
<1>5. StartsAtZero' /\ CursorIsKnown'
  BY <1>4 DEF SyncInv, StartsAtZero, CursorIsKnown
<1>6. \A v \in DOMAIN calls' :
        /\ calls'[v].before <= Len(changes')
        /\ calls'[v].stage = "reply" => calls'[v].next <= Len(changes')
  BY <1>2, <1>4 DEF SyncInv
<1>7. CallsCover'
  <2>1. ASSUME NEW v \in DOMAIN calls' \ Legacy PROVE CallCovers(v)'
    <3>1. CASE v = u
      BY <3>1
    <3>2. CASE v # u
      BY <1>2, <3>2, OtherCallsCover
    <3> QED
      BY <3>1, <3>2
  <2> QED
    BY <2>1, Zenon DEF CallsCover
<1>8. NoMissedChange'
  BY <1>4, Zenon
  DEF SyncInv, NoMissedChange, UpToDate, Shown, Hidden, ChangedSince
<1> QED
  BY <1>3, <1>5, <1>6, <1>7, <1>8, Zenon DEF SyncInv

\* The first statement: the window starts at the client's cursor.
LEMMA InvBegin ==
  ASSUME SyncInv, NEW u \in Clients, SyncBegin(u)
  PROVE  SyncInv'
<1> DEFINE call ==
      [stage |-> IF resume[u] = "cursor" THEN "list" ELSE "since",
       after |-> IF resume[u] = "cursor" THEN cursor[u] ELSE 0,
       before |-> CurrentMessageSyncCursor,
       serverTime |-> clock, entries |-> NoRows, next |-> 0, more |-> FALSE]
<1>1. TypeOK /\ OwnTypeOK
  BY SyncTypeParts DEF SyncInv
<1>2. /\ UNCHANGED <<vars, cursor, since, resume, copy>>
      /\ calls' = Put(calls, u, call)
      /\ resume[u] = "cursor" => cursor[u] <= Len(changes)
  BY DEF SyncBegin, CurrentMessageSyncCursor
<1>3. /\ call.stage # "reply" /\ call.entries = NoRows
      /\ call.before <= Len(changes)
  BY <1>1 DEF CurrentMessageSyncCursor, TypeOK
<1>4. IsCall(call)
  <2>1. clock \in Nat /\ Len(changes) \in Nat /\ cursor[u] \in Nat
    BY <1>1 DEF TypeOK, OwnTypeOK
  <2>2. call \in [stage : {"since", "list", "reply"}, after : Nat, before : Nat,
                  serverTime : Nat, entries : {call.entries}, next : Nat,
                  more : BOOLEAN]
    BY <2>1 DEF CurrentMessageSyncCursor
  <2>3. IsTable(call.entries, MessageIds, Message)
    BY DEF IsTable, NoRows
  <2> HIDE DEF call
  <2> QED
    BY <2>2, <2>3 DEF IsCall
<1>5. ASSUME u \notin Legacy PROVE CallCovers(u)'
  <2>1. resume[u] \in {"cursor", "since"} /\ (resume[u] = "since" => cursor[u] = 0)
    BY <1>1, <1>5 DEF SyncInv, StartsAtZero, OwnTypeOK
  <2>2. calls'[u] = call
    BY <1>2 DEF Put
  <2>3. /\ calls'[u].stage \in {"since", "list"}
        /\ calls'[u].stage = "since" => calls'[u].after = 0
        /\ calls'[u].after = cursor[u]
        /\ calls'[u].before = Len(changes)
    BY <2>1, <2>2 DEF CurrentMessageSyncCursor
  <2>4. changes' = changes /\ cursor' = cursor
    BY <1>2 DEF vars
  <2>5. Len(changes) \in Nat
    BY <1>1 DEF TypeOK
  <2> HIDE DEF call
  <2> QED
    BY <1>2, <2>1, <2>3, <2>4, <2>5 DEF CallCovers
<1> HIDE DEF call
<1> QED
  BY <1>2, <1>3, <1>4, <1>5, InvPutCall

\* The second statement of a caller with a timestamp: a legacy client, or one
\* that starts, for which no change is stamped before.
LEMMA InvSince ==
  ASSUME SyncInv, NEW u \in Clients, SyncSince(u)
  PROVE  SyncInv'
<1>1. TypeOK /\ OwnTypeOK
  BY SyncTypeParts DEF SyncInv
<1>2. PICK n \in 0 .. Len(changes) :
        /\ IsCursorBeforeTime(n, since[u])
        /\ calls' = Put(calls, u, [calls[u] EXCEPT !.stage = "list", !.after = n,
                                                  !.serverTime = clock])
  BY DEF SyncSince
<1> DEFINE call == [calls[u] EXCEPT !.stage = "list", !.after = n,
                                    !.serverTime = clock]
<1>3. u \in DOMAIN calls /\ calls[u].stage = "since"
      /\ UNCHANGED <<vars, cursor, since, resume, copy>>
  BY DEF SyncSince
<1>4. ASSUME u \notin Legacy PROVE CallCovers(u)'
  <2>1. since[u] = 0 /\ CallCovers(u)
    BY <1>3, <1>4 DEF SyncInv, StartsAtZero, CallsCover
  <2>2. n = 0
    <3>1. n # 0 => changes[n] \in Change /\ changes[n].changedAt < 0
      BY <1>1, <1>2, <2>1 DEF IsCursorBeforeTime, TypeOK
    <3> QED
      BY <3>1 DEF Change
  <2>3. /\ calls[u].after = 0 /\ cursor[u] = 0
        /\ calls[u].before <= Len(changes) /\ calls[u].after <= calls[u].before
    BY <1>3, <2>1 DEF CallCovers
  <2>4. calls'[u] = call
    BY <1>2 DEF Put
  <2>5. /\ calls'[u].stage = "list" /\ calls'[u].after = 0
        /\ calls'[u].before = calls[u].before
    BY <1>1, <1>3, <2>2, <2>4 DEF OwnTypeOK, CallsOK, IsCall
  <2>6. cursor' = cursor /\ changes' = changes
    BY <1>3 DEF vars
  <2> HIDE DEF call
  <2> QED
    BY <2>3, <2>5, <2>6 DEF CallCovers
<1>5. IsCall(calls[u])
  BY <1>1, <1>3 DEF OwnTypeOK, CallsOK
<1>6. clock \in Nat /\ n \in Nat
  BY <1>1 DEF TypeOK
<1>7. IsCall(call) /\ call.stage = "list" /\ call.before <= Len(changes)
  BY <1>3, <1>5, <1>6 DEF IsCall, SyncInv
<1> HIDE DEF call
<1> QED
  BY <1>2, <1>3, <1>4, <1>7, InvPutCall DEF call

\* The page: by PageCovers it has every message that has to be on it.
LEMMA InvList ==
  ASSUME SyncInv, NEW u \in Clients, SyncList(u)
  PROVE  SyncInv'
<1> DEFINE old == calls[u]
           found == LastChanges(Window(u, old.after, old.before))
           page == FirstOf(found, Limit)
           rows == [m \in {changes[i].message : i \in page} |-> messages[m]]
<1>1. TypeOK /\ OwnTypeOK /\ u \in Users
  BY SyncTypeParts, MessageSyncAssumption DEF SyncInv
<1>2. PICK next \in {old.before} \cup page, now \in old.serverTime .. clock :
        /\ IsNextCursor(page, found, old.before, next)
        /\ calls' = Put(calls, u,
             [old EXCEPT !.stage = "reply", !.serverTime = now, !.next = next,
                         !.more = (page # found), !.entries = rows])
  BY DEF SyncList
<1> DEFINE call ==
      [old EXCEPT !.stage = "reply", !.serverTime = now, !.next = next,
                  !.more = (page # found), !.entries = rows]
<1>3. /\ u \in DOMAIN calls /\ old.stage = "list"
      /\ UNCHANGED <<vars, cursor, since, resume, copy>>
  BY DEF SyncList
<1>4. page \subseteq Window(u, old.after, old.before)
  BY DEF LastChanges, FirstOf
<1>5. \A m \in DOMAIN rows : m \in DOMAIN messages /\ rows[m] = messages[m]
  BY <1>4 DEF Window, Shown
<1>6. old.serverTime \in Nat /\ old.after \in Nat /\ old.before \in Nat
      /\ Len(changes) \in Nat /\ clock \in Nat
  BY <1>1, <1>3, CallFields DEF TypeOK
<1>7. now \in Nat /\ next \in Nat /\ next <= Len(changes)
  <2>1. old.before <= Len(changes)
    BY <1>3 DEF SyncInv
  <2>2. page \subseteq 1 .. Len(changes)
    BY <1>4 DEF Window
  <2> HIDE DEF page, old
  <2> QED
    BY <1>2, <1>6, <2>1, <2>2
<1>8. /\ call.stage = "reply" /\ call.after = old.after
      /\ call.before = old.before /\ call.next = next
      /\ call.serverTime = now /\ call.entries = rows
      /\ call.more = (page # found)
      /\ call = [stage |-> "reply", after |-> old.after, before |-> old.before,
                 serverTime |-> now, entries |-> rows, next |-> next,
                 more |-> (page # found)]
  <2> DEFINE more == (page # found)
  <2>1. IsCall(old)
    BY <1>1, <1>3 DEF OwnTypeOK, CallsOK
  <2>2. call = [old EXCEPT !.stage = "reply", !.serverTime = now, !.next = next,
                           !.more = more, !.entries = rows]
    OBVIOUS
  <2>3. more = (page # found)
    OBVIOUS
  <2> HIDE DEF rows, page, found, call, more, old
  <2>4. old = [stage |-> old.stage, after |-> old.after, before |-> old.before,
               serverTime |-> old.serverTime, entries |-> old.entries,
               next |-> old.next, more |-> old.more]
    BY <2>1 DEF IsCall
  <2>5. call = [stage |-> "reply", after |-> old.after, before |-> old.before,
                serverTime |-> now, entries |-> rows, next |-> next,
                more |-> more]
    BY <2>2, <2>4
  <2> QED
    BY <2>3, <2>5
<1>9. IsCall(call)
  <2>1. IsTable(rows, MessageIds, Message)
    BY <1>1, <1>5 DEF TypeOK, IsTable
  <2> HIDE DEF rows, page, found
  <2>2. call \in [stage : {"since", "list", "reply"}, after : Nat, before : Nat,
                  serverTime : Nat, entries : {call.entries}, next : Nat,
                  more : BOOLEAN]
    BY <1>6, <1>7, <1>8
  <2> HIDE DEF call
  <2> QED
    BY <1>8, <2>1, <2>2 DEF IsCall
<1>10. ASSUME u \notin Legacy PROVE CallCovers(u)'
  <2>1. CallCovers(u)
    BY <1>3, <1>10 DEF SyncInv, CallsCover
  <2>2. old.after = cursor[u] /\ old.after <= old.before
        /\ old.before <= Len(changes)
    BY <2>1 DEF CallCovers
  <2>3. ASSUME NEW m \in DOMAIN messages, Shown(u, m),
               ChangedSince(m, old.after), ~ ChangedSince(m, next)
        PROVE  m \in DOMAIN rows
    <3>1. \E i \in page : changes[i].message = m
      BY <1>1, <1>2, <1>6, <1>7, <2>2, <2>3, PageCovers
    <3> HIDE DEF page
    <3> QED
      BY <3>1
  <2>4. calls'[u] = call
    BY <1>2 DEF Put
  <2>5. UNCHANGED <<members, joinedAt, messages, changes, userStates, cursor>>
    BY <1>3 DEF vars
  <2> HIDE DEF rows, call
  <2>6. calls'[u].stage = "reply" /\ calls'[u].after = cursor'[u]
        /\ calls'[u].after <= calls'[u].before
        /\ calls'[u].before <= Len(changes')
    BY <1>8, <2>2, <2>4, <2>5
  <2>7. \A m \in DOMAIN messages :
          /\ Shown(u, m)
          /\ ChangedSince(m, joinedAt[messages[m].conv][u])
          /\ ChangedSince(m, calls'[u].after)
          /\ ~ ChangedSince(m, calls'[u].next)
          => m \in DOMAIN calls'[u].entries
    BY <1>8, <2>3, <2>4
  <2>8. \A m \in DOMAIN calls'[u].entries :
          ~ ChangedSince(m, calls'[u].next)
          => m \in DOMAIN messages /\ calls'[u].entries[m] = messages[m]
    BY <1>5, <1>8, <2>4
  <2> QED
    BY <2>5, <2>6, <2>7, <2>8, Zenon DEF CallCovers, Shown, Hidden, ChangedSince
<1>11. calls' = Put(calls, u, call)
  BY <1>2
<1>12. call.before <= Len(changes)
  BY <1>3, <1>8 DEF SyncInv
<1> HIDE DEF call, rows, page, found
<1> QED
  BY <1>3, <1>7, <1>8, <1>9, <1>10, <1>11, <1>12, InvPutCall

\* A call that ends: the calls of the other clients are as they were.
LEMMA InvRemoveCall ==
  ASSUME SyncInv, UNCHANGED vars, NEW u \in Clients,
         calls' = Remove(calls, {u}), OwnTypeOK',
         \A v \in Clients \ {u} : cursor'[v] = cursor[v],
         StartsAtZero', CursorIsKnown', NoMissedChange'
  PROVE  SyncInv'
<1>1. TypeOK /\ OwnTypeOK
  BY SyncTypeParts DEF SyncInv
<1>2. /\ DOMAIN calls' = DOMAIN calls \ {u}
      /\ \A v \in DOMAIN calls' : calls'[v] = calls[v]
  BY DEF Remove
<1>3. SyncTypeOK'
  <2>1. TypeOK'
    BY <1>1, TypeStep
  <2>2. SyncTypeOK' <=> TypeOK' /\ OwnTypeOK'
    BY Zenon DEF SyncTypeOK, OwnTypeOK, CallsOK
  <2> QED
    BY <2>1, <2>2
<1>4. CallsCover'
  <2>1. ASSUME NEW v \in DOMAIN calls' \ Legacy PROVE CallCovers(v)'
    <3>1. v \in Clients \ {u} /\ v \in DOMAIN calls /\ calls'[v] = calls[v]
      BY <1>1, <1>2 DEF OwnTypeOK, CallsOK
    <3> QED
      BY <3>1, OtherCallsCover
  <2> QED
    BY <2>1, Zenon DEF CallsCover
<1>5. \A v \in DOMAIN calls' :
        /\ calls'[v].before <= Len(changes')
        /\ calls'[v].stage = "reply" => calls'[v].next <= Len(changes')
  BY <1>2 DEF SyncInv, vars
<1> QED
  BY <1>3, <1>4, <1>5, Zenon DEF SyncInv

\* A call that fails changes nothing.
LEMMA InvLost ==
  ASSUME SyncInv, NEW u \in Clients, SyncLost(u)
  PROVE  SyncInv'
<1>1. /\ UNCHANGED <<vars, cursor, since, resume, copy>>
      /\ calls' = Remove(calls, {u})
  BY DEF SyncLost
<1>2. OwnTypeOK /\ CallsOK'
  BY <1>1, SyncTypeParts, RemoveCall DEF SyncInv, OwnTypeOK
<1>3. OwnTypeOK'
  BY <1>1, <1>2, Zenon DEF OwnTypeOK, IsTable
<1>4. UNCHANGED <<members, joinedAt, messages, changes, userStates>>
  BY <1>1 DEF vars
<1>5. CursorIsKnown' /\ StartsAtZero'
  BY <1>1, <1>4 DEF SyncInv, StartsAtZero, CursorIsKnown
<1>6. NoMissedChange'
  BY <1>1, <1>4, Zenon
  DEF SyncInv, NoMissedChange, UpToDate, Shown, Hidden, ChangedSince
<1> QED
  BY <1>1, <1>3, <1>5, <1>6, InvRemoveCall

\* The reply: what the device lacks between its cursor and the next one is in
\* it, and what it has in common with the reply it takes from there.
LEMMA InvReply ==
  ASSUME SyncInv, NEW u \in Clients, SyncReply(u)
  PROVE  SyncInv'
<1> DEFINE call == calls[u]
<1>1. TypeOK /\ OwnTypeOK
  BY SyncTypeParts DEF SyncInv
<1>2. /\ u \in DOMAIN calls /\ call.stage = "reply"
      /\ copy' = [copy EXCEPT ![u] = Merge(@, call.entries)]
      /\ cursor' = [cursor EXCEPT ![u] = call.next]
      /\ calls' = Remove(calls, {u})
      /\ UNCHANGED vars
  BY DEF SyncReply
<1>3. \/ /\ u \in Legacy
         /\ resume' = [resume EXCEPT ![u] = "since"]
         /\ since' = [since EXCEPT ![u] = call.serverTime]
      \/ /\ resume' = [resume EXCEPT ![u] = "cursor"]
         /\ UNCHANGED since
  BY DEF SyncReply
<1>4. /\ call.next \in Nat /\ call.next <= Len(changes)
      /\ call.serverTime \in Nat
      /\ IsTable(call.entries, MessageIds, Message)
  BY <1>1, <1>2, CallFields DEF SyncInv
<1>5. UNCHANGED <<members, joinedAt, messages, changes, userStates>>
  BY <1>2 DEF vars
<1> HIDE DEF call
<1>6. /\ copy = [v \in Clients |-> copy[v]]
      /\ \A v \in Clients : IsTable(copy[v], MessageIds, Message)
      /\ cursor \in [Clients -> Nat]
  BY <1>1 DEF OwnTypeOK
<1>7. /\ copy' = [v \in Clients |-> copy'[v]]
      /\ copy'[u] = Merge(copy[u], call.entries)
      /\ \A v \in Clients \ {u} : copy'[v] = copy[v]
  BY <1>2, <1>6
<1>8. cursor'[u] = call.next /\ \A v \in Clients \ {u} : cursor'[v] = cursor[v]
  BY <1>2, <1>6
<1>9. OwnTypeOK'
  <2>1. CallsOK'
    BY <1>1, <1>2, RemoveCall DEF OwnTypeOK
  <2>2. \A v \in Clients : IsTable(copy'[v], MessageIds, Message)
    BY <1>4, <1>6, <1>7, MergeIsTable
  <2>3. cursor' \in [Clients -> Nat]
    BY <1>2, <1>4, <1>6
  <2>4. since' \in [Clients -> Nat] /\ resume' \in [Clients -> {"cursor", "since"}]
    BY <1>1, <1>3, <1>4 DEF OwnTypeOK
  <2>5. OwnTypeOK' <=> /\ cursor' \in [Clients -> Nat]
                       /\ since' \in [Clients -> Nat]
                       /\ resume' \in [Clients -> {"cursor", "since"}]
                       /\ copy' = [v \in Clients |-> copy'[v]]
                       /\ \A v \in Clients : IsTable(copy'[v], MessageIds, Message)
                       /\ CallsOK'
    BY Zenon DEF OwnTypeOK, IsTable
  <2> QED
    BY <1>7, <2>1, <2>2, <2>3, <2>4, <2>5
<1>10. StartsAtZero'
  BY <1>1, <1>3, <1>8 DEF SyncInv, StartsAtZero, OwnTypeOK
<1>11. CursorIsKnown'
  BY <1>4, <1>5, <1>8 DEF SyncInv, CursorIsKnown
<1>12. NoMissedChange'
  <2>1. ASSUME NEW v \in Clients \ Legacy, NEW m \in DOMAIN messages,
               Shown(v, m),
               ChangedSince(m, joinedAt[messages[m].conv][v]),
               ~ ChangedSince(m, cursor'[v])
        PROVE  m \in DOMAIN copy'[v] /\ copy'[v][m] = messages[m]
    <3>0. \A n \in DOMAIN messages :
            /\ Shown(v, n)
            /\ ChangedSince(n, joinedAt[messages[n].conv][v])
            /\ ~ ChangedSince(n, cursor[v])
            => n \in DOMAIN copy[v] /\ copy[v][n] = messages[n]
      BY DEF SyncInv, NoMissedChange, UpToDate
    <3>1. CASE v # u
      BY <1>7, <1>8, <2>1, <3>0, <3>1
    <3>2. CASE v = u
      <4>1. CallCovers(u)
        BY <1>2, <2>1, <3>2 DEF SyncInv, CallsCover
      <4>2. /\ call.after = cursor[u]
            /\ \A n \in DOMAIN messages :
                 /\ Shown(u, n)
                 /\ ChangedSince(n, joinedAt[messages[n].conv][u])
                 /\ ChangedSince(n, call.after)
                 /\ ~ ChangedSince(n, call.next)
                 => n \in DOMAIN call.entries
            /\ \A n \in DOMAIN call.entries :
                 ~ ChangedSince(n, call.next)
                 => n \in DOMAIN messages /\ call.entries[n] = messages[n]
        BY <1>2, <4>1 DEF CallCovers, call
      <4>3. ~ ChangedSince(m, call.next)
        BY <1>8, <2>1, <3>2
      <4>4. CASE m \in DOMAIN call.entries
        BY <1>7, <3>2, <4>2, <4>3, <4>4 DEF Merge
      <4>5. CASE m \notin DOMAIN call.entries
        <5>1. ~ ChangedSince(m, cursor[u])
          BY <2>1, <3>2, <4>2, <4>3, <4>5
        <5>2. m \in DOMAIN copy[u] /\ copy[u][m] = messages[m]
          BY <2>1, <3>0, <3>2, <5>1
        <5> QED
          BY <1>7, <3>2, <4>5, <5>2 DEF Merge
      <4> QED
        BY <4>4, <4>5
    <3> QED
      BY <3>1, <3>2
  <2> QED
    BY <1>5, <2>1, Zenon DEF NoMissedChange, UpToDate, Shown, Hidden, ChangedSince
<1> QED
  BY <1>2, <1>8, <1>9, <1>10, <1>11, <1>12, InvRemoveCall

\* Every step keeps the invariant.
LEMMA InvStep == SyncInv /\ [SyncNext]_allVars => SyncInv'
<1> SUFFICES ASSUME SyncInv, [SyncNext]_allVars PROVE SyncInv'
  OBVIOUS
<1>1. CASE Next /\ UNCHANGED syncVars
  BY <1>1, InvOther
<1>2. ASSUME NEW u \in Clients,
             \/ SyncBegin(u) \/ SyncSince(u) \/ SyncList(u) \/ SyncReply(u)
             \/ SyncLost(u)
      PROVE  SyncInv'
  BY <1>2, InvBegin, InvSince, InvList, InvReply, InvLost
<1>3. CASE UNCHANGED allVars
  <2>1. UNCHANGED vars /\ UNCHANGED syncVars
    BY <1>3, Zenon DEF allVars, vars, syncVars
  <2> QED
    BY <2>1, InvOther
<1> QED
  BY <1>1, <1>2, <1>3, Zenon DEF SyncNext

-------------------------------------------------------------------------------
(* Theorems *)

\* The invariant that the reply on its way to a client is enough to bring its
\* copy up to the next cursor, whatever the other handlers do meanwhile.
THEOREM SyncInvariant == SyncSpec => []SyncInv
BY InvInit, InvStep, PTL DEF SyncSpec

\* The handlers of messages and the calls of Sync keep every row, copy and call
\* well typed.
THEOREM SyncTypeCorrect == SyncSpec => []SyncTypeOK
<1>1. SyncInv => SyncTypeOK
  BY DEF SyncInv
<1> QED
  BY <1>1, SyncInvariant, PTL

\* A client that resumes with nextCursor misses no change, for any number of
\* messages, changes, members and any page size: nothing is lost at the limit
\* of a page, at the end of the window or with a reply that does not arrive.
THEOREM NothingIsMissed == SyncSpec => []NoMissedChange
<1>1. SyncInv => NoMissedChange
  BY DEF SyncInv
<1> QED
  BY <1>1, SyncInvariant, PTL

\* Sync refuses no cursor that it gave out.
THEOREM CursorsAreKnown == SyncSpec => []CursorIsKnown
<1>1. SyncInv => CursorIsKnown
  BY DEF SyncInv
<1> QED
  BY <1>1, SyncInvariant, PTL

-------------------------------------------------------------------------------
(* MessageHistory: the order of a conversation *)

\* A set of messages that exist; of a table in the database there are finitely
\* many.
StoredSet(S) == S \subseteq DOMAIN messages /\ IsFiniteSet(S)

\* What is listed at or before a message, from the newest on.
Upto(S, m) == {k \in S : k = m \/ Older(m, k)}

\* The numbers that the order compares.
LEMMA OrderTyped ==
  ASSUME TypeOK
  PROVE  \A m \in DOMAIN messages :
           m \in Nat /\ messages[m].createdAt \in Nat
<1> SUFFICES ASSUME NEW m \in DOMAIN messages
             PROVE  m \in Nat /\ messages[m].createdAt \in Nat
  OBVIOUS
<1>1. m \in MessageIds /\ messages[m] \in Message
  BY RowOfTable DEF TypeOK
<1> QED
  BY <1>1, MessageHistoryAssumption DEF Message

\* created_at and id order the messages, those of one millisecond included.
LEMMA OlderOrders ==
  ASSUME TypeOK
  PROVE  /\ \A a \in DOMAIN messages : ~ Older(a, a)
         /\ \A a, b \in DOMAIN messages :
              /\ Older(a, b) \/ Older(b, a) \/ a = b
              /\ ~ (Older(a, b) /\ Older(b, a))
         /\ \A a, b, c \in DOMAIN messages :
              Older(a, b) /\ Older(b, c) => Older(a, c)
BY OrderTyped DEF Older

\* The order of the list and the condition of the cursor are the same.
LEMMA CursorFollowsOrder ==
  ASSUME NEW a, NEW b
  PROVE  PastCursor(a, b) <=> Older(a, b)
BY DEF PastCursor, Older

\* Messages have an oldest one.
LEMMA OldestExists ==
  ASSUME TypeOK, NEW S \in SUBSET DOMAIN messages, S # {}
  PROVE  \E m \in S : \A k \in S : k = m \/ Older(m, k)
<1> DEFINE times == {messages[m].createdAt : m \in S}
<1>1. times \in SUBSET Nat /\ times # {}
  BY OrderTyped
<1>2. PICK t \in times : \A s \in times : t <= s
  BY <1>1, MinExists
<1> DEFINE first == {m \in S : messages[m].createdAt = t}
<1>3. first \in SUBSET Nat /\ first # {}
  BY OrderTyped
<1>4. PICK m \in first : \A k \in first : m <= k
  BY <1>3, MinExists
<1>5. ASSUME NEW k \in S, k # m PROVE Older(m, k)
  <2>1. /\ messages[m].createdAt = t /\ t <= messages[k].createdAt
        /\ messages[k].createdAt \in Nat /\ t \in Nat
        /\ k \in Nat /\ m \in Nat /\ m \in S
    BY <1>1, <1>2, OrderTyped
  <2>2. messages[k].createdAt = t => m <= k
    BY <1>4
  <2> QED
    BY <1>5, <2>1, <2>2 DEF Older
<1> QED
  BY <1>5

\* What is listed up to a message is part of what is listed up to an older one.
LEMMA UptoShrinks ==
  ASSUME TypeOK, NEW S, StoredSet(S), NEW m \in S, NEW k \in S, Older(m, k)
  PROVE  /\ Upto(S, k) \subseteq Upto(S, m) \ {m}
         /\ IsFiniteSet(Upto(S, m)) /\ IsFiniteSet(Upto(S, k))
         /\ Cardinality(Upto(S, m)) \in Nat /\ Cardinality(Upto(S, k)) \in Nat
         /\ Cardinality(Upto(S, k)) < Cardinality(Upto(S, m))
<1>1. /\ Upto(S, m) \subseteq S /\ Upto(S, k) \subseteq S
      /\ m \in Upto(S, m)
  BY DEF Upto
<1>2. IsFiniteSet(Upto(S, m)) /\ IsFiniteSet(Upto(S, k))
  BY <1>1, FS_Subset DEF StoredSet
<1>3. Upto(S, k) \subseteq Upto(S, m) \ {m}
  BY OlderOrders DEF Upto, StoredSet
<1>4. /\ IsFiniteSet(Upto(S, m) \ {m})
      /\ Cardinality(Upto(S, m) \ {m}) = Cardinality(Upto(S, m)) - 1
  BY <1>1, <1>2, FS_RemoveElement
<1>5. Cardinality(Upto(S, k)) <= Cardinality(Upto(S, m) \ {m})
  BY <1>3, <1>4, FS_Subset
<1>6. Cardinality(Upto(S, m)) \in Nat /\ Cardinality(Upto(S, k)) \in Nat
  BY <1>2, FS_CardinalityType
<1> QED
  BY <1>2, <1>3, <1>4, <1>5, <1>6

\* And, when there are finitely many, a newest.
LEMMA NewestExists ==
  ASSUME TypeOK, NEW S, StoredSet(S), S # {}
  PROVE  \E m \in S : \A k \in S : k = m \/ Older(k, m)
<1> DEFINE counts == {Cardinality(Upto(S, m)) : m \in S}
<1>1. \A m \in S : Cardinality(Upto(S, m)) \in Nat
  <2> SUFFICES ASSUME NEW m \in S PROVE Cardinality(Upto(S, m)) \in Nat
    OBVIOUS
  <2>1. IsFiniteSet(Upto(S, m))
    BY FS_Subset DEF StoredSet, Upto
  <2> QED
    BY <2>1, FS_CardinalityType
<1>2. counts \in SUBSET Nat /\ counts # {}
  BY <1>1
<1>3. PICK n \in counts : \A i \in counts : n <= i
  BY <1>2, MinExists
<1>4. PICK m \in S : n = Cardinality(Upto(S, m))
  OBVIOUS
<1>5. ASSUME NEW k \in S, k # m PROVE Older(k, m)
  <2>1. ~ Older(m, k)
    <3> SUFFICES ASSUME Older(m, k) PROVE FALSE
      OBVIOUS
    <3>1. Cardinality(Upto(S, k)) < Cardinality(Upto(S, m))
      BY UptoShrinks
    <3>2. n <= Cardinality(Upto(S, k))
      BY <1>3
    <3> QED
      BY <1>1, <1>4, <3>1, <3>2
  <2> QED
    BY <1>5, <2>1, OlderOrders DEF StoredSet
<1> QED
  BY <1>5

-------------------------------------------------------------------------------
(* MessageHistory: pages *)

\* A page is part of what it is a page of.
LEMMA NewestIsStored ==
  ASSUME NEW S, StoredSet(S), NEW n
  PROVE  NewestOf(S, n) \subseteq S /\ StoredSet(NewestOf(S, n))
BY FS_Subset DEF NewestOf, StoredSet

\* Nothing newer is left out.
LEMMA NewestIsUpClosed ==
  ASSUME TypeOK, NEW S, StoredSet(S), NEW n \in Nat,
         NEW m \in NewestOf(S, n), NEW k \in S, Older(m, k)
  PROVE  k \in NewestOf(S, n)
<1>1. m \in S /\ Cardinality(Upto(S, m)) <= n
  BY DEF NewestOf, Upto
<1>2. Cardinality(Upto(S, k)) <= n
  BY <1>1, UptoShrinks
<1> QED
  BY <1>2 DEF NewestOf, Upto

\* A page has no more than its size.
LEMMA NewestIsBounded ==
  ASSUME TypeOK, NEW S, StoredSet(S), NEW n \in Nat
  PROVE  Cardinality(NewestOf(S, n)) <= n
<1> DEFINE page == NewestOf(S, n)
<1>1. page \subseteq S /\ StoredSet(page)
  BY NewestIsStored
<1>2. CASE page = {}
  BY <1>2, FS_EmptySet
<1>3. CASE page # {}
  <2>1. PICK m \in page : \A k \in page : k = m \/ Older(m, k)
    BY <1>1, <1>3, OldestExists DEF StoredSet
  <2>2. page \subseteq Upto(S, m) /\ Upto(S, m) \subseteq S
    BY <1>1, <2>1 DEF Upto
  <2>3. IsFiniteSet(Upto(S, m))
    BY <2>2, FS_Subset DEF StoredSet
  <2>4. Cardinality(page) <= Cardinality(Upto(S, m))
    BY <2>2, <2>3, FS_Subset
  <2>5. Cardinality(Upto(S, m)) <= n
    BY <2>1 DEF NewestOf, Upto
  <2>6. Cardinality(page) \in Nat /\ Cardinality(Upto(S, m)) \in Nat
    BY <1>1, <2>3, FS_CardinalityType DEF StoredSet
  <2> QED
    BY <2>4, <2>5, <2>6
<1> QED
  BY <1>2, <1>3

\* A page of what there is has something on it.
LEMMA NewestIsThere ==
  ASSUME TypeOK, NEW S, StoredSet(S), S # {}, NEW n \in Nat \ {0}
  PROVE  NewestOf(S, n) # {}
<1>1. PICK m \in S : \A k \in S : k = m \/ Older(k, m)
  BY NewestExists
<1>2. Upto(S, m) = {m}
  BY <1>1, OlderOrders DEF Upto, StoredSet
<1>3. Cardinality(Upto(S, m)) = 1
  BY <1>2, FS_Singleton
<1>4. m \in NewestOf(S, n)
  BY <1>3 DEF NewestOf, Upto
<1> QED
  BY <1>4

\* When the statement finds no more than the page shows, that is all there is.
LEMMA ShortPageIsLast ==
  ASSUME TypeOK, NEW S, StoredSet(S), NEW n \in Nat,
         NewestOf(NewestOf(S, n + 1), n) = NewestOf(S, n + 1)
  PROVE  NewestOf(S, n + 1) = S
<1> DEFINE found == NewestOf(S, n + 1)
           left == S \ found
<1>1. /\ found \subseteq S /\ StoredSet(found) /\ StoredSet(left)
      /\ left \subseteq S
  BY NewestIsStored, FS_Subset DEF StoredSet
<1>2. Cardinality(found) <= n
  BY <1>1, NewestIsBounded
<1>3. ASSUME left # {} PROVE FALSE
  <2>1. PICK m \in left : \A k \in left : k = m \/ Older(k, m)
    BY <1>1, <1>3, NewestExists
  <2>2. Upto(S, m) \subseteq found \cup {m}
    <3> SUFFICES ASSUME NEW k \in S, Older(m, k), k \notin found PROVE k = m
      BY DEF Upto
    <3>1. k \in left
      OBVIOUS
    <3>2. k \in DOMAIN messages /\ m \in DOMAIN messages
      BY <1>1 DEF StoredSet
    <3> HIDE DEF left, found
    <3> QED
      BY <2>1, <3>1, <3>2, OlderOrders
  <2>3. /\ IsFiniteSet(found) /\ m \notin found
        /\ IsFiniteSet(found \cup {m})
        /\ Cardinality(found \cup {m}) = Cardinality(found) + 1
    BY <1>1, <2>1, FS_AddElement DEF StoredSet
  <2>4. /\ IsFiniteSet(Upto(S, m))
        /\ Cardinality(Upto(S, m)) <= Cardinality(found \cup {m})
    BY <2>2, <2>3, FS_Subset
  <2>5. Cardinality(Upto(S, m)) \in Nat /\ Cardinality(found) \in Nat
    BY <2>3, <2>4, FS_CardinalityType
  <2>6. Cardinality(Upto(S, m)) <= n + 1
    BY <1>2, <2>3, <2>4, <2>5
  <2> QED
    BY <2>1, <2>6 DEF NewestOf, Upto
<1> QED
  BY <1>1, <1>3

-------------------------------------------------------------------------------
(* MessageHistory: walks *)

\* The walk has gone past the message.
Reached(walk, m) == walk.cursor # NoMessage /\ ~ PastCursor(m, walk.cursor)

\* A walk has listed what it has reached of what was there when it began and
\* still is, and has reached all it has listed.
WalkOK(u, walk) ==
  /\ walk \in Walk
  /\ walk.start \cup walk.listed \subseteq DOMAIN messages
  /\ walk.cursor \in DOMAIN messages \cup {NoMessage}
  /\ walk.twice = {}
  /\ IF walk.stage = "done"
     THEN walk.start \cap History(u, walk.conv) \subseteq walk.listed
     ELSE /\ \A m \in walk.listed : Reached(walk, m)
          /\ \A m \in walk.start \cap History(u, walk.conv) :
               Reached(walk, m) => m \in walk.listed

HistoryInv ==
  /\ TypeOK
  /\ IsFiniteSet(DOMAIN messages)
  /\ IsTable(walks, Readers, Walk)
  /\ \A u \in DOMAIN walks : WalkOK(u, walks[u])

\* It contains the types of the module.
LEMMA HistoryIsTyped == HistoryInv => HistoryTypeOK
BY DEF HistoryInv, HistoryTypeOK, WalkOK

\* Nobody walks, and there is nothing to list.
LEMMA HistoryStarts == HistoryInit => HistoryInv
<1> SUFFICES ASSUME HistoryInit PROVE HistoryInv
  OBVIOUS
<1>1. TypeOK
  BY TypeInit DEF HistoryInit
<1>2. DOMAIN messages = {} /\ DOMAIN walks = {} /\ walks = [u \in {} |-> {}]
  BY DEF HistoryInit, Init, NoRows
<1>3. IsFiniteSet(DOMAIN messages)
  BY <1>2, FS_EmptySet
<1> QED
  BY <1>1, <1>2, <1>3 DEF HistoryInv, IsTable

\* What a reader may see of a conversation is stored.
LEMMA HistoryIsStored ==
  ASSUME HistoryInv, NEW u, NEW c
  PROVE  /\ StoredSet(History(u, c))
         /\ \A from : StoredSet(Behind(u, c, from))
<1>1. \A S : S \subseteq DOMAIN messages => IsFiniteSet(S)
  BY FS_Subset DEF HistoryInv
<1> QED
  BY <1>1 DEF StoredSet, History, Behind

\* The steps of the handlers add messages and hide them; nothing moves.
LEMMA HistoryOther ==
  ASSUME HistoryInv, [Next]_vars, UNCHANGED walks
  PROVE  HistoryInv'
<1>1. TypeOK /\ TypeOK' /\ RowsAreKept
  BY TypeStep, LogEffect DEF HistoryInv
<1>2. /\ DOMAIN messages \subseteq DOMAIN messages'
      /\ \A m \in DOMAIN messages :
           /\ messages'[m].conv = messages[m].conv
           /\ messages'[m].createdAt = messages[m].createdAt
  BY <1>1 DEF RowsAreKept
<1>3. IsFiniteSet(DOMAIN messages')
  <2>1. CASE UNCHANGED messages
    BY <2>1 DEF HistoryInv
  <2>2. CASE OneChangeRecorded
    <3>1. PICK m : DOMAIN messages' \ {m} \subseteq DOMAIN messages
      BY <2>2 DEF OneChangeRecorded
    <3>2. /\ DOMAIN messages' \subseteq DOMAIN messages \cup {m}
          /\ IsFiniteSet(DOMAIN messages \cup {m})
      BY <3>1, FS_AddElement DEF HistoryInv
    <3> QED
      BY <3>2, FS_Subset
  <2> QED
    BY <1>1, <2>1, <2>2, LogEffect
<1>4. \A a, b \in DOMAIN messages : PastCursor(a, b)' <=> PastCursor(a, b)
  BY <1>2 DEF PastCursor
<1>5. \A u, c : \A m \in DOMAIN messages :
        m \in History(u, c)' => m \in History(u, c)
  <2> SUFFICES ASSUME NEW u, NEW c, NEW m \in DOMAIN messages,
                      m \in History(u, c)'
               PROVE  m \in History(u, c)
    OBVIOUS
  <2>1. messages'[m].conv = c /\ ~ Hidden(u, m)'
    BY DEF History, VisibleIn
  <2>2. ~ Hidden(u, m)
    BY <1>1, <2>1, HiddenEffect
  <2> QED
    BY <1>2, <2>1, <2>2 DEF History, VisibleIn
<1>6. ASSUME NEW u, NEW walk, WalkOK(u, walk)
      PROVE  WalkOK(u, walk)'
  <2>1. \A m \in walk.start \cap History(u, walk.conv)' :
          m \in walk.start \cap History(u, walk.conv) /\ m \in DOMAIN messages
    BY <1>5, <1>6 DEF WalkOK
  <2>2. \A m \in DOMAIN messages : Reached(walk, m)' <=> Reached(walk, m)
    BY <1>4, <1>6 DEF WalkOK, Reached
  <2> QED
    BY <1>2, <1>6, <2>1, <2>2 DEF WalkOK
<1>7. ASSUME NEW u \in DOMAIN walks PROVE WalkOK(u, walks[u])'
  <2>1. PICK walk : walk = walks[u] /\ walks'[u] = walk
    OBVIOUS
  <2>2. WalkOK(u, walk)'
    BY <1>6, <2>1 DEF HistoryInv
  <2> QED
    BY <2>1, <2>2
<1> QED
  BY <1>1, <1>3, <1>7 DEF HistoryInv

\* A reader's walk goes on, or starts; the messages stay.
LEMMA PutWalk ==
  ASSUME HistoryInv, UNCHANGED vars, NEW u \in Readers, NEW walk,
         WalkOK(u, walk), walks' = Put(walks, u, walk)
  PROVE  HistoryInv'
<1>1. TypeOK' /\ IsFiniteSet(DOMAIN messages')
  BY DEF HistoryInv, TypeOK, BatchOK, vars
<1>2. IsTable(walks', Readers, Walk)
  BY PutIsTable DEF HistoryInv, WalkOK
<1>3. ASSUME NEW v \in DOMAIN walks' PROVE WalkOK(v, walks[v])'
  <2>1. PICK other : other = walks'[v] /\ WalkOK(v, other)
    BY DEF Put, HistoryInv
  <2>2. WalkOK(v, other)'
    BY <2>1 DEF vars, WalkOK, Reached, PastCursor, History, VisibleIn, Hidden
  <2> QED
    BY <2>1, <2>2
<1> QED
  BY <1>1, <1>2, <1>3 DEF HistoryInv

\* A walk starts at the newest message, with nothing reached.
LEMMA BeginWalkKeeps ==
  ASSUME HistoryInv, NEW u \in Readers, NEW c \in Conversations, BeginWalk(u, c)
  PROVE  HistoryInv'
<1> DEFINE walk == [stage |-> "ask", conv |-> c, cursor |-> NoMessage,
                    start |-> History(u, c), listed |-> {}, twice |-> {}]
<1>1. History(u, c) \subseteq DOMAIN messages /\ DOMAIN messages \subseteq MessageIds
  BY DEF History, HistoryInv, TypeOK, IsTable
<1>2. walk \in Walk
  BY <1>1 DEF Walk
<1>3. WalkOK(u, walk)
  BY <1>1, <1>2 DEF WalkOK, Reached
<1> HIDE DEF walk
<1> QED
  BY <1>3, PutWalk DEF BeginWalk, walk

\* The check of membership changes nothing that is listed.
LEMMA AskPageKeeps ==
  ASSUME HistoryInv, NEW u \in Readers, AskPage(u)
  PROVE  HistoryInv'
<1> DEFINE walk == walks[u]
           next == [walk EXCEPT !.stage = "list"]
<1>1. /\ u \in DOMAIN walks /\ walk.stage = "ask" /\ WalkOK(u, walk)
      /\ UNCHANGED vars /\ walks' = [walks EXCEPT ![u] = next]
      /\ walks = [v \in DOMAIN walks |-> walks[v]]
  BY DEF AskPage, HistoryInv, IsTable
<1>2. /\ next \in Walk /\ next.stage = "list" /\ next.conv = walk.conv
      /\ next.cursor = walk.cursor /\ next.start = walk.start
      /\ next.listed = walk.listed /\ next.twice = walk.twice
  BY <1>1 DEF WalkOK, Walk
<1> HIDE DEF walk, next
<1>3. WalkOK(u, next)
  BY <1>1, <1>2 DEF WalkOK, Reached
<1>4. walks' = Put(walks, u, next)
  BY <1>1 DEF Put
<1> QED
  BY <1>1, <1>3, <1>4, PutWalk

\* A page takes the messages behind the cursor from the newest on: none of them
\* is listed yet, and what it leaves is behind its oldest.
LEMMA ListPageKeeps ==
  ASSUME HistoryInv, NEW u \in Readers, ListPage(u)
  PROVE  HistoryInv'
<1> DEFINE walk == walks[u]
           behind == Behind(u, walk.conv, walk.cursor)
           found == NewestOf(behind, PageSize + 1)
           items == NewestOf(found, PageSize)
           shown == [walk EXCEPT !.listed = @ \cup items,
                                 !.twice = @ \cup (walk.listed \cap items)]
           more == [shown EXCEPT !.stage = "ask", !.cursor = OldestShown(items)]
           last == [shown EXCEPT !.stage = "done"]
<1>1. /\ u \in DOMAIN walks /\ walk.stage = "list" /\ WalkOK(u, walk)
      /\ UNCHANGED vars
      /\ walks' = [walks EXCEPT ![u] = IF items # found THEN more ELSE last]
      /\ walks = [v \in DOMAIN walks |-> walks[v]]
      /\ walk \in Walk
  BY DEF ListPage, HistoryInv, IsTable, WalkOK
<1>2. TypeOK /\ PageSize \in Nat \ {0} /\ PageSize \in Nat /\ PageSize + 1 \in Nat
  BY MessageHistoryAssumption DEF HistoryInv
<1>3. /\ StoredSet(behind) /\ StoredSet(found) /\ StoredSet(items)
      /\ found \subseteq behind /\ items \subseteq found
  BY HistoryIsStored, NewestIsStored
<1>4. \A m \in behind : /\ m \in History(u, walk.conv) /\ m \in DOMAIN messages
                        /\ ~ Reached(walk, m)
  BY <1>3 DEF Behind, Reached, StoredSet
<1>5. \A m \in History(u, walk.conv) : m \in behind \/ Reached(walk, m)
  BY DEF Behind, Reached
<1>6. \A m \in walk.listed : Reached(walk, m) /\ m \in DOMAIN messages
  BY <1>1 DEF WalkOK
<1>7. \A m \in walk.start \cap History(u, walk.conv) :
        m \in behind \/ m \in walk.listed
  BY <1>1, <1>5 DEF WalkOK
<1>8. walk.listed \cap items = {}
  BY <1>3, <1>4, <1>6
<1>9. /\ walk.start \subseteq DOMAIN messages /\ walk.twice = {}
      /\ items \subseteq DOMAIN messages /\ DOMAIN messages \subseteq MessageIds
      /\ walk.cursor \in DOMAIN messages \cup {NoMessage}
      /\ NoMessage \notin MessageIds
  BY <1>1, <1>3, MessagesAssumption
     DEF WalkOK, HistoryInv, TypeOK, IsTable, StoredSet
<1>10. CASE items # found
  <2>1. found # {} /\ items # {}
    <3>1. found # {}
      BY <1>3, <1>10
    <3> HIDE DEF found
    <3> QED
      BY <1>2, <1>3, <3>1, NewestIsThere
  <2> DEFINE oldest == OldestShown(items)
  <2>2. oldest \in items /\ \A k \in items : k = oldest \/ Older(oldest, k)
    <3> HIDE DEF items
    <3>1. \E m \in items : \A k \in items : k = m \/ Older(m, k)
      BY <1>2, <1>9, <2>1, OldestExists
    <3> QED
      BY <3>1 DEF OldestShown
  <2>3. oldest \in behind /\ oldest \in DOMAIN messages /\ oldest \in MessageIds
    BY <1>3, <1>9, <2>2
  <2>4. /\ more \in Walk /\ more.stage = "ask" /\ more.conv = walk.conv
        /\ more.cursor = oldest /\ more.start = walk.start
        /\ more.listed = walk.listed \cup items /\ more.twice = {}
    <3> HIDE DEF items, oldest, walk
    <3> QED
      BY <1>1, <1>8, <1>9, <2>3 DEF Walk, oldest
  <2> HIDE DEF more, oldest, walk, items, found, behind
  <2>5. \A m \in behind : Older(oldest, m) => m \in items
    <3> SUFFICES ASSUME NEW m \in behind, Older(oldest, m) PROVE m \in items
      OBVIOUS
    <3>1. m \in found
      BY <1>2, <1>3, <2>2, NewestIsUpClosed DEF found
    <3> QED
      BY <1>2, <1>3, <2>2, <3>1, NewestIsUpClosed DEF items
  <2>6. ASSUME NEW m \in walk.listed \cup items PROVE Reached(more, m)
    <3>1. ~ Older(m, oldest)
      <4>1. CASE m \in items
        BY <1>2, <1>9, <2>2, <2>3, <4>1, OlderOrders
      <4>2. CASE m \in walk.listed
        <5>1. /\ walk.cursor # NoMessage /\ ~ Older(m, walk.cursor)
              /\ Older(oldest, walk.cursor) /\ m \in DOMAIN messages
          BY <1>4, <1>6, <2>3, <4>2, CursorFollowsOrder DEF Reached
        <5> QED
          BY <1>2, <1>9, <2>3, <5>1, OlderOrders
      <4> QED
        BY <4>1, <4>2
    <3>2. ~ PastCursor(m, oldest)
      BY <3>1, CursorFollowsOrder
    <3> QED
      BY <1>9, <2>3, <2>4, <3>2 DEF Reached
  <2>7. ASSUME NEW m \in walk.start \cap History(u, walk.conv), Reached(more, m)
        PROVE  m \in walk.listed \cup items
    <3>1. CASE m \in behind
      <4>1. ~ Older(m, oldest)
        BY <2>4, <2>7, CursorFollowsOrder DEF Reached
      <4>2. m = oldest \/ Older(oldest, m)
        BY <1>2, <1>4, <2>3, <3>1, <4>1, OlderOrders
      <4> QED
        BY <2>2, <2>5, <3>1, <4>2
    <3> QED
      BY <1>7, <3>1
  <2>8. WalkOK(u, more)
    BY <1>6, <1>9, <2>3, <2>4, <2>6, <2>7 DEF WalkOK
  <2>9. walks' = Put(walks, u, more)
    BY <1>1, <1>10 DEF Put
  <2> QED
    BY <1>1, <2>8, <2>9, PutWalk
<1>11. CASE items = found
  <2>1. found = behind
    <3> HIDE DEF behind
    <3> QED
      BY <1>2, <1>3, <1>11, ShortPageIsLast
  <2>2. /\ last \in Walk /\ last.stage = "done" /\ last.conv = walk.conv
        /\ last.cursor = walk.cursor /\ last.start = walk.start
        /\ last.listed = walk.listed \cup items /\ last.twice = {}
    <3> HIDE DEF items, walk
    <3> QED
      BY <1>1, <1>8, <1>9 DEF Walk
  <2> HIDE DEF last, walk, items, found, behind
  <2>3. WalkOK(u, last)
    BY <1>6, <1>7, <1>9, <1>11, <2>1, <2>2 DEF WalkOK
  <2>4. walks' = Put(walks, u, last)
    BY <1>1, <1>11 DEF Put
  <2> QED
    BY <1>1, <2>3, <2>4, PutWalk
<1> QED
  BY <1>10, <1>11

\* A walk that is given up is gone.
LEMMA EndWalkKeeps ==
  ASSUME HistoryInv, NEW u \in Readers, EndWalk(u)
  PROVE  HistoryInv'
<1>1. UNCHANGED vars /\ walks' = Remove(walks, {u})
  BY DEF EndWalk
<1>2. TypeOK' /\ IsFiniteSet(DOMAIN messages')
  BY <1>1 DEF HistoryInv, TypeOK, BatchOK, vars
<1>3. IsTable(walks', Readers, Walk)
  BY <1>1, RemoveIsTable DEF HistoryInv
<1>4. ASSUME NEW v \in DOMAIN walks' PROVE WalkOK(v, walks[v])'
  <2>1. PICK other : other = walks'[v] /\ WalkOK(v, other)
    BY <1>1 DEF Remove, HistoryInv
  <2>2. WalkOK(v, other)'
    BY <1>1, <2>1
       DEF vars, WalkOK, Reached, PastCursor, History, VisibleIn, Hidden
  <2> QED
    BY <2>1, <2>2
<1> QED
  BY <1>2, <1>3, <1>4 DEF HistoryInv

\* Walks only read: the steps of the history are steps of Messages, or stutter.
LEMMA HistoryStepIsStep ==
  [HistoryNext]_historyVars => [Next]_vars
BY DEF HistoryNext, BeginWalk, AskPage, ListPage, EndWalk, historyVars, vars

\* Every step of a reader or of the handlers keeps the invariant.
LEMMA HistoryStep == HistoryInv /\ [HistoryNext]_historyVars => HistoryInv'
<1> SUFFICES ASSUME HistoryInv, [HistoryNext]_historyVars PROVE HistoryInv'
  OBVIOUS
<1>1. CASE UNCHANGED walks
  BY <1>1, HistoryStepIsStep, HistoryOther
<1>2. CASE \E u \in Readers : (\E c \in Conversations : BeginWalk(u, c))
             \/ AskPage(u) \/ ListPage(u) \/ EndWalk(u)
  BY <1>2, BeginWalkKeeps, AskPageKeeps, ListPageKeeps, EndWalkKeeps
<1> QED
  BY <1>1, <1>2 DEF HistoryNext, historyVars

-------------------------------------------------------------------------------
(* MessageHistory: the theorems *)

\* The reads change nothing, so the properties of Messages hold beside them.
THEOREM HistoryImplementsMessages == HistorySpec => Spec
<1>1. HistoryInit => Init
  BY DEF HistoryInit
<1> QED
  BY <1>1, HistoryStepIsStep, PTL DEF HistorySpec, Spec

\* The invariant of the walks holds in every reachable state: a walk has listed
\* whatever it has passed of the messages that were there all along.
THEOREM HistoryInvariant == HistorySpec => []HistoryInv
BY HistoryStarts, HistoryStep, PTL DEF HistorySpec

\* The tables and the walks keep their types.
THEOREM HistoryTypeCorrect == HistorySpec => []HistoryTypeOK
BY HistoryInvariant, HistoryIsTyped, PTL

\* Whatever is sent, deleted or recalled between two pages, a walk lists nothing
\* twice, and at its end has listed what was there all along.
THEOREM EveryMessageIsListedOnce == HistorySpec => []HistoryIsListedOnce
<1>1. HistoryInv => HistoryIsListedOnce
  BY DEF HistoryInv, HistoryIsListedOnce, WalkOK
<1> QED
  BY <1>1, HistoryInvariant, PTL

\* The preview of a conversation is the message its history begins with.
THEOREM PreviewIsAlwaysNewest == HistorySpec => []PreviewIsNewest
<1>1. ASSUME HistoryInv, NEW u \in Readers, NEW c \in Conversations
      PROVE  LastMessages(u, c) = NewestOf(History(u, c), 1)
  <2> DEFINE S == History(u, c)
  <2>1. StoredSet(S) /\ TypeOK
    BY <1>1, HistoryIsStored DEF HistoryInv
  <2>2. ASSUME NEW m \in S
        PROVE  NewerVisible(u, c, m) = {} <=> Cardinality(Upto(S, m)) <= 1
    <3>1. /\ IsFiniteSet(Upto(S, m)) /\ m \in Upto(S, m)
          /\ Upto(S, m) \ {m} = NewerVisible(u, c, m)
      <4> HIDE DEF S
      <4>1. Upto(S, m) \subseteq S /\ m \in DOMAIN messages
        BY <2>1 DEF Upto, StoredSet
      <4>2. IsFiniteSet(Upto(S, m))
        BY <2>1, <4>1, FS_Subset DEF StoredSet
      <4> QED
        BY <2>1, <4>1, <4>2, OlderOrders DEF Upto, NewerVisible, S
    <3>2. /\ IsFiniteSet(Upto(S, m) \ {m})
          /\ Cardinality(Upto(S, m) \ {m}) = Cardinality(Upto(S, m)) - 1
      BY <3>1, FS_RemoveElement
    <3>3. /\ Cardinality(Upto(S, m)) \in Nat
          /\ Cardinality(Upto(S, m) \ {m}) \in Nat
      BY <3>1, <3>2, FS_CardinalityType
    <3>4. Upto(S, m) \ {m} = {} <=> Cardinality(Upto(S, m) \ {m}) = 0
      BY <3>2, FS_EmptySet
    <3> QED
      BY <3>1, <3>2, <3>3, <3>4
  <2> QED
    BY <2>2 DEF LastMessages, NewestOf, Upto
<1>2. HistoryInv => PreviewIsNewest
  BY <1>1 DEF PreviewIsNewest
<1> QED
  BY <1>2, HistoryInvariant, PTL

\* Mark read leaves nothing unread that the history shows at or below the target.
THEOREM ReadingCoversHistory == HistorySpec => ReadThroughIsRead
<1> DEFINE Covers ==
      \A r \in DOMAIN requests :
        LET q == requests[r]
            target == q.batch[1]
        IN MarkRead(r) =>
             \A m \in History(q.user, q.conv) :
               /\ m = target \/ Older(m, target)
               /\ messages[m].sender # q.user
               => <<m, q.user>> \in DOMAIN receipts'
<1>1. ASSUME HistoryInv PROVE Covers
  <2> SUFFICES ASSUME NEW r \in DOMAIN requests, MarkRead(r),
                      NEW m \in History(requests[r].user, requests[r].conv),
                      m = requests[r].batch[1] \/ Older(m, requests[r].batch[1]),
                      messages[m].sender # requests[r].user
               PROVE  <<m, requests[r].user>> \in DOMAIN receipts'
    OBVIOUS
  <2> DEFINE q == requests[r]
             target == q.batch[1]
             k == <<m, q.user>>
             keys(now) ==
               {i \in ReadThrough(q.user, q.conv, target) \X {q.user} :
                  UpdatesReceipt(i, now)}
  <2>1. PICK now \in q.at .. clock :
          receipts' = Merge(receipts, [i \in keys(now) |-> now])
    BY DEF MarkRead
  <2>2. TypeOK /\ target \in DOMAIN messages /\ m \in DOMAIN messages
        /\ VisibleIn(q.user, q.conv, m)
    BY <1>1, RequestTyped, ElementStored
       DEF HistoryInv, MarkRead, At, History, TypeOK
  <2>3. messages[m].createdAt <= messages[target].createdAt
    BY <2>2, OrderTyped DEF Older
  <2>4. k \in ReadThrough(q.user, q.conv, target) \X {q.user}
    BY <2>2, <2>3 DEF ReadThrough
  <2>5. k \in DOMAIN receipts \/ k \in keys(now)
    BY <2>4 DEF UpdatesReceipt
  <2> HIDE DEF keys, k
  <2>6. DOMAIN receipts' = DOMAIN receipts \cup keys(now)
    BY <2>1 DEF Merge
  <2> QED
    BY <2>5, <2>6 DEF k
<1>2. HistoryInv /\ [HistoryNext]_historyVars => [Covers]_historyVars
  BY <1>1
<1> QED
  BY <1>2, HistoryInvariant, PTL DEF HistorySpec, ReadThroughIsRead
===============================================================================
