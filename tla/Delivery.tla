------------------------------- MODULE Delivery --------------------------------
(*****************************************************************************)
(* How the changes of one conversation reach a device: the events that       *)
(* internal/httpapi/messages.go publishes after the commit, through the      *)
(* channels of internal/realtime/hub.go, and the replies of GET /sync.       *)
(*                                                                           *)
(* A handler commits, reads the message back, reads the members and          *)
(* publishes, each in a step of its own; it may end at any of them, and      *)
(* what it committed stays.  The row of a message is the version it has: the *)
(* id of its last change.  The members of the conversation stay, their       *)
(* devices connect and disconnect.                                           *)
(*****************************************************************************)
EXTENDS ChangeLog, FiniteSets

CONSTANTS
  Devices,       \* one of each member
  Handlers,      \* requests that may run at the same time
  MaxBatchSize,  \* maxMessageBatchSize
  QueueSize,     \* clientSendBuffer
  MaxChanges     \* bound: rows of message_changes

ASSUME DeliveryAssumption ==
  /\ MaxBatchSize \in Nat \ {0}
  /\ QueueSize \in Nat \ {0}
  /\ MaxChanges \in Nat

VARIABLES
  handlers,  \* requests between two steps
  online,    \* devices with an open connection
  queue,     \* the events in their channels
  copy,      \* the messages a device shows, by id
  cursor,    \* the nextCursor a device stored
  calls,     \* calls of Sync under way
  newest,    \* history: the newest version a device has shown of a message
  orderly    \* history: no two handlers overlapped, and no event was lost

storage == <<rows, log>>
device == <<online, queue, copy, cursor, calls, newest>>
deliveryVars == <<rows, log, handlers, online, queue, copy, cursor, calls,
                  newest, orderly>>

-------------------------------------------------------------------------------

Event == [message : MessageIds, version : Nat]

\* A handler is about to commit (it has `left' messages to go), to read back
\* the message it `wrote', or to publish the `events' it has collected.
Handler == [stage : {"write", "find", "publish"}, creates : BOOLEAN,
            left : Nat, wrote : SUBSET MessageIds, events : Seq(Event)]

Versions(table) == IsTable(table, MessageIds, Nat)

\* A call of Sync has cut its window, or its reply is on the way.
IsCall(call) ==
  /\ call \in [stage : {"list", "reply"}, before : Nat,
               entries : {call.entries}]
  /\ Versions(call.entries)

DeliveryTypeOK ==
  /\ Versions(rows)
  /\ log \in Seq(MessageIds)
  /\ IsTable(handlers, Handlers, Handler)
  /\ online \subseteq Devices
  /\ queue \in [Devices -> Seq(Event)]
  /\ \A d \in Devices : Len(queue[d]) <= QueueSize
  /\ copy = [d \in Devices |-> copy[d]]
  /\ cursor \in [Devices -> Nat]
  /\ calls = [d \in DOMAIN calls |-> calls[d]]
  /\ DOMAIN calls \subseteq Devices
  /\ \A d \in DOMAIN calls : IsCall(calls[d])
  /\ newest = [d \in Devices |-> newest[d]]
  /\ \A d \in Devices : Versions(copy[d]) /\ Versions(newest[d])
  /\ orderly \in BOOLEAN

\* A device that has loaded nothing yet and has the cursor of an empty log.
DeliveryInit ==
  /\ LogInit
  /\ handlers = NoRows
  /\ online = {}
  /\ queue = [d \in Devices |-> << >>]
  /\ copy = [d \in Devices |-> NoRows]
  /\ cursor = [d \in Devices |-> 0]
  /\ calls = NoRows
  /\ newest = [d \in Devices |-> NoRows]
  /\ orderly = TRUE

-------------------------------------------------------------------------------
(* Handlers *)

\* SendMessage, EditMessage and RecallMessage change one message, an existing
\* one or a new one; ForwardMessages creates a batch.
Begin(h, creates, n) ==
  /\ h \notin DOMAIN handlers
  /\ creates \/ n = 1
  /\ handlers' = Put(handlers, h, [stage |-> "write", creates |-> creates,
                                   left |-> n, wrote |-> {},
                                   events |-> << >>])
  /\ orderly' = (orderly /\ handlers = NoRows)
  /\ UNCHANGED <<storage, device>>

\* The transaction that writes a message and its change.
Commit(h) ==
  /\ h \in DOMAIN handlers /\ handlers[h].stage = "write"
  /\ Len(log) < MaxChanges
  /\ \E m \in MessageIds :
       /\ handlers[h].creates => m \notin DOMAIN rows
       /\ Record(m, Len(log) + 1)
       /\ handlers' = [handlers EXCEPT ![h].stage = "find", ![h].wrote = {m}]
  /\ UNCHANGED <<device, orderly>>

\* Mutant: the row as the handler read it before its transaction, if it did.
ReadBefore(m) ==
  LET earlier == {i \in 1 .. rows[m] - 1 : log[i] = m}
  IN IF earlier = {} THEN rows[m]
     ELSE CHOOSE i \in earlier : \A j \in earlier : j <= i

\* FindMessageByID.
FindMessageByID(m) == rows[m]

\* The read after the transaction: somebody may have changed the message in
\* between.  A batch goes on with its next message; all its events wait for the
\* last.
ReadBack(h) ==
  LET q == handlers[h]
  IN /\ h \in DOMAIN handlers /\ q.stage = "find"
     /\ \E m \in q.wrote :
          handlers' = [handlers EXCEPT
            ![h].stage = IF q.left > 1 THEN "write" ELSE "publish",
            ![h].left = @ - 1,
            ![h].wrote = {},
            ![h].events = Append(@, [message |-> m,
                                     version |-> FindMessageByID(m)])]
     /\ UNCHANGED <<storage, device, orderly>>

\* Mutant: one event more than the channel holds.
FitsOneMore(d) == Len(queue[d]) <= QueueSize

\* The channel of the device takes another event.
Fits(d) == Len(queue[d]) < QueueSize

\* Publish: the channels of the open connections, in one step; a full one gets
\* nothing.  Two Publishes may interleave between devices, which a device
\* cannot tell.
Publish(h) ==
  LET q == handlers[h]
      fits == {d \in online : Fits(d)}
  IN /\ h \in DOMAIN handlers /\ q.stage = "publish"
     /\ queue' = [d \in Devices |-> IF d \in fits
                                    THEN Append(queue[d], Head(q.events))
                                    ELSE queue[d]]
     /\ handlers' = IF Len(q.events) > 1
                    THEN [handlers EXCEPT ![h].events = Tail(@)]
                    ELSE Remove(handlers, {h})
     /\ orderly' = (orderly /\ fits = online)
     /\ UNCHANGED <<storage, online, copy, cursor, calls, newest>>

\* The handler has committed a message whose event is still to come.
HasNews(h) == handlers[h].wrote # {} \/ handlers[h].events # << >>

\* The handler ends: a later message of the batch fails, the conversation
\* cannot be read, the client went away, the process stops.  No event is
\* published for what it has committed.
Abort(h) ==
  /\ h \in DOMAIN handlers
  /\ handlers' = Remove(handlers, {h})
  /\ orderly' = (orderly /\ ~ HasNews(h))
  /\ UNCHANGED <<storage, device>>

-------------------------------------------------------------------------------
(* Devices *)

Connect(d) ==
  /\ d \notin online
  /\ online' = online \cup {d}
  /\ UNCHANGED <<storage, handlers, queue, copy, cursor, calls, newest, orderly>>

\* What is in the channel is gone.
Disconnect(d) ==
  /\ d \in online
  /\ online' = online \ {d}
  /\ queue' = [queue EXCEPT ![d] = << >>]
  /\ orderly' = (orderly /\ queue[d] = << >>
                         /\ \A h \in DOMAIN handlers : ~ HasNews(h))
  /\ UNCHANGED <<storage, handlers, copy, cursor, calls, newest>>

\* The greater of the two versions, by message.
Newer(old, new) ==
  [m \in DOMAIN old \cup DOMAIN new |->
     IF m \notin DOMAIN new THEN old[m]
     ELSE IF m \in DOMAIN old /\ old[m] > new[m] THEN old[m] ELSE new[m]]

\* The device shows these rows instead of what it has of the same ids.
Show(d, shown) ==
  /\ copy' = [copy EXCEPT ![d] = Merge(@, shown)]
  /\ newest' = [newest EXCEPT ![d] = Newer(@, shown)]

\* The next event of the connection: its message replaces the device's.
Receive(d) ==
  LET event == Head(queue[d])
  IN /\ queue[d] # << >>
     /\ queue' = [queue EXCEPT ![d] = Tail(@)]
     /\ Show(d, [m \in {event.message} |-> event.version])
     /\ UNCHANGED <<storage, handlers, online, cursor, calls, orderly>>

\* After it has connected the device calls Sync with its cursor; the handler
\* reads the end of the window.
SyncBegin(d) ==
  /\ d \in online
  /\ d \notin DOMAIN calls
  /\ calls' = Put(calls, d, [stage |-> "list", before |-> Len(log),
                             entries |-> NoRows])
  /\ UNCHANGED <<storage, handlers, online, queue, copy, cursor, newest, orderly>>

\* Mutant: the page skips the change at the end of the window.
ChangedUntil(after, before) == {log[i] : i \in after + 1 .. before - 1}

\* The messages with a change in the window: mc.id > ? AND (? = 0 OR mc.id <= ?).
\* An end read from an empty log sets no bound.
ChangedWithin(after, before) ==
  {log[i] : i \in after + 1 .. IF before = 0 THEN Len(log) ELSE before}

\* ListMessagesSinceCursor: the rows as they are now.  MessageSync has the
\* pages; here one page takes all.
SyncList(d) ==
  /\ d \in DOMAIN calls /\ calls[d].stage = "list"
  /\ calls' = [calls EXCEPT
       ![d].stage = "reply",
       ![d].entries = [m \in ChangedWithin(cursor[d], calls[d].before) |->
                         rows[m]]]
  /\ UNCHANGED <<storage, handlers, online, queue, copy, cursor, newest, orderly>>

\* The reply arrives, on a connection of its own: before or after the events.
SyncReply(d) ==
  /\ d \in DOMAIN calls /\ calls[d].stage = "reply"
  /\ Show(d, calls[d].entries)
  /\ cursor' = [cursor EXCEPT ![d] = calls[d].before]
  /\ calls' = Remove(calls, {d})
  /\ UNCHANGED <<storage, handlers, online, queue, orderly>>

\* The call fails, or its reply is lost.
SyncLost(d) ==
  /\ d \in DOMAIN calls
  /\ calls' = Remove(calls, {d})
  /\ UNCHANGED <<storage, handlers, online, queue, copy, cursor, newest, orderly>>

DeliveryNext ==
  \/ \E h \in Handlers :
       \/ \E creates \in BOOLEAN, n \in 1 .. MaxBatchSize : Begin(h, creates, n)
       \/ Commit(h)
       \/ ReadBack(h)
       \/ Publish(h)
       \/ Abort(h)
  \/ \E d \in Devices :
       \/ Connect(d)
       \/ Disconnect(d)
       \/ Receive(d)
       \/ SyncBegin(d)
       \/ SyncList(d)
       \/ SyncReply(d)
       \/ SyncLost(d)

DeliverySpec == DeliveryInit /\ [][DeliveryNext]_deliveryVars

-------------------------------------------------------------------------------
(* Properties *)

\* The device shows the message as it is stored.
Current(d, m) == m \in DOMAIN copy[d] /\ copy[d][m] = rows[m]

\* An older event replaced what the device showed of the message.
Overtaken(d, m) ==
  m \in DOMAIN copy[d] /\ copy[d][m] < newest[d][m]

\* docs/sync.md: sync is there "to recover missed data".  Whatever events are
\* dropped, lost with a connection or never sent for the first half of a failed
\* batch, and wherever the page and its reply fall between them: a message that
\* has not changed since the device's cursor is shown as it is stored, unless an
\* event that was on its way for longer than that put an older version back.
MissedIsRecovered ==
  \A d \in Devices, m \in DOMAIN rows :
    rows[m] <= cursor[d] => Current(d, m) \/ Overtaken(d, m)

\* Nothing is on its way to the device.
AtRest(d) ==
  handlers = NoRows /\ queue[d] = << >> /\ d \notin DOMAIN calls

\* With one handler at a time, all of whose events got into the channels, no
\* message is left at an older version for good: what a device that is told
\* nothing more does not show, its next sync brings.
OrderlyIsRecovered ==
  orderly => \A d \in Devices, m \in DOMAIN rows :
    AtRest(d) /\ rows[m] <= cursor[d] => Current(d, m)

\* docs/frontend.md: "Use REST as the source of truth for reconnect recovery".
\* A device that has synced to the end of the log, and to which nothing is on
\* its way, shows every message as it is stored.  Events are not numbered, and
\* the handlers that publish them are not ordered as their commits are.
SyncedIsCurrent ==
  \A d \in Devices :
    AtRest(d) /\ cursor[d] = Len(log) => \A m \in DOMAIN rows : Current(d, m)
===============================================================================
