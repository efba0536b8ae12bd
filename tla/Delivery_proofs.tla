---------------------------- MODULE Delivery_proofs ----------------------------
(*****************************************************************************)
(* What a device shows of a conversation, for every number of devices,       *)
(* handlers and messages, every size of the channels and of a batch.         *)
(*                                                                           *)
(* The property MissedIsRecovered follows from one fact about the history of *)
(* a device: of a message that has not changed since its cursor, it has      *)
(* shown the stored version.  Events keep that fact because none is newer    *)
(* than the row; a reply of Sync extends it from the old cursor to the end   *)
(* of its window, because a message that changes after the page was read     *)
(* leaves the window (CallGrows).                                            *)
(*                                                                           *)
(* OrderlyIsRecovered is about what the device shows now: RecoveryInv says   *)
(* where the current version is while events and pages are on their way.     *)
(*****************************************************************************)
EXTENDS Delivery, Tables_proofs, SequenceTheorems, TLAPS

-------------------------------------------------------------------------------
(* The invariant *)

\* The row of a message is the number of its last change.
StorageOK ==
  /\ Versions(rows)
  /\ log \in Seq(MessageIds)
  /\ \A m \in DOMAIN rows : rows[m] \in 1 .. Len(log) /\ log[rows[m]] = m
  /\ \A i \in 1 .. Len(log) : log[i] \in DOMAIN rows /\ i <= rows[log[i]]

\* Nothing in table is newer than what is stored.
Below(table, stored) ==
  \A m \in DOMAIN table : m \in DOMAIN stored /\ table[m] <= stored[m]

EventBelow(event, stored) ==
  event.message \in DOMAIN stored /\ event.version <= stored[event.message]

EventsOK(events, stored) ==
  /\ events \in Seq(Event)
  /\ \A i \in 1 .. Len(events) : EventBelow(events[i], stored)

\* Between two steps a handler that has to publish has an event for it, and
\* another one has a message to go.
HandlerOK(q, stored) ==
  /\ q \in Handler
  /\ q.stage # "publish" => q.left >= 1
  /\ q.stage = "publish" => q.events # << >>
  /\ q.wrote \subseteq DOMAIN stored
  /\ EventsOK(q.events, stored)

HandlersOK ==
  /\ IsTable(handlers, Handlers, Handler)
  /\ \A h \in DOMAIN handlers : HandlerOK(handlers[h], rows)

\* The newest a device has shown of every message, when it has synced up to
\* a change.
HasShown(best, upTo, stored) ==
  \A m \in DOMAIN stored :
    stored[m] <= upTo => m \in DOMAIN best /\ best[m] = stored[m]

\* What a device shows, the newest it has shown, and how far it has synced.
ShownOK(shown, best, upTo, stored) ==
  /\ Versions(shown) /\ Versions(best)
  /\ DOMAIN shown = DOMAIN best
  /\ \A m \in DOMAIN shown : shown[m] <= best[m]
  /\ Below(best, stored)
  /\ HasShown(best, upTo, stored)

QueuesOK ==
  /\ queue \in [Devices -> Seq(Event)]
  /\ \A d \in Devices : Len(queue[d]) <= QueueSize /\ EventsOK(queue[d], rows)

DevicesOK ==
  /\ copy = [d \in Devices |-> copy[d]]
  /\ newest = [d \in Devices |-> newest[d]]
  /\ cursor \in [Devices -> Nat]
  /\ \A d \in Devices :
       /\ cursor[d] <= Len(log)
       /\ ShownOK(copy[d], newest[d], cursor[d], rows)

\* A reply has every message whose last change is in its window, as it is.
Answers(entries, from, before, stored) ==
  \A m \in DOMAIN stored :
    from < stored[m] /\ stored[m] <= before
    => m \in DOMAIN entries /\ entries[m] = stored[m]

CallOK(call, from, stored) ==
  /\ IsCall(call)
  /\ from <= call.before
  /\ Below(call.entries, stored)
  /\ call.stage = "reply" => Answers(call.entries, from, call.before, stored)

CallsOK ==
  /\ calls = [d \in DOMAIN calls |-> calls[d]]
  /\ DOMAIN calls \subseteq Devices
  /\ \A d \in DOMAIN calls :
       calls[d].before <= Len(log) /\ CallOK(calls[d], cursor[d], rows)

DeliveryInv ==
  /\ StorageOK
  /\ HandlersOK
  /\ QueuesOK
  /\ DevicesOK
  /\ CallsOK
  /\ online \subseteq Devices
  /\ orderly \in BOOLEAN

-------------------------------------------------------------------------------
(* What it says *)

\* The invariant has the types in it.
LEMMA InvIsTyped == DeliveryInv => DeliveryTypeOK
BY DEF DeliveryInv, DeliveryTypeOK, StorageOK, HandlersOK, QueuesOK, DevicesOK,
       CallsOK, CallOK, ShownOK

\* A message that is not shown as it is stored, although it has not changed
\* since the cursor, was shown so.
LEMMA InvIsRecovered == DeliveryInv => MissedIsRecovered
<1> SUFFICES ASSUME DeliveryInv, NEW d \in Devices, NEW m \in DOMAIN rows,
                    rows[m] <= cursor[d]
             PROVE  Current(d, m) \/ Overtaken(d, m)
  BY DEF MissedIsRecovered
<1>1. ShownOK(copy[d], newest[d], cursor[d], rows) /\ Versions(rows)
  BY DEF DeliveryInv, DevicesOK, StorageOK
<1>2. /\ m \in DOMAIN newest[d] /\ newest[d][m] = rows[m]
      /\ m \in DOMAIN copy[d] /\ copy[d][m] <= newest[d][m]
  BY <1>1 DEF ShownOK, HasShown
<1>3. copy[d][m] \in Nat /\ rows[m] \in Nat
  BY <1>1, <1>2, RowOfTable DEF ShownOK, Versions
<1> QED
  BY <1>2, <1>3 DEF Current, Overtaken

\* The empty database, and devices that have loaded nothing.
LEMMA DeliveryStarts == DeliveryInit => DeliveryInv
<1> SUFFICES ASSUME DeliveryInit PROVE DeliveryInv
  OBVIOUS
<1>1. /\ rows = NoRows /\ log = << >> /\ DOMAIN rows = {} /\ Len(log) = 0
      /\ Versions(NoRows) /\ DOMAIN NoRows = {}
  BY DEF DeliveryInit, LogInit, NoRows, Versions, IsTable
<1>2. StorageOK
  BY <1>1 DEF StorageOK
<1>3. HandlersOK /\ CallsOK
  BY DEF DeliveryInit, HandlersOK, CallsOK, NoRows, IsTable
<1>4. QueuesOK
  BY DeliveryAssumption DEF DeliveryInit, QueuesOK, EventsOK
<1>5. ShownOK(NoRows, NoRows, 0, rows)
  BY <1>1 DEF ShownOK, HasShown, Below
<1>6. DevicesOK
  BY <1>1, <1>5 DEF DeliveryInit, DevicesOK
<1> QED
  BY <1>2, <1>3, <1>4, <1>6 DEF DeliveryInv, DeliveryInit

-------------------------------------------------------------------------------
(* Storage *)

\* What a commit does to the storage: one message gets the newest version.
LEMMA CommitGrows ==
  ASSUME StorageOK, NEW m \in MessageIds, Record(m, Len(log) + 1)
  PROVE  /\ StorageOK'
         /\ DOMAIN rows' = DOMAIN rows \cup {m}
         /\ rows'[m] = Len(log) + 1 /\ Len(log') = Len(log) + 1
         /\ \A k \in DOMAIN rows : rows[k] <= rows'[k]
         /\ \A k \in DOMAIN rows : k # m => rows'[k] = rows[k]
<1>1. rows' = Put(rows, m, Len(log) + 1) /\ log' = Append(log, m)
  BY DEF Record
<1>2. /\ Versions(rows) /\ log \in Seq(MessageIds) /\ Len(log) \in Nat
      /\ \A k \in DOMAIN rows : rows[k] \in 1 .. Len(log) /\ log[rows[k]] = k
      /\ \A i \in 1 .. Len(log) : log[i] \in DOMAIN rows /\ i <= rows[log[i]]
  BY DEF StorageOK
<1>3. Versions(rows')
  BY <1>1, <1>2, PutIsTable DEF Versions
<1>4. /\ DOMAIN rows' = DOMAIN rows \cup {m} /\ rows'[m] = Len(log) + 1
      /\ \A k \in DOMAIN rows : k # m => rows'[k] = rows[k]
  BY <1>1 DEF Put
<1>5. /\ log' \in Seq(MessageIds) /\ Len(log') = Len(log) + 1
      /\ log'[Len(log) + 1] = m
      /\ \A i \in 1 .. Len(log) : log'[i] = log[i]
  BY <1>1, <1>2
<1>6. \A k \in DOMAIN rows : rows[k] <= rows'[k]
  BY <1>2, <1>4
<1>7. \A k \in DOMAIN rows' :
        rows'[k] \in 1 .. Len(log') /\ log'[rows'[k]] = k
  BY <1>2, <1>4, <1>5
<1>8. ASSUME NEW i \in 1 .. Len(log')
      PROVE  log'[i] \in DOMAIN rows' /\ i <= rows'[log'[i]]
  <2>1. CASE i = Len(log) + 1
    BY <1>2, <1>4, <1>5, <2>1
  <2>2. CASE i # Len(log) + 1
    <3>1. i \in 1 .. Len(log) /\ log'[i] = log[i]
      BY <1>2, <1>5, <2>2
    <3> QED
      BY <1>2, <1>4, <1>6, <3>1
  <2> QED
    BY <2>1, <2>2
<1> QED
  BY <1>3, <1>4, <1>5, <1>6, <1>7, <1>8 DEF StorageOK

\* stored has grown to later: one message has a version past all there were.
Grows(stored, later, m, changes) ==
  /\ Versions(stored) /\ Versions(later) /\ changes \in Nat
  /\ DOMAIN later = DOMAIN stored \cup {m}
  /\ \A k \in DOMAIN stored : stored[k] <= later[k]
  /\ \A k \in DOMAIN stored : k # m => later[k] = stored[k]
  /\ later[m] = changes + 1

\* What is not newer than a row stays so.
LEMMA BelowGrows ==
  ASSUME NEW stored, NEW later, NEW m, NEW changes,
         Grows(stored, later, m, changes),
         NEW table, Versions(table), Below(table, stored)
  PROVE  Below(table, later)
<1>1. ASSUME NEW k \in DOMAIN table
      PROVE  k \in DOMAIN later /\ table[k] <= later[k]
  <2>1. k \in DOMAIN stored /\ table[k] <= stored[k] /\ stored[k] <= later[k]
        /\ k \in DOMAIN later
    BY DEF Below, Grows
  <2>2. table[k] \in Nat /\ stored[k] \in Nat /\ later[k] \in Nat
    BY <2>1, RowOfTable DEF Grows, Versions
  <2> QED
    BY <2>1, <2>2
<1> QED
  BY <1>1 DEF Below

LEMMA EventsGrow ==
  ASSUME NEW stored, NEW later, NEW m, NEW changes,
         Grows(stored, later, m, changes),
         NEW events, EventsOK(events, stored)
  PROVE  EventsOK(events, later)
<1>1. ASSUME NEW i \in 1 .. Len(events) PROVE EventBelow(events[i], later)
  <2>1. events \in Seq(Event) /\ EventBelow(events[i], stored)
    BY DEF EventsOK
  <2>2. events[i] \in Event
    BY <2>1, ElementOfSeq
  <2> DEFINE k == events[i].message
             v == events[i].version
  <2>3. /\ v \in Nat /\ k \in DOMAIN stored /\ v <= stored[k]
    BY <2>1, <2>2 DEF Event, EventBelow
  <2>4. /\ stored[k] <= later[k] /\ k \in DOMAIN later
    BY <2>3 DEF Grows
  <2>5. stored[k] \in Nat /\ later[k] \in Nat
    BY <2>3, <2>4, RowOfTable DEF Grows, Versions
  <2>6. v <= later[k]
    BY <2>3, <2>4, <2>5
  <2> QED
    BY <2>4, <2>6 DEF EventBelow
<1> QED
  BY <1>1 DEF EventsOK

LEMMA HandlerGrows ==
  ASSUME NEW stored, NEW later, NEW m, NEW changes,
         Grows(stored, later, m, changes),
         NEW q, HandlerOK(q, stored)
  PROVE  HandlerOK(q, later)
<1>1. EventsOK(q.events, later)
  BY EventsGrow DEF HandlerOK
<1>2. DOMAIN stored \subseteq DOMAIN later
  BY DEF Grows
<1> QED
  BY <1>1, <1>2 DEF HandlerOK

\* The message that changes leaves every window there is, and every cursor is
\* behind it.
LEMMA ShownGrows ==
  ASSUME NEW stored, NEW later, NEW m, NEW changes,
         Grows(stored, later, m, changes),
         NEW shown, NEW best, NEW upTo \in Nat, upTo <= changes,
         ShownOK(shown, best, upTo, stored)
  PROVE  ShownOK(shown, best, upTo, later)
<1>1. Below(best, later)
  BY BelowGrows DEF ShownOK
<1>2. ASSUME NEW k \in DOMAIN later, later[k] <= upTo
      PROVE  k \in DOMAIN best /\ best[k] = later[k]
  <2>1. k # m
    BY <1>2 DEF Grows
  <2>2. k \in DOMAIN stored /\ later[k] = stored[k]
    BY <2>1 DEF Grows
  <2> QED
    BY <1>2, <2>2 DEF ShownOK, HasShown
<1> QED
  BY <1>1, <1>2 DEF ShownOK, HasShown

LEMMA CallGrows ==
  ASSUME NEW stored, NEW later, NEW m, NEW changes,
         Grows(stored, later, m, changes),
         NEW call, NEW from, call.before <= changes,
         CallOK(call, from, stored)
  PROVE  CallOK(call, from, later)
<1>1. Below(call.entries, later)
  BY BelowGrows DEF CallOK, IsCall
<1>2. call.before \in Nat
  BY DEF CallOK, IsCall
<1>3. ASSUME call.stage = "reply", NEW k \in DOMAIN later,
             from < later[k], later[k] <= call.before
      PROVE  k \in DOMAIN call.entries /\ call.entries[k] = later[k]
  <2>1. k # m
    BY <1>2, <1>3 DEF Grows
  <2>2. k \in DOMAIN stored /\ later[k] = stored[k]
    BY <2>1 DEF Grows
  <2> QED
    BY <1>3, <2>2 DEF CallOK, Answers
<1> QED
  BY <1>1, <1>3 DEF CallOK, Answers

-------------------------------------------------------------------------------
(* Handlers *)

\* Steps that leave the storage and the devices alone.
LEMMA HandlerStep ==
  ASSUME DeliveryInv, UNCHANGED <<storage, device>>, HandlersOK',
         orderly' \in BOOLEAN
  PROVE  DeliveryInv'
BY DEF DeliveryInv, StorageOK, QueuesOK, DevicesOK, CallsOK, storage, device

\* A handler goes on, or starts.
LEMMA HandlerPut ==
  ASSUME HandlersOK, UNCHANGED rows, NEW h \in Handlers, NEW q,
         HandlerOK(q, rows), handlers' = Put(handlers, h, q)
  PROVE  HandlersOK'
<1>1. IsTable(handlers', Handlers, Handler)
  BY PutIsTable DEF HandlersOK, HandlerOK
<1>2. \A k \in DOMAIN handlers' : HandlerOK(handlers'[k], rows)
  BY DEF HandlersOK, Put
<1> QED
  BY <1>1, <1>2 DEF HandlersOK

\* A handler that goes on keeps its name in the table.
LEMMA UpdateIsPut ==
  ASSUME HandlersOK, NEW h \in DOMAIN handlers, NEW q
  PROVE  [handlers EXCEPT ![h] = q] = Put(handlers, h, q)
BY DEF HandlersOK, IsTable, Put

\* A handler ends.
LEMMA HandlerRemoved ==
  ASSUME HandlersOK, UNCHANGED rows, NEW h,
         handlers' = Remove(handlers, {h})
  PROVE  HandlersOK'
<1>1. IsTable(handlers', Handlers, Handler)
  BY RemoveIsTable DEF HandlersOK
<1> QED
  BY <1>1 DEF HandlersOK, Remove

\* A handler of the table.
LEMMA HandlerTyped ==
  ASSUME DeliveryInv, NEW h \in DOMAIN handlers
  PROVE  /\ h \in Handlers /\ HandlerOK(handlers[h], rows) /\ HandlersOK
         /\ handlers[h] = [stage |-> handlers[h].stage,
                           creates |-> handlers[h].creates,
                           left |-> handlers[h].left,
                           wrote |-> handlers[h].wrote,
                           events |-> handlers[h].events]
         /\ handlers[h].stage \in {"write", "find", "publish"}
         /\ handlers[h].creates \in BOOLEAN /\ handlers[h].left \in Nat
         /\ handlers[h].wrote \in SUBSET MessageIds
         /\ handlers[h].events \in Seq(Event)
<1>1. h \in Handlers /\ HandlerOK(handlers[h], rows) /\ HandlersOK
  BY RowOfTable DEF DeliveryInv, HandlersOK
<1> QED
  BY <1>1 DEF HandlerOK, Handler

\* The record of a handler, by its fields.
LEMMA HandlerRecord ==
  ASSUME NEW r \in Handler
  PROVE  r = [stage |-> r.stage, creates |-> r.creates, left |-> r.left,
              wrote |-> r.wrote, events |-> r.events]
BY DEF Handler

\* The record of a handler that has committed.
LEMMA CommittedRecord ==
  ASSUME NEW q \in Handler, NEW w \in SUBSET MessageIds
  PROVE  [q EXCEPT !.stage = "find", !.wrote = w] =
              [stage |-> "find", creates |-> q.creates, left |-> q.left,
               wrote |-> w, events |-> q.events]
<1> DEFINE found == [q EXCEPT !.stage = "find", !.wrote = w]
<1>1. /\ found \in Handler /\ found.stage = "find"
      /\ found.creates = q.creates /\ found.left = q.left
      /\ found.wrote = w /\ found.events = q.events
  BY DEF Handler
<1> HIDE DEF found
<1>2. found = [stage |-> "find", creates |-> q.creates, left |-> q.left,
               wrote |-> w, events |-> q.events]
  BY <1>1, HandlerRecord
<1> QED
  BY <1>2 DEF found

\* The record of a handler that has read back.
LEMMA ReadBackRecord ==
  ASSUME NEW q \in Handler, NEW s \in {"write", "publish"}, NEW e \in Event,
         q.left >= 1
  PROVE  [q EXCEPT !.stage = s, !.left = @ - 1, !.wrote = {},
                   !.events = Append(@, e)] =
              [stage |-> s, creates |-> q.creates, left |-> q.left - 1,
               wrote |-> {}, events |-> Append(q.events, e)]
<1> DEFINE more == Append(q.events, e)
           next == [q EXCEPT !.stage = s, !.left = q.left - 1, !.wrote = {},
                             !.events = more]
<1>1. q.left - 1 \in Nat /\ q.creates \in BOOLEAN /\ more \in Seq(Event)
  BY DEF Handler
<1> HIDE DEF more
<1>2. /\ next \in Handler /\ next.stage = s
      /\ next.creates = q.creates /\ next.left = q.left - 1
      /\ next.wrote = {} /\ next.events = more
  BY <1>1 DEF Handler
<1> HIDE DEF next
<1>3. next = [stage |-> s, creates |-> q.creates, left |-> q.left - 1,
              wrote |-> {}, events |-> more]
  BY <1>2, HandlerRecord
<1>4. [q EXCEPT !.stage = s, !.left = @ - 1, !.wrote = {},
                !.events = Append(@, e)] = next
  BY DEF next, more, Handler
<1> QED
  BY <1>3, <1>4 DEF more

\* A new handler has nothing to tell yet.
LEMMA BeginKeeps ==
  ASSUME DeliveryInv, NEW h \in Handlers, NEW creates \in BOOLEAN,
         NEW n \in 1 .. MaxBatchSize, Begin(h, creates, n)
  PROVE  DeliveryInv'
<1> DEFINE q == [stage |-> "write", creates |-> creates, left |-> n,
                 wrote |-> {}, events |-> << >>]
<1>1. n \in Nat /\ n >= 1
  BY DeliveryAssumption
<1>2. EventsOK(<< >>, rows)
  BY DEF EventsOK
<1>3. HandlerOK(q, rows)
  BY <1>1, <1>2 DEF HandlerOK, Handler, EventsOK
<1>4. /\ handlers' = Put(handlers, h, q)
      /\ orderly' = (orderly /\ handlers = NoRows)
      /\ UNCHANGED <<storage, device>>
  BY DEF Begin
<1> HIDE DEF q
<1>5. HandlersOK'
  BY <1>3, <1>4, HandlerPut DEF DeliveryInv, storage
<1>6. orderly' \in BOOLEAN
  BY <1>4
<1> QED
  BY <1>4, <1>5, <1>6, HandlerStep

\* The message read back is one that exists, as it is now.
LEMMA ReadBackKeeps ==
  ASSUME DeliveryInv, NEW h \in Handlers, ReadBack(h)
  PROVE  DeliveryInv'
<1> DEFINE q == handlers[h]
<1>1. /\ h \in DOMAIN handlers /\ q.stage = "find"
      /\ UNCHANGED <<storage, device, orderly>>
  BY DEF ReadBack
<1>2. PICK m \in q.wrote :
        handlers' = [handlers EXCEPT
            ![h].stage = IF q.left > 1 THEN "write" ELSE "publish",
            ![h].left = @ - 1,
            ![h].wrote = {},
            ![h].events = Append(@, [message |-> m,
                                     version |-> FindMessageByID(m)])]
  BY DEF ReadBack
<1>3. /\ HandlersOK /\ HandlerOK(q, rows) /\ q.left \in Nat
      /\ q.creates \in BOOLEAN
      /\ q.left >= 1 /\ m \in DOMAIN rows /\ m \in MessageIds
      /\ q.events \in Seq(Event) /\ rows[m] \in Nat
  <2>1. /\ HandlersOK /\ HandlerOK(q, rows) /\ q.left \in Nat
        /\ q.creates \in BOOLEAN
        /\ q.wrote \in SUBSET MessageIds /\ q.events \in Seq(Event)
    BY <1>1, HandlerTyped
  <2>2. q.left >= 1 /\ m \in DOMAIN rows
    BY <1>1, <2>1 DEF HandlerOK
  <2>3. rows[m] \in Nat
    BY <2>2, RowOfTable DEF DeliveryInv, StorageOK, Versions
  <2> QED
    BY <2>1, <2>2, <2>3
<1> DEFINE event == [message |-> m, version |-> rows[m]]
<1>4. event \in Event /\ EventBelow(event, rows)
  BY <1>3 DEF Event, EventBelow
<1> DEFINE stage == IF q.left > 1 THEN "write" ELSE "publish"
           events == Append(q.events, event)
           new == [stage |-> stage, creates |-> q.creates, left |-> q.left - 1,
                   wrote |-> {}, events |-> events]
<1>5. handlers' = [handlers EXCEPT ![h] = new]
  <2>1. q \in Handler
    BY <1>3 DEF HandlerOK
  <2>2. [q EXCEPT !.stage = IF q.left > 1 THEN "write" ELSE "publish",
                  !.left = @ - 1,
                  !.wrote = {},
                  !.events = Append(@, [message |-> m,
                                     version |-> FindMessageByID(m)])]
        = new
    <3> HIDE DEF q, event
    <3>1. stage \in {"write", "publish"} /\ event \in Event
      BY <1>4
    <3> HIDE DEF stage
    <3>2. [q EXCEPT !.stage = stage, !.left = @ - 1, !.wrote = {},
                    !.events = Append(@, event)] = new
      BY <1>3, <2>1, <3>1, ReadBackRecord
    <3> QED
      BY <3>2 DEF FindMessageByID, stage, event
  <2> QED
    BY <1>1, <1>2, <2>2
<1>6. stage \in {"write", "publish"} /\ (stage = "write" => q.left > 1)
      /\ q.left - 1 \in Nat
  BY <1>3
<1>7. EventsOK(events, rows) /\ events # << >> /\ events \in Seq(Event)
  <2> HIDE DEF q, event
  <2>1. EventsOK(q.events, rows)
    BY <1>3 DEF HandlerOK
  <2>2. /\ events \in Seq(Event) /\ Len(events) = Len(q.events) + 1
        /\ Len(q.events) \in Nat
        /\ events[Len(q.events) + 1] = event
        /\ \A i \in 1 .. Len(q.events) : events[i] = q.events[i]
    BY <1>3, <1>4
  <2> HIDE DEF events
  <2>3. ASSUME NEW i \in 1 .. Len(events) PROVE EventBelow(events[i], rows)
    <3>1. i = Len(q.events) + 1 \/ i \in 1 .. Len(q.events)
      BY <2>2
    <3> QED
      BY <1>4, <2>1, <2>2, <3>1 DEF EventsOK
  <2> QED
    BY <2>2, <2>3 DEF EventsOK
<1> HIDE DEF stage, events
<1>8. HandlerOK(new, rows)
  BY <1>3, <1>6, <1>7 DEF HandlerOK, Handler
<1> HIDE DEF new
<1>9. HandlersOK'
  BY <1>1, <1>3, <1>5, <1>8, UpdateIsPut, HandlerPut DEF storage
<1> QED
  BY <1>1, <1>9, HandlerStep DEF DeliveryInv

\* A handler that ends takes its events with it.
LEMMA AbortKeeps ==
  ASSUME DeliveryInv, NEW h, Abort(h)
  PROVE  DeliveryInv'
<1>1. /\ handlers' = Remove(handlers, {h})
      /\ orderly' = (orderly /\ ~ HasNews(h))
      /\ UNCHANGED <<storage, device>>
  BY DEF Abort
<1>2. HandlersOK'
  BY <1>1, HandlerRemoved DEF DeliveryInv, storage
<1>3. orderly' \in BOOLEAN
  BY <1>1
<1> QED
  BY <1>1, <1>2, <1>3, HandlerStep

\* A commit moves one message past every cursor and every window.
LEMMA CommitKeeps ==
  ASSUME DeliveryInv, NEW h \in Handlers, Commit(h)
  PROVE  DeliveryInv'
<1> DEFINE q == handlers[h]
<1>1. PICK m \in MessageIds :
        /\ Record(m, Len(log) + 1)
        /\ handlers' = [handlers EXCEPT ![h].stage = "find", ![h].wrote = {m}]
  BY DEF Commit
<1>2. /\ h \in DOMAIN handlers /\ q.stage = "write"
      /\ UNCHANGED <<online, queue, copy, cursor, calls, newest, orderly>>
  BY DEF Commit, device
<1>3. StorageOK /\ Len(log) \in Nat
  BY DEF DeliveryInv, StorageOK
<1>4. /\ StorageOK' /\ m \in DOMAIN rows' /\ Len(log') = Len(log) + 1
      /\ Grows(rows, rows', m, Len(log))
  BY <1>1, <1>3, CommitGrows DEF Grows, StorageOK
<1> DEFINE new == [stage |-> "find", creates |-> q.creates, left |-> q.left,
                   wrote |-> {m}, events |-> q.events]
<1>5. /\ HandlersOK /\ HandlerOK(q, rows) /\ q.left \in Nat
      /\ q.creates \in BOOLEAN /\ q.events \in Seq(Event)
      /\ q = [stage |-> q.stage, creates |-> q.creates, left |-> q.left,
              wrote |-> q.wrote, events |-> q.events]
  BY <1>2, HandlerTyped
<1>6. handlers' = [handlers EXCEPT ![h] = new]
  <2>1. [q EXCEPT !.stage = "find", !.wrote = {m}] = new
    <3> HIDE DEF q
    <3> QED
      BY <1>5, CommittedRecord DEF HandlerOK
  <2> QED
    BY <1>1, <1>2, <2>1
<1>7. HandlersOK'
  <2>1. HandlerOK(q, rows')
    BY <1>4, <1>5, HandlerGrows
  <2>2. HandlerOK(new, rows') /\ new \in Handler
    BY <1>2, <1>4, <1>5, <2>1 DEF HandlerOK, Handler
  <2> HIDE DEF new, q
  <2>3. handlers' = Put(handlers, h, new)
    BY <1>2, <1>5, <1>6, UpdateIsPut
  <2>4. IsTable(handlers', Handlers, Handler)
    BY <1>5, <2>2, <2>3, PutIsTable DEF HandlersOK
  <2>5. ASSUME NEW k \in DOMAIN handlers, k # h
        PROVE  HandlerOK(handlers'[k], rows')
    <3>1. HandlerOK(handlers[k], rows')
      BY <1>4, <1>5, HandlerGrows DEF HandlersOK
    <3> QED
      BY <2>3, <2>5, <3>1 DEF Put
  <2>6. handlers'[h] = new /\ DOMAIN handlers' = DOMAIN handlers \cup {h}
    BY <2>3 DEF Put
  <2> QED
    BY <2>2, <2>4, <2>5, <2>6 DEF HandlersOK
<1>8. QueuesOK'
  <2>1. \A d \in Devices : EventsOK(queue[d], rows')
    BY <1>4, EventsGrow DEF DeliveryInv, QueuesOK
  <2> QED
    BY <1>2, <2>1 DEF DeliveryInv, QueuesOK
<1>9. DevicesOK'
  <2>1. ASSUME NEW d \in Devices
        PROVE  /\ cursor[d] <= Len(log')
               /\ ShownOK(copy[d], newest[d], cursor[d], rows')
    <3>1. /\ cursor[d] \in Nat /\ cursor[d] <= Len(log)
          /\ ShownOK(copy[d], newest[d], cursor[d], rows)
      BY DEF DeliveryInv, DevicesOK
    <3>2. ShownOK(copy[d], newest[d], cursor[d], rows')
      BY <1>4, <3>1, ShownGrows
    <3> QED
      BY <1>3, <1>4, <3>1, <3>2
  <2> QED
    BY <1>2, <2>1 DEF DeliveryInv, DevicesOK
<1>10. CallsOK'
  <2>1. ASSUME NEW d \in DOMAIN calls
        PROVE  /\ calls[d].before <= Len(log')
               /\ CallOK(calls[d], cursor[d], rows')
    <3>1. calls[d].before <= Len(log) /\ CallOK(calls[d], cursor[d], rows)
          /\ calls[d].before \in Nat
      BY DEF DeliveryInv, CallsOK, CallOK, IsCall
    <3>2. CallOK(calls[d], cursor[d], rows')
      BY <1>4, <3>1, CallGrows
    <3> QED
      BY <1>3, <1>4, <3>1, <3>2
  <2> QED
    BY <1>2, <2>1 DEF DeliveryInv, CallsOK
<1> QED
  BY <1>2, <1>4, <1>7, <1>8, <1>9, <1>10 DEF DeliveryInv

\* An event that cannot be older than the row goes into the channels.
LEMMA PublishKeeps ==
  ASSUME DeliveryInv, NEW h \in Handlers, Publish(h)
  PROVE  DeliveryInv'
<1> DEFINE q == handlers[h]
           fits == {d \in online : Fits(d)}
           event == Head(q.events)
           rest == Tail(q.events)
<1>1. /\ h \in DOMAIN handlers /\ q.stage = "publish"
      /\ queue' = [d \in Devices |-> IF d \in fits
                                     THEN Append(queue[d], event)
                                     ELSE queue[d]]
      /\ handlers' = IF Len(q.events) > 1
                     THEN [handlers EXCEPT ![h].events = Tail(@)]
                     ELSE Remove(handlers, {h})
      /\ orderly' = (orderly /\ fits = online)
      /\ UNCHANGED <<rows, log, online, copy, cursor, calls, newest>>
  BY DEF Publish, storage
<1>2. /\ HandlersOK /\ HandlerOK(q, rows) /\ q \in Handler
      /\ q.events \in Seq(Event) /\ q.events # << >> /\ EventsOK(q.events, rows)
  BY <1>1, HandlerTyped DEF HandlerOK
<1>3. /\ event \in Event /\ EventBelow(event, rows)
      /\ rest \in Seq(Event) /\ Len(q.events) \in Nat
      /\ Len(rest) = Len(q.events) - 1
      /\ \A i \in 1 .. Len(rest) : rest[i] = q.events[i + 1]
                                   /\ i + 1 \in 1 .. Len(q.events)
  BY <1>2, HeadTailProperties DEF EventsOK
<1>4. HandlersOK'
  <2>1. CASE Len(q.events) > 1
    <3> DEFINE new == [q EXCEPT !.events = rest]
    <3>1. handlers' = [handlers EXCEPT ![h] = new]
      BY <1>1, <2>1
    <3>2. /\ new \in Handler /\ new.stage = "publish" /\ new.events = rest
          /\ new.wrote = q.wrote
      BY <1>1, <1>2, <1>3 DEF Handler
    <3>3. EventsOK(rest, rows) /\ rest # << >>
      <4> HIDE DEF rest
      <4> QED
        BY <1>2, <1>3, <2>1 DEF EventsOK
    <3>4. q.wrote \subseteq DOMAIN rows
      BY <1>2 DEF HandlerOK
    <3> HIDE DEF new, rest, q
    <3>5. HandlerOK(new, rows)
      BY <3>2, <3>3, <3>4 DEF HandlerOK
    <3> QED
      BY <1>1, <1>2, <3>1, <3>5, UpdateIsPut, HandlerPut
  <2>2. CASE ~ Len(q.events) > 1
    BY <1>1, <1>2, <2>2, HandlerRemoved
  <2> QED
    BY <2>1, <2>2
<1>5. QueuesOK'
  <2>1. ASSUME NEW d \in Devices
        PROVE  /\ queue'[d] \in Seq(Event) /\ Len(queue'[d]) <= QueueSize
               /\ EventsOK(queue'[d], rows)
    <3>1. /\ queue[d] \in Seq(Event) /\ Len(queue[d]) <= QueueSize
          /\ EventsOK(queue[d], rows)
      BY DEF DeliveryInv, QueuesOK
    <3> HIDE DEF event, q
    <3>2. CASE d \in fits
      <4>1. queue'[d] = Append(queue[d], event) /\ Len(queue[d]) < QueueSize
        BY <1>1, <3>2 DEF Fits
      <4> DEFINE more == Append(queue[d], event)
      <4>2. /\ more \in Seq(Event) /\ Len(more) = Len(queue[d]) + 1
            /\ Len(queue[d]) \in Nat
            /\ more[Len(queue[d]) + 1] = event
            /\ \A i \in 1 .. Len(queue[d]) : more[i] = queue[d][i]
        BY <1>3, <3>1
      <4> HIDE DEF more
      <4>3. ASSUME NEW i \in 1 .. Len(more) PROVE EventBelow(more[i], rows)
        <5>1. i = Len(queue[d]) + 1 \/ i \in 1 .. Len(queue[d])
          BY <4>2
        <5> QED
          BY <1>3, <3>1, <4>2, <5>1 DEF EventsOK
      <4>4. Len(more) <= QueueSize
        BY <4>1, <4>2, DeliveryAssumption
      <4> QED
        BY <4>1, <4>2, <4>3, <4>4 DEF EventsOK, more
    <3>3. CASE d \notin fits
      BY <1>1, <3>1, <3>3
    <3> QED
      BY <3>2, <3>3
  <2>2. queue' = [d \in Devices |-> queue'[d]]
    BY <1>1
  <2> QED
    BY <1>1, <2>1, <2>2 DEF QueuesOK
<1>6. StorageOK' /\ DevicesOK' /\ CallsOK'
  BY <1>1 DEF DeliveryInv, StorageOK, DevicesOK, CallsOK
<1>7. orderly' \in BOOLEAN /\ online' \subseteq Devices
  BY <1>1 DEF DeliveryInv
<1> QED
  BY <1>4, <1>5, <1>6, <1>7 DEF DeliveryInv

-------------------------------------------------------------------------------
(* Devices *)

\* Of the rows a device is given, none newer than what is stored, it shows
\* those rows and has shown the newer ones.
LEMMA ShowKeeps ==
  ASSUME NEW stored, NEW shown, NEW best, NEW entries, NEW upTo \in Nat,
         NEW before \in Nat, Versions(stored),
         ShownOK(shown, best, upTo, stored),
         Versions(entries), Below(entries, stored), upTo <= before,
         Answers(entries, upTo, before, stored)
  PROVE  ShownOK(Merge(shown, entries), Newer(best, entries), before, stored)
<1> DEFINE shows == Merge(shown, entries)
           bests == Newer(best, entries)
<1>1. /\ Versions(shown) /\ Versions(best) /\ DOMAIN shown = DOMAIN best
      /\ \A m \in DOMAIN shown : shown[m] <= best[m]
      /\ Below(best, stored) /\ HasShown(best, upTo, stored)
  BY DEF ShownOK
<1>2. /\ \A m \in DOMAIN best : best[m] \in Nat /\ m \in MessageIds
      /\ \A m \in DOMAIN shown : shown[m] \in Nat
      /\ \A m \in DOMAIN entries : entries[m] \in Nat /\ m \in MessageIds
      /\ \A m \in DOMAIN stored : stored[m] \in Nat
  BY <1>1, RowOfTable DEF Versions
<1>3. /\ DOMAIN shows = DOMAIN shown \cup DOMAIN entries
      /\ DOMAIN bests = DOMAIN best \cup DOMAIN entries
  BY DEF Merge, Newer
<1>4. Versions(shows)
  BY <1>1, MergeIsTable DEF Versions
<1>5. \A m \in DOMAIN entries :
        /\ shows[m] = entries[m]
        /\ entries[m] <= bests[m]
        /\ bests[m] # entries[m] => m \in DOMAIN best /\ bests[m] = best[m]
        /\ m \in DOMAIN best => best[m] <= bests[m]
  <2> SUFFICES ASSUME NEW m \in DOMAIN entries
               PROVE  /\ shows[m] = entries[m]
                      /\ entries[m] <= bests[m]
                      /\ bests[m] # entries[m]
                         => m \in DOMAIN best /\ bests[m] = best[m]
                      /\ m \in DOMAIN best => best[m] <= bests[m]
    OBVIOUS
  <2>1. shows[m] = entries[m]
    BY DEF Merge
  <2>2. bests[m] = IF m \in DOMAIN best /\ best[m] > entries[m]
                   THEN best[m] ELSE entries[m]
    BY DEF Newer
  <2> HIDE DEF shows, bests
  <2> QED
    BY <1>2, <2>1, <2>2
<1>6. \A m \in DOMAIN best :
        m \notin DOMAIN entries => /\ bests[m] = best[m]
                                   /\ m \in DOMAIN shows /\ shows[m] = shown[m]
  BY <1>1 DEF Merge, Newer
<1>7. bests = [m \in DOMAIN bests |-> bests[m]]
  BY DEF Newer
<1> HIDE DEF shows, bests
<1>8. \A m \in DOMAIN bests : bests[m] \in Nat /\ m \in MessageIds
  BY <1>2, <1>3, <1>5, <1>6
<1>9. Versions(bests)
  BY <1>7, <1>8 DEF Versions, IsTable
<1>10. \A m \in DOMAIN shows : shows[m] <= bests[m]
  BY <1>1, <1>2, <1>3, <1>5, <1>6
<1>11. Below(bests, stored)
  BY <1>1, <1>3, <1>5, <1>6 DEF Below
<1>12. ASSUME NEW m \in DOMAIN stored, stored[m] <= before
       PROVE  m \in DOMAIN bests /\ bests[m] = stored[m]
  <2>1. CASE stored[m] <= upTo
    <3>1. m \in DOMAIN best /\ best[m] = stored[m]
      BY <1>1, <2>1 DEF HasShown
    <3>2. CASE m \in DOMAIN entries
      <4>1. bests[m] <= stored[m] /\ m \in DOMAIN bests
        BY <1>3, <1>11, <3>2 DEF Below
      <4>2. best[m] <= bests[m]
        BY <1>5, <3>1, <3>2
      <4> QED
        BY <1>2, <1>8, <3>1, <4>1, <4>2
    <3> QED
      BY <1>3, <1>6, <3>1, <3>2
  <2>2. CASE ~ stored[m] <= upTo
    <3>1. m \in DOMAIN entries /\ entries[m] = stored[m]
      BY <1>2, <1>12, <2>2 DEF Answers
    <3>2. bests[m] <= stored[m] /\ m \in DOMAIN bests
      BY <1>3, <1>11, <3>1 DEF Below
    <3> QED
      BY <1>2, <1>5, <1>8, <3>1, <3>2
  <2> QED
    BY <2>1, <2>2
<1> QED
  BY <1>1, <1>3, <1>4, <1>9, <1>10, <1>11, <1>12
  DEF ShownOK, HasShown, shows, bests

\* The parts about the devices, after one of them has shown what it was given.
LEMMA ShowKeepsDevices ==
  ASSUME DeliveryInv, NEW d \in Devices, NEW entries, NEW before \in Nat,
         Show(d, entries), cursor' = [cursor EXCEPT ![d] = before],
         UNCHANGED <<rows, log>>, Versions(entries), Below(entries, rows),
         cursor[d] <= before, before <= Len(log),
         Answers(entries, cursor[d], before, rows)
  PROVE  DevicesOK'
<1>1. /\ Versions(rows) /\ cursor \in [Devices -> Nat]
      /\ copy = [e \in Devices |-> copy[e]]
      /\ newest = [e \in Devices |-> newest[e]]
      /\ \A e \in Devices : /\ cursor[e] <= Len(log)
                            /\ ShownOK(copy[e], newest[e], cursor[e], rows)
  BY DEF DeliveryInv, StorageOK, DevicesOK
<1>2. /\ copy' = [copy EXCEPT ![d] = Merge(copy[d], entries)]
      /\ newest' = [newest EXCEPT ![d] = Newer(newest[d], entries)]
  BY DEF Show
<1>3. ShownOK(Merge(copy[d], entries), Newer(newest[d], entries), before, rows)
  BY <1>1, ShowKeeps
<1>4. /\ copy'[d] = Merge(copy[d], entries)
      /\ newest'[d] = Newer(newest[d], entries) /\ cursor'[d] = before
      /\ \A e \in Devices \ {d} : /\ copy'[e] = copy[e]
                                  /\ newest'[e] = newest[e]
                                  /\ cursor'[e] = cursor[e]
      /\ copy' = [e \in Devices |-> copy'[e]]
      /\ newest' = [e \in Devices |-> newest'[e]]
      /\ cursor' \in [Devices -> Nat]
  BY <1>1, <1>2
<1>5. ASSUME NEW e \in Devices
      PROVE  /\ cursor'[e] <= Len(log)
             /\ ShownOK(copy'[e], newest'[e], cursor'[e], rows)
  BY <1>1, <1>3, <1>4
<1> QED
  BY <1>4, <1>5 DEF DevicesOK

\* The next event of a connection is not newer than its row.
LEMMA ReceiveKeeps ==
  ASSUME DeliveryInv, NEW d \in Devices, Receive(d)
  PROVE  DeliveryInv'
<1> DEFINE event == Head(queue[d])
           shown == [m \in {event.message} |-> event.version]
<1>1. /\ queue[d] # << >>
      /\ queue' = [queue EXCEPT ![d] = Tail(queue[d])]
      /\ Show(d, shown)
      /\ UNCHANGED <<rows, log, handlers, online, cursor, calls, orderly>>
  BY DEF Receive, storage
<1>2. /\ queue \in [Devices -> Seq(Event)] /\ queue[d] \in Seq(Event)
      /\ \A e \in Devices :
           Len(queue[e]) <= QueueSize /\ EventsOK(queue[e], rows)
  BY DEF DeliveryInv, QueuesOK
<1>3. /\ event \in Event /\ EventBelow(event, rows)
      /\ Tail(queue[d]) \in Seq(Event) /\ Len(queue[d]) \in Nat
      /\ Len(Tail(queue[d])) = Len(queue[d]) - 1
      /\ \A i \in 1 .. Len(Tail(queue[d])) :
           /\ Tail(queue[d])[i] = queue[d][i + 1]
           /\ i + 1 \in 1 .. Len(queue[d])
  BY <1>1, <1>2, HeadTailProperties DEF EventsOK
<1>4. Versions(shown) /\ Below(shown, rows)
  BY <1>3 DEF Event, EventBelow, Versions, IsTable, Below
<1>5. /\ cursor[d] \in Nat /\ cursor[d] <= Len(log)
      /\ cursor' = [cursor EXCEPT ![d] = cursor[d]]
      /\ \A m \in DOMAIN rows : rows[m] \in Nat
  BY <1>1, RowOfTable DEF DeliveryInv, DevicesOK, StorageOK, Versions
<1>6. Answers(shown, cursor[d], cursor[d], rows)
  BY <1>5 DEF Answers
<1> HIDE DEF shown
<1>7. DevicesOK'
  <2> DEFINE before == cursor[d]
  <2>1. /\ before \in Nat /\ before <= Len(log) /\ cursor[d] <= before
        /\ cursor' = [cursor EXCEPT ![d] = before]
        /\ Answers(shown, cursor[d], before, rows)
    BY <1>5, <1>6
  <2>2. Show(d, shown) /\ UNCHANGED <<rows, log>>
    BY <1>1
  <2> HIDE DEF before
  <2> QED
    BY <1>4, <2>1, <2>2, ShowKeepsDevices
<1>8. QueuesOK'
  <2>1. EventsOK(Tail(queue[d]), rows) /\ Len(Tail(queue[d])) <= QueueSize
    BY <1>2, <1>3, DeliveryAssumption DEF EventsOK
  <2>2. \A e \in Devices :
          /\ queue'[e] = IF e = d THEN Tail(queue[d]) ELSE queue[e]
          /\ queue' \in [Devices -> Seq(Event)]
    BY <1>1, <1>2, <1>3
  <2> QED
    BY <1>1, <1>2, <2>1, <2>2 DEF QueuesOK
<1>9. StorageOK' /\ HandlersOK' /\ CallsOK'
  BY <1>1 DEF DeliveryInv, StorageOK, HandlersOK, CallsOK
<1> QED
  BY <1>1, <1>7, <1>8, <1>9 DEF DeliveryInv

\* Connections come and go, and a channel with them.
LEMMA ConnectKeeps ==
  ASSUME DeliveryInv, NEW d \in Devices, Connect(d) \/ Disconnect(d)
  PROVE  DeliveryInv'
<1>1. /\ UNCHANGED <<rows, log, handlers, copy, cursor, calls, newest>>
      /\ online' \subseteq Devices /\ orderly' \in BOOLEAN
      /\ queue' = queue \/ queue' = [queue EXCEPT ![d] = << >>]
  BY DEF Connect, Disconnect, storage, DeliveryInv
<1>2. EventsOK(<< >>, rows) /\ Len(<< >>) <= QueueSize
  BY DeliveryAssumption DEF EventsOK
<1>3. QueuesOK'
  BY <1>1, <1>2 DEF DeliveryInv, QueuesOK, EventsOK
<1> QED
  BY <1>1, <1>3 DEF DeliveryInv, StorageOK, HandlersOK, DevicesOK, CallsOK

\* The window of a new call ends at the last change.
LEMMA SyncBeginKeeps ==
  ASSUME DeliveryInv, NEW d \in Devices, SyncBegin(d)
  PROVE  DeliveryInv'
<1> DEFINE call == [stage |-> "list", before |-> Len(log), entries |-> NoRows]
<1>1. /\ calls' = Put(calls, d, call)
      /\ UNCHANGED <<rows, log, handlers, online, queue, copy, cursor, newest,
                     orderly>>
  BY DEF SyncBegin, storage
<1>2. /\ Len(log) \in Nat /\ cursor[d] <= Len(log)
      /\ Versions(NoRows) /\ Below(NoRows, rows)
  BY DEF DeliveryInv, StorageOK, DevicesOK, NoRows, Versions, IsTable, Below
<1>3. CallOK(call, cursor[d], rows) /\ call.before <= Len(log)
  BY <1>2 DEF CallOK, IsCall
<1> HIDE DEF call
<1>4. /\ DOMAIN calls' = DOMAIN calls \cup {d} /\ calls'[d] = call
      /\ \A e \in DOMAIN calls : e # d => calls'[e] = calls[e]
      /\ calls' = [e \in DOMAIN calls' |-> calls'[e]]
  BY <1>1 DEF Put
<1>5. CallsOK'
  BY <1>1, <1>3, <1>4 DEF DeliveryInv, CallsOK
<1> QED
  BY <1>1, <1>5 DEF DeliveryInv, StorageOK, HandlersOK, QueuesOK, DevicesOK

\* Every message whose last change is in the window is on the page.
LEMMA SyncListKeeps ==
  ASSUME DeliveryInv, NEW d \in Devices, SyncList(d)
  PROVE  DeliveryInv'
<1> DEFINE before == calls[d].before
           entries == [m \in ChangedWithin(cursor[d], before) |-> rows[m]]
           new == [calls[d] EXCEPT !.stage = "reply", !.entries = entries]
<1>1. /\ d \in DOMAIN calls
      /\ calls' = [calls EXCEPT ![d] = new]
      /\ UNCHANGED <<rows, log, handlers, online, queue, copy, cursor, newest,
                     orderly>>
  BY DEF SyncList, storage
<1>2. /\ Versions(rows) /\ log \in Seq(MessageIds) /\ Len(log) \in Nat
      /\ \A m \in DOMAIN rows : rows[m] \in 1 .. Len(log) /\ log[rows[m]] = m
      /\ \A i \in 1 .. Len(log) : log[i] \in DOMAIN rows
      /\ cursor[d] \in Nat /\ cursor[d] <= Len(log)
  BY DEF DeliveryInv, StorageOK, DevicesOK
<1>3. /\ before <= Len(log) /\ before \in Nat /\ cursor[d] <= before
      /\ calls[d] \in [stage : {"list", "reply"}, before : Nat,
                       entries : {calls[d].entries}]
  BY <1>1 DEF DeliveryInv, CallsOK, CallOK, IsCall
<1>4. \A m \in ChangedWithin(cursor[d], before) : m \in DOMAIN rows
  BY <1>2, <1>3 DEF ChangedWithin
<1>5. Versions(entries) /\ Below(entries, rows)
  BY <1>2, <1>4, RowOfTable DEF Versions, IsTable, Below
<1>6. Answers(entries, cursor[d], before, rows)
  <2>1. ASSUME NEW m \in DOMAIN rows, cursor[d] < rows[m], rows[m] <= before
        PROVE  m \in ChangedWithin(cursor[d], before)
    BY <1>2, <1>3, <2>1 DEF ChangedWithin
  <2> QED
    BY <2>1 DEF Answers
<1> HIDE DEF entries
<1>7. /\ new.stage = "reply" /\ new.before = before /\ new.entries = entries
      /\ new \in [stage : {"list", "reply"}, before : Nat, entries : {entries}]
  BY <1>3
<1> HIDE DEF new
<1>8. CallOK(new, cursor[d], rows) /\ new.before <= Len(log)
  BY <1>3, <1>5, <1>6, <1>7 DEF CallOK, IsCall
<1>9. /\ DOMAIN calls' = DOMAIN calls /\ calls'[d] = new
      /\ \A e \in DOMAIN calls : e # d => calls'[e] = calls[e]
      /\ calls' = [e \in DOMAIN calls' |-> calls'[e]]
  BY <1>1
<1>10. CallsOK'
  BY <1>1, <1>8, <1>9 DEF DeliveryInv, CallsOK
<1> QED
  BY <1>1, <1>10 DEF DeliveryInv, StorageOK, HandlersOK, QueuesOK, DevicesOK

\* The call of a device is over.
LEMMA CallRemoved ==
  ASSUME CallsOK, UNCHANGED <<rows, log>>, NEW d,
         calls' = Remove(calls, {d}),
         \A e \in DOMAIN calls : e # d => cursor'[e] = cursor[e]
  PROVE  CallsOK'
BY DEF CallsOK, Remove

\* The page brings the device to the end of the window.
LEMMA SyncReplyKeeps ==
  ASSUME DeliveryInv, NEW d \in Devices, SyncReply(d)
  PROVE  DeliveryInv'
<1>1. /\ d \in DOMAIN calls /\ calls[d].stage = "reply"
      /\ Show(d, calls[d].entries)
      /\ cursor' = [cursor EXCEPT ![d] = calls[d].before]
      /\ calls' = Remove(calls, {d})
      /\ UNCHANGED <<rows, log, handlers, online, queue, orderly>>
  BY DEF SyncReply, storage
<1>2. /\ CallsOK /\ CallOK(calls[d], cursor[d], rows)
      /\ calls[d].before <= Len(log) /\ cursor \in [Devices -> Nat]
      /\ DOMAIN calls \subseteq Devices
  BY <1>1 DEF DeliveryInv, CallsOK, DevicesOK
<1>3. /\ calls[d].before \in Nat /\ Versions(calls[d].entries)
      /\ cursor[d] <= calls[d].before /\ Below(calls[d].entries, rows)
      /\ Answers(calls[d].entries, cursor[d], calls[d].before, rows)
  BY <1>1, <1>2 DEF CallOK, IsCall
<1>4. DevicesOK'
  BY <1>1, <1>2, <1>3, ShowKeepsDevices
<1>5. \A e \in DOMAIN calls : e # d => cursor'[e] = cursor[e]
  BY <1>1, <1>2
<1>6. CallsOK'
  BY <1>1, <1>2, <1>5, CallRemoved
<1> QED
  BY <1>1, <1>4, <1>6 DEF DeliveryInv, StorageOK, HandlersOK, QueuesOK

\* Nothing comes of a call that is lost.
LEMMA SyncLostKeeps ==
  ASSUME DeliveryInv, NEW d \in Devices, SyncLost(d)
  PROVE  DeliveryInv'
<1>1. /\ calls' = Remove(calls, {d})
      /\ UNCHANGED <<rows, log, handlers, online, queue, copy, cursor, newest,
                     orderly>>
  BY DEF SyncLost, storage
<1>2. CallsOK'
  BY <1>1, CallRemoved DEF DeliveryInv
<1> QED
  BY <1>1, <1>2 DEF DeliveryInv, StorageOK, HandlersOK, QueuesOK, DevicesOK

-------------------------------------------------------------------------------
(* The theorems *)

LEMMA DeliveryStep == DeliveryInv /\ [DeliveryNext]_deliveryVars => DeliveryInv'
<1> SUFFICES ASSUME DeliveryInv, [DeliveryNext]_deliveryVars PROVE DeliveryInv'
  OBVIOUS
<1>1. CASE DeliveryNext
  BY <1>1, BeginKeeps, CommitKeeps, ReadBackKeeps, PublishKeeps, AbortKeeps,
     ConnectKeeps, ReceiveKeeps, SyncBeginKeeps, SyncListKeeps, SyncReplyKeeps,
     SyncLostKeeps DEF DeliveryNext
<1>2. CASE UNCHANGED deliveryVars
  BY <1>2 DEF deliveryVars, DeliveryInv, StorageOK, HandlersOK, QueuesOK,
              DevicesOK, CallsOK
<1> QED
  BY <1>1, <1>2

\* The invariant of the specification: no event, page or copy is newer than the
\* stored message, and the history of each device reaches to its cursor.
THEOREM DeliveryIsInvariant == DeliverySpec => []DeliveryInv
BY DeliveryStarts, DeliveryStep, PTL DEF DeliverySpec

\* Every variable of Delivery keeps its type.
THEOREM DeliveryTypeCorrect == DeliverySpec => []DeliveryTypeOK
BY DeliveryIsInvariant, InvIsTyped, PTL

\* docs/sync.md, "recover missed data": whatever is dropped, lost or never
\* published, a message that has not changed since the cursor of a device is
\* shown as it is stored, unless an older event arrived after it.
THEOREM MissedChangesAreRecovered == DeliverySpec => []MissedIsRecovered
BY DeliveryIsInvariant, InvIsRecovered, PTL

-------------------------------------------------------------------------------
(* OrderlyIsRecovered.  While handlers take turns and every event gets into   *)
(* the channels, an older version cannot stay on a device: of a message that  *)
(* has not changed since its cursor the device shows the stored version, or   *)
(* an event with it is in the channel, or the handler that committed it has   *)
(* still to publish; and behind an older event there is always a current one. *)

\* The handler has committed the message, and its event is still to come.
Tells(q, m) ==
  m \in q.wrote \/ \E i \in 1 .. Len(q.events) : q.events[i].message = m

Told(table) == {m \in MessageIds : \E h \in DOMAIN table : Tells(table[h], m)}

\* What the handlers have still to publish to the device.
News(d) == IF d \in online THEN Told(handlers) ELSE {}

\* The event has the version that is stored.
IsCurrent(event, stored) == event.version = stored[event.message]

\* A current event of the message is in the channel, after a place.
Comes(events, after, m, stored) ==
  \E i \in 1 .. Len(events) :
    i > after /\ events[i].message = m /\ IsCurrent(events[i], stored)

\* What has not changed since the cursor is shown as it is stored, or will be.
Reaches(shown, events, upTo, news, stored) ==
  \A m \in DOMAIN stored :
    stored[m] <= upTo =>
      \/ m \in DOMAIN shown /\ shown[m] = stored[m]
      \/ Comes(events, 0, m, stored)
      \/ m \in news

\* An older event has a current one behind it.
EndsCurrent(events, news, stored) ==
  \A i \in 1 .. Len(events) :
    \/ IsCurrent(events[i], stored)
    \/ Comes(events, i, events[i].message, stored)
    \/ events[i].message \in news

\* A handler has committed one message when it reads back, and none else; one
\* that does not create has one message to go.
HandlerInOrder(q) ==
  /\ q.stage = "find" => \E m \in q.wrote : q.wrote = {m}
  /\ q.stage # "find" => q.wrote = {}
  /\ ~ q.creates /\ q.stage # "publish" => q.events = << >> /\ q.left = 1

\* One handler at a time, and no one else changes what it has read back.
HandlersOrdered(table, stored) ==
  /\ \A g, h \in DOMAIN table : g = h
  /\ \A h \in DOMAIN table :
       \A i \in 1 .. Len(table[h].events) : IsCurrent(table[h].events[i], stored)

\* A reply has nothing that the device has synced already.
RepliesAreNew ==
  \A d \in DOMAIN calls :
    \A m \in DOMAIN calls[d].entries : rows[m] > cursor[d]

RecoveryInv ==
  /\ \A h \in DOMAIN handlers : HandlerInOrder(handlers[h])
  /\ \A d \in Devices : queue[d] # << >> => d \in online
  /\ RepliesAreNew
  /\ orderly =>
       /\ HandlersOrdered(handlers, rows)
       /\ \A d \in Devices :
            /\ Reaches(copy[d], queue[d], cursor[d], News(d), rows)
            /\ EndsCurrent(queue[d], News(d), rows)

\* When nothing is on its way, it is there.
LEMMA InvIsOrderly == DeliveryInv /\ RecoveryInv => OrderlyIsRecovered
<1> SUFFICES ASSUME DeliveryInv, RecoveryInv, orderly,
                    NEW d \in Devices, NEW m \in DOMAIN rows,
                    AtRest(d), rows[m] <= cursor[d]
             PROVE  Current(d, m)
  BY DEF OrderlyIsRecovered
<1>1. Reaches(copy[d], queue[d], cursor[d], News(d), rows)
  BY DEF RecoveryInv
<1>2. News(d) = {}
  BY DEF AtRest, News, Told, NoRows
<1>3. ~ Comes(queue[d], 0, m, rows)
  BY DEF AtRest, Comes
<1> QED
  BY <1>1, <1>2, <1>3 DEF Reaches, Current

\* Nothing is stored and nothing is on its way.
LEMMA RecoveryStarts == DeliveryInit => RecoveryInv
<1> SUFFICES ASSUME DeliveryInit PROVE RecoveryInv
  OBVIOUS
<1>1. /\ DOMAIN rows = {} /\ DOMAIN handlers = {} /\ DOMAIN calls = {}
      /\ \A d \in Devices : queue[d] = << >>
  BY DEF DeliveryInit, LogInit, NoRows
<1> QED
  BY <1>1 DEF RecoveryInv, RepliesAreNew, HandlersOrdered, Reaches, EndsCurrent

\* A queue and the versions stored, by their types.
LEMMA RecoveryTyped ==
  ASSUME DeliveryInv
  PROVE  /\ Versions(rows) /\ Len(log) \in Nat
         /\ \A m \in DOMAIN rows : rows[m] \in Nat /\ m \in MessageIds
         /\ \A d \in Devices : /\ queue[d] \in Seq(Event)
                               /\ EventsOK(queue[d], rows)
                               /\ cursor[d] \in Nat /\ cursor[d] <= Len(log)
<1>1. Versions(rows) /\ Len(log) \in Nat
  BY DEF DeliveryInv, StorageOK
<1>2. \A m \in DOMAIN rows : rows[m] \in Nat /\ m \in MessageIds
  BY <1>1, RowOfTable DEF Versions
<1> QED
  BY <1>1, <1>2 DEF DeliveryInv, QueuesOK, DevicesOK

\* A device misses nothing when the handlers have more to tell.
LEMMA MoreNews ==
  ASSUME NEW shown, NEW events, NEW upTo, NEW news, NEW more, NEW stored,
         Reaches(shown, events, upTo, news, stored),
         EndsCurrent(events, news, stored), news \subseteq more
  PROVE  /\ Reaches(shown, events, upTo, more, stored)
         /\ EndsCurrent(events, more, stored)
BY DEF Reaches, EndsCurrent

\* Steps of a handler that neither write nor publish.
LEMMA HandlerStepRecovers ==
  ASSUME DeliveryInv, RecoveryInv,
         UNCHANGED <<rows, online, queue, copy, cursor, calls>>,
         \A h \in DOMAIN handlers' : HandlerInOrder(handlers'[h]),
         orderly' => /\ orderly /\ HandlersOrdered(handlers', rows)
                     /\ Told(handlers) \subseteq Told(handlers')
  PROVE  RecoveryInv'
<1>1. ASSUME orderly', NEW d \in Devices
      PROVE  /\ Reaches(copy[d], queue[d], cursor[d], News(d)', rows)
             /\ EndsCurrent(queue[d], News(d)', rows)
  <2>1. News(d) \subseteq News(d)'
    BY <1>1 DEF News
  <2>2. /\ Reaches(copy[d], queue[d], cursor[d], News(d), rows)
        /\ EndsCurrent(queue[d], News(d), rows)
    BY <1>1 DEF RecoveryInv
  <2> QED
    BY <2>1, <2>2, MoreNews
<1> QED
  BY <1>1 DEF RecoveryInv, RepliesAreNew

\* A handler starts when there is none.
LEMMA BeginRecovers ==
  ASSUME DeliveryInv, RecoveryInv, NEW h \in Handlers, NEW creates \in BOOLEAN,
         NEW n \in 1 .. MaxBatchSize, Begin(h, creates, n)
  PROVE  RecoveryInv'
<1> DEFINE q == [stage |-> "write", creates |-> creates, left |-> n,
                 wrote |-> {}, events |-> << >>]
<1>1. /\ handlers' = Put(handlers, h, q) /\ (creates \/ n = 1)
      /\ orderly' => orderly /\ handlers = NoRows
      /\ UNCHANGED <<rows, online, queue, copy, cursor, calls>>
  BY DEF Begin, storage, device
<1>2. HandlerInOrder(q) /\ q.events = << >>
  BY <1>1 DEF HandlerInOrder
<1> HIDE DEF q
<1>3. /\ DOMAIN handlers' = DOMAIN handlers \cup {h} /\ handlers'[h] = q
      /\ \A k \in DOMAIN handlers : k # h => handlers'[k] = handlers[k]
  BY <1>1 DEF Put
<1>4. \A k \in DOMAIN handlers' : HandlerInOrder(handlers'[k])
  BY <1>2, <1>3 DEF RecoveryInv
<1>5. ASSUME orderly' PROVE HandlersOrdered(handlers', rows) /\ Told(handlers) = {}
  <2>1. DOMAIN handlers = {}
    BY <1>1, <1>5 DEF NoRows
  <2> QED
    BY <1>2, <1>3, <2>1 DEF HandlersOrdered, Told
<1> QED
  BY <1>1, <1>4, <1>5, HandlerStepRecovers

\* What was written is now an event, with the version that is stored.
LEMMA ReadBackRecovers ==
  ASSUME DeliveryInv, RecoveryInv, NEW h \in Handlers, ReadBack(h)
  PROVE  RecoveryInv'
<1> DEFINE q == handlers[h]
<1>1. /\ h \in DOMAIN handlers /\ q.stage = "find"
      /\ UNCHANGED <<rows, online, queue, copy, cursor, calls, orderly>>
  BY DEF ReadBack, storage, device
<1>2. /\ q \in Handler /\ q.events \in Seq(Event) /\ HandlerInOrder(q)
      /\ q.wrote \subseteq DOMAIN rows /\ q.left >= 1 /\ q.left \in Nat
      /\ handlers = [k \in DOMAIN handlers |-> handlers[k]]
  BY <1>1, HandlerTyped DEF HandlerOK, RecoveryInv, HandlersOK, IsTable
<1>3. PICK m \in q.wrote :
        handlers' = [handlers EXCEPT
            ![h].stage = IF q.left > 1 THEN "write" ELSE "publish",
            ![h].left = @ - 1,
            ![h].wrote = {},
            ![h].events = Append(@, [message |-> m,
                                     version |-> FindMessageByID(m)])]
  BY DEF ReadBack
<1>4. q.wrote = {m} /\ m \in DOMAIN rows /\ rows[m] \in Nat /\ m \in MessageIds
  BY <1>1, <1>2, RecoveryTyped DEF HandlerInOrder
<1> DEFINE event == [message |-> m, version |-> rows[m]]
           stage == IF q.left > 1 THEN "write" ELSE "publish"
           events == Append(q.events, event)
           new == handlers'[h]
<1>5. event \in Event /\ IsCurrent(event, rows) /\ event.message = m
  BY <1>4 DEF Event, IsCurrent
<1>6. /\ DOMAIN handlers' = DOMAIN handlers
      /\ \A k \in DOMAIN handlers : k # h => handlers'[k] = handlers[k]
      /\ new.stage = stage /\ new.creates = q.creates /\ new.left = q.left - 1
      /\ new.wrote = {} /\ new.events = events
  BY <1>1, <1>2, <1>3 DEF Handler, FindMessageByID
<1>7. /\ events \in Seq(Event) /\ Len(events) = Len(q.events) + 1
      /\ Len(q.events) \in Nat /\ events[Len(q.events) + 1] = event
      /\ \A i \in 1 .. Len(q.events) : events[i] = q.events[i]
  BY <1>2, <1>5
<1> HIDE DEF events, event
<1>8. HandlerInOrder(new)
  BY <1>1, <1>2, <1>6 DEF HandlerInOrder
<1> HIDE DEF new
<1>9. \A k \in DOMAIN handlers' : HandlerInOrder(handlers'[k])
  BY <1>6, <1>8 DEF RecoveryInv, new
<1>10. ASSUME orderly' PROVE HandlersOrdered(handlers', rows)
  <2>1. /\ HandlersOrdered(handlers, rows)
        /\ \A i \in 1 .. Len(q.events) : IsCurrent(q.events[i], rows)
    BY <1>1, <1>10 DEF RecoveryInv, HandlersOrdered
  <2>2. ASSUME NEW i \in 1 .. Len(events) PROVE IsCurrent(events[i], rows)
    <3>1. i = Len(q.events) + 1 \/ i \in 1 .. Len(q.events)
      BY <1>7
    <3> QED
      BY <1>5, <1>7, <2>1, <3>1
  <2> QED
    BY <1>6, <2>1, <2>2 DEF HandlersOrdered, new
<1>11. Told(handlers) \subseteq Told(handlers')
  <2>1. ASSUME NEW k \in MessageIds, Tells(q, k) PROVE Tells(new, k)
    <3>1. CASE k \in q.wrote
      <4>1. Len(q.events) + 1 \in 1 .. Len(events) /\ k = m
        BY <1>4, <1>7, <3>1
      <4> QED
        BY <1>5, <1>6, <1>7, <4>1 DEF Tells
    <3>2. CASE k \notin q.wrote
      <4>1. PICK i \in 1 .. Len(q.events) : q.events[i].message = k
        BY <2>1, <3>2 DEF Tells
      <4>2. i \in 1 .. Len(events) /\ events[i].message = k
        BY <1>7, <4>1
      <4> QED
        BY <1>6, <4>2 DEF Tells
    <3> QED
      BY <3>1, <3>2
  <2> QED
    BY <1>1, <1>6, <2>1 DEF Told, new
<1> QED
  BY <1>1, <1>9, <1>10, <1>11, HandlerStepRecovers

\* Only one that has nothing to tell may end.
LEMMA AbortRecovers ==
  ASSUME DeliveryInv, RecoveryInv, NEW h, Abort(h)
  PROVE  RecoveryInv'
<1>1. /\ h \in DOMAIN handlers /\ handlers' = Remove(handlers, {h})
      /\ orderly' => orderly /\ ~ HasNews(h)
      /\ UNCHANGED <<rows, online, queue, copy, cursor, calls>>
  BY DEF Abort, storage, device
<1>2. \A k \in DOMAIN handlers' : HandlerInOrder(handlers'[k])
  BY <1>1 DEF RecoveryInv, Remove
<1>3. ASSUME orderly'
      PROVE  orderly /\ HandlersOrdered(handlers', rows) /\ Told(handlers) = {}
  <2>1. /\ orderly /\ ~ HasNews(h) /\ HandlersOrdered(handlers, rows)
        /\ DOMAIN handlers = {h}
    BY <1>1, <1>3 DEF RecoveryInv, HandlersOrdered
  <2>2. HandlersOrdered(handlers', rows)
    BY <1>1, <2>1 DEF HandlersOrdered, Remove
  <2>3. Told(handlers) = {}
    BY <2>1 DEF Told, Tells, HasNews
  <2> QED
    BY <2>1, <2>2, <2>3
<1> QED
  BY <1>1, <1>2, <1>3, HandlerStepRecovers

\* The version a message gets is past the cursor, and the handler has to tell.
LEMMA ReachesGrows ==
  ASSUME NEW stored, NEW later, NEW m, NEW changes,
         Grows(stored, later, m, changes),
         NEW shown, NEW events, EventsOK(events, stored),
         NEW upTo \in Nat, upTo <= changes,
         NEW news, NEW more, news \subseteq more, m \in more \/ events = << >>,
         Reaches(shown, events, upTo, news, stored),
         EndsCurrent(events, news, stored)
  PROVE  /\ Reaches(shown, events, upTo, more, later)
         /\ EndsCurrent(events, more, later)
<1>1. /\ DOMAIN later = DOMAIN stored \cup {m} /\ later[m] = changes + 1
      /\ changes \in Nat
      /\ \A k \in DOMAIN stored : k # m => later[k] = stored[k]
  BY DEF Grows
<1>2. \A i \in 1 .. Len(events) :
        events[i].message # m =>
          (IsCurrent(events[i], stored) => IsCurrent(events[i], later))
  BY <1>1 DEF IsCurrent, EventsOK, EventBelow
<1>3. ASSUME NEW k, k # m, NEW i, Comes(events, i, k, stored)
      PROVE  Comes(events, i, k, later)
  BY <1>2, <1>3 DEF Comes
<1>4. Reaches(shown, events, upTo, more, later)
  <2> SUFFICES ASSUME NEW k \in DOMAIN later, later[k] <= upTo
               PROVE  \/ k \in DOMAIN shown /\ shown[k] = later[k]
                      \/ Comes(events, 0, k, later)
                      \/ k \in more
    BY DEF Reaches
  <2>1. k # m
    BY <1>1
  <2>2. k \in DOMAIN stored /\ later[k] = stored[k]
    BY <1>1, <2>1
  <2> QED
    BY <1>3, <2>1, <2>2 DEF Reaches
<1>5. EndsCurrent(events, more, later)
  <2> SUFFICES ASSUME NEW i \in 1 .. Len(events)
               PROVE  \/ IsCurrent(events[i], later)
                      \/ Comes(events, i, events[i].message, later)
                      \/ events[i].message \in more
    BY DEF EndsCurrent
  <2>1. CASE events[i].message = m
    BY <2>1
  <2>2. CASE events[i].message # m
    BY <1>2, <1>3, <2>2 DEF EndsCurrent
  <2> QED
    BY <2>1, <2>2
<1> QED
  BY <1>4, <1>5

\* A handler commits a message: with no other handler under way, the version
\* that is now current is the one that it will read back and publish.
LEMMA CommitRecovers ==
  ASSUME DeliveryInv, RecoveryInv, NEW h \in Handlers, Commit(h)
  PROVE  RecoveryInv'
<1> DEFINE q == handlers[h]
           new == handlers'[h]
<1>1. /\ h \in DOMAIN handlers /\ q.stage = "write"
      /\ UNCHANGED <<online, queue, copy, cursor, calls, newest, orderly>>
  BY DEF Commit, device
<1>2. PICK m \in MessageIds :
        /\ q.creates => m \notin DOMAIN rows
        /\ Record(m, Len(log) + 1)
        /\ handlers' = [handlers EXCEPT ![h].stage = "find", ![h].wrote = {m}]
  BY DEF Commit
<1>3. Grows(rows, rows', m, Len(log))
  <2>1. StorageOK /\ Len(log) \in Nat
    BY DEF DeliveryInv, StorageOK
  <2> QED
    BY <1>2, <2>1, CommitGrows DEF Grows, StorageOK
<1>4. /\ q \in Handler /\ HandlerInOrder(q) /\ EventsOK(q.events, rows)
      /\ handlers = [k \in DOMAIN handlers |-> handlers[k]]
  BY <1>1, HandlerTyped DEF HandlerOK, RecoveryInv, HandlersOK, IsTable
<1>5. /\ DOMAIN handlers' = DOMAIN handlers
      /\ \A k \in DOMAIN handlers : k # h => handlers'[k] = handlers[k]
      /\ new.stage = "find" /\ new.creates = q.creates /\ new.left = q.left
      /\ new.wrote = {m} /\ new.events = q.events
  BY <1>1, <1>2, <1>4 DEF Handler
<1> HIDE DEF new
<1>6. HandlerInOrder(new)
  BY <1>1, <1>4, <1>5 DEF HandlerInOrder
<1>7. \A k \in DOMAIN handlers' : HandlerInOrder(handlers'[k])
  BY <1>5, <1>6 DEF RecoveryInv, new
<1>8. RepliesAreNew'
  <2> SUFFICES ASSUME NEW d \in DOMAIN calls, NEW k \in DOMAIN calls[d].entries
               PROVE  rows'[k] > cursor[d]
    BY <1>1 DEF RepliesAreNew
  <2>1. rows[k] > cursor[d] /\ k \in DOMAIN rows /\ d \in Devices
    BY DEF RecoveryInv, RepliesAreNew, DeliveryInv, CallsOK, CallOK, Below
  <2>2. /\ rows[k] \in Nat /\ rows'[k] \in Nat /\ rows[k] <= rows'[k]
        /\ cursor[d] \in Nat
    BY <1>3, <2>1, RecoveryTyped, RowOfTable DEF Grows, Versions
  <2> QED
    BY <2>1, <2>2
<1>9. ASSUME orderly'
      PROVE  /\ HandlersOrdered(handlers', rows')
             /\ Told(handlers) \cup {m} \subseteq Told(handlers')
  <2>1. HandlersOrdered(handlers, rows) /\ DOMAIN handlers = {h}
    BY <1>1, <1>9 DEF RecoveryInv, HandlersOrdered
  <2>2. ASSUME NEW i \in 1 .. Len(q.events) PROVE IsCurrent(q.events[i], rows')
    <3>1. IsCurrent(q.events[i], rows) /\ q.events[i].message \in DOMAIN rows
      BY <1>1, <1>4, <2>1 DEF HandlersOrdered, EventsOK, EventBelow
    <3>2. q.events # << >>
      BY <2>2
    <3>3. q.creates
      BY <1>1, <1>4, <3>2 DEF HandlerInOrder, Handler
    <3>4. q.events[i].message # m
      BY <1>2, <3>1, <3>3
    <3> QED
      BY <1>3, <3>1, <3>4 DEF IsCurrent, Grows
  <2>3. HandlersOrdered(handlers', rows')
    BY <1>5, <2>1, <2>2 DEF HandlersOrdered, new
  <2>4. \A k : Tells(q, k) => Tells(new, k)
    BY <1>1, <1>4, <1>5 DEF Tells, HandlerInOrder
  <2>5. Tells(new, m)
    BY <1>5 DEF Tells
  <2> QED
    BY <1>5, <2>1, <2>3, <2>4, <2>5 DEF Told, new
<1>10. ASSUME orderly', NEW d \in Devices
       PROVE  /\ Reaches(copy[d], queue[d], cursor[d], News(d)', rows')
              /\ EndsCurrent(queue[d], News(d)', rows')
  <2>1. News(d) \subseteq News(d)' /\ (m \in News(d)' \/ queue[d] = << >>)
    BY <1>1, <1>9, <1>10 DEF News, RecoveryInv
  <2>2. /\ Reaches(copy[d], queue[d], cursor[d], News(d), rows)
        /\ EndsCurrent(queue[d], News(d), rows)
        /\ EventsOK(queue[d], rows) /\ cursor[d] \in Nat /\ cursor[d] <= Len(log)
    BY <1>1, <1>10, RecoveryTyped DEF RecoveryInv
  <2> QED
    BY <1>3, <2>1, <2>2, ReachesGrows
<1> QED
  BY <1>1, <1>7, <1>8, <1>9, <1>10 DEF RecoveryInv

\* An event that is current goes to the end of the channel.
LEMMA ReachesAppends ==
  ASSUME NEW stored, NEW shown, NEW events \in Seq(Event), NEW event \in Event,
         NEW upTo, NEW news, NEW more,
         IsCurrent(event, stored), news \subseteq more \cup {event.message},
         Reaches(shown, events, upTo, news, stored),
         EndsCurrent(events, news, stored)
  PROVE  /\ Reaches(shown, Append(events, event), upTo, more, stored)
         /\ EndsCurrent(Append(events, event), more, stored)
<1> DEFINE longer == Append(events, event)
           last == Len(events) + 1
<1>1. /\ Len(longer) = last /\ Len(events) \in Nat /\ longer[last] = event
      /\ last \in 1 .. Len(longer)
      /\ \A i \in 1 .. Len(events) :
           longer[i] = events[i] /\ i \in 1 .. Len(longer) /\ i < last
      /\ \A i \in 1 .. Len(longer) : i = last \/ i \in 1 .. Len(events)
  OBVIOUS
<1> HIDE DEF longer, last
<1>2. \A i, m : Comes(events, i, m, stored) => Comes(longer, i, m, stored)
  BY <1>1 DEF Comes
<1>3. \A i : i < last => Comes(longer, i, event.message, stored)
  BY <1>1 DEF Comes
<1>4. 0 < last
  BY <1>1
<1>5. Reaches(shown, longer, upTo, more, stored)
  BY <1>2, <1>3, <1>4 DEF Reaches
<1>6. EndsCurrent(longer, more, stored)
  <2> SUFFICES ASSUME NEW i \in 1 .. Len(longer)
               PROVE  \/ IsCurrent(longer[i], stored)
                      \/ Comes(longer, i, longer[i].message, stored)
                      \/ longer[i].message \in more
    BY DEF EndsCurrent
  <2>1. CASE i = last
    BY <1>1, <2>1
  <2>2. CASE i \in 1 .. Len(events)
    BY <1>1, <1>2, <1>3, <2>2 DEF EndsCurrent
  <2> QED
    BY <1>1, <2>1, <2>2
<1> QED
  BY <1>5, <1>6 DEF longer

\* A handler publishes: in an orderly run every channel has room, and the event
\* comes after those of older versions of its message.
LEMMA PublishRecovers ==
  ASSUME DeliveryInv, RecoveryInv, NEW h \in Handlers, Publish(h)
  PROVE  RecoveryInv'
<1> DEFINE q == handlers[h]
           fits == {d \in online : Fits(d)}
           event == Head(q.events)
           rest == Tail(q.events)
<1>1. /\ h \in DOMAIN handlers /\ q.stage = "publish"
      /\ queue' = [d \in Devices |-> IF d \in fits
                                     THEN Append(queue[d], event)
                                     ELSE queue[d]]
      /\ handlers' = IF Len(q.events) > 1
                     THEN [handlers EXCEPT ![h].events = Tail(@)]
                     ELSE Remove(handlers, {h})
      /\ orderly' = (orderly /\ fits = online)
      /\ UNCHANGED <<rows, log, online, copy, cursor, calls, newest>>
  BY DEF Publish, storage
<1>2. /\ q \in Handler /\ q.events \in Seq(Event) /\ q.events # << >>
      /\ HandlerInOrder(q) /\ q.wrote = {}
      /\ handlers = [k \in DOMAIN handlers |-> handlers[k]]
  BY <1>1, HandlerTyped
     DEF HandlerOK, RecoveryInv, HandlersOK, IsTable, HandlerInOrder
<1>3. /\ event \in Event /\ rest \in Seq(Event) /\ Len(q.events) \in Nat
      /\ event = q.events[1] /\ 1 \in 1 .. Len(q.events)
      /\ Len(rest) = Len(q.events) - 1
      /\ \A i \in 1 .. Len(rest) : rest[i] = q.events[i + 1]
                                   /\ i + 1 \in 1 .. Len(q.events)
  BY <1>2, HeadTailProperties
<1> HIDE DEF rest, event
<1>4. /\ DOMAIN handlers' \subseteq DOMAIN handlers
      /\ \A k \in DOMAIN handlers' : k # h => handlers'[k] = handlers[k]
      /\ h \in DOMAIN handlers' <=> Len(q.events) > 1
      /\ h \in DOMAIN handlers' =>
           /\ handlers'[h].stage = "publish" /\ handlers'[h].wrote = {}
           /\ handlers'[h].events = rest
  <2>1. CASE Len(q.events) > 1
    BY <1>1, <1>2, <2>1 DEF Handler, rest
  <2>2. CASE ~ Len(q.events) > 1
    BY <1>1, <2>2 DEF Remove
  <2> QED
    BY <2>1, <2>2
<1>5. \A k \in DOMAIN handlers' : HandlerInOrder(handlers'[k])
  BY <1>4 DEF RecoveryInv, HandlerInOrder
<1>6. \A d \in Devices : queue'[d] # << >> => d \in online
  BY <1>1 DEF RecoveryInv
<1>7. ASSUME orderly'
      PROVE  /\ HandlersOrdered(handlers', rows) /\ IsCurrent(event, rows)
             /\ Told(handlers) \subseteq Told(handlers') \cup {event.message}
  <2>1. HandlersOrdered(handlers, rows) /\ DOMAIN handlers = {h}
    BY <1>1, <1>7 DEF RecoveryInv, HandlersOrdered
  <2>2. \A i \in 1 .. Len(q.events) : IsCurrent(q.events[i], rows)
    BY <2>1 DEF HandlersOrdered
  <2>3. HandlersOrdered(handlers', rows)
    <3>1. \A i \in 1 .. Len(rest) : IsCurrent(rest[i], rows)
      BY <1>3, <2>2
    <3> QED
      BY <1>4, <2>1, <3>1 DEF HandlersOrdered
  <2>4. ASSUME NEW m \in Told(handlers), m # event.message
        PROVE  m \in Told(handlers')
    <3>1. PICK i \in 1 .. Len(q.events) : q.events[i].message = m
      BY <1>2, <2>1 DEF Told, Tells
    <3>2. i # 1
      BY <1>3, <2>4, <3>1
    <3>3. /\ i - 1 \in 1 .. Len(rest) /\ (i - 1) + 1 = i
          /\ Len(q.events) > 1
      BY <1>3, <3>2
    <3>4. rest[i - 1].message = m
      BY <1>3, <3>1, <3>3
    <3>5. Tells(handlers'[h], m)
      BY <1>4, <3>3, <3>4 DEF Tells
    <3> QED
      BY <1>4, <2>4, <3>3, <3>5 DEF Told
  <2> QED
    BY <1>3, <2>2, <2>3, <2>4
<1>8. ASSUME orderly', NEW d \in Devices
      PROVE  /\ Reaches(copy[d], queue'[d], cursor[d], News(d)', rows)
             /\ EndsCurrent(queue'[d], News(d)', rows)
  <2>1. /\ Reaches(copy[d], queue[d], cursor[d], News(d), rows)
        /\ EndsCurrent(queue[d], News(d), rows)
        /\ queue[d] \in Seq(Event) /\ fits = online
    BY <1>1, <1>8, RecoveryTyped DEF RecoveryInv
  <2>2. CASE d \in online
    <3>1. queue'[d] = Append(queue[d], event)
      BY <1>1, <2>1, <2>2
    <3>2. News(d) \subseteq News(d)' \cup {event.message}
      BY <1>1, <1>7, <1>8, <2>2 DEF News
    <3> QED
      BY <1>3, <1>7, <1>8, <2>1, <3>1, <3>2, ReachesAppends
  <2>3. CASE d \notin online
    BY <1>1, <2>1, <2>3 DEF News
  <2> QED
    BY <2>2, <2>3
<1> QED
  BY <1>1, <1>5, <1>6, <1>7, <1>8 DEF RecoveryInv, RepliesAreNew

\* A connection that opens hears of what is still to be published; one that
\* closes loses nothing, when all took turns.
LEMMA ConnectRecovers ==
  ASSUME DeliveryInv, RecoveryInv, NEW d \in Devices, Connect(d) \/ Disconnect(d)
  PROVE  RecoveryInv'
<1>1. CASE Connect(d)
  <2>1. /\ UNCHANGED <<rows, handlers, queue, copy, cursor, calls, orderly>>
        /\ online' = online \cup {d}
    BY <1>1 DEF Connect, storage
  <2>2. ASSUME orderly', NEW e \in Devices
        PROVE  /\ Reaches(copy[e], queue[e], cursor[e], News(e)', rows)
               /\ EndsCurrent(queue[e], News(e)', rows)
    <3>1. News(e) \subseteq News(e)'
      BY <2>1 DEF News
    <3> QED
      BY <2>1, <2>2, <3>1, MoreNews DEF RecoveryInv
  <2> QED
    BY <2>1, <2>2 DEF RecoveryInv, RepliesAreNew
<1>2. CASE Disconnect(d)
  <2>1. /\ UNCHANGED <<rows, handlers, copy, cursor, calls>>
        /\ online' = online \ {d} /\ queue' = [queue EXCEPT ![d] = << >>]
        /\ orderly' => /\ orderly /\ queue[d] = << >>
                       /\ \A h \in DOMAIN handlers : ~ HasNews(h)
        /\ queue \in [Devices -> Seq(Event)]
    BY <1>2 DEF Disconnect, storage, DeliveryInv, QueuesOK
  <2>2. /\ queue'[d] = << >>
        /\ \A e \in Devices : e # d => queue'[e] = queue[e]
    BY <2>1
  <2>3. ASSUME orderly', NEW e \in Devices
        PROVE  /\ Reaches(copy[e], queue'[e], cursor[e], News(e)', rows)
               /\ EndsCurrent(queue'[e], News(e)', rows)
    <3>1. Told(handlers) = {}
      BY <2>1, <2>3 DEF Told, Tells, HasNews
    <3>2. queue'[e] = queue[e] /\ News(e) \subseteq News(e)'
      BY <2>1, <2>2, <2>3, <3>1 DEF News
    <3> QED
      BY <2>1, <2>3, <3>2, MoreNews DEF RecoveryInv
  <2> QED
    BY <2>1, <2>2, <2>3 DEF RecoveryInv, RepliesAreNew
<1> QED
  BY <1>1, <1>2

\* The next event replaces what the device shows: if it is older, a current one
\* is behind it.
LEMMA ReachesReceives ==
  ASSUME NEW stored, NEW shown, NEW events \in Seq(Event), events # << >>,
         NEW upTo, NEW news,
         Reaches(shown, events, upTo, news, stored),
         EndsCurrent(events, news, stored)
  PROVE  LET event == Head(events)
             given == [m \in {event.message} |-> event.version]
         IN /\ Reaches(Merge(shown, given), Tail(events), upTo, news, stored)
            /\ EndsCurrent(Tail(events), news, stored)
<1> DEFINE event == Head(events)
           rest == Tail(events)
           given == [m \in {event.message} |-> event.version]
           shows == Merge(shown, given)
<1>1. /\ event = events[1] /\ 1 \in 1 .. Len(events) /\ Len(events) \in Nat
      /\ Len(rest) = Len(events) - 1
      /\ \A i \in 1 .. Len(rest) : rest[i] = events[i + 1]
                                   /\ i + 1 \in 1 .. Len(events)
  BY HeadTailProperties
<1>2. /\ event.message \in DOMAIN shows /\ shows[event.message] = event.version
      /\ \A m \in DOMAIN shown :
           m \in DOMAIN shows /\ (m # event.message => shows[m] = shown[m])
  BY DEF Merge
<1> HIDE DEF event, rest, shows
<1>3. ASSUME NEW i \in Nat, NEW m, Comes(events, i + 1, m, stored)
      PROVE  Comes(rest, i, m, stored)
  <2>1. PICK j \in 1 .. Len(events) :
          j > i + 1 /\ events[j].message = m /\ IsCurrent(events[j], stored)
    BY <1>3 DEF Comes
  <2>2. j - 1 \in 1 .. Len(rest) /\ (j - 1) + 1 = j /\ j - 1 > i
    BY <1>1, <2>1
  <2>3. rest[j - 1] = events[j]
    BY <1>1, <2>2
  <2> QED
    BY <2>1, <2>2, <2>3 DEF Comes
<1>4. Reaches(shows, rest, upTo, news, stored)
  <2> SUFFICES ASSUME NEW m \in DOMAIN stored, stored[m] <= upTo
               PROVE  \/ m \in DOMAIN shows /\ shows[m] = stored[m]
                      \/ Comes(rest, 0, m, stored)
                      \/ m \in news
    BY DEF Reaches
  <2>1. CASE m = event.message
    <3>1. \/ IsCurrent(event, stored) \/ Comes(events, 1, m, stored)
          \/ m \in news
      BY <1>1, <2>1 DEF EndsCurrent
    <3>2. Comes(events, 1, m, stored) => Comes(rest, 0, m, stored)
      <4>1. 0 \in Nat /\ 0 + 1 = 1
        OBVIOUS
      <4> QED
        BY <1>3, <4>1
    <3> QED
      BY <1>2, <2>1, <3>1, <3>2 DEF IsCurrent
  <2>2. CASE m # event.message
    <3>1. ASSUME Comes(events, 0, m, stored) PROVE Comes(rest, 0, m, stored)
      <4>1. PICK j \in 1 .. Len(events) :
              events[j].message = m /\ IsCurrent(events[j], stored)
        BY <3>1 DEF Comes
      <4>2. j # 1
        BY <1>1, <2>2, <4>1
      <4>3. j > 1 /\ 0 \in Nat /\ 0 + 1 = 1
        BY <4>2
      <4>4. Comes(events, 1, m, stored)
        BY <4>1, <4>3 DEF Comes
      <4> QED
        BY <1>3, <4>3, <4>4
    <3> QED
      BY <1>2, <2>2, <3>1 DEF Reaches
  <2> QED
    BY <2>1, <2>2
<1>5. EndsCurrent(rest, news, stored)
  <2> SUFFICES ASSUME NEW i \in 1 .. Len(rest)
               PROVE  \/ IsCurrent(rest[i], stored)
                      \/ Comes(rest, i, rest[i].message, stored)
                      \/ rest[i].message \in news
    BY DEF EndsCurrent
  <2>1. rest[i] = events[i + 1] /\ i + 1 \in 1 .. Len(events) /\ i \in Nat
    BY <1>1
  <2> QED
    BY <1>3, <2>1 DEF EndsCurrent
<1> QED
  BY <1>4, <1>5 DEF event, rest, shows

\* A device reads an event: it shows a version that is current, or the current
\* one is still to come.
LEMMA ReceiveRecovers ==
  ASSUME DeliveryInv, RecoveryInv, NEW d \in Devices, Receive(d)
  PROVE  RecoveryInv'
<1> DEFINE event == Head(queue[d])
           given == [m \in {event.message} |-> event.version]
<1>1. /\ queue[d] # << >> /\ queue' = [queue EXCEPT ![d] = Tail(queue[d])]
      /\ copy' = [copy EXCEPT ![d] = Merge(copy[d], given)]
      /\ UNCHANGED <<rows, handlers, online, cursor, calls, orderly>>
  BY DEF Receive, storage, Show
<1>2. queue \in [Devices -> Seq(Event)] /\ copy = [e \in Devices |-> copy[e]]
  BY DEF DeliveryInv, QueuesOK, DevicesOK
<1>3. /\ queue'[d] = Tail(queue[d]) /\ copy'[d] = Merge(copy[d], given)
      /\ \A e \in Devices : e # d => queue'[e] = queue[e] /\ copy'[e] = copy[e]
  BY <1>1, <1>2
<1>4. \A e \in Devices : queue'[e] # << >> => e \in online
  BY <1>1, <1>3 DEF RecoveryInv
<1>5. ASSUME orderly, NEW e \in Devices
      PROVE  /\ Reaches(copy'[e], queue'[e], cursor[e], News(e), rows)
             /\ EndsCurrent(queue'[e], News(e), rows)
  <2>1. /\ Reaches(copy[e], queue[e], cursor[e], News(e), rows)
        /\ EndsCurrent(queue[e], News(e), rows)
    BY <1>5 DEF RecoveryInv
  <2>2. CASE e = d
    <3>1. queue[d] \in Seq(Event)
      BY <1>2
    <3> HIDE DEF event, given
    <3>2. /\ Reaches(Merge(copy[d], given), Tail(queue[d]), cursor[d], News(d), rows)
          /\ EndsCurrent(Tail(queue[d]), News(d), rows)
      BY <1>1, <2>1, <2>2, <3>1, ReachesReceives DEF event, given
    <3> QED
      BY <1>3, <2>2, <3>2
  <2>3. CASE e # d
    BY <1>3, <2>1, <2>3
  <2> QED
    BY <2>2, <2>3
<1> QED
  BY <1>1, <1>4, <1>5 DEF RecoveryInv, RepliesAreNew, News

\* Steps of a call that the device does not see yet.
LEMMA CallStepRecovers ==
  ASSUME RecoveryInv, RepliesAreNew',
         UNCHANGED <<rows, handlers, online, queue, copy, cursor, orderly>>
  PROVE  RecoveryInv'
BY DEF RecoveryInv, News

\* A call begins, reads its page, or is lost: what it brings is new to the
\* device, which shows none of it yet.
LEMMA SyncRecovers ==
  ASSUME DeliveryInv, RecoveryInv, NEW d \in Devices,
         SyncBegin(d) \/ SyncList(d) \/ SyncLost(d)
  PROVE  RecoveryInv'
<1>1. UNCHANGED <<rows, handlers, online, queue, copy, cursor, orderly>>
  BY DEF SyncBegin, SyncList, SyncLost, storage
<1>2. CASE SyncBegin(d)
  <2>1. RepliesAreNew'
    BY <1>1, <1>2 DEF SyncBegin, RecoveryInv, RepliesAreNew, Put, NoRows
  <2> QED
    BY <1>1, <2>1, CallStepRecovers
<1>3. CASE SyncList(d)
  <2> DEFINE before == calls[d].before
             entries == [m \in ChangedWithin(cursor[d], before) |-> rows[m]]
  <2>1. /\ d \in DOMAIN calls
        /\ calls' = [calls EXCEPT ![d].stage = "reply", ![d].entries = entries]
        /\ calls = [e \in DOMAIN calls |-> calls[e]]
        /\ IsCall(calls[d]) /\ before <= Len(log) /\ before \in Nat
    BY <1>3 DEF SyncList, DeliveryInv, CallsOK, CallOK, IsCall
  <2>2. ASSUME NEW m \in DOMAIN entries PROVE rows[m] > cursor[d]
    <3>1. PICK i \in cursor[d] + 1 .. IF before = 0 THEN Len(log) ELSE before :
            log[i] = m
      BY DEF ChangedWithin
    <3>2. i \in 1 .. Len(log) /\ i > cursor[d]
      <4>1. /\ cursor[d] \in Nat /\ Len(log) \in Nat
            /\ before \in Nat /\ before <= Len(log)
        BY <2>1, RecoveryTyped
      <4>2. i \in cursor[d] + 1 .. IF before = 0 THEN Len(log) ELSE before
        BY <3>1
      <4> HIDE DEF before
      <4> QED
        BY <4>1, <4>2
    <3>3. m \in DOMAIN rows /\ i <= rows[m]
      BY <3>1, <3>2 DEF DeliveryInv, StorageOK
    <3> QED
      BY <3>2, <3>3, RecoveryTyped
  <2> HIDE DEF entries
  <2>3. /\ DOMAIN calls' = DOMAIN calls /\ calls'[d].entries = entries
        /\ \A e \in DOMAIN calls : e # d => calls'[e] = calls[e]
    BY <2>1 DEF IsCall
  <2>4. RepliesAreNew'
    BY <1>1, <2>2, <2>3 DEF RecoveryInv, RepliesAreNew
  <2> QED
    BY <1>1, <2>4, CallStepRecovers
<1>4. CASE SyncLost(d)
  <2>1. RepliesAreNew'
    BY <1>1, <1>4 DEF SyncLost, RecoveryInv, RepliesAreNew, Remove
  <2> QED
    BY <1>1, <2>1, CallStepRecovers
<1> QED
  BY <1>2, <1>3, <1>4

\* The page has what changed since the cursor, and leaves the rest as it is.
LEMMA SyncReplyRecovers ==
  ASSUME DeliveryInv, RecoveryInv, NEW d \in Devices, SyncReply(d)
  PROVE  RecoveryInv'
<1> DEFINE entries == calls[d].entries
           before == calls[d].before
<1>1. /\ d \in DOMAIN calls /\ calls[d].stage = "reply"
      /\ copy' = [copy EXCEPT ![d] = Merge(copy[d], entries)]
      /\ cursor' = [cursor EXCEPT ![d] = before]
      /\ calls' = Remove(calls, {d})
      /\ UNCHANGED <<rows, handlers, online, queue, orderly>>
      /\ copy = [e \in Devices |-> copy[e]] /\ cursor \in [Devices -> Nat]
  BY DEF SyncReply, storage, Show, DeliveryInv, DevicesOK
<1>2. /\ copy'[d] = Merge(copy[d], entries) /\ cursor'[d] = before
      /\ \A e \in Devices : e # d => copy'[e] = copy[e] /\ cursor'[e] = cursor[e]
  BY <1>1
<1>3. /\ before \in Nat /\ Answers(entries, cursor[d], before, rows)
      /\ \A m \in DOMAIN entries : rows[m] > cursor[d]
      /\ Below(entries, rows) /\ DOMAIN calls \subseteq Devices
  BY <1>1 DEF DeliveryInv, CallsOK, CallOK, IsCall, RecoveryInv, RepliesAreNew
<1>4. RepliesAreNew'
  BY <1>1, <1>2, <1>3 DEF RecoveryInv, RepliesAreNew, Remove
<1>5. ASSUME orderly, NEW e \in Devices
      PROVE  Reaches(copy'[e], queue[e], cursor'[e], News(e), rows)
  <2>1. Reaches(copy[e], queue[e], cursor[e], News(e), rows)
    BY <1>5 DEF RecoveryInv
  <2>2. CASE e = d
    <3> SUFFICES ASSUME NEW m \in DOMAIN rows, rows[m] <= before
                 PROVE  \/ m \in DOMAIN copy'[d] /\ copy'[d][m] = rows[m]
                        \/ Comes(queue[d], 0, m, rows)
                        \/ m \in News(d)
      BY <1>2, <2>2 DEF Reaches
    <3>1. rows[m] \in Nat /\ cursor[d] \in Nat
      BY RecoveryTyped
    <3> HIDE DEF entries, before
    <3>2. CASE cursor[d] < rows[m]
      <4>1. m \in DOMAIN entries /\ entries[m] = rows[m]
        BY <1>3, <3>2 DEF Answers
      <4> QED
        BY <1>2, <4>1 DEF Merge
    <3>3. CASE ~ cursor[d] < rows[m]
      <4>1. rows[m] <= cursor[d] /\ m \notin DOMAIN entries
        BY <1>3, <3>1, <3>3
      <4>2. m \in DOMAIN copy[d] =>
              m \in DOMAIN copy'[d] /\ copy'[d][m] = copy[d][m]
        BY <1>2, <4>1 DEF Merge
      <4> QED
        BY <2>1, <2>2, <4>1, <4>2 DEF Reaches
    <3> QED
      BY <3>2, <3>3
  <2>3. CASE e # d
    BY <1>2, <2>1, <2>3
  <2> QED
    BY <2>2, <2>3
<1> QED
  BY <1>1, <1>4, <1>5 DEF RecoveryInv, News

\* Every step keeps the invariant.
LEMMA RecoveryStep ==
  DeliveryInv /\ RecoveryInv /\ [DeliveryNext]_deliveryVars => RecoveryInv'
<1> SUFFICES ASSUME DeliveryInv, RecoveryInv, [DeliveryNext]_deliveryVars
             PROVE  RecoveryInv'
  OBVIOUS
<1>1. CASE DeliveryNext
  BY <1>1, BeginRecovers, CommitRecovers, ReadBackRecovers, PublishRecovers,
     AbortRecovers, ConnectRecovers, ReceiveRecovers, SyncRecovers,
     SyncReplyRecovers DEF DeliveryNext
<1>2. CASE UNCHANGED deliveryVars
  BY <1>2 DEF deliveryVars, RecoveryInv, RepliesAreNew, News
<1> QED
  BY <1>1, <1>2

\* With one handler at a time, all of whose events got into the channels, no
\* device that is at rest shows a message older than it is stored, when the
\* message has not changed since its cursor.
THEOREM OrderlyChangesAreRecovered == DeliverySpec => []OrderlyIsRecovered
<1>1. DeliverySpec => []RecoveryInv
  BY DeliveryIsInvariant, RecoveryStarts, RecoveryStep, PTL DEF DeliverySpec
<1> QED
  BY <1>1, DeliveryIsInvariant, InvIsOrderly, PTL

\* docs/frontend.md, REST as "the source of truth for reconnect recovery", holds
\* while handlers take turns and no event is lost: a device that has synced to
\* the end of the log and to which nothing is on its way shows what is stored.
THEOREM OrderlySyncedIsCurrent == DeliverySpec => [](orderly => SyncedIsCurrent)
<1>1. DeliveryInv /\ OrderlyIsRecovered => (orderly => SyncedIsCurrent)
  <2> SUFFICES ASSUME DeliveryInv, OrderlyIsRecovered, orderly,
                      NEW d \in Devices, AtRest(d), cursor[d] = Len(log),
                      NEW m \in DOMAIN rows
               PROVE  Current(d, m)
    BY DEF SyncedIsCurrent
  <2>1. rows[m] <= cursor[d]
    BY DEF DeliveryInv, StorageOK
  <2> QED
    BY <2>1 DEF OrderlyIsRecovered
<1> QED
  BY <1>1, DeliveryIsInvariant, OrderlyChangesAreRecovered, PTL
===============================================================================
