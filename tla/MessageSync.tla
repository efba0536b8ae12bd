----------------------------- MODULE MessageSync ------------------------------
(*****************************************************************************)
(* Offline sync: MessageService.Sync above CurrentMessageSyncCursor,         *)
(* MessageSyncCursorBeforeTime and ListMessagesSinceCursor, and the client   *)
(* docs/sync.md describes.  Every create, edit and recall adds a row to      *)
(* message_changes; a client gives the id of the last change it has seen and *)
(* gets a page of the messages changed since.                                *)
(*                                                                           *)
(* The handler reads the largest change id first and the page in a later     *)
(* statement, with the writes of Messages in between; the reply may be lost. *)
(*****************************************************************************)
EXTENDS Messages

CONSTANTS
  Clients,  \* the users whose device syncs
  Legacy,   \* those that always resume with `since', not only the first time
  Limit     \* the page size they ask for; Sync replaces 0 by 50

ASSUME MessageSyncAssumption ==
  /\ Clients \subseteq Users
  /\ Legacy \subseteq Clients
  /\ Limit \in Nat \ {0}

VARIABLES
  cursor,   \* the nextCursor a client stored
  since,    \* the serverTime a legacy client stored
  resume,   \* which of the two its next call gives
  copy,     \* the messages on its device, by id
  calls     \* the calls of Sync under way, by client

syncVars == <<cursor, since, resume, copy, calls>>
allVars == <<members, joinedAt, messages, changes, userStates, receipts,
             updatedAt, clock, requests, cursor, since, resume, copy, calls>>

-------------------------------------------------------------------------------

\* A call between two statements of the handler, or its reply on the way.
IsCall(call) ==
  /\ call \in [stage : {"since", "list", "reply"}, after : Nat, before : Nat,
               serverTime : Nat, entries : {call.entries}, next : Nat,
               more : BOOLEAN]
  /\ IsTable(call.entries, MessageIds, Message)

SyncTypeOK ==
  /\ TypeOK
  /\ cursor \in [Clients -> Nat]
  /\ since \in [Clients -> Nat]
  /\ resume \in [Clients -> {"cursor", "since"}]
  /\ copy = [u \in Clients |-> copy[u]]
  /\ \A u \in Clients : IsTable(copy[u], MessageIds, Message)
  /\ calls = [u \in DOMAIN calls |-> calls[u]]
  /\ DOMAIN calls \subseteq Clients
  /\ \A u \in DOMAIN calls : IsCall(calls[u])

\* A device without a cursor starts with a timestamp from before all it can
\* receive.
SyncInit ==
  /\ Init
  /\ cursor = [u \in Clients |-> 0]
  /\ since = [u \in Clients |-> 0]
  /\ resume = [u \in Clients |-> "since"]
  /\ copy = [u \in Clients |-> NoRows]
  /\ calls = NoRows

-------------------------------------------------------------------------------
(* Reads of message_changes *)

\* COALESCE(MAX(id), 0): ids count from 1 without gaps.
CurrentMessageSyncCursor == Len(changes)

\* n = COALESCE(MAX(id), 0) of the changes with changed_at < time.
IsCursorBeforeTime(n, time) ==
  /\ n \in 0 .. Len(changes)
  /\ n > 0 => changes[n].changedAt < time
  /\ \A i \in n + 1 .. Len(changes) : changes[i].changedAt >= time

\* The user is a member of the conversation of m and did not delete m.
Shown(u, m) ==
  /\ m \in DOMAIN messages
  /\ u \in members[messages[m].conv]
  /\ ~ Hidden(u, m)

\* Mutant: the change at the cursor counts again.
BetweenInclusive(i, after, before) == i >= after /\ (before = 0 \/ i <= before)

\* mc.id > ? AND (? = 0 OR mc.id <= ?)
Between(i, after, before) == i > after /\ (before = 0 \/ i <= before)

\* The changes of the window that the user may see.
Window(u, after, before) ==
  {i \in 1 .. Len(changes) :
     Between(i, after, before) /\ Shown(u, changes[i].message)}

\* MAX(mc.id) GROUP BY message_id
LastChanges(window) ==
  {i \in window :
     \A j \in window : changes[j].message = changes[i].message => j <= i}

\* ORDER BY change_id ASC LIMIT n
FirstOf(set, n) == {i \in set : Cardinality({k \in set : k <= i}) <= n}

\* Mutant: the window counts as done after any page.
NextCursorOfWindow(page, found, before, next) == next = before

\* The cursor of the reply: the last change on the page when more were found
\* than fit, the end of the window otherwise.
IsNextCursor(page, found, before, next) ==
  IF page = found THEN next = before
  ELSE next \in page /\ \A i \in page : i <= next

-------------------------------------------------------------------------------
(* Actions *)

\* The first statement reads the end of the window.  A caller with a cursor
\* that lies beyond it is refused, another goes on from its cursor.
SyncBegin(u) ==
  /\ u \notin DOMAIN calls
  /\ resume[u] = "cursor" => cursor[u] <= CurrentMessageSyncCursor
  /\ calls' = Put(calls, u,
       [stage |-> IF resume[u] = "cursor" THEN "list" ELSE "since",
        after |-> IF resume[u] = "cursor" THEN cursor[u] ELSE 0,
        before |-> CurrentMessageSyncCursor,
        serverTime |-> clock, entries |-> NoRows, next |-> 0, more |-> FALSE])
  /\ UNCHANGED <<vars, cursor, since, resume, copy>>

\* MessageSyncCursorBeforeTime, for a caller with a timestamp.
SyncSince(u) ==
  /\ u \in DOMAIN calls /\ calls[u].stage = "since"
  /\ \E n \in 0 .. Len(changes) :
       /\ IsCursorBeforeTime(n, since[u])
       /\ calls' = Put(calls, u, [calls[u] EXCEPT !.stage = "list", !.after = n,
                                                 !.serverTime = clock])
  /\ UNCHANGED <<vars, cursor, since, resume, copy>>

\* ListMessagesSinceCursor: which messages, and their rows, in one statement;
\* serverTime was read since the statement before.
SyncList(u) ==
  LET call  == calls[u]
      found == LastChanges(Window(u, call.after, call.before))
      page  == FirstOf(found, Limit)
  IN /\ u \in DOMAIN calls /\ call.stage = "list"
     /\ \E next \in {call.before} \cup page, now \in call.serverTime .. clock :
          /\ IsNextCursor(page, found, call.before, next)
          /\ calls' = Put(calls, u,
               [call EXCEPT
                  !.stage = "reply", !.serverTime = now, !.next = next,
                  !.more = (page # found),
                  !.entries = [m \in {changes[i].message : i \in page} |->
                                 messages[m]]])
     /\ UNCHANGED <<vars, cursor, since, resume, copy>>

\* The client merges the page by message id and stores the cursor.  A legacy
\* client follows the cursors to the end of the window, then goes back to the
\* time of the last reply.
SyncReply(u) ==
  LET call == calls[u]
  IN /\ u \in DOMAIN calls /\ call.stage = "reply"
     /\ copy' = [copy EXCEPT ![u] = Merge(@, call.entries)]
     /\ cursor' = [cursor EXCEPT ![u] = call.next]
     /\ IF u \in Legacy /\ ~ call.more
        THEN /\ resume' = [resume EXCEPT ![u] = "since"]
             /\ since' = [since EXCEPT ![u] = call.serverTime]
        ELSE /\ resume' = [resume EXCEPT ![u] = "cursor"]
             /\ UNCHANGED since
     /\ calls' = Remove(calls, {u})
     /\ UNCHANGED vars

\* The call fails at some statement, or its reply is lost.
SyncLost(u) ==
  /\ u \in DOMAIN calls
  /\ calls' = Remove(calls, {u})
  /\ UNCHANGED <<vars, cursor, since, resume, copy>>

SyncNext ==
  \/ Next /\ UNCHANGED syncVars
  \/ \E u \in Clients :
       \/ SyncBegin(u)
       \/ SyncSince(u)
       \/ SyncList(u)
       \/ SyncReply(u)
       \/ SyncLost(u)

SyncSpec == SyncInit /\ [][SyncNext]_allVars

\* Each request of net/http has a goroutine of its own, so a call goes on; a
\* client calls again after a failure, and not every reply is lost.
SyncFairness ==
  \A u \in Clients :
    /\ WF_allVars(SyncBegin(u))
    /\ SF_allVars(SyncSince(u))
    /\ SF_allVars(SyncList(u))
    /\ SF_allVars(SyncReply(u))

FairSyncSpec == SyncSpec /\ SyncFairness

-------------------------------------------------------------------------------
(* Properties *)

\* The log has a change of the message after the n-th.
ChangedAfter(log, m, n) == \E i \in n + 1 .. Len(log) : log[i].message = m

ChangedSince(m, n) == ChangedAfter(changes, m, n)

\* What the device of u has to hold once it has seen the changes up to n.
UpToDate(u, n) ==
  \A m \in DOMAIN messages :
    /\ Shown(u, m)
    /\ ChangedSince(m, joinedAt[messages[m].conv][u])
    /\ ~ ChangedSince(m, n)
    => m \in DOMAIN copy[u] /\ copy[u][m] = messages[m]

\* "Use sync ... to recover missed data" (docs/sync.md), for a client that
\* resumes with nextCursor: a message whose changes all lie behind the cursor
\* is on the device exactly as the server has it, if the user may see it and it
\* changed since they joined.  No page limit, no write between the statements
\* of the handler and no lost reply makes the cursor pass over a change.
NoMissedChange == \A u \in Clients \ Legacy : UpToDate(u, cursor[u])

\* No cursor the server gave out lies beyond the changes it has: Sync never
\* refuses a client that resumes where it was told to.
CursorIsKnown == \A u \in Clients : cursor[u] <= Len(changes)

\* A client that resumes with its cursor has only used a timestamp to start.
StartsAtZero ==
  \A u \in Clients \ Legacy :
    since[u] = 0 /\ (resume[u] = "since" => cursor[u] = 0)

\* What makes NoMissedChange inductive.  A client with a cursor asks from that
\* cursor, and the reply on its way to it has the current row of each message
\* whose last change lies between that cursor and the next one.
CallCovers(u) ==
  LET call == calls[u]
  IN /\ call.stage = "since" => call.after = 0
     /\ call.after = cursor[u]
     /\ call.after <= call.before
     /\ call.before <= Len(changes)
     /\ call.stage = "reply" =>
          /\ \A m \in DOMAIN messages :
               /\ Shown(u, m)
               /\ ChangedSince(m, joinedAt[messages[m].conv][u])
               /\ ChangedSince(m, call.after)
               /\ ~ ChangedSince(m, call.next)
               => m \in DOMAIN call.entries
          /\ \A m \in DOMAIN call.entries :
               ~ ChangedSince(m, call.next)
               => m \in DOMAIN messages /\ call.entries[m] = messages[m]

CallsCover == \A u \in DOMAIN calls \ Legacy : CallCovers(u)

SyncInv ==
  /\ SyncTypeOK
  /\ StartsAtZero
  /\ CursorIsKnown
  /\ \A u \in DOMAIN calls :
       /\ calls[u].before <= Len(changes)
       /\ calls[u].stage = "reply" => calls[u].next <= Len(changes)
  /\ CallsCover
  /\ NoMissedChange

\* docs/sync.md: legacy clients "may still reuse it [serverTime] as the next
\* since value".  A change stamped before serverTime may get its id after the
\* window was cut; the next call starts behind it.
LegacyNoMissedChange ==
  \A u \in Legacy : resume[u] = "since" =>
    \A n \in 0 .. Len(changes) :
      IsCursorBeforeTime(n, since[u]) => UpToDate(u, n)

\* docs/messages.md: "Reconnect sync also returns edited and recalled messages".
\* A message the device already has is refreshed by the time the cursor has
\* passed its last change, also for a member who was away from the group.
HeldMessagesAreRefreshed ==
  \A u \in Clients \ Legacy : \A m \in DOMAIN copy[u] :
    Shown(u, m) /\ ~ ChangedSince(m, cursor[u]) => copy[u][m] = messages[m]

\* A client that keeps calling gets past every change.
EveryChangeIsReached ==
  \A u \in Clients, n \in 1 .. MaxChanges :
    Len(changes) >= n ~> cursor[u] >= n
===============================================================================
