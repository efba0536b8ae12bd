# A verification project for chatp2p

TLA+ models of the chat server in `src/`, the TLC configurations that check them,
and theorems about them that TLAPS proves. Paths below are relative to the
repository's `src/`.

## The system

One process serves HTTP and WebSocket requests over one SQLite database.
`internal/httpapi` decodes requests and calls the services of
`internal/service`, which check and then write through `internal/store`; after a
write the handlers of `internal/httpapi` publish events through
`internal/realtime`. Every request runs in a goroutine of its own.

| Component | Sources | State | Operations | Hard parts | Modules |
|---|---|---|---|---|---|
| Messages | `service/messages.go`, `store/messages.go` | `messages`, `message_changes`, `message_user_states`, `read_receipts`, `conversations.updated_at` | send, quote, edit, recall, forward, delete for me, favorite, unfavorite, mark read | check in one statement, write in another; batches; times read before the commit | `Messages`, `ChangeLog` |
| Message sync | `service/messages.go` (`Sync`), `store/messages.go` | the log `message_changes`; the client's cursor | `GET /sync` by cursor or by time, paging | window and page read by different statements; lost replies; members who come and go | `MessageSync` |
| Social graph | `service/social.go`, `store/social.go` | `friend_requests`, `friendships`, `user_blocks`, direct conversations | request, accept, decline, unfriend, block, unblock, open a direct conversation | two to four checks before each write; two transactions in one request | `SocialGraph`, `SocialSerial`, `Friendships`, `FriendGraph` |
| Group conversations | `service/social.go`, `store/group_conversations.go` | groups with owner, title and members' roles | create, rename, transfer, add, remove, leave | ownership that changes between check and write | `GroupConversations`, `GroupSerial` |
| Realtime hub | `realtime/hub.go`, `httpapi/websocket.go`, `httpapi/realtime.go` | connections, their channels, an RWMutex | connect, disconnect, publish, presence | lock order, closing channels, full channels, announcements outside the lock | `RealtimeHub` |
| Conversation list and settings | `service/messages.go`, `store/messages.go` | the settings columns of `conversation_members` (migrations/0009), `conversations.updated_at` | pages of the list, pin, mute, archive | keyset paging while the order moves | `ConversationList` (partly) |
| Accounts | `service/auth.go`, `store/sqlite.go`, `auth/` | `users`, tokens | register, login, change the profile | racing registrations; read, change, write back | `Accounts` (partly) |
| Message history | `store/messages.go`, `service/messages.go` | none of its own; the client's cursor | pages of a conversation, the last message of a list item | keyset paging over equal times while messages are hidden and sent; two statements that have to agree | `MessageHistory` |
| Order of published events | `httpapi/messages.go`, `realtime/hub.go` | none; what is in a channel, what a device shows | publish after commit, deliver, merge with a sync | order of events against order of commits; batches that end half way; full channels | `Delivery`, `ChangeLog` (partly) |
| Storage and migrations | `storage/storage.go`, `migrations/`, `cmd/server` | `schema_migrations`, every table | open, migrate, serve | a stop between two migrations; two servers that start together; cascades of a dropped table | `Migrations` |
| Stickers, HTTP layer, configuration, ids, the in-memory store | | none that changes while serving, or used by tests only | | | not modelled |

Two facts about the database carry through all the models:

- `storage.Open` calls `SetMaxOpenConns(1)`, so a statement outside a transaction
  is atomic, a transaction is atomic, and they all happen in one order, which is
  also the order of AUTOINCREMENT ids. Between two statements of a handler every
  other handler may run. One action of a model is one statement or transaction.
- A handler can end at any statement: a check fails, the client goes away and its
  context is cancelled, the database reports an error, the process stops. The
  `Abort` (in `MessageSync` `SyncLost`) actions are all of these. What is in
  SQLite survives a restart; handlers and connections do not, so a restart is an
  abort of every handler, and for the hub it is `Init`. `Migrations` has the stop and
  start of whole processes.

## The modules

`Tables` has `Put`, `Merge` and `Remove` for tables as functions from keys to
rows. It is the only helper module; sequences, cardinality and the like come from
the standard modules.

**`Messages`**: the tables as functions, `changes` as the log of
`message_changes`, `clock` for `time.Now` in milliseconds and `requests` with the
handlers between two statements. A request keeps what the code keeps: its
arguments, the element of the batch it is at, the body it read for a forward, and
from when its `s.now()` may be (`at`; the write picks any time from there to now).
`Begin` is `requireConversationMember`, `FindVisible`/`FindForwarded`/
`FindEditable`/`CheckTarget` are the reads, and one action per operation is the
transaction that writes. `AddMember` and `RemoveMember` stand for the group
operations.

**`ChangeLog`** is what the rest of the system sees of `Messages`: each commit puts
one row and appends its message to the log. `Messages` implements it
(`ImplementsChangeLog`, checked and proved), and `Delivery` extends it, so what is
shown of delivery holds above any such log.

**`MessageHistory`** extends `Messages` with devices that walk a conversation's
history. `AskPage` is the membership check of every page, `ListPage` the
statement with `messageListCursorWhere`, and the page after starts behind the
oldest message shown. `LastMessages` is the statement of a list item's last
message, which has conditions of its own.

**`Delivery`** has handlers that commit, read the message back, and publish, each in a
step of its own, and devices that connect, receive, and sync. `ReadBack` is
`FindMessageByID` after the transaction; a batch of forwards publishes only after
its last message. A message is the version it has, the id of its last change. The
device does what docs/frontend.md says: it shows the message of an event or of a
sync reply by id. The members of the conversation stay, and a sync has one page:
`MessageSync` has the pages and the members, `RealtimeHub` the connections.

**`MessageSync`** extends `Messages` with clients as docs/sync.md describes them.
`SyncBegin` reads the end of the window, `SyncSince` the cursor for a timestamp,
`SyncList` the page, `SyncReply` is the reply that arrives and `SyncLost` the one
that does not. Clients start with a timestamp and go on with `nextCursor`; those
in `Legacy` go back to `serverTime` after each window.

**`SocialGraph`** has a table of the statements each operation runs in turn
(checks, then writes) and one action per kind of statement. **`Friendships`** is
what the rest of the system sees of it: a set of friends and a set of blocks with
four moves. `GroupConversations` and `RealtimeHub` extend `Friendships`, and
`SocialGraph` implements it (`ImplementsFriendships`, proved). **`FriendGraph`**
is the stricter picture docs/social.md draws, in which a pair of users is strangers,
requested, friends or blocked. **`SocialSerial`** adds to `SocialGraph` a history
variable that says whether handlers have overlapped; as long as they have not,
`FriendGraph` is implemented (`ImplementsFriendGraph`) and the rows of a pair agree
(`PairsAreConsistent`); both are proved. One run explores both kinds of behaviour.

**`GroupConversations`**: `Begin` and `FindGroup` (the conversation with its
members, and what the handler asks of it), `CheckMember`, `CheckFriends` and
`CheckBlocks` in a loop over the users named, then the write. `Social` moves
friends and blocks under it. **`GroupSerial`** adds the same kind of history
variable: whether anything, another handler or a friendship, moved beside a
handler.

**`RealtimeHub`**: connections go through accept, `register`, the announcement,
serving, `unregister`, the announcement. `Publish` takes the read lock, sends to
the channels one by one and drops what does not fit; `MayLock` is the RWMutex.
Each connection has what its device was last shown of each user.

**`ConversationList`**: `updated` and the settings order the conversations; a
walk takes pages by cursor while `writes` are under way. The clock counts
seconds, as `updated_at` does.

**`Accounts`**: users by id with the normalized name, a password and a profile;
tokens with an expiry; handlers of register, login and profile changes between
their statements.

**`Migrations`**: `Check` is `migrationApplied`, `Execute` the statements of a file
inside the write transaction, `Commit` the INSERT of its version. `Effect` says
what the files do to rows; 0005, 0010 and 0011 move some. `Stop` is a crash or an
error anywhere, `Install` a newer release, and a process that serves creates
conversations, messages and receipts between two releases.

An `MC` module per component gives constants their values and the symmetry.
Configurations are named after the MC module.

## The runs

| Run | Configuration | Checked | What it shows |
|---|---|---|---|
| `messages` | `MCMessages` | `TypeOK`, `RecalledIsFinal`, `RecalledHasNoBody`, `RecalledStaysOut`, `ImplementsChangeLog` | No race of edits, recalls, quotes and forwards rewrites a recalled message or copies its empty body, only requests that tested a message before its recall make something of it after, and every commit is one entry of the log |
| `history` | `MCMessageHistory` | `HistoryTypeOK`, `HistoryIsListedOnce`, `PreviewIsNewest`, `DeletedForMeIsFinal`, `ReadAtOnlyGrows`, `ReadThroughIsRead` | Paging lists what stayed once, over equal milliseconds and hidden cursors; preview and history agree; deleting, favoriting and marking read at once undo no deletion and no receipt |
| `sync` | `MCMessageSync` | `SyncTypeOK`, `NoMissedChange`, `EveryChangeIsReached` | A cursor never passes a change the client has not got, and a client that keeps calling gets past every change |
| `social` | `MCSocial` | `TypeOK`, `AcceptedAreFriends`, `OneDirectPerPair`, `ImplementsFriendships`, `PairsAreConsistent`, `ImplementsFriendGraph` | What holds of two users whatever three handlers do at once, and what docs/social.md promises of three while handlers come one at a time |
| `groups` | `MCGroups` | `TypeOK`, `OnlyOwnersHaveTheRole`, `OwnersManage` | Two handlers on one group leave one owner's role; as long as they do not overlap the owner stays a member and alone manages |
| `hub_presence` | `MCHubPresence` | `TypeOK`, `SendsAreOpen`, `PresenceIsTrue` | No send on a closed channel; a device that got the latest announcement of a friend last shows whether they are online, however announcements, connections and friendships overlap |
| `hub_live` | `MCHubLive` | `HubNeverStalls` | However slow devices are, connecting, announcing and disconnecting end |
| `list_pages` | `MCList` | `TypeOK`, `WalksAreComplete`, `NothingIsRepeated` | Paging lists every conversation that did not move exactly once |
| `accounts` | `MCAccounts` | `TypeOK`, `SessionsAreEarned`, `OnlyStaleWritesUndo` | No token without the password of its account, whoever loses the race for a name; a profile change undoes another one only if it read the profile before |
| `delivery` | `MCDelivery` | `DeliveryTypeOK`, `MissedIsRecovered`, `OrderlyIsRecovered` | What full channels, lost connections and failed batches keep from a device, its sync brings; without overlap nothing older is left on the screen |
| `migrations` | `MCMigrations` | `MigrationsTypeOK`, `SchemaIsComplete`, `MessagesAreLogged`, `RowsAreKeptSince0005` | A file takes effect once wherever two processes stop, a server serves a complete schema, and upgrades from 0005 on keep every row and log every message |
| `migrations_upgrade` | `MCMigrationsUpgrade` | `MessagesStayPersisted`, violated | The upgrade to 0005 of a database with messages deletes them, and the members |

The last run is a finding. 0005 copies `conversations`, drops the table and renames
the copy. The connection has `PRAGMA foreign_keys = ON`, so SQLite deletes the rows
of a dropped table first, and `ON DELETE CASCADE` takes the members and messages of
0003 and 0004 with them; `PRAGMA defer_foreign_keys` defers the check of a
reference, not a cascade. 0011 saves what refers to `messages` before it drops it,
and loses nothing.

Every property of a passing run has a mutant in `PROJECT.json`: an operator
beside the original (commented `Mutant`) with the slip it guards against, such as
a transaction that does not test `recalled_at` again or an upsert without its
WHERE.

### Further disagreements between the documents and overlapping handlers

These properties stand in the modules and are in no configuration. Adding one to
the configuration named here gives its counterexample within seconds.

| Property | Document | Configuration | What happens |
|---|---|---|---|
| `RecalledIsNotReused` | docs/messages.md:66 | `MCMessages` | A recall commits between the test of `recalled_at` and the transaction that stores a forward or a favorite |
| `PostedByMember` | docs/messages.md:3 | `MCMessages` with `Groups = {c1}` | A member removed after the check still posts |
| `ActivityNeverMovesBack` | docs/conversations.md:26 | `MCMessages` without its constraint, `MillisPerSecond = 1` | The later commit stores the earlier time |
| `LegacyNoMissedChange` | docs/sync.md:34 | `MCMessageSync` with `SyncSpec`, `Legacy = {u1}`, `Groups = {}`, `Operations = {"send"}`, `MaxClock = 2` | A client that resumes with `serverTime` skips a change stamped before and committed after |
| `HeldMessagesAreRefreshed` | docs/messages.md:98 | `MCMessageSync` | A recall made while a member is away from a group is passed over for good |
| `SyncedIsCurrent` | docs/frontend.md:39, docs/sync.md:3 | `MCDelivery` | Two handlers read back and publish in the other order than they committed, or an event is read after the reply of a sync: the older version stays, and no later sync brings the newer one |
| `BlockedAreUnrelated` | docs/social.md:28 | `MCSocial` | An accept that read the blocks before a block commits after it |
| `OnePendingPerPair` | docs/social.md:16 | `MCSocial` | Two requests cross |
| `FriendsHaveNoPending` | docs/social.md:16 | `MCSocial` | A request that read no friendship is written after the accept of one that crossed it |
| `[][KeepsAnswers]_vars` | docs/social.md:14 | `MCSocial` | An accept and a decline overlap, and the later answer replaces the earlier |
| `FriendsByRequest` | docs/social.md:22 | `MCSocial` | An accept overlaps the removal of the friend and brings them back |
| `AcceptedHaveConversation` | docs/social.md:34 | `MCSocial` | An accept ends between its two transactions |
| `OwnerIsMember` | docs/conversations.md:72 | `MCGroups` | A member who is made the owner while leaving is gone as the owner, and nobody can manage the group again |
| `ManagedByOwner` | docs/conversations.md:72 | `MCGroups` | The previous owner's write commits after the transfer |
| `AddedAreFriends` | docs/conversations.md:72 | `MCGroups` | A friendship ends, or a block is set, between check and INSERT |
| `PresenceReachesFriends` | docs/websocket.md:38 | `MCHubPresence` | A full channel drops the announcement, and nothing sends it again |
| `PresenceReachesFriends` | docs/websocket.md:38 | `MCHubPresence` with `QueueSize = 2`, `ListFails = FALSE`, `Moves = {"befriend"}` | An offline announcement, made after the lock is released, is overtaken by that of a new connection, and friends see the user offline |
| `FieldsAreKept` | docs/authentication.md:10 | `MCAccounts` | The second of two profile changes writes back what it read of the other's field |

Most of them take the overlap of two handlers. The properties of social.md but
`AcceptedHaveConversation` are what `PairsAreConsistent` and
`ImplementsFriendGraph` say of handlers that do not overlap, and those of groups
what `OwnersManage` says. What is left of `RecalledIsNotReused` with overlapping
handlers is `RecalledStaysOut`: the requests that had tested a message when its
recall committed, and no others, can still favorite, quote or forward it. What is
left of `FieldsAreKept` is `OnlyStaleWritesUndo`: only a handler that read a field
before it was last set can undo that. `SyncedIsCurrent` is proved for handlers that
do not overlap and lose no event. docs/conversations.md:64 also says that owner
transfer is not implemented, against its own line 67 and the code.

### Bounds

Counters are capped in guards: `MaxChanges` rows of the change log, `MaxClock`
and `MaxTime` ticks, `MaxBlocks` blocks at one time, one batch of `MaxBatchSize`
or `MaxTargets`. Tables are capped by the ids an instance has.

| Run | Instance |
|---|---|
| `messages` | 1 user in 2 conversations, 3 messages, 3 changes, 2 handlers, batches of 2; once there are two changes, time and the states users keep stay out (constraint `Bounded`) |
| `history` | 2 users, one who sends and one who walks and reads, 1 conversation, 2 messages, pages of 1, 2 handlers, 2 instants |
| `sync` | 1 client in 1 group, 2 messages, 3 changes, pages of 1, 1 handler beside the client |
| `social` | 3 handlers, 2 requests, 2 direct conversations; 3 users while handlers come one at a time, 2 once they overlap |
| `groups` | 3 users, 1 group, 2 handlers, 1 user named per call, 1 block |
| `hub_presence` | 2 users who become friends and cease to be, 3 connections, channels of 1; no publishers, whose events `hub_live` and the proof have |
| `hub_live` | 2 users, 2 connections, 1 publisher, channels of 1 |
| `list_pages` | 3 conversations, pages of 1 or 2, 1 writer that pins and unpins, 2 seconds |
| `accounts` | 3 ids, 3 spellings of 2 names, 2 passwords, 2 handlers |
| `delivery` | 1 device, 2 handlers, 2 messages, 4 changes, batches of 2, channels of 2 |
| `migrations`, `migrations_upgrade` | 2 processes, 1 conversation, 2 messages, the 12 files in the releases 4, 5, 9, 10 and 12 |

They are enough for the cases the properties are about: each hazard takes two
handlers, one of them stopped between its check and its write, and one boundary:
two equal times, a full channel, a page that ends in the middle, a batch with an
element left. Two users suffice for a relation of a pair, and the third is there
where one takes something over from another. The proofs below lift the
safety properties of every passing run to any number of everything.

Archiving is left out of `list_pages` for its size; the same properties hold with
`Convs = {1, 2}` and `Asked <- Changes`, which pins, unpins, archives and restores
(300,821 states).

Users, ids and handlers are interchangeable and taken up to symmetry in the
safety runs (in `social` not the third user, in `history` only handlers, because
ids have an order there); runs with a liveness property have no symmetry. `CHECK_DEADLOCK`
stays on: a new request, or the abort of one, is possible in every state.

A user may come back while the announcement that they left is on its way. Two
history fields of a connection of `RealtimeHub` say what that does to a device:
`overtaken` marks an announcement that began before another one of the same user,
and `missed` has the users whose latest announcement did not reach the device (its
channel was full, the friends could not be read, its user was no friend then) or
was followed by an overtaken one. `PresenceIsTrue` is about the other users;
`PresenceReachesFriends`, without that condition, is broken (see above).

### Fairness

`FairSyncSpec`: the client keeps calling (weak fairness of `SyncBegin`), and a
call that is tried again and again gets through each of its statements once in a
while (strong fairness of `SyncSince`, `SyncList`, `SyncReply`). net/http gives
each request a goroutine that runs on, docs/sync.md tells the client to call
again, and not every reply is lost. Nothing is assumed of those who write.

`LiveSpec` of the hub: a goroutine that can run does (weak fairness of
publishing and delivering), and a writer that waits for the lock gets it if the
lock is free again and again (strong fairness of `Register` and `Unregister`: the
`sync.Mutex` under an RWMutex hands itself to a waiter that was passed over for
long). Nothing is assumed of devices: they may never read, or never go.

## The proofs

Each `*_proofs` module extends the modules it is about. Every safety property that
a passing run checks, invariant or action property, is a theorem. The assumptions
are the named `ASSUME`s beside the constants: ids and null values that differ, positive
page and batch sizes.

- **`Messages_proofs`**: `TypeCorrect` by an invariant that is the type invariant
  with what each handler knows of its batch (`RequestsOK`). `RecallIsFinal`,
  `DeletionIsFinal` and `ReadAtGrows` follow action by action: only edits and
  recalls write a row, and both test `recalled_at` inside the transaction; only
  `WithoutFavorite` removes a user's row, and never a deleted one; the upsert
  compares times. `RecalledAreEmpty` needs `BodiesOK`: a forward carries the body
  of a message that was not recalled when it was read, so a copy is never born
  empty. `ChangesAreLogged` is the refinement of `ChangeLog`: a step that writes a
  row logs that row's message and no other. `RecallReachesEveryone` shows that the
  table above names the only way to reuse a recalled message, for handlers that
  overlap in any way: a statement that reads a recalled message ends its request
  (`ReadsTestRecalled`), so nobody comes to hold a test of it any more
  (`StaysUntested`), and every quote, favorite and copy is of a message whose test
  its request holds (`QuotesAreTested`, `FavoritesAreTested`).
- **`Messages_proofs`**, second part, on `MessageSync`: `NothingIsMissed` from
  `SyncInv`. `NoMissedChange` alone is not inductive: a reply on its way has to
  bring what lies between the client's cursor and the next one. `CallCovers` says
  that it does, and that what it brings is current unless a later change is
  logged, which the client will then get. `PageCovers` is the lemma about pages: the
  messages of the window whose last change lies up to the new cursor are on the
  page, wherever the limit cuts it. `LogGrows`, `NotWritten` and `StillShown` say
  what steps of other handlers can do: they only append to the log, a row that is
  written is logged, and what becomes visible does so by joining, which `joinedAt`
  tells. `CursorsAreKnown` comes from the same invariant.
- **`Messages_proofs`**, third part, on `MessageHistory`: `OlderOrders` says that
  created_at with the id for equal times is a strict order, and
  `CursorFollowsOrder` that the WHERE clause built from a cursor follows it. A page
  is what has few messages above it: it is closed upwards (`NewestIsUpClosed`), and
  when the statement that asks for one row more than the page finds no more, the
  page is all there was (`ShortPageIsLast`). `HistoryInv` says of a walk that it has
  listed what it has passed of the messages that were there all along
  (`Reached`); `EveryMessageIsListedOnce`, `PreviewIsAlwaysNewest` and
  `ReadingCoversHistory` follow. A message deleted for the user in the middle of a
  walk takes nothing from it but itself, also when the cursor points to it.
  `HistoryImplementsMessages` carries the theorems of `Messages` over.
- **`Delivery_proofs`**: `MissedChangesAreRecovered` from `DeliveryInv`, whose parts
  say that no event, reply or copy is newer than the row (`StorageOK`,
  `HandlersOK`, `QueuesOK`), that a device has once shown every message up to its
  cursor (`DevicesOK`), and that a reply under way brings what lies between
  cursor and window as it is or is changed later (`CallsOK`). Any number of devices,
  handlers and messages, any channel. `OrderlyChangesAreRecovered` is about what a
  device shows now and needs `RecoveryInv`: as long as nothing overlapped
  (`orderly`), the version a device is to end with is on its screen, or comes in its
  channel or its reply (`Reaches`), and is the last of its message to come
  (`EndsCurrent`). `OrderlySyncedIsCurrent` draws the conclusion the documents
  state: `SyncedIsCurrent`, which the table above refutes, fails only after two
  handlers overlapped or an event was lost.
- **`SocialGraph_proofs`**: `FriendshipIsMutual`,
  `AcceptedRequestsAreFriendships` and `DirectConversationIsUnique` from an
  invariant that adds to the types what an answering handler still knows of the
  request it read. `SocialImplementsFriendships` maps the two rows of a
  friendship to a pair: every statement is a move of `Friendships` or a stutter.
  `PairsStayConsistent` is about `SocialSerial`: `SerialInv` says that the tables
  agree on every pair (`TablesAgree`) and that the one handler's checks still hold
  when it writes (`Tested`). `SocialImplementsFriendGraph` uses the same invariant:
  the four relations of a pair are read off its rows (`RelationOfPair`), a statement
  touches the rows of one pair only (`MovesOnePair`), and what it has tested says
  which relation that pair leaves.
- **`GroupConversations_proofs`**: `OneOwnerRole` is inductive together with the
  types; `OwnershipPassesBetweenMembers` follows from what the transaction tests.
  `OwnersManageTheirGroups` is about `GroupSerial`: what a handler has checked of
  owner, friends and blocks (`Checked`) still holds when it writes.
- **`RealtimeHub_proofs`**: `NoSendOnClosed`: whoever publishes holds the read
  lock and has only open channels left to send to; `MayLock` keeps `Unregister`
  out meanwhile. `PresenceIsTold` from `PresenceInv`: of every other user an open
  connection hears the truth or nothing, or misses the latest, or an announcement
  that is not overtaken is still to tell it (`Knows`): its friends are not read
  yet, or the connection is one it is for (`WillTell`). An announcement that is not
  overtaken says how it is (`ServesOK`), because the lock that changes whether a
  user is online also begins the next announcement, which overtakes the others
  (`UnlockTells`). Nothing is assumed of how connections, announcements and
  friendships overlap.
- **`ConversationList_proofs`**: `CursorFollowsOrder` says that the WHERE clause
  built from a cursor and the ORDER BY agree; from it `ListIsComplete`,
  `ListHasNoRepeats` and `CursorsGoDown`, by an invariant that says of each walk
  that what lies above its cursor and did not move is listed once.
- **`Server_proofs`**, on `Accounts`: `EverySessionIsEarned`: a handler that issues
  a token has created the account it names, or has compared its password.
  `UndoingNeedsAStaleRead`: what a change writes into a field it does not name is what
  it read there, so it undoes only what was set since; and only such a write makes
  a handler stale.
- **`Server_proofs`**, on `Migrations`: each server applies the files in order
  (`InOrder`), and what the one open transaction is about to commit is still the
  effect of its file on the rows as they are (`TxOK`), so no file runs twice and no
  row written meanwhile is lost. Hence `SchemaIsAlwaysComplete`,
  `MessagesAreAlwaysLogged` and `RowsAreAlwaysKeptSince0005`, for any number of servers and
  any sequence of releases. `NothingIsLostFrom0005On` is the finding from the other
  side: `MessagesStayPersisted`, which `migrations_upgrade` refutes, holds of every
  database whose first release had 0005.
- **`Tables_proofs`**: what `Put`, `Merge` and `Remove` keep of a table's type, and
  that a set of numbers has a least element, and a bounded one a greatest.

Only model-checked: `EveryChangeIsReached` and `HubNeverStalls`. Liveness under
fairness, and the ENABLED it is defined by, are beyond the prover.

No module has RECURSIVE operators.

## What is not modelled

- The text of messages, names and stickers: bodies are model values. Time is
  counted in a few instants.
- Conversation summaries in a sync reply; the members and unread counts of a list
  item; the preview of a quoted message, which a device may hold after the quoted
  message was recalled.
- The `before` filter of the history, which compares with a time instead of a
  message.
- Token signatures, bcrypt, the cost of hashing: tokens and passwords are told
  apart.
- `message.read`, `conversation.updated` and typing events: they change no message
  a device shows. For the hub they are one event that is not about presence.
- Stickers, HTTP layer, configuration: no state of their own that changes while the
  server runs. The in-memory user store is used by tests only. Random ids are
  taken to be unique.

## The plan

In the order of what they would add:

1. Unread counts in `ConversationList`, against receipts and deletions; sessions
   against profile changes in `Accounts`.
2. `message.read` events and members who come and go in `Delivery`, and pages in
   its sync.
3. The members of `Messages` as a refinement of `GroupConversations`.
4. Proofs: the properties of handlers that take turns (`PairsAreConsistent`,
   `OwnersManage`) as what is left of them when handlers overlap, as
   `RecalledStaysOut` is of `RecalledIsNotReused`.
