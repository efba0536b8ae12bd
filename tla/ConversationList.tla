--------------------------- MODULE ConversationList ---------------------------
(*****************************************************************************)
(* The list of a user's conversations and the settings that order it:        *)
(* ListConversations and UpdateConversationSettings of internal/service/     *)
(* messages.go and internal/store/messages.go.                               *)
(*                                                                           *)
(* One user is enough: every statement here looks at the member rows of one  *)
(* user, and the other members are whatever else moves a conversation.  The  *)
(* user's devices walk the list page by page, each page asked for with the   *)
(* cursor of the one before, while conversations are written to, pinned,     *)
(* archived, joined and left.  muted_until and what a page shows of each     *)
(* conversation are left out: no page depends on them.                       *)
(*****************************************************************************)
EXTENDS Integers, FiniteSets, Tables

CONSTANTS
  Convs,    \* ids of the conversations, in the order SQLite gives them
  Devices,  \* devices of the user that walk the list
  Writers,  \* handlers that write to conversations or member rows
  Limits,   \* page sizes the devices ask for (1 to 100, 50 by default)
  Asked,    \* changes of settings that are asked for
  MaxTime   \* bound: the last second of the clock

ASSUME ListAssumption ==
  /\ Convs \subseteq Nat \ {0} /\ IsFiniteSet(Convs)
  /\ Limits \subseteq Nat \ {0}
  /\ MaxTime \in Nat \ {0}

\* NULL in pinned_at, and the absent "before" of a request.
NoTime == 0

\* A setting of a PATCH: absent, true or false.
Settings == {"keep", "set", "clear"}
NoChange == [pinned |-> "keep", archived |-> "keep"]
Changes == [pinned : Settings, archived : Settings] \ {NoChange}

ASSUME AskedAssumption == Asked \subseteq Changes

VARIABLES
  updated,  \* updated_at of each conversation, in seconds
  members,  \* the rows of conversation_members of the user
  now,      \* the clock, in seconds
  writes,   \* what each writer is doing
  walks     \* how far each device is through the list

vars == <<updated, members, now, writes, walks>>

-------------------------------------------------------------------------------
(* Types *)

Times == 0 .. MaxTime
Member == [pinnedAt : Times, archived : BOOLEAN]

\* at is the time the handler read before its first statement.
NoWrite == [op |-> "idle", conv |-> 0, change |-> NoChange, at |-> 0]
Write ==
  {NoWrite} \cup
  [op : {"touch", "add", "remove", "settings"},
   conv : Convs, change : Changes \cup {NoChange}, at : Times]

\* What the list is ordered by, and what a cursor holds.
Key == [pinnedAt : Times, updatedAt : Times, id : Convs]
NoCursor == [pinnedAt |-> NoTime, updatedAt |-> 0, id |-> 0]

\* Beside the cursor and the filter of its requests, three histories: the
\* conversations listed so far, those listed more than once, and those that are
\* still what they were, in the list and in the same place, when it began.
Walk ==
  [stage : {"idle", "paging", "done"}, includeArchived : BOOLEAN,
   cursor : Key \cup {NoCursor}, listed : SUBSET Convs,
   twice : SUBSET Convs, still : SUBSET Convs]
NoWalk ==
  [stage |-> "idle", includeArchived |-> FALSE, cursor |-> NoCursor,
   listed |-> {}, twice |-> {}, still |-> {}]

\* The tables, writers and walks hold what their columns and fields hold; only a
\* walk that is not over has a cursor, and the cursor names a conversation.
TypeOK ==
  /\ updated \in [Convs -> Times]
  /\ IsTable(members, Convs, Member)
  /\ now \in Times
  /\ writes \in [Writers -> Write]
  /\ walks \in [Devices -> Walk]
  /\ \A d \in Devices : walks[d].stage = "paging" => walks[d].cursor \in Key

\* Conversations exist and the user is in some of them.
Init ==
  /\ now = 1
  /\ updated = [c \in Convs |-> 1]
  /\ \E joined \in SUBSET Convs :
       members = [c \in joined |-> [pinnedAt |-> NoTime, archived |-> FALSE]]
  /\ writes = [w \in Writers |-> NoWrite]
  /\ walks = [d \in Devices |-> NoWalk]

-------------------------------------------------------------------------------
(* The order of the list and its cursors *)

KeyOf(c) ==
  [pinnedAt |-> members[c].pinnedAt, updatedAt |-> updated[c], id |-> c]

\* ORDER BY (pinned_at IS NOT NULL) DESC, pinned_at DESC, updated_at DESC, id DESC.
Before(a, b) ==
  \/ a.pinnedAt # NoTime /\ b.pinnedAt = NoTime
  \/ /\ a.pinnedAt # NoTime /\ b.pinnedAt # NoTime
     /\ a.pinnedAt > b.pinnedAt
  \/ /\ a.pinnedAt = b.pinnedAt
     /\ a.updatedAt > b.updatedAt
  \/ /\ a.pinnedAt = b.pinnedAt
     /\ a.updatedAt = b.updatedAt
     /\ a.id > b.id

AfterPinned(key, cursor) ==
  \/ key.pinnedAt = NoTime
  \/ /\ key.pinnedAt # NoTime
     /\ \/ key.pinnedAt < cursor.pinnedAt
        \/ /\ key.pinnedAt = cursor.pinnedAt
           /\ key.updatedAt < cursor.updatedAt
        \/ /\ key.pinnedAt = cursor.pinnedAt
           /\ key.updatedAt = cursor.updatedAt
           /\ key.id < cursor.id

AfterUnpinned(key, cursor) ==
  /\ key.pinnedAt = NoTime
  /\ \/ key.updatedAt < cursor.updatedAt
     \/ key.updatedAt = cursor.updatedAt /\ key.id < cursor.id

\* Mutant: the clause for a pinned cursor forgets the conversations without a pin.
AfterCursorInPins(key, cursor) ==
  IF cursor.pinnedAt # NoTime
  THEN key.pinnedAt # NoTime /\ AfterPinned(key, cursor)
  ELSE AfterUnpinned(key, cursor)

\* Mutant: the clause for a cursor without a pin lets the pinned ones in again.
AfterCursorByTime(key, cursor) ==
  IF cursor.pinnedAt # NoTime
  THEN AfterPinned(key, cursor)
  ELSE AfterUnpinned([key EXCEPT !.pinnedAt = NoTime], cursor)

AfterCursor(key, cursor) ==
  IF cursor.pinnedAt # NoTime THEN AfterPinned(key, cursor)
                              ELSE AfterUnpinned(key, cursor)

\* The conversations of the default list, or with the archived ones.
Listable(includeArchived) ==
  {c \in DOMAIN members : includeArchived \/ ~members[c].archived}

-------------------------------------------------------------------------------
(* Writers *)

\* What is left of the walks once the member rows and times are as primed: a
\* conversation that moved, was archived or was left is no longer still.
StillThere(walk) ==
  {c \in walk.still :
     /\ c \in DOMAIN members'
     /\ walk.includeArchived \/ ~members'[c].archived
     /\ members'[c].pinnedAt = members[c].pinnedAt
     /\ updated'[c] = updated[c]}

Watched == walks' = [d \in Devices |->
                       [walks[d] EXCEPT !.still = StillThere(walks[d])]]

\* A handler reads the clock; PATCH settings has then checked the membership.
Begin(w) ==
  /\ writes[w].op = "idle"
  /\ \E op \in {"touch", "add", "remove", "settings"}, c \in Convs,
        change \in Asked \cup {NoChange} :
       /\ op = "settings" <=> change # NoChange
       /\ op = "settings" => c \in DOMAIN members
       /\ writes' = [writes EXCEPT ![w] =
            [op |-> op, conv |-> c, change |-> change, at |-> now]]
  /\ UNCHANGED <<updated, members, now, walks>>

Finish(w) == writes' = [writes EXCEPT ![w] = NoWrite]

\* A message, an edit, a recall, a rename or a transfer: UPDATE conversations
\* SET updated_at, to the time the handler read, whatever is there.
Touch(w) ==
  /\ writes[w].op = "touch"
  /\ updated' = [updated EXCEPT ![writes[w].conv] = writes[w].at]
  /\ Finish(w)
  /\ UNCHANGED <<members, now>>
  /\ Watched

\* The user is added to a group: a row without settings, unless there is one.
AddConversationMembers(w) ==
  /\ writes[w].op = "add"
  /\ writes[w].conv \notin DOMAIN members
  /\ members' = Put(members, writes[w].conv,
                    [pinnedAt |-> NoTime, archived |-> FALSE])
  /\ updated' = [updated EXCEPT ![writes[w].conv] = writes[w].at]
  /\ Finish(w)
  /\ UNCHANGED now
  /\ Watched

\* The user leaves or is removed: the row and its settings are gone.
RemoveConversationMember(w) ==
  /\ writes[w].op = "remove"
  /\ writes[w].conv \in DOMAIN members
  /\ members' = Remove(members, {writes[w].conv})
  /\ updated' = [updated EXCEPT ![writes[w].conv] = writes[w].at]
  /\ Finish(w)
  /\ UNCHANGED now
  /\ Watched

\* The SET clauses of a change: only the fields it names.
Changed(row, change, at) ==
  [pinnedAt |-> CASE change.pinned = "set" -> at
                  [] change.pinned = "clear" -> NoTime
                  [] OTHER -> row.pinnedAt,
   archived |-> \/ change.archived = "set"
                \/ change.archived = "keep" /\ row.archived]

\* UPDATE conversation_members, then a SELECT of the row for the answer.
UpdateConversationSettings(w) ==
  LET c == writes[w].conv
  IN /\ writes[w].op = "settings"
     /\ c \in DOMAIN members
     /\ members' = [members EXCEPT ![c] =
          Changed(@, writes[w].change, writes[w].at)]
     /\ Finish(w)
     /\ UNCHANGED <<updated, now>>
     /\ Watched

\* The handler ends without a write: the row is missing or already there, the
\* request was cancelled, a statement failed.
Abort(w) ==
  /\ writes[w].op # "idle"
  /\ Finish(w)
  /\ UNCHANGED <<updated, members, now, walks>>

-------------------------------------------------------------------------------
(* Devices *)

\* rows are the first n of found in the order of the list.
AreFirst(rows, found, n) ==
  /\ rows \subseteq found
  /\ Cardinality(rows) = (IF Cardinality(found) < n THEN Cardinality(found) ELSE n)
  /\ \A c \in rows, d \in found \ rows : Before(KeyOf(c), KeyOf(d))

\* The store is asked for one row more than the page holds.
Fetched(limit) == limit + 1

\* Mutant: the cursor is the place without the id.
EncodeCursorWithoutId(c) == [KeyOf(c) EXCEPT !.id = 0]

\* encodeConversationListCursor of the last conversation of the page.
EncodeCursor(c) == KeyOf(c)

\* A page of limit conversations out of those found, and where the walk is then.
\* rows is what the statement returns, page what the response holds.
Answer(d, walk, found, limit) ==
  \E rows \in SUBSET found :
    /\ AreFirst(rows, found, Fetched(limit))
    /\ \E page \in SUBSET rows :
         LET answered == [walk EXCEPT !.listed = @ \cup page,
                                      !.twice = @ \cup (walk.listed \cap page)]
         IN /\ AreFirst(page, rows, limit)
            /\ \/ /\ Cardinality(rows) <= limit
                  /\ walks' = [walks EXCEPT ![d] =
                       [answered EXCEPT !.stage = "done", !.cursor = NoCursor]]
               \/ /\ Cardinality(rows) > limit
                  /\ \E last \in page :
                       /\ \A c \in page \ {last} : Before(KeyOf(c), KeyOf(last))
                       /\ walks' = [walks EXCEPT ![d] =
                            [answered EXCEPT !.stage = "paging",
                                             !.cursor = EncodeCursor(last)]]

\* The first page of a walk, without a cursor and perhaps with a "before".
ListConversations(d) ==
  /\ walks[d].stage = "idle"
  /\ \E includeArchived \in BOOLEAN, before \in 0 .. now, limit \in Limits :
       LET found == {c \in Listable(includeArchived) :
                       before = NoTime \/ updated[c] < before}
           walk  == [NoWalk EXCEPT !.includeArchived = includeArchived,
                                   !.still = found]
       IN Answer(d, walk, found, limit)
  /\ UNCHANGED <<updated, members, now, writes>>

\* The page after the cursor of the one before.
ListNextConversations(d) ==
  /\ walks[d].stage = "paging"
  /\ \E limit \in Limits :
       LET walk == walks[d]
       IN Answer(d, walk, {c \in Listable(walk.includeArchived) :
                             AfterCursor(KeyOf(c), walk.cursor)}, limit)
  /\ UNCHANGED <<updated, members, now, writes>>

\* The device has the list, or asks for no more pages of it.
Stop(d) ==
  /\ walks[d].stage # "idle"
  /\ walks' = [walks EXCEPT ![d] = NoWalk]
  /\ UNCHANGED <<updated, members, now, writes>>

Tick ==
  /\ now < MaxTime
  /\ now' = now + 1
  /\ UNCHANGED <<updated, members, writes, walks>>

Next ==
  \/ Tick
  \/ \E w \in Writers :
       \/ Begin(w)
       \/ Touch(w)
       \/ AddConversationMembers(w)
       \/ RemoveConversationMember(w)
       \/ UpdateConversationSettings(w)
       \/ Abort(w)
  \/ \E d \in Devices :
       \/ ListConversations(d)
       \/ ListNextConversations(d)
       \/ Stop(d)

Spec == Init /\ [][Next]_vars

-------------------------------------------------------------------------------
(* Properties *)

\* A walk that has reached the last page has listed every conversation that was
\* in the list when it began and has not moved since, however the others moved
\* between its pages: the WHERE of a cursor and the ORDER BY never disagree.
WalksAreComplete ==
  \A d \in Devices :
    walks[d].stage = "done" => walks[d].still \subseteq walks[d].listed

\* No page repeats a conversation that has not moved since the walk began.
NothingIsRepeated ==
  \A d \in Devices : walks[d].still \cap walks[d].twice = {}

\* Each page ends further down the list than the one before, so a walk cannot go
\* round in circles, even when conversations are pinned or written to meanwhile.
CursorsAdvance ==
  [][\A d \in Devices :
       /\ walks[d].stage = "paging" /\ walks'[d].stage = "paging"
       /\ walks'[d] # [walks[d] EXCEPT !.still = walks'[d].still]
       => Before(walks[d].cursor, walks'[d].cursor)]_vars
===============================================================================
