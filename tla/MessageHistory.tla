---------------------------- MODULE MessageHistory -----------------------------
(*****************************************************************************)
(* What a reader is shown of a conversation: the pages of ListMessages, from *)
(* the newest message down, and the last message of a list item, while the   *)
(* operations of Messages go on.  A page is a membership check and a         *)
(* statement; the cursor of the next is the oldest message on it.            *)
(*****************************************************************************)
EXTENDS Messages

CONSTANTS
  Readers,  \* the users whose device walks a conversation's history
  PageSize  \* the limit it asks for; ListMessages replaces 0 by 50

\* Ids are numbers here for their order as text.
ASSUME MessageHistoryAssumption ==
  /\ Readers \subseteq Users
  /\ MessageIds \subseteq Nat
  /\ PageSize \in Nat \ {0}

VARIABLES walks  \* how far each reader's device is

historyVars == <<members, joinedAt, messages, changes, userStates, receipts,
                 updatedAt, clock, requests, walks>>

-------------------------------------------------------------------------------

\* A walk asks for a page, has passed the check of membership, or is over.  Its
\* cursor is a message: created_at and id, which never change.  Three histories:
\* the messages the reader could see when it began, those listed so far, and
\* those listed more than once.
Walk == [stage : {"ask", "list", "done"}, conv : Conversations,
         cursor : MessageIds \cup {NoMessage}, start : SUBSET MessageIds,
         listed : SUBSET MessageIds, twice : SUBSET MessageIds]

HistoryTypeOK ==
  /\ TypeOK
  /\ IsTable(walks, Readers, Walk)
  /\ \A u \in DOMAIN walks :
       walks[u].listed \cup {walks[u].cursor}
         \subseteq DOMAIN messages \cup {NoMessage}

HistoryInit == Init /\ walks = NoRows

-------------------------------------------------------------------------------
(* Reads *)

\* The order of the list: b comes before a.
Older(a, b) ==
  \/ messages[a].createdAt < messages[b].createdAt
  \/ messages[a].createdAt = messages[b].createdAt /\ a < b

\* Mutant: of the cursor's millisecond nothing is left.
EarlierThanCursor(m, cursor) ==
  messages[m].createdAt < messages[cursor].createdAt

\* messageListCursorWhere
PastCursor(m, cursor) ==
  \/ messages[m].createdAt < messages[cursor].createdAt
  \/ messages[m].createdAt = messages[cursor].createdAt /\ m < cursor

History(u, c) == {m \in DOMAIN messages : VisibleIn(u, c, m)}

\* What lies behind the cursor.
Behind(u, c, cursor) ==
  {m \in History(u, c) : cursor = NoMessage \/ PastCursor(m, cursor)}

\* ORDER BY created_at DESC, id DESC LIMIT n
NewestOf(set, n) ==
  {m \in set : Cardinality({k \in set : k = m \/ Older(m, k)}) <= n}

\* Mutant: a hidden message hides those before it.
NewerInTable(u, c, m) ==
  {k \in DOMAIN messages : messages[k].conv = c /\ Older(m, k)}

\* The second NOT EXISTS of loadConversationLastMessages.
NewerVisible(u, c, m) == {k \in History(u, c) : Older(m, k)}

\* loadConversationLastMessages: the row that no visible one is newer than.
LastMessages(u, c) == {m \in History(u, c) : NewerVisible(u, c, m) = {}}

-------------------------------------------------------------------------------
(* Actions *)

\* The device opens a conversation.
BeginWalk(u, c) ==
  /\ u \in DOMAIN walks => walks[u].stage = "done"
  /\ walks' = Put(walks, u, [stage |-> "ask", conv |-> c, cursor |-> NoMessage,
                             start |-> History(u, c), listed |-> {},
                             twice |-> {}])
  /\ UNCHANGED vars

\* requireConversationMember, for every page.
AskPage(u) ==
  /\ u \in DOMAIN walks /\ walks[u].stage = "ask"
  /\ u \in members[walks[u].conv]
  /\ walks' = [walks EXCEPT ![u].stage = "list"]
  /\ UNCHANGED vars

\* The cursor of the reply: the oldest message on the page.
OldestShown(items) ==
  CHOOSE m \in items : \A k \in items : k = m \/ Older(m, k)

\* The statement reads one row more than the page shows, and there is a next
\* page if it is there.
ListPage(u) ==
  LET walk  == walks[u]
      found == NewestOf(Behind(u, walk.conv, walk.cursor), PageSize + 1)
      items == NewestOf(found, PageSize)
      shown == [walk EXCEPT !.listed = @ \cup items,
                            !.twice = @ \cup (walk.listed \cap items)]
  IN /\ u \in DOMAIN walks /\ walk.stage = "list"
     /\ walks' = [walks EXCEPT
          ![u] = IF items # found
                 THEN [shown EXCEPT !.stage = "ask",
                                    !.cursor = OldestShown(items)]
                 ELSE [shown EXCEPT !.stage = "done"]]
     /\ UNCHANGED vars

\* The device closes the conversation, is refused, or loses a reply for good.
EndWalk(u) ==
  /\ u \in DOMAIN walks
  /\ walks' = Remove(walks, {u})
  /\ UNCHANGED vars

HistoryNext ==
  \/ Next /\ UNCHANGED walks
  \/ \E u \in Readers :
       \/ \E c \in Conversations : BeginWalk(u, c)
       \/ AskPage(u)
       \/ ListPage(u)
       \/ EndWalk(u)

HistorySpec == HistoryInit /\ [][HistoryNext]_historyVars

-------------------------------------------------------------------------------
(* Properties *)

\* A walk lists nothing twice, and one that gets to the end has listed every
\* message that was there for the reader when it began and still is: neither
\* messages of one millisecond, nor one deleted between two pages, the cursor's
\* included, nor one that commits late with an early time, shifts a page.
HistoryIsListedOnce ==
  \A u \in DOMAIN walks :
    LET walk == walks[u]
    IN /\ walk.twice = {}
       /\ walk.stage = "done" =>
            walk.start \cap History(u, walk.conv) \subseteq walk.listed

\* docs/messages.md: a message deleted for me is gone "from the current user's
\* history, conversation last-message preview": the preview of a conversation is
\* the one message its history begins with.  They are two statements, with
\* conditions of their own.
PreviewIsNewest ==
  \A u \in Readers, c \in Conversations :
    LastMessages(u, c) = NewestOf(History(u, c), 1)

\* docs/messages.md: mark read covers "all received messages in that
\* conversation through the target message".  Whatever the history shows at or
\* below the target has a receipt afterwards, those of its millisecond included.
ReadThroughIsRead ==
  [][\A r \in DOMAIN requests :
       LET q == requests[r]
           target == q.batch[1]
       IN MarkRead(r) =>
            \A m \in History(q.user, q.conv) :
              /\ m = target \/ Older(m, target)
              /\ messages[m].sender # q.user
              => <<m, q.user>> \in DOMAIN receipts']_historyVars
===============================================================================
