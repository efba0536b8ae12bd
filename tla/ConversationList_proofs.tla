----------------------- MODULE ConversationList_proofs ------------------------
(*****************************************************************************)
(* Proofs about ConversationList: the order of the list and the clauses of a *)
(* cursor agree, and so a walk lists what does not move exactly once, for    *)
(* any number of conversations, devices, handlers and seconds.               *)
(*****************************************************************************)
EXTENDS ConversationList, Tables_proofs, FiniteSetTheorems, TLAPS

-------------------------------------------------------------------------------
(* The order *)

\* A place is three numbers.
LEMMA KeyIsNumbers ==
  ASSUME NEW key \in Key
  PROVE  key.pinnedAt \in Nat /\ key.updatedAt \in Nat /\ key.id \in Nat
<1>1. Times \subseteq Nat
  BY DEF Times
<1>2. Convs \subseteq Nat
  BY ListAssumption
<1> QED BY <1>1, <1>2 DEF Key

\* The list never has two conversations in the same place.
LEMMA BeforeIsStrict ==
  ASSUME NEW a \in Key, NEW b \in Key
  PROVE  /\ ~(Before(a, b) /\ Before(b, a))
         /\ a = b \/ Before(a, b) \/ Before(b, a)
<1>1. /\ a.pinnedAt \in Nat /\ a.updatedAt \in Nat /\ a.id \in Nat
      /\ b.pinnedAt \in Nat /\ b.updatedAt \in Nat /\ b.id \in Nat
  BY KeyIsNumbers
<1>2. ~(Before(a, b) /\ Before(b, a))
  BY <1>1 DEF Before, NoTime
<1>3. (a.pinnedAt = b.pinnedAt /\ a.updatedAt = b.updatedAt /\ a.id = b.id)
      \/ Before(a, b) \/ Before(b, a)
  BY <1>1 DEF Before, NoTime
<1>4. (a.pinnedAt = b.pinnedAt /\ a.updatedAt = b.updatedAt /\ a.id = b.id)
      => a = b
  BY DEF Key
<1> QED BY <1>2, <1>3, <1>4

\* What is before the place before another is before that too.
LEMMA BeforeIsTransitive ==
  ASSUME NEW a \in Key, NEW b \in Key, NEW c \in Key, Before(a, b), Before(b, c)
  PROVE  Before(a, c)
<1>1. /\ a.pinnedAt \in Nat /\ a.updatedAt \in Nat /\ a.id \in Nat
      /\ b.pinnedAt \in Nat /\ b.updatedAt \in Nat /\ b.id \in Nat
      /\ c.pinnedAt \in Nat /\ c.updatedAt \in Nat /\ c.id \in Nat
  BY KeyIsNumbers
<1> QED BY <1>1 DEF Before, NoTime

\* The WHERE of conversationListCursorWhere lets through exactly what the ORDER BY
\* of ListConversations puts after the conversation of the cursor.
THEOREM CursorFollowsOrder ==
  ASSUME NEW key \in Key, NEW cursor \in Key
  PROVE  AfterCursor(key, cursor) <=> Before(cursor, key)
<1>1. /\ key.pinnedAt \in Nat /\ key.updatedAt \in Nat /\ key.id \in Nat
      /\ cursor.pinnedAt \in Nat /\ cursor.updatedAt \in Nat
      /\ cursor.id \in Nat
  BY KeyIsNumbers
<1>2. CASE cursor.pinnedAt # NoTime
  BY <1>1, <1>2 DEF AfterCursor, AfterPinned, Before, NoTime
<1>3. CASE cursor.pinnedAt = NoTime
  BY <1>1, <1>3 DEF AfterCursor, AfterUnpinned, Before, NoTime
<1> QED BY <1>2, <1>3

-------------------------------------------------------------------------------
(* The inductive invariant *)

\* What holds of a walk: the conversations that are still there are listed once
\* when they are not after its cursor, and never when they are.
WalkOK(walk) ==
  /\ walk.still \subseteq Listable(walk.includeArchived)
  /\ walk.still \cap walk.twice = {}
  /\ walk.stage = "paging" =>
       \A c \in walk.still :
         c \in walk.listed <=> ~AfterCursor(KeyOf(c), walk.cursor)
  /\ walk.stage = "done" => walk.still \subseteq walk.listed

ListInv == TypeOK /\ \A d \in Devices : WalkOK(walks[d])

\* The place of a conversation the user is in is a key.
LEMMA PlacesAreKeys ==
  ASSUME TypeOK, NEW c \in DOMAIN members
  PROVE  KeyOf(c) \in Key
<1>1. c \in Convs /\ members[c] \in Member
  BY DEF TypeOK, IsTable
<1> QED BY <1>1 DEF TypeOK, KeyOf, Key, Member

\* At first nobody walks the list.
LEMMA ListInitial == Init => ListInv
<1> SUFFICES ASSUME Init PROVE ListInv
  OBVIOUS
<1> USE ListAssumption DEF Init
<1>1. updated \in [Convs -> Times] /\ now \in Times
  BY DEF Times
<1>2. IsTable(members, Convs, Member)
  <2>1. PICK joined \in SUBSET Convs :
          members = [c \in joined |-> [pinnedAt |-> NoTime, archived |-> FALSE]]
    OBVIOUS
  <2> QED BY <2>1 DEF IsTable, Member, Times, NoTime
<1>3. NoWrite \in Write
  BY DEF NoWrite, Write, Times
<1>4. /\ NoWalk \in Walk /\ NoWalk.stage = "idle"
      /\ NoWalk.still = {} /\ NoWalk.twice = {}
  BY DEF NoWalk, Walk
<1>5. \A d \in Devices : WalkOK(walks[d]) /\ walks[d].stage # "paging"
  BY <1>4 DEF WalkOK
<1> QED BY <1>1, <1>2, <1>3, <1>4, <1>5 DEF ListInv, TypeOK

-------------------------------------------------------------------------------
(* Pages *)

\* The first rows are all of them when they are fewer than were asked for.
LEMMA FirstOfFew ==
  ASSUME NEW found, IsFiniteSet(found), NEW rows, NEW n \in Nat,
         AreFirst(rows, found, n), Cardinality(rows) < n
  PROVE  rows = found
<1>1. rows \subseteq found
  BY DEF AreFirst
<1>2. Cardinality(rows) = Cardinality(found)
  BY FS_CardinalityType DEF AreFirst
<1> QED BY <1>1, <1>2, FS_Subset

\* They are all of them, too, when no more were found than were asked for.
LEMMA FirstOfEnough ==
  ASSUME NEW found, IsFiniteSet(found), NEW rows, NEW n \in Nat,
         AreFirst(rows, found, n), Cardinality(found) <= n
  PROVE  rows = found
<1>1. rows \subseteq found
  BY DEF AreFirst
<1>2. Cardinality(rows) = Cardinality(found)
  BY FS_CardinalityType DEF AreFirst
<1> QED BY <1>1, <1>2, FS_Subset

\* A page leaves its walk in order when what the walk has yet to list is found,
\* and what it has listed comes before what is found.
LEMMA AnswerIsOrdered ==
  ASSUME TypeOK, NEW d \in Devices, NEW walk \in Walk, NEW limit \in Limits,
         NEW found \in SUBSET DOMAIN members,
         walk.still \subseteq Listable(walk.includeArchived),
         walk.still \cap walk.twice = {},
         walk.still \subseteq walk.listed \cup found,
         walk.still \cap walk.listed \cap found = {},
         \A c \in walk.still \cap walk.listed, f \in found :
           Before(KeyOf(c), KeyOf(f)),
         Answer(d, walk, found, limit)
  PROVE  \E after \in Walk :
           /\ walks' = [walks EXCEPT ![d] = after]
           /\ WalkOK(after)
           /\ after.stage = "paging" =>
                \E last \in found : after.cursor = KeyOf(last)
           /\ after.stage \in {"paging", "done"}
<1>1. PICK rows \in SUBSET found :
        /\ AreFirst(rows, found, Fetched(limit))
        /\ \E page \in SUBSET rows :
             LET answered == [walk EXCEPT !.listed = @ \cup page,
                                          !.twice = @ \cup (walk.listed \cap page)]
             IN /\ AreFirst(page, rows, limit)
                /\ \/ /\ Cardinality(rows) <= limit
                      /\ walks' = [walks EXCEPT ![d] =
                           [answered EXCEPT !.stage = "done", !.cursor = NoCursor]]
                   \/ /\ Cardinality(rows) > limit
                      /\ \E last \in page :
                           /\ \A c \in page \ {last} :
                                Before(KeyOf(c), KeyOf(last))
                           /\ walks' = [walks EXCEPT ![d] =
                                [answered EXCEPT !.stage = "paging",
                                                 !.cursor = EncodeCursor(last)]]
  BY DEF Answer
<1> DEFINE answered(page) ==
      [walk EXCEPT !.listed = @ \cup page,
                   !.twice = @ \cup (walk.listed \cap page)]
<1>2. PICK page \in SUBSET rows :
        /\ AreFirst(page, rows, limit)
        /\ \/ /\ Cardinality(rows) <= limit
              /\ walks' = [walks EXCEPT ![d] =
                   [answered(page) EXCEPT !.stage = "done", !.cursor = NoCursor]]
           \/ /\ Cardinality(rows) > limit
              /\ \E last \in page :
                   /\ \A c \in page \ {last} : Before(KeyOf(c), KeyOf(last))
                   /\ walks' = [walks EXCEPT ![d] =
                        [answered(page) EXCEPT !.stage = "paging",
                                               !.cursor = EncodeCursor(last)]]
  BY <1>1
<1>3. DOMAIN members \subseteq Convs /\ limit \in Nat
  BY ListAssumption DEF TypeOK, IsTable
<1>4. IsFiniteSet(found) /\ IsFiniteSet(rows)
  BY <1>3, FS_Subset, ListAssumption
<1>5. /\ answered(page) \in Walk
      /\ answered(page).still = walk.still
      /\ answered(page).includeArchived = walk.includeArchived
      /\ answered(page).listed = walk.listed \cup page
      /\ answered(page).twice = walk.twice \cup (walk.listed \cap page)
  BY <1>3 DEF Walk
<1>6. walk.still \cap answered(page).twice = {}
  BY <1>5
<1>7. CASE /\ Cardinality(rows) <= limit
           /\ walks' = [walks EXCEPT ![d] =
                [answered(page) EXCEPT !.stage = "done", !.cursor = NoCursor]]
  <2> DEFINE after == [answered(page) EXCEPT !.stage = "done", !.cursor = NoCursor]
  <2>1. rows = found
    <3>1. limit + 1 \in Nat /\ Cardinality(rows) < limit + 1
      BY <1>3, <1>4, <1>7, FS_CardinalityType
    <3>2. AreFirst(rows, found, limit + 1)
      BY <1>1 DEF Fetched
    <3> QED BY <3>1, <3>2, <1>4, FirstOfFew
  <2>2. page = rows
    BY <1>2, <1>3, <1>4, <1>7, FirstOfEnough
  <2>3. /\ after \in Walk /\ after.stage = "done"
        /\ after.still = walk.still /\ after.listed = walk.listed \cup page
        /\ after.twice = answered(page).twice
        /\ after.includeArchived = walk.includeArchived
    BY <1>5 DEF Walk
  <2>4. WalkOK(after)
    BY <2>1, <2>2, <2>3, <1>6 DEF WalkOK
  <2> QED BY <2>3, <2>4, <1>7
<1>8. CASE /\ Cardinality(rows) > limit
           /\ \E last \in page :
                /\ \A c \in page \ {last} : Before(KeyOf(c), KeyOf(last))
                /\ walks' = [walks EXCEPT ![d] =
                     [answered(page) EXCEPT !.stage = "paging",
                                            !.cursor = EncodeCursor(last)]]
  <2>1. PICK last \in page :
          /\ \A c \in page \ {last} : Before(KeyOf(c), KeyOf(last))
          /\ walks' = [walks EXCEPT ![d] =
               [answered(page) EXCEPT !.stage = "paging",
                                      !.cursor = EncodeCursor(last)]]
    BY <1>8
  <2> DEFINE after == [answered(page) EXCEPT !.stage = "paging",
                                             !.cursor = EncodeCursor(last)]
  <2>2. last \in found /\ KeyOf(last) \in Key
    BY PlacesAreKeys
  <2>3. /\ after \in Walk /\ after.stage = "paging"
        /\ after.cursor = KeyOf(last)
        /\ after.still = walk.still /\ after.listed = walk.listed \cup page
        /\ after.twice = answered(page).twice
        /\ after.includeArchived = walk.includeArchived
    BY <1>5, <2>2 DEF Walk, EncodeCursor
  <2>4. ASSUME NEW c \in walk.still
        PROVE  c \in walk.listed \cup page <=> ~AfterCursor(KeyOf(c), KeyOf(last))
    <3>1. c \in DOMAIN members /\ KeyOf(c) \in Key
      BY PlacesAreKeys DEF Listable
    <3>2. AfterCursor(KeyOf(c), KeyOf(last)) <=> Before(KeyOf(last), KeyOf(c))
      BY <2>2, <3>1, CursorFollowsOrder
    <3>3. ~(Before(KeyOf(last), KeyOf(c)) /\ Before(KeyOf(c), KeyOf(last)))
      BY <2>2, <3>1, BeforeIsStrict
    <3>4. CASE c \in walk.listed
      BY <3>2, <3>3, <3>4, <2>2
    <3>5. CASE c \in page
      BY <3>2, <3>3, <3>5, <2>1
    <3>6. CASE c \notin walk.listed /\ c \notin page
      <4>1. c \in found
        BY <3>6
      <4>2. CASE c \in rows
        BY <1>2, <3>2, <3>6, <4>2 DEF AreFirst
      <4>3. CASE c \notin rows
        BY <1>1, <3>2, <3>6, <4>1, <4>3 DEF AreFirst
      <4> QED BY <4>2, <4>3
    <3> QED BY <3>4, <3>5, <3>6
  <2>5. WalkOK(after)
    BY <2>3, <2>4, <1>6 DEF WalkOK
  <2> QED BY <2>1, <2>2, <2>3, <2>5
<1> QED BY <1>2, <1>7, <1>8

-------------------------------------------------------------------------------
(* Every step *)

\* A write changes the member rows and times, and takes what it moved out of what
\* is still there; what stays is where it was.
LEMMA WriteKeepsWalks ==
  ASSUME ListInv, Watched
  PROVE  \A d \in Devices :
           /\ walks'[d] \in Walk
           /\ WalkOK(walks[d])'
           /\ walks'[d].stage = walks[d].stage
           /\ walks'[d].cursor = walks[d].cursor
<1> SUFFICES ASSUME NEW d \in Devices
             PROVE  /\ walks'[d] \in Walk
                    /\ WalkOK(walks[d])'
                    /\ walks'[d].stage = walks[d].stage
                    /\ walks'[d].cursor = walks[d].cursor
  OBVIOUS
<1> DEFINE walk == walks[d]
<1>1. walk \in Walk /\ WalkOK(walk)
  BY DEF ListInv, TypeOK
<1>2. StillThere(walk) \subseteq walk.still
  BY DEF StillThere
<1>3. walks'[d] = [walk EXCEPT !.still = StillThere(walk)]
  BY DEF Watched
<1>4. /\ walks'[d] \in Walk
      /\ walks'[d].still = StillThere(walk)
      /\ walks'[d].stage = walk.stage /\ walks'[d].cursor = walk.cursor
      /\ walks'[d].listed = walk.listed /\ walks'[d].twice = walk.twice
      /\ walks'[d].includeArchived = walk.includeArchived
  BY <1>1, <1>2, <1>3 DEF Walk
<1>5. \A c \in StillThere(walk) :
        /\ c \in Listable(walks[d].includeArchived)'
        /\ KeyOf(c)' = KeyOf(c)
  BY <1>4 DEF StillThere, Listable, KeyOf
<1>6. walks'[d].still \subseteq Listable(walks[d].includeArchived)'
  BY <1>4, <1>5
<1>7. walks'[d].stage = "paging" =>
        \A c \in walks'[d].still :
          c \in walks'[d].listed
            <=> ~AfterCursor([pinnedAt |-> members'[c].pinnedAt,
                              updatedAt |-> updated'[c], id |-> c],
                             walks'[d].cursor)
  BY <1>1, <1>2, <1>4, <1>5 DEF WalkOK, KeyOf
<1>8. WalkOK(walks[d])'
  BY <1>1, <1>2, <1>4, <1>6, <1>7 DEF WalkOK, KeyOf, AfterCursor, AfterPinned,
                                      AfterUnpinned
<1> QED BY <1>4, <1>8

\* A handler that is done frees its writer.
LEMMA FinishTyped ==
  ASSUME TypeOK, NEW w \in Writers, Finish(w)
  PROVE  writes' \in [Writers -> Write]
BY ListAssumption DEF TypeOK, Finish, NoWrite, Write, Times

\* A page is answered and its walk stays in order.
LEMMA PageKeepsInv ==
  ASSUME ListInv, NEW d \in Devices, NEW after \in Walk,
         walks' = [walks EXCEPT ![d] = after], WalkOK(after),
         after.stage = "paging" => after.cursor \in Key,
         UNCHANGED <<updated, members, now, writes>>
  PROVE  ListInv'
<1>1. walks' \in [Devices -> Walk]
  BY DEF ListInv, TypeOK
<1>2. \A e \in Devices : walks'[e].stage = "paging" => walks'[e].cursor \in Key
  BY DEF ListInv, TypeOK
<1>3. TypeOK'
  BY <1>1, <1>2 DEF ListInv, TypeOK
<1>4. ASSUME NEW e \in Devices
      PROVE  WalkOK(walks[e])'
  <2>1. walks'[e] = after \/ walks'[e] = walks[e]
    BY DEF ListInv, TypeOK
  <2>2. WalkOK(walks[e])
    BY DEF ListInv
  <2> QED BY <2>1, <2>2 DEF WalkOK, Listable, KeyOf
<1> QED BY <1>3, <1>4 DEF ListInv

\* The first page of a walk.
LEMMA FirstPage ==
  ASSUME ListInv, NEW d \in Devices, ListConversations(d)
  PROVE  ListInv'
<1>1. PICK includeArchived \in BOOLEAN, before \in 0 .. now, limit \in Limits :
        LET found == {c \in Listable(includeArchived) :
                        before = NoTime \/ updated[c] < before}
            walk  == [NoWalk EXCEPT !.includeArchived = includeArchived,
                                    !.still = found]
        IN Answer(d, walk, found, limit)
  BY DEF ListConversations
<1> DEFINE found == {c \in Listable(includeArchived) :
                       before = NoTime \/ updated[c] < before}
           walk  == [NoWalk EXCEPT !.includeArchived = includeArchived,
                                   !.still = found]
<1>2. Answer(d, walk, found, limit)
  BY <1>1
<1>3. found \in SUBSET DOMAIN members /\ DOMAIN members \subseteq Convs
  BY DEF Listable, ListInv, TypeOK, IsTable
<1>4. /\ walk \in Walk /\ walk.still = found /\ walk.listed = {}
      /\ walk.twice = {} /\ walk.includeArchived = includeArchived
  BY <1>3 DEF NoWalk, Walk
<1>5. walk.still \subseteq Listable(walk.includeArchived)
  BY <1>4
<1> HIDE DEF found, walk
<1>6. PICK after \in Walk :
        /\ walks' = [walks EXCEPT ![d] = after]
        /\ WalkOK(after)
        /\ after.stage = "paging" =>
             \E last \in found : after.cursor = KeyOf(last)
  BY <1>2, <1>3, <1>4, <1>5, AnswerIsOrdered DEF ListInv
<1>7. after.stage = "paging" => after.cursor \in Key
  BY <1>3, <1>6, PlacesAreKeys DEF ListInv
<1> QED BY <1>6, <1>7, PageKeepsInv DEF ListConversations

\* A later page, which also ends after the cursor it was asked for with.
LEMMA NextPage ==
  ASSUME ListInv, NEW d \in Devices, ListNextConversations(d)
  PROVE  /\ ListInv'
         /\ \E after \in Walk :
              /\ walks' = [walks EXCEPT ![d] = after]
              /\ after.stage = "paging" => Before(walks[d].cursor, after.cursor)
<1> DEFINE walk == walks[d]
           found == {c \in Listable(walk.includeArchived) :
                       AfterCursor(KeyOf(c), walk.cursor)}
<1>1. PICK limit \in Limits : Answer(d, walk, found, limit)
  BY DEF ListNextConversations
<1>2. found \in SUBSET DOMAIN members
  BY DEF Listable
<1>3. walk \in Walk /\ WalkOK(walk) /\ walk.stage = "paging" /\ walk.cursor \in Key
  BY DEF ListInv, TypeOK, ListNextConversations
<1>4. /\ walk.still \subseteq Listable(walk.includeArchived)
      /\ walk.still \cap walk.twice = {}
      /\ walk.still \subseteq walk.listed \cup found
      /\ walk.still \cap walk.listed \cap found = {}
  BY <1>3 DEF WalkOK
<1>5. ASSUME NEW f \in found
      PROVE  KeyOf(f) \in Key /\ Before(walk.cursor, KeyOf(f))
  BY <1>2, <1>3, PlacesAreKeys, CursorFollowsOrder DEF ListInv
<1>6. ASSUME NEW c \in walk.still \cap walk.listed, NEW f \in found
      PROVE  Before(KeyOf(c), KeyOf(f))
  <2>1. KeyOf(c) \in Key
    BY <1>4, PlacesAreKeys DEF Listable, ListInv
  <2>2. ~Before(walk.cursor, KeyOf(c))
    BY <1>3, <2>1, CursorFollowsOrder DEF WalkOK
  <2>3. KeyOf(c) = walk.cursor \/ Before(KeyOf(c), walk.cursor)
    BY <1>3, <2>1, <2>2, BeforeIsStrict
  <2> QED BY <1>3, <1>5, <2>1, <2>3, BeforeIsTransitive
<1> HIDE DEF found
<1>7. PICK after \in Walk :
        /\ walks' = [walks EXCEPT ![d] = after]
        /\ WalkOK(after)
        /\ after.stage = "paging" =>
             \E last \in found : after.cursor = KeyOf(last)
  BY <1>1, <1>2, <1>3, <1>4, <1>6, AnswerIsOrdered DEF ListInv
<1>8. after.stage = "paging" =>
        after.cursor \in Key /\ Before(walk.cursor, after.cursor)
  BY <1>5, <1>7
<1>9. ListInv'
  BY <1>7, <1>8, PageKeepsInv DEF ListNextConversations
<1> QED BY <1>7, <1>8, <1>9

\* A write of well-typed rows and times by a handler that is then done.
LEMMA WriteKeepsInv ==
  ASSUME ListInv, NEW w \in Writers, Finish(w), Watched, UNCHANGED now,
         updated' \in [Convs -> Times], IsTable(members', Convs, Member)
  PROVE  ListInv'
<1>1. \A d \in Devices :
        /\ walks'[d] \in Walk
        /\ WalkOK(walks[d])'
        /\ walks'[d].stage = walks[d].stage
        /\ walks'[d].cursor = walks[d].cursor
  BY WriteKeepsWalks
<1>2. walks' \in [Devices -> Walk]
  BY <1>1 DEF Watched
<1>3. writes' \in [Writers -> Write]
  BY FinishTyped DEF ListInv
<1>4. TypeOK'
  BY <1>1, <1>2, <1>3 DEF ListInv, TypeOK
<1> QED BY <1>1, <1>4 DEF ListInv

\* Nothing about the list changes, and the writers keep their type.
LEMMA QuietStep ==
  ASSUME ListInv, UNCHANGED <<updated, members, walks>>,
         now' \in Times, writes' \in [Writers -> Write]
  PROVE  ListInv'
<1>1. TypeOK'
  BY DEF ListInv, TypeOK
<1>2. \A d \in Devices : WalkOK(walks[d])'
  BY DEF ListInv, WalkOK, Listable, KeyOf
<1> QED BY <1>1, <1>2 DEF ListInv

\* Every step of the system keeps the invariant.
LEMMA ListStep == ListInv /\ [Next]_vars => ListInv'
<1> SUFFICES ASSUME ListInv, [Next]_vars PROVE ListInv'
  OBVIOUS
<1>1. /\ updated \in [Convs -> Times] /\ IsTable(members, Convs, Member)
      /\ now \in Times /\ writes \in [Writers -> Write]
  BY DEF ListInv, TypeOK
<1>2. \A w \in Writers : writes[w].at \in Times
  BY <1>1, ListAssumption DEF Write, NoWrite, Times
<1>3. NoTime \in Times /\ NoWalk \in Walk
  BY ListAssumption DEF NoTime, NoWalk, Walk, Times
<1>4. CASE Tick
  <2>1. now' \in Times
    BY <1>1, <1>4, ListAssumption DEF Tick, Times
  <2> QED BY <1>1, <1>4, <2>1, QuietStep DEF Tick
<1>5. ASSUME NEW w \in Writers, Begin(w) PROVE ListInv'
  <2>1. writes' \in [Writers -> Write]
    BY <1>1, <1>5, AskedAssumption DEF Begin, Write
  <2> QED BY <1>1, <1>5, <2>1, QuietStep DEF Begin
<1>6. ASSUME NEW w \in Writers, Touch(w) PROVE ListInv'
  <2>1. updated' \in [Convs -> Times]
    BY <1>1, <1>2, <1>6 DEF Touch
  <2> QED BY <1>1, <1>6, <2>1, WriteKeepsInv DEF Touch
<1>7. ASSUME NEW w \in Writers, AddConversationMembers(w) PROVE ListInv'
  <2>1. writes[w].conv \in Convs
    BY <1>1, <1>7 DEF AddConversationMembers, Write, NoWrite
  <2>2. [pinnedAt |-> NoTime, archived |-> FALSE] \in Member
    BY <1>3 DEF Member
  <2>3. IsTable(members', Convs, Member)
    BY <1>1, <1>7, <2>1, <2>2, PutIsTable DEF AddConversationMembers
  <2>4. updated' \in [Convs -> Times]
    BY <1>1, <1>2, <1>7 DEF AddConversationMembers
  <2> QED BY <1>7, <2>3, <2>4, WriteKeepsInv DEF AddConversationMembers
<1>8. ASSUME NEW w \in Writers, RemoveConversationMember(w) PROVE ListInv'
  <2>1. IsTable(members', Convs, Member)
    BY <1>1, <1>8, RemoveIsTable DEF RemoveConversationMember
  <2>2. updated' \in [Convs -> Times]
    BY <1>1, <1>2, <1>8 DEF RemoveConversationMember
  <2> QED BY <1>8, <2>1, <2>2, WriteKeepsInv DEF RemoveConversationMember
<1>9. ASSUME NEW w \in Writers, UpdateConversationSettings(w) PROVE ListInv'
  <2> DEFINE c == writes[w].conv
  <2>1. c \in DOMAIN members /\ members[c] \in Member
    BY <1>1, <1>9 DEF UpdateConversationSettings, IsTable
  <2>2. Changed(members[c], writes[w].change, writes[w].at) \in Member
    BY <1>2, <1>3, <2>1 DEF Changed, Member
  <2>3. IsTable(members', Convs, Member)
    BY <1>1, <1>9, <2>1, <2>2 DEF UpdateConversationSettings, IsTable
  <2> QED BY <1>1, <1>9, <2>3, WriteKeepsInv DEF UpdateConversationSettings
<1>10. ASSUME NEW w \in Writers, Abort(w) PROVE ListInv'
  <2>1. writes' \in [Writers -> Write]
    BY <1>10, FinishTyped DEF Abort, ListInv
  <2> QED BY <1>1, <1>10, <2>1, QuietStep DEF Abort
<1>11. ASSUME NEW d \in Devices, ListConversations(d) PROVE ListInv'
  BY <1>11, FirstPage
<1>12. ASSUME NEW d \in Devices, ListNextConversations(d) PROVE ListInv'
  BY <1>12, NextPage
<1>13. ASSUME NEW d \in Devices, Stop(d) PROVE ListInv'
  <2>1. WalkOK(NoWalk) /\ NoWalk.stage = "idle"
    BY DEF WalkOK, NoWalk
  <2> QED BY <1>3, <1>13, <2>1, PageKeepsInv DEF Stop
<1>14. CASE UNCHANGED vars
  BY <1>1, <1>14, QuietStep DEF vars
<1> QED BY <1>4, <1>5, <1>6, <1>7, <1>8, <1>9, <1>10, <1>11, <1>12, <1>13, <1>14
        DEF Next

\* The invariant holds in every reachable state.
THEOREM ListInvariant == Spec => []ListInv
BY ListInitial, ListStep, PTL DEF Spec

\* Tables, writers and walks keep their types, and a walk that goes on has the
\* cursor of a conversation.
THEOREM ListTypeCorrect == Spec => []TypeOK
<1>1. ListInv => TypeOK
  BY DEF ListInv
<1> QED BY <1>1, ListInvariant, PTL

\* A walk that is over has listed everything that did not move meanwhile.
THEOREM ListIsComplete == Spec => []WalksAreComplete
<1>1. ListInv => WalksAreComplete
  BY DEF ListInv, WalkOK, WalksAreComplete
<1> QED BY <1>1, ListInvariant, PTL

\* A walk lists nothing twice that did not move meanwhile.
THEOREM ListHasNoRepeats == Spec => []NothingIsRepeated
<1>1. ListInv => NothingIsRepeated
  BY DEF ListInv, WalkOK, NothingIsRepeated
<1> QED BY <1>1, ListInvariant, PTL

\* A page changes one walk.
LEMMA AnswerChangesOne ==
  ASSUME NEW d, NEW walk, NEW found, NEW limit, Answer(d, walk, found, limit)
  PROVE  \E after : walks' = [walks EXCEPT ![d] = after]
BY DEF Answer

\* What a step does to the cursor of a walk that is under way before and after.
CursorAdvances ==
  \A d \in Devices :
    /\ walks[d].stage = "paging" /\ walks'[d].stage = "paging"
    /\ walks'[d] # [walks[d] EXCEPT !.still = walks'[d].still]
    => Before(walks[d].cursor, walks'[d].cursor)

\* A page answers one walk, whose cursor goes down; a write moves no cursor.
LEMMA CursorStep == ListInv /\ [Next]_vars => [CursorAdvances]_vars
<1> SUFFICES ASSUME ListInv, Next, NEW d \in Devices,
                    walks[d].stage = "paging", walks'[d].stage = "paging",
                    walks'[d] # [walks[d] EXCEPT !.still = walks'[d].still]
             PROVE  Before(walks[d].cursor, walks'[d].cursor)
  BY DEF CursorAdvances
<1>1. walks \in [Devices -> Walk]
  BY DEF ListInv, TypeOK
<1>2. walks'[d] # walks[d]
  BY <1>1 DEF Walk
<1>3. ~Watched
  BY <1>1 DEF Watched, Walk
<1>4. PICK e \in Devices :
        ListConversations(e) \/ ListNextConversations(e) \/ Stop(e)
  BY <1>2, <1>3 DEF Next, Tick, Begin, Touch, AddConversationMembers,
                    RemoveConversationMember, UpdateConversationSettings, Abort
<1>5. e = d
  <2>1. \E after : walks' = [walks EXCEPT ![e] = after]
    BY <1>4, AnswerChangesOne DEF ListConversations, ListNextConversations, Stop
  <2> QED BY <1>1, <1>2, <2>1
<1>6. CASE ListNextConversations(d)
  <2>1. PICK after \in Walk :
          /\ walks' = [walks EXCEPT ![d] = after]
          /\ after.stage = "paging" => Before(walks[d].cursor, after.cursor)
    BY <1>6, NextPage
  <2> QED BY <1>1, <2>1
<1>7. CASE ListConversations(d)
  BY <1>7 DEF ListConversations
<1>8. CASE Stop(d)
  BY <1>1, <1>8 DEF Stop, NoWalk
<1> QED BY <1>4, <1>5, <1>6, <1>7, <1>8

\* The cursor of a walk only ever moves down the list, whatever moves meanwhile.
THEOREM CursorsGoDown == Spec => CursorsAdvance
<1>1. ListInv /\ [Next]_vars => [CursorAdvances]_vars
  BY CursorStep
<1> QED BY <1>1, ListInvariant, PTL DEF Spec, CursorsAdvance, CursorAdvances
===============================================================================
