-------------------------- MODULE RealtimeHub_proofs ---------------------------
(*****************************************************************************)
(* The hub, for any number of connections, users and publishers and any size *)
(* of the channels.                                                          *)
(*                                                                           *)
(* That no Publish sends on a closed channel is inductive with the types: a  *)
(* connection enters and leaves the hub only while nobody holds the read     *)
(* lock, and whoever gets it then sees the connections that are left.        *)
(*                                                                           *)
(* That presence is true needs, for every device and user, that the device   *)
(* has been told or the latest announcement of the user is still to tell it  *)
(* (Knows): those it is for were read before it got the lock, and between    *)
(* the two users connect and become friends or cease to be.  A new           *)
(* announcement takes the place of all others, which may still overtake it   *)
(* (UnlockTells), and an overtaken one only makes devices miss the latest.   *)
(*****************************************************************************)
EXTENDS RealtimeHub, Tables_proofs, SequenceTheorems, TLAPS

HubInv == TypeOK /\ SendsAreOpen

-------------------------------------------------------------------------------
(* Rows *)

\* A connection whose record changes within its type.
LEMMA ChangeConn ==
  ASSUME NEW cs, IsTable(cs, Conns, Conn), NEW c \in DOMAIN cs, NEW conn \in Conn
  PROVE  IsTable([cs EXCEPT ![c] = conn], Conns, Conn)
BY DEF IsTable

\* A connection that goes from one stage to another.
LEMMA ChangeStage ==
  ASSUME NEW cs, IsTable(cs, Conns, Conn), NEW c \in DOMAIN cs,
         NEW stage \in Stages
  PROVE  IsTable([cs EXCEPT ![c].stage = stage], Conns, Conn)
<1>1. [cs[c] EXCEPT !.stage = stage] \in Conn
  BY RowOfTable DEF Conn
<1> QED
  BY <1>1, ChangeConn

\* The connections of some users are open ones.
LEMMA ClientsAreOpen ==
  ASSUME NEW cs, NEW users, NEW c \in ClientsOf(cs, users)
  PROVE  IsOpen(cs, c)
BY DEF ClientsOf, IsOpen

\* A call of Publish that gets the read lock.
LEMMA GrantedTyped ==
  ASSUME NEW cs, IsTable(cs, Conns, Conn), NEW publication \in Publication
  PROVE  /\ Granted(publication, cs) \in Publication
         /\ Granted(publication, cs).locked
         /\ \A c \in Granted(publication, cs).todo : IsOpen(cs, c)
<1>1. ClientsOf(cs, publication.to) \subseteq Conns
  BY DEF ClientsOf, IsTable
<1>2. /\ Granted(publication, cs).todo = ClientsOf(cs, publication.to)
      /\ Granted(publication, cs).locked
      /\ Granted(publication, cs) \in Publication
  BY <1>1 DEF Granted, Publication
<1> QED
  BY <1>2, ClientsAreOpen

\* What the history of the connections takes note of when an announcement begins.
LEMMA OvertakenFields ==
  ASSUME IsTable(conns, Conns, Conn), NEW u
  PROVE  /\ IsTable(Overtaken(u), Conns, Conn)
         /\ DOMAIN Overtaken(u) = DOMAIN conns
         /\ \A d \in DOMAIN conns :
              /\ Overtaken(u)[d].user = conns[d].user
              /\ Overtaken(u)[d].stage = conns[d].stage
              /\ Overtaken(u)[d].send = conns[d].send
              /\ Overtaken(u)[d].shown = conns[d].shown
              /\ Overtaken(u)[d].missed = conns[d].missed
              /\ d \in Announcing(u) => Overtaken(u)[d].overtaken
              /\ d \notin Announcing(u) => Overtaken(u)[d] = conns[d]
<1>1. DOMAIN Overtaken(u) = DOMAIN conns
  BY DEF Overtaken
<1>2. ASSUME NEW d \in DOMAIN conns
      PROVE  /\ Overtaken(u)[d] \in Conn
             /\ Overtaken(u)[d].user = conns[d].user
             /\ Overtaken(u)[d].stage = conns[d].stage
             /\ Overtaken(u)[d].send = conns[d].send
             /\ Overtaken(u)[d].shown = conns[d].shown
             /\ Overtaken(u)[d].missed = conns[d].missed
             /\ d \in Announcing(u) => Overtaken(u)[d].overtaken
             /\ d \notin Announcing(u) => Overtaken(u)[d] = conns[d]
  <2>1. conns[d] \in Conn
    BY RowOfTable
  <2>2. Overtaken(u)[d] = IF d \in Announcing(u)
                          THEN [conns[d] EXCEPT !.overtaken = TRUE] ELSE conns[d]
    BY DEF Overtaken
  <2>3. CASE d \in Announcing(u)
    <3>1. Overtaken(u)[d] = [conns[d] EXCEPT !.overtaken = TRUE]
      BY <2>2, <2>3
    <3> QED
      BY <2>1, <2>3, <3>1 DEF Conn
  <2>4. CASE d \notin Announcing(u)
    BY <2>1, <2>2, <2>4
  <2> QED
    BY <2>3, <2>4
<1>3. IsTable(Overtaken(u), Conns, Conn)
  BY <1>1, <1>2 DEF IsTable, Overtaken
<1> QED
  BY <1>1, <1>2, <1>3

\* What it takes note of when the friends are read, or could not be.
LEMMA ToldFields ==
  ASSUME IsTable(conns, Conns, Conn), NEW c \in DOMAIN conns, NEW to
  PROVE  /\ IsTable(Told(c, to), Conns, Conn)
         /\ DOMAIN Told(c, to) = DOMAIN conns
         /\ \A d \in DOMAIN conns :
              /\ Told(c, to)[d].user = conns[d].user
              /\ Told(c, to)[d].stage = conns[d].stage
              /\ Told(c, to)[d].send = conns[d].send
              /\ Told(c, to)[d].shown = conns[d].shown
              /\ Told(c, to)[d].overtaken = conns[d].overtaken
              /\ conns[d].missed \subseteq Told(c, to)[d].missed
              /\ ~ conns[c].overtaken /\ IsOpen(conns, d)
                   /\ conns[d].user \notin to \cup {conns[c].user}
                 => conns[c].user \in Told(c, to)[d].missed
<1> DEFINE u == conns[c].user
<1>0. u \in Users
  BY RowOfTable DEF Conn
<1>1. DOMAIN Told(c, to) = DOMAIN conns
  BY DEF Told
<1>2. ASSUME NEW d \in DOMAIN conns
      PROVE  /\ Told(c, to)[d] \in Conn
             /\ Told(c, to)[d].user = conns[d].user
             /\ Told(c, to)[d].stage = conns[d].stage
             /\ Told(c, to)[d].send = conns[d].send
             /\ Told(c, to)[d].shown = conns[d].shown
             /\ Told(c, to)[d].overtaken = conns[d].overtaken
             /\ conns[d].missed \subseteq Told(c, to)[d].missed
             /\ ~ conns[c].overtaken /\ IsOpen(conns, d)
                  /\ conns[d].user \notin to \cup {u}
                => u \in Told(c, to)[d].missed
  <2>1. conns[d] \in Conn
    BY RowOfTable
  <2>2. Told(c, to)[d] = IF /\ ~ conns[c].overtaken
                            /\ IsOpen(conns, d)
                            /\ conns[d].user \notin to \cup {u}
                         THEN [conns[d] EXCEPT !.missed = @ \cup {u}]
                         ELSE conns[d]
    BY DEF Told
  <2> QED
    BY <1>0, <2>1, <2>2 DEF Conn
<1>3. IsTable(Told(c, to), Conns, Conn)
  BY <1>1, <1>2 DEF IsTable, Told
<1> QED
  BY <1>1, <1>2, <1>3

-------------------------------------------------------------------------------
(* Steps of the lock *)

\* A write lock that was granted: the waiting readers get in, and go through the
\* connections that are in the hub now.
LEMMA UnlockKeeps ==
  ASSUME HubInv, MayLock, IsTable(conns', Conns, Conn),
         publishes' = Unlocked(conns'), UNCHANGED <<friends, blocks>>
  PROVE  HubInv'
<1>1. DOMAIN publishes' = DOMAIN publishes
  BY DEF Unlocked
<1>2. ASSUME NEW p \in DOMAIN publishes
      PROVE  publishes'[p] = Granted(publishes[p], conns')
  BY <1>2 DEF Unlocked, MayLock
<1>3. ASSUME NEW p \in DOMAIN publishes
      PROVE  /\ publishes'[p] \in Publication
             /\ publishes'[p].locked
             /\ \A c \in publishes'[p].todo : IsOpen(conns', c)
  <2>1. publishes[p] \in Publication
    BY RowOfTable DEF HubInv, TypeOK
  <2> QED
    BY <1>2, <2>1, GrantedTyped
<1>4. IsTable(publishes', Conns \cup Publishers, Publication)
  <2>1. publishes' = [p \in DOMAIN publishes |-> publishes'[p]]
    BY DEF Unlocked
  <2>2. publishes' \in [DOMAIN publishes' -> Publication]
    BY <1>1, <1>3, <2>1
  <2> QED
    BY <1>1, <2>2 DEF HubInv, TypeOK, IsTable
<1>5. TypeOK'
  BY <1>4 DEF HubInv, TypeOK
<1>6. SendsAreOpen'
  BY <1>1, <1>3 DEF SendsAreOpen
<1> QED
  BY <1>5, <1>6 DEF HubInv

\* A step that leaves the hub and its readers alone: whoever was open is open.
LEMMA OpenKeeps ==
  ASSUME HubInv, IsTable(conns', Conns, Conn),
         \A c \in Conns : IsOpen(conns, c) => IsOpen(conns', c),
         UNCHANGED <<friends, blocks, publishes>>
  PROVE  HubInv'
<1>1. TypeOK'
  BY DEF HubInv, TypeOK
<1>2. ASSUME NEW p \in DOMAIN publishes, NEW c \in publishes[p].todo
      PROVE  publishes[p].locked /\ IsOpen(conns', c)
  <2>1. publishes[p].locked /\ IsOpen(conns, c)
    BY <1>2 DEF HubInv, SendsAreOpen
  <2>2. c \in Conns
    BY <2>1 DEF HubInv, TypeOK, IsOpen, IsTable
  <2> QED
    BY <2>1, <2>2
<1>3. SendsAreOpen'
  BY <1>2 DEF SendsAreOpen
<1> QED
  BY <1>1, <1>3 DEF HubInv

-------------------------------------------------------------------------------
(* Publish *)

\* A call of Publish begins, with the read lock or waiting for it.
LEMMA PublishKeeps ==
  ASSUME HubInv, NEW p \in Conns \cup Publishers, NEW event \in Event,
         NEW to \in SUBSET Users, Publish(p, event, to),
         IsTable(conns', Conns, Conn),
         \A c \in Conns : IsOpen(conns, c) => IsOpen(conns', c),
         UNCHANGED <<friends, blocks>>
  PROVE  HubInv'
<1> DEFINE publication ==
      [event |-> event, to |-> to, locked |-> FALSE, todo |-> {}]
      row == IF MayRLock THEN Granted(publication, conns) ELSE publication
<1>1. publication \in Publication /\ publication.todo = {}
  BY DEF Publication
<1>2. IsTable(conns, Conns, Conn)
  BY DEF HubInv, TypeOK
<1>3. publishes' = Put(publishes, p, row)
  BY DEF Publish
<1> HIDE DEF publication
<1>4. row \in Publication /\ \A c \in row.todo : row.locked /\ IsOpen(conns, c)
  BY <1>1, <1>2, GrantedTyped
<1> HIDE DEF row
<1>5. IsTable(publishes', Conns \cup Publishers, Publication)
  BY <1>3, <1>4, PutIsTable DEF HubInv, TypeOK
<1>6. TypeOK'
  BY <1>5 DEF HubInv, TypeOK
<1>7. ASSUME NEW q \in DOMAIN publishes', NEW c \in publishes'[q].todo
      PROVE  publishes'[q].locked /\ IsOpen(conns', c)
  <2>0. c \in Conns
    <3>1. publishes'[q] \in Publication
      BY <1>5, <1>7, RowOfTable
    <3> QED
      BY <1>7, <3>1 DEF Publication
  <2>1. CASE q = p
    BY <1>3, <1>4, <1>7, <2>0, <2>1 DEF Put
  <2>2. CASE q # p
    <3>1. q \in DOMAIN publishes /\ publishes'[q] = publishes[q]
      BY <1>3, <1>7, <2>2 DEF Put
    <3> QED
      BY <1>7, <2>0, <3>1 DEF HubInv, SendsAreOpen
  <2> QED
    BY <2>1, <2>2
<1>8. SendsAreOpen'
  BY <1>7 DEF SendsAreOpen
<1> QED
  BY <1>6, <1>8 DEF HubInv

\* An event offered to a channel.
LEMMA OfferedTyped ==
  ASSUME NEW conn \in Conn, NEW event \in Event, NEW late \in BOOLEAN
  PROVE  /\ Offered(conn, event, late) \in Conn
         /\ Offered(conn, event, late).stage = conn.stage
<1> DEFINE room   == HasRoom(conn.send)
           send   == IF room THEN Append(conn.send, event) ELSE conn.send
           missed == MissedAfter(conn, event, room, late)
<1>1. conn.send \in Seq(Event) /\ Len(conn.send) \in Nat
      /\ Len(conn.send) <= QueueSize /\ QueueSize \in Nat
  BY HubAssumption, LenProperties DEF Conn
<1>2. send \in Seq(Event) /\ Len(send) <= QueueSize
  <2>1. CASE room
    <3>1. send = Append(conn.send, event) /\ Len(conn.send) < QueueSize
      BY <2>1 DEF HasRoom
    <3>2. Append(conn.send, event) \in Seq(Event)
          /\ Len(Append(conn.send, event)) = Len(conn.send) + 1
      BY <1>1, AppendProperties
    <3> QED
      BY <1>1, <3>1, <3>2
  <2>2. CASE ~ room
    BY <1>1, <2>2
  <2> QED
    BY <2>1, <2>2
<1>3. missed \in SUBSET Users
  <2>1. conn.missed \in SUBSET Users
    BY DEF Conn
  <2>2. event # OtherEvent => event.user \in Users
    BY DEF Event, PresenceEvent
  <2>3. room \in BOOLEAN
    BY DEF HasRoom
  <2> HIDE DEF room
  <2> QED
    BY <2>1, <2>2, <2>3 DEF MissedAfter
<1>4. Offered(conn, event, late) = [conn EXCEPT !.send = send, !.missed = missed]
  BY DEF Offered, Conn
<1> HIDE DEF send, missed
<1> QED
  BY <1>2, <1>3, <1>4 DEF Conn

\* One channel after another gets the event.
LEMMA SendKeeps ==
  ASSUME HubInv, NEW p, NEW c, Send(p, c)
  PROVE  HubInv'
<1>1. p \in DOMAIN publishes /\ c \in publishes[p].todo
  BY DEF Send
<1>2. publishes[p] \in Publication /\ publishes[p].locked /\ IsOpen(conns, c)
  BY <1>1, RowOfTable DEF HubInv, TypeOK, SendsAreOpen
<1>3. c \in DOMAIN conns /\ conns[c] \in Conn
  BY <1>2, RowOfTable DEF IsOpen, HubInv, TypeOK
<1> DEFINE conn == Offered(conns[c], publishes[p].event, IsOvertaken(p))
<1>4. conn \in Conn /\ conn.stage = conns[c].stage
  <2>1. IsOvertaken(p) \in BOOLEAN
    BY RowOfTable DEF IsOvertaken, HubInv, TypeOK, Conn
  <2> QED
    BY <1>2, <1>3, <2>1, OfferedTyped DEF Publication
<1>5. conns' = [conns EXCEPT ![c] = conn]
  BY DEF Send
<1> HIDE DEF conn
<1>6. IsTable(conns', Conns, Conn)
  BY <1>3, <1>4, <1>5, ChangeConn DEF HubInv, TypeOK
<1>7. \A d : IsOpen(conns, d) => IsOpen(conns', d)
  BY <1>3, <1>4, <1>5 DEF IsOpen
<1>8. publishes' = [publishes EXCEPT ![p].todo = @ \ {c}]
  BY DEF Send
<1>9. IsTable(publishes', Conns \cup Publishers, Publication)
  <2>1. [publishes[p] EXCEPT !.todo = @ \ {c}] \in Publication
    BY <1>2 DEF Publication
  <2> QED
    BY <1>1, <1>8, <2>1 DEF HubInv, TypeOK, IsTable
<1>10. TypeOK'
  BY <1>6, <1>9 DEF Send, HubInv, TypeOK
<1>11. ASSUME NEW q \in DOMAIN publishes'
       PROVE  /\ q \in DOMAIN publishes
              /\ publishes'[q].locked = publishes[q].locked
              /\ publishes'[q].todo \subseteq publishes[q].todo
  <2>1. q \in DOMAIN publishes /\ publishes[q] \in Publication
    BY <1>8, <1>11, RowOfTable DEF HubInv, TypeOK
  <2> QED
    BY <1>8, <2>1 DEF Publication
<1>12. SendsAreOpen'
  BY <1>7, <1>11 DEF HubInv, SendsAreOpen
<1> QED
  BY <1>10, <1>12 DEF HubInv

\* A callback that returns opens no connection and closes none.
LEMMA ReturnedTyped ==
  ASSUME NEW cs, IsTable(cs, Conns, Conn), NEW c
  PROVE  /\ IsTable(Returned(cs, c), Conns, Conn)
         /\ \A d : IsOpen(cs, d) => IsOpen(Returned(cs, c), d)
<1>1. CASE c \in DOMAIN cs /\ cs[c].stage = "connected"
  <2> DEFINE next == [cs[c] EXCEPT !.stage = "serving", !.overtaken = FALSE]
  <2>1. cs[c] \in Conn
    BY <1>1, RowOfTable
  <2>2. Returned(cs, c) = [cs EXCEPT ![c] = next]
    BY <1>1 DEF Returned, IsTable
  <2>3. next \in Conn /\ next.stage = "serving"
    BY <2>1 DEF Conn, Stages
  <2> HIDE DEF next
  <2>4. IsTable(Returned(cs, c), Conns, Conn)
    BY <1>1, <2>2, <2>3, ChangeConn
  <2>5. \A d : IsOpen(cs, d) => IsOpen(Returned(cs, c), d)
    BY <1>1, <2>2, <2>3 DEF IsOpen, OpenStages
  <2> QED
    BY <2>4, <2>5
<1>2. CASE c \in DOMAIN cs /\ cs[c].stage = "disconnected"
  <2>1. Returned(cs, c) = Remove(cs, {c})
    BY <1>2 DEF Returned
  <2>2. \A d : IsOpen(cs, d) => d # c
    BY <1>2 DEF IsOpen, OpenStages
  <2>3. \A d : IsOpen(cs, d) => IsOpen(Returned(cs, c), d)
    BY <2>1, <2>2 DEF IsOpen, Remove
  <2> QED
    BY <2>1, <2>3, RemoveIsTable
<1>3. CASE ~ (c \in DOMAIN cs /\ cs[c].stage \in {"connected", "disconnected"})
  <2>1. Returned(cs, c) = cs
    BY <1>3 DEF Returned
  <2> QED
    BY <2>1
<1> QED
  BY <1>1, <1>2, <1>3

\* The end of Publish.
LEMMA EndPublishKeeps ==
  ASSUME HubInv, NEW p, EndPublish(p)
  PROVE  HubInv'
<1>1. publishes' = Remove(publishes, {p}) /\ conns' = Returned(conns, p)
      /\ UNCHANGED <<friends, blocks>> /\ IsTable(conns, Conns, Conn)
  BY DEF EndPublish, HubInv, TypeOK
<1>2. IsTable(conns', Conns, Conn)
  BY <1>1, ReturnedTyped
<1>3. \A d : IsOpen(conns, d) => IsOpen(conns', d)
  BY <1>1, ReturnedTyped
<1>4. IsTable(publishes', Conns \cup Publishers, Publication)
  BY <1>1, RemoveIsTable DEF HubInv, TypeOK
<1>5. TypeOK'
  BY <1>1, <1>2, <1>4 DEF HubInv, TypeOK
<1>6. \A q \in DOMAIN publishes' :
        q \in DOMAIN publishes /\ publishes'[q] = publishes[q]
  BY <1>1 DEF Remove
<1>7. SendsAreOpen'
  BY <1>3, <1>6 DEF HubInv, SendsAreOpen
<1> QED
  BY <1>5, <1>7 DEF HubInv

-------------------------------------------------------------------------------
(* Serve *)

\* A handshake adds a connection that is not in the hub yet.
LEMMA AcceptKeeps ==
  ASSUME HubInv, NEW c \in Conns, Accept(c)
  PROVE  HubInv'
<1>1. PICK u \in Users : conns' = Put(conns, c,
        [user |-> u, stage |-> "register", send |-> << >>,
         shown |-> [v \in Users |-> "unknown"], missed |-> {},
         overtaken |-> FALSE])
  BY DEF Accept
<1> DEFINE conn == [user |-> u, stage |-> "register", send |-> << >>,
                    shown |-> [v \in Users |-> "unknown"], missed |-> {},
                    overtaken |-> FALSE]
<1>2. conn \in Conn
  <2>1. Len(<< >>) <= QueueSize /\ << >> \in Seq(Event)
    BY HubAssumption, EmptySeq
  <2> QED
    BY <2>1 DEF Conn, Stages
<1> HIDE DEF conn
<1>3. conns' = Put(conns, c, conn)
  BY <1>1 DEF conn
<1>4. IsTable(conns', Conns, Conn)
  BY <1>2, <1>3, PutIsTable DEF HubInv, TypeOK
<1>5. \A d : IsOpen(conns, d) => IsOpen(conns', d)
  BY <1>3 DEF Accept, IsOpen, Put
<1> QED
  BY <1>4, <1>5, OpenKeeps DEF Accept

\* A connection enters the hub.
LEMMA RegisterKeeps ==
  ASSUME HubInv, NEW c \in Conns, Register(c)
  PROVE  HubInv'
<1>1. c \in DOMAIN conns /\ IsTable(conns, Conns, Conn)
  BY DEF Register, HubInv, TypeOK
<1>2. "serving" \in Stages /\ "connected" \in Stages
  BY DEF Stages
<1>3. IsTable(conns', Conns, Conn)
  <2>1. CASE Online(conns[c].user)
    BY <1>1, <1>2, <2>1, ChangeStage DEF Register
  <2>2. CASE ~ Online(conns[c].user)
    <3>1. /\ IsTable(Overtaken(conns[c].user), Conns, Conn)
          /\ c \in DOMAIN Overtaken(conns[c].user)
      BY <1>1, OvertakenFields
    <3>2. conns' = [Overtaken(conns[c].user) EXCEPT ![c].stage = "connected"]
      BY <2>2 DEF Register
    <3> QED
      BY <1>2, <3>1, <3>2, ChangeStage
  <2> QED
    BY <2>1, <2>2
<1> QED
  BY <1>3, UnlockKeeps DEF Register

\* A connection leaves the hub.
LEMMA UnregisterKeeps ==
  ASSUME HubInv, NEW c \in Conns, Unregister(c)
  PROVE  HubInv'
<1>1. c \in DOMAIN conns /\ IsTable(conns, Conns, Conn)
  BY DEF Unregister, HubInv, TypeOK
<1>2. IsTable(conns', Conns, Conn)
  <2>1. CASE IsLast(c)
    <3>1. conns' = [Overtaken(conns[c].user) EXCEPT ![c].stage = "disconnected"]
      BY <2>1 DEF Unregister
    <3>2. /\ IsTable(Overtaken(conns[c].user), Conns, Conn)
          /\ c \in DOMAIN Overtaken(conns[c].user)
      BY <1>1, OvertakenFields
    <3>3. "disconnected" \in Stages
      BY DEF Stages
    <3> QED
      BY <3>1, <3>2, <3>3, ChangeStage
  <2>2. CASE ~ IsLast(c)
    BY <1>1, <2>2, RemoveIsTable DEF Unregister
  <2> QED
    BY <2>1, <2>2
<1> QED
  BY <1>2, UnlockKeeps DEF Unregister

\* OnConnect and OnDisconnect call Publish.
LEMMA PublishPresenceKeeps ==
  ASSUME HubInv, NEW c \in Conns, PublishPresence(c)
  PROVE  HubInv'
<1> DEFINE u == conns[c].user
           event == [user |-> u, online |-> conns[c].stage = "connected"]
<1>1. /\ c \in DOMAIN conns /\ IsTable(conns, Conns, Conn)
      /\ Publish(c, event, FriendsOf(u)) /\ conns' = Told(c, FriendsOf(u))
      /\ UNCHANGED <<friends, blocks>>
  BY DEF PublishPresence, Announces, HubInv, TypeOK
<1>2. u \in Users
  BY <1>1, RowOfTable DEF Conn
<1>3. (conns[c].stage = "connected") \in BOOLEAN
  OBVIOUS
<1>4. event \in Event
  BY <1>2, <1>3 DEF Event, PresenceEvent
<1>5. FriendsOf(u) \in SUBSET Users
  BY DEF FriendsOf
<1> HIDE DEF event, u
<1>6. /\ IsTable(conns', Conns, Conn) /\ DOMAIN conns' = DOMAIN conns
      /\ \A d \in DOMAIN conns : conns'[d].stage = conns[d].stage
  BY <1>1, ToldFields
<1>7. \A d \in Conns : IsOpen(conns, d) => IsOpen(conns', d)
  BY <1>6 DEF IsOpen
<1> QED
  BY <1>1, <1>4, <1>5, <1>6, <1>7, PublishKeeps

\* Or fail to.
LEMMA FailPresenceKeeps ==
  ASSUME HubInv, NEW c \in Conns, FailPresence(c)
  PROVE  HubInv'
<1> DEFINE told == Told(c, {})
<1>1. /\ IsTable(conns, Conns, Conn) /\ c \in DOMAIN conns
      /\ conns' = Returned(told, c)
  BY DEF HubInv, TypeOK, FailPresence, Announces
<1>2. /\ IsTable(told, Conns, Conn) /\ DOMAIN told = DOMAIN conns
      /\ \A d \in DOMAIN conns : told[d].stage = conns[d].stage
  BY <1>1, ToldFields
<1> HIDE DEF told
<1>3. /\ IsTable(conns', Conns, Conn)
      /\ \A d : IsOpen(told, d) => IsOpen(conns', d)
  BY <1>1, <1>2, ReturnedTyped
<1>4. \A d : IsOpen(conns, d) => IsOpen(told, d)
  BY <1>2 DEF IsOpen
<1> QED
  BY <1>3, <1>4, OpenKeeps DEF FailPresence

\* writeLoop takes an event.
LEMMA WriteEventKeeps ==
  ASSUME HubInv, NEW c \in Conns, WriteEvent(c)
  PROVE  HubInv'
<1> DEFINE conn  == conns[c]
           event == Head(conn.send)
           shown == IF event = OtherEvent THEN conn.shown
                    ELSE [conn.shown EXCEPT ![event.user] =
                            IF event.online THEN "online" ELSE "offline"]
           next  == [conn EXCEPT !.send = Tail(conn.send), !.shown = shown]
<1>1. IsTable(conns, Conns, Conn) /\ c \in DOMAIN conns /\ conn.send # << >>
  BY DEF HubInv, TypeOK, WriteEvent
<1>2. conn \in Conn
  BY <1>1, RowOfTable
<1>3. conns' = [conns EXCEPT ![c] = next]
  BY <1>1, <1>2 DEF WriteEvent, Conn
<1>4. conn.send \in Seq(Event) /\ Len(conn.send) <= QueueSize
  BY <1>2 DEF Conn
<1>5. /\ Tail(conn.send) \in Seq(Event)
      /\ Len(Tail(conn.send)) <= QueueSize
  <2>1. Tail(conn.send) \in Seq(Event) /\ Len(Tail(conn.send)) = Len(conn.send) - 1
    BY <1>1, <1>4, HeadTailProperties
  <2>2. Len(conn.send) \in Nat /\ QueueSize \in Nat
    BY <1>4, LenProperties, HubAssumption
  <2> QED
    BY <1>4, <2>1, <2>2
<1>6. shown \in [Users -> {"unknown", "online", "offline"}]
  BY <1>2 DEF Conn
<1> HIDE DEF shown
<1>7. next \in Conn /\ next.stage = conn.stage
  BY <1>2, <1>5, <1>6 DEF Conn
<1> HIDE DEF next
<1>8. IsTable(conns', Conns, Conn)
  BY <1>1, <1>3, <1>7, ChangeConn
<1>9. \A d : IsOpen(conns, d) => IsOpen(conns', d)
  BY <1>1, <1>3, <1>7 DEF IsOpen
<1> QED
  BY <1>8, <1>9, OpenKeeps DEF WriteEvent

\* A connection waits to leave the hub; it is still in it.
LEMMA DisconnectKeeps ==
  ASSUME HubInv, NEW c \in Conns, Disconnect(c)
  PROVE  HubInv'
<1>1. c \in DOMAIN conns /\ IsTable(conns, Conns, Conn)
      /\ conns' = [conns EXCEPT ![c].stage = "unregister"]
  BY DEF Disconnect, HubInv, TypeOK
<1>2. IsTable(conns', Conns, Conn)
  BY <1>1, ChangeStage DEF Stages
<1>3. conns[c] \in Conn
  BY <1>1, RowOfTable
<1>4. \A d : IsOpen(conns, d) => IsOpen(conns', d)
  BY <1>1, <1>3 DEF IsOpen, OpenStages, Conn
<1> QED
  BY <1>2, <1>4, OpenKeeps DEF Disconnect

-------------------------------------------------------------------------------
(* Theorems *)

\* Nobody is connected at the start.
LEMMA HubInit == Init => HubInv
BY DEF Init, FriendshipsInit, NoRows, HubInv, TypeOK, SendsAreOpen, IsTable

\* Every step keeps the invariant.
LEMMA HubNext == HubInv /\ [Next]_vars => HubInv'
<1> SUFFICES ASSUME HubInv, [Next]_vars PROVE HubInv'
  OBVIOUS
<1>1. CASE Social
  <2>1. friends' \subseteq SUBSET Users /\ blocks' \subseteq Users \X Users
    BY <1>1 DEF Social, FriendshipsNext, Befriend, Unfriend, Block, Unblock,
                HubInv, TypeOK
  <2> QED
    BY <1>1, <2>1 DEF Social, hubVars, HubInv, TypeOK, SendsAreOpen, IsOpen
<1>2. ASSUME NEW c \in Conns, Serve(c) PROVE HubInv'
  BY <1>2, AcceptKeeps, RegisterKeeps, PublishPresenceKeeps, FailPresenceKeeps,
     WriteEventKeeps, DisconnectKeeps, UnregisterKeeps DEF Serve
<1>3. ASSUME NEW p \in Publishers, PublishOther(p) PROVE HubInv'
  <2>1. PICK to \in SUBSET Users : Publish(p, OtherEvent, to)
    BY <1>3 DEF PublishOther
  <2>2. OtherEvent \in Event
    BY DEF Event
  <2>3. UNCHANGED <<friends, blocks, conns>>
    BY <1>3 DEF PublishOther
  <2>4. /\ IsTable(conns', Conns, Conn)
        /\ \A c \in Conns : IsOpen(conns, c) => IsOpen(conns', c)
    BY <2>3 DEF HubInv, TypeOK
  <2> QED
    BY <2>1, <2>2, <2>3, <2>4, PublishKeeps
<1>4. ASSUME NEW p \in Conns \cup Publishers, Deliver(p) PROVE HubInv'
  BY <1>4, SendKeeps, EndPublishKeeps DEF Deliver
<1>5. CASE UNCHANGED vars
  BY <1>5 DEF vars, HubInv, TypeOK, SendsAreOpen, IsOpen
<1> QED
  BY <1>1, <1>2, <1>3, <1>4, <1>5 DEF Next

\* The types of connections and events, the bound of the channels included, for
\* any number of connections, users and publishers and any capacity.
THEOREM HubTypeCorrect ==
  Spec => []TypeOK
<1>1. HubInv => TypeOK
  BY DEF HubInv
<1> QED
  BY <1>1, HubInit, HubNext, PTL DEF Spec

\* No Publish ever sends on a channel that unregister has closed.
THEOREM NoSendOnClosed ==
  Spec => []SendsAreOpen
<1>1. HubInv => SendsAreOpen
  BY DEF HubInv
<1> QED
  BY <1>1, HubInit, HubNext, PTL DEF Spec

-------------------------------------------------------------------------------
(* What a device is told *)

\* The events about a user in a channel.
About(conn, u) ==
  {i \in 1 .. Len(conn.send) :
     conn.send[i] # OtherEvent /\ conn.send[i].user = u}

Says(event) == IF event.online THEN "online" ELSE "offline"

\* What a device hears is what the last event about the user says.
LEMMA HeardByLatest ==
  ASSUME NEW conn \in Conn, NEW u, NEW i \in About(conn, u),
         \A j \in About(conn, u) : j <= i
  PROVE  HeardBy(conn, u) = Says(conn.send[i])
<1> DEFINE about == About(conn, u)
           latest == CHOOSE k \in about : \A j \in about : j <= k
<1>1. latest \in about /\ \A j \in about : j <= latest
  OBVIOUS
<1>2. about \subseteq Nat
  BY DEF About
<1>3. latest <= i /\ i <= latest /\ i \in Nat /\ latest \in Nat
  BY <1>1, <1>2
<1>4. HeardBy(conn, u) = IF about = {} THEN conn.shown[u]
                         ELSE Says(conn.send[latest])
  BY DEF HeardBy, About, Says
<1> HIDE DEF latest
<1> QED
  BY <1>1, <1>3, <1>4

\* Without one the device shows what it has shown.
LEMMA HeardByNone ==
  ASSUME NEW conn, NEW u, About(conn, u) = {}
  PROVE  HeardBy(conn, u) = conn.shown[u]
BY DEF HeardBy, About

\* If there is one, there is a last one.
LEMMA LatestExists ==
  ASSUME NEW conn \in Conn, NEW u, About(conn, u) # {}
  PROVE  \E i \in About(conn, u) : \A j \in About(conn, u) : j <= i
<1>1. Len(conn.send) \in Nat
  BY LenProperties DEF Conn
<1>2. About(conn, u) \in SUBSET (1 .. Len(conn.send))
  BY DEF About
<1> QED
  BY <1>1, <1>2, MaxExists

\* An event about a user is the last one; another one changes nothing.
LEMMA HeardAfterAppend ==
  ASSUME NEW conn \in Conn, NEW next \in Conn, NEW event \in Event, NEW u,
         next.send = Append(conn.send, event), next.shown = conn.shown
  PROVE  HeardBy(next, u) = IF event # OtherEvent /\ event.user = u
                            THEN Says(event) ELSE HeardBy(conn, u)
<1> DEFINE n == Len(conn.send)
<1>1. /\ conn.send \in Seq(Event) /\ n \in Nat /\ Len(next.send) = n + 1
      /\ next.send[n + 1] = event
      /\ \A i \in 1 .. n : next.send[i] = conn.send[i]
  BY AppendProperties, LenProperties DEF Conn
<1>2. 1 .. n + 1 = 1 .. n \cup {n + 1} /\ n + 1 \notin 1 .. n
  BY <1>1
<1>3. About(conn, u) \subseteq 1 .. n
  BY DEF About
<1>4. CASE event # OtherEvent /\ event.user = u
  <2>1. n + 1 \in About(next, u)
    BY <1>1, <1>2, <1>4 DEF About
  <2>2. \A j \in About(next, u) : j <= n + 1
    BY <1>1 DEF About
  <2> QED
    BY <1>1, <1>4, <2>1, <2>2, HeardByLatest
<1>5. CASE ~ (event # OtherEvent /\ event.user = u)
  <2>1. About(next, u) = About(conn, u)
    BY <1>1, <1>2, <1>5 DEF About
  <2>2. CASE About(conn, u) = {}
    BY <1>5, <2>1, <2>2, HeardByNone
  <2>3. CASE About(conn, u) # {}
    <3>1. PICK i \in About(conn, u) : \A j \in About(conn, u) : j <= i
      BY <2>3, LatestExists
    <3>2. /\ HeardBy(conn, u) = Says(conn.send[i])
          /\ HeardBy(next, u) = Says(next.send[i])
      BY <2>1, <3>1, HeardByLatest
    <3> QED
      BY <1>1, <1>3, <1>5, <3>1, <3>2
  <2> QED
    BY <2>2, <2>3
<1> QED
  BY <1>4, <1>5

\* The device takes an event: it has heard it before.
LEMMA HeardAfterTake ==
  ASSUME NEW conn \in Conn, NEW next \in Conn, NEW u \in Users,
         conn.send # << >>, next.send = Tail(conn.send),
         next.shown = IF Head(conn.send) = OtherEvent THEN conn.shown
                      ELSE [conn.shown EXCEPT ![Head(conn.send).user] =
                                                Says(Head(conn.send))]
  PROVE  HeardBy(next, u) = HeardBy(conn, u)
<1> DEFINE n == Len(conn.send)
           event == Head(conn.send)
<1>1. /\ n \in Nat /\ n >= 1 /\ Len(next.send) = n - 1
      /\ conn.send[1] = event
      /\ \A i \in 1 .. n - 1 : next.send[i] = conn.send[i + 1]
      /\ conn.shown \in [Users -> {"unknown", "online", "offline"}]
  BY HeadTailProperties, LenProperties, EmptySeq DEF Conn
<1>2. /\ \A i \in About(next, u) : i + 1 \in About(conn, u)
      /\ \A i \in About(conn, u) : i # 1 => i - 1 \in About(next, u)
      /\ About(next, u) \subseteq 1 .. n - 1
      /\ About(conn, u) \subseteq 1 .. n
  BY <1>1 DEF About
<1>3. CASE About(next, u) = {}
  <2>1. CASE 1 \in About(conn, u)
    <3>1. \A j \in About(conn, u) : j <= 1
      BY <1>2, <1>3
    <3>2. HeardBy(conn, u) = Says(event)
      BY <1>1, <2>1, <3>1, HeardByLatest
    <3>3. event # OtherEvent /\ event.user = u
      BY <1>1, <2>1 DEF About
    <3>4. next.shown[u] = Says(event)
      BY <1>1, <3>3
    <3> QED
      BY <1>3, <3>2, <3>4, HeardByNone
  <2>2. CASE 1 \notin About(conn, u)
    <3>1. About(conn, u) = {}
      BY <1>2, <1>3, <2>2
    <3>2. event = OtherEvent \/ event.user # u
      BY <1>1, <3>1 DEF About
    <3>3. next.shown[u] = conn.shown[u]
      BY <1>1, <3>2
    <3>4. HeardBy(next, u) = next.shown[u] /\ HeardBy(conn, u) = conn.shown[u]
      BY <1>3, <3>1, HeardByNone
    <3> QED
      BY <3>3, <3>4
  <2> QED
    BY <2>1, <2>2
<1>4. CASE About(next, u) # {}
  <2>1. PICK i \in About(next, u) : \A j \in About(next, u) : j <= i
    BY <1>4, LatestExists
  <2>2. i + 1 \in About(conn, u) /\ i \in 1 .. n - 1
    BY <1>2, <2>1
  <2>3. ASSUME NEW j \in About(conn, u) PROVE j <= i + 1
    <3>1. CASE j = 1
      BY <2>2, <3>1
    <3>2. CASE j # 1
      <4>1. j - 1 \in About(next, u) /\ j \in 1 .. n
        BY <1>2, <3>2
      <4>2. j - 1 <= i
        BY <2>1, <4>1
      <4> QED
        BY <1>1, <2>2, <4>1, <4>2
    <3> QED
      BY <3>1, <3>2
  <2>4. HeardBy(next, u) = Says(next.send[i])
    BY <2>1, HeardByLatest
  <2>5. HeardBy(conn, u) = Says(conn.send[i + 1])
    BY <2>2, <2>3, HeardByLatest
  <2> QED
    BY <1>1, <2>2, <2>4, <2>5
<1> QED
  BY <1>3, <1>4

\* What a device hears is in its channel and on its screen.
LEMMA HeardSame ==
  ASSUME NEW conn, NEW next, NEW u, next.send = conn.send,
         next.shown = conn.shown
  PROVE  HeardBy(next, u) = HeardBy(conn, u)
BY DEF HeardBy

-------------------------------------------------------------------------------
(* The invariant of presence *)

AnnounceStages == {"connected", "disconnected"}

AnnouncingIn(cs, u) ==
  {c \in DOMAIN cs : cs[c].user = u /\ cs[c].stage \in AnnounceStages}

Truth(cs, u) == IF ClientsOf(cs, {u}) # {} THEN "online" ELSE "offline"

\* The device hears how it is with the user, or nothing, or misses the latest.
IsTold(cs, c, u) ==
  u \in cs[c].missed \/ HeardBy(cs[c], u) \in {"unknown", Truth(cs, u)}

\* The latest announcement of a user is still to reach the device: its friends
\* are not read yet, or the device is one of those it is for.
WillTell(cs, ps, d, c) ==
  /\ ~ cs[d].overtaken
  /\ d \in DOMAIN ps => IF ps[d].locked THEN c \in ps[d].todo
                                        ELSE cs[c].user \in ps[d].to

Knows(cs, ps, c, u) ==
  IsTold(cs, c, u) \/ \E d \in AnnouncingIn(cs, u) : WillTell(cs, ps, d, c)

\* A connection publishes while it announces its user; others publish nothing
\* about presence.
PublicationOK(p, publication, cs) ==
  /\ p \in Publishers => publication.event = OtherEvent
  /\ p \in Conns =>
       /\ p \in DOMAIN cs
       /\ cs[p].stage \in AnnounceStages
       /\ publication.event =
            [user |-> cs[p].user, online |-> cs[p].stage = "connected"]

PublicationsOK ==
  \A p \in DOMAIN publishes : PublicationOK(p, publishes[p], conns)

\* A new connection has heard nothing.  The latest announcement of a user says
\* how it is with them.
ServesOK(cs) ==
  \A c \in DOMAIN cs :
    /\ cs[c].stage = "register" =>
         \A u \in Users : HeardBy(cs[c], u) = "unknown"
    /\ cs[c].overtaken => cs[c].stage \in AnnounceStages
    /\ cs[c].stage \in AnnounceStages /\ ~ cs[c].overtaken
       => (cs[c].stage = "connected" <=> ClientsOf(cs, {cs[c].user}) # {})

DevicesKnow ==
  \A c \in DOMAIN conns : IsOpen(conns, c) =>
    \A u \in Users \ {conns[c].user} : Knows(conns, publishes, c, u)

PresenceInv ==
  /\ HubInv
  /\ PublicationsOK
  /\ ServesOK(conns)
  /\ DevicesKnow

\* When nothing is under way, nothing is still to reach a device.
LEMMA PresenceFollows == PresenceInv => PresenceIsTrue
<1> SUFFICES ASSUME PresenceInv, NEW c \in ClientsOf(conns, Users),
                    NEW u \in FriendsOf(conns[c].user),
                    Announcing(u) = {}, u \notin conns[c].missed
             PROVE  Heard(c, u) \in
                      {"unknown", IF Online(u) THEN "online" ELSE "offline"}
  BY DEF PresenceIsTrue
<1>1. c \in DOMAIN conns /\ IsOpen(conns, c)
  BY DEF ClientsOf, IsOpen
<1>2. u \in Users \ {conns[c].user}
  BY DEF FriendsOf
<1>3. AnnouncingIn(conns, u) = {}
  BY DEF AnnouncingIn, Announcing, AnnounceStages
<1>4. IsTold(conns, c, u)
  BY <1>1, <1>2, <1>3 DEF PresenceInv, DevicesKnow, Knows
<1> QED
  BY <1>4 DEF IsTold, Truth, Online, Heard

-------------------------------------------------------------------------------
(* Views of the connections *)

\* The connections are the same to everybody, whatever is in their channels.
SameView(cs, next) ==
  /\ DOMAIN next = DOMAIN cs
  /\ \A c \in DOMAIN cs :
       /\ next[c].user = cs[c].user
       /\ next[c].overtaken = cs[c].overtaken
       /\ \/ next[c].stage = cs[c].stage
          \/ cs[c].stage = "serving" /\ next[c].stage = "unregister"

LEMMA ViewIsSame ==
  ASSUME NEW cs, NEW next, SameView(cs, next)
  PROVE  /\ \A users : ClientsOf(next, users) = ClientsOf(cs, users)
         /\ \A u : AnnouncingIn(next, u) = AnnouncingIn(cs, u)
         /\ \A u : Truth(next, u) = Truth(cs, u)
         /\ \A c : IsOpen(next, c) <=> IsOpen(cs, c)
<1>1. ASSUME NEW c \in DOMAIN cs
      PROVE  /\ c \in DOMAIN next /\ next[c].user = cs[c].user
             /\ next[c].stage \in OpenStages <=> cs[c].stage \in OpenStages
             /\ next[c].stage \in AnnounceStages <=> cs[c].stage \in AnnounceStages
  BY DEF SameView, OpenStages, AnnounceStages
<1>2. DOMAIN next = DOMAIN cs
  BY DEF SameView
<1>3. \A users : ClientsOf(next, users) = ClientsOf(cs, users)
  BY <1>1, <1>2 DEF ClientsOf
<1>4. \A u : AnnouncingIn(next, u) = AnnouncingIn(cs, u)
  BY <1>1, <1>2 DEF AnnouncingIn
<1>5. \A u : Truth(next, u) = Truth(cs, u)
  BY <1>3 DEF Truth
<1>6. \A c : IsOpen(next, c) <=> IsOpen(cs, c)
  BY <1>1, <1>2 DEF IsOpen
<1> QED
  BY <1>3, <1>4, <1>5, <1>6

\* A device knows what it knew, as long as nothing that is to reach it is lost.
LEMMA KnowsStays ==
  ASSUME NEW cs, NEW next, NEW ps, NEW later, NEW c, NEW u, Knows(cs, ps, c, u),
         HeardBy(next[c], u) = HeardBy(cs[c], u),
         u \in cs[c].missed => u \in next[c].missed,
         Truth(next, u) = Truth(cs, u),
         \A d \in AnnouncingIn(cs, u) : WillTell(cs, ps, d, c) =>
           d \in AnnouncingIn(next, u) /\ WillTell(next, later, d, c)
  PROVE  Knows(next, later, c, u)
BY DEF Knows, IsTold

\* The rows of the tables.
LEMMA HubTyped ==
  ASSUME HubInv
  PROVE  /\ IsTable(conns, Conns, Conn)
         /\ \A c \in DOMAIN conns :
              /\ c \in Conns /\ conns[c] \in Conn /\ conns[c].user \in Users
              /\ conns[c].stage \in Stages
         /\ IsTable(publishes, Conns \cup Publishers, Publication)
         /\ \A p \in DOMAIN publishes :
              /\ p \in Conns \cup Publishers /\ publishes[p] \in Publication
              /\ publishes[p].event \in Event
              /\ publishes[p].to \in SUBSET Users
              /\ publishes[p].todo \in SUBSET Conns
         /\ \A p \in DOMAIN publishes : \A c \in publishes[p].todo :
              publishes[p].locked /\ IsOpen(conns, c)
<1>1. /\ IsTable(conns, Conns, Conn)
      /\ IsTable(publishes, Conns \cup Publishers, Publication)
  BY DEF HubInv, TypeOK
<1>2. \A c \in DOMAIN conns : c \in Conns /\ conns[c] \in Conn
  BY <1>1, RowOfTable
<1>3. \A p \in DOMAIN publishes :
        p \in Conns \cup Publishers /\ publishes[p] \in Publication
  BY <1>1, RowOfTable
<1>4. \A c \in DOMAIN conns :
        conns[c].user \in Users /\ conns[c].stage \in Stages
  BY <1>2 DEF Conn
<1>5. \A p \in DOMAIN publishes :
        /\ publishes[p].event \in Event /\ publishes[p].to \in SUBSET Users
        /\ publishes[p].todo \in SUBSET Conns
  BY <1>3 DEF Publication
<1> QED
  BY <1>1, <1>2, <1>3, <1>4, <1>5 DEF HubInv, SendsAreOpen

\* What the connections are to each other stays right when they are the same.
LEMMA ServesStay ==
  ASSUME NEW cs, NEW next, SameView(cs, next), ServesOK(cs),
         \A c \in DOMAIN cs : cs[c].stage = "register" =>
           \A u \in Users : HeardBy(next[c], u) = HeardBy(cs[c], u)
  PROVE  ServesOK(next)
<1> SUFFICES ASSUME NEW c \in DOMAIN next
             PROVE  /\ next[c].stage = "register" =>
                         \A u \in Users : HeardBy(next[c], u) = "unknown"
                    /\ next[c].overtaken => next[c].stage \in AnnounceStages
                    /\ next[c].stage \in AnnounceStages /\ ~ next[c].overtaken
                       => (next[c].stage = "connected"
                             <=> ClientsOf(next, {next[c].user}) # {})
  BY DEF ServesOK
<1>1. /\ c \in DOMAIN cs /\ next[c].user = cs[c].user
      /\ next[c].overtaken = cs[c].overtaken
      /\ \/ next[c].stage = cs[c].stage
         \/ cs[c].stage = "serving" /\ next[c].stage = "unregister"
      /\ ClientsOf(next, {next[c].user}) = ClientsOf(cs, {cs[c].user})
  <2>1. ClientsOf(next, {next[c].user}) = ClientsOf(cs, {next[c].user})
    BY ViewIsSame
  <2> QED
    BY <2>1 DEF SameView
<1>2. /\ cs[c].stage = "register" =>
           \A u \in Users : HeardBy(cs[c], u) = "unknown"
      /\ cs[c].overtaken => cs[c].stage \in AnnounceStages
      /\ cs[c].stage \in AnnounceStages /\ ~ cs[c].overtaken
         => (cs[c].stage = "connected" <=> ClientsOf(cs, {cs[c].user}) # {})
  BY <1>1 DEF ServesOK
<1>3. CASE next[c].stage = cs[c].stage
  BY <1>1, <1>2, <1>3
<1>4. CASE cs[c].stage = "serving" /\ next[c].stage = "unregister"
  BY <1>1, <1>2, <1>4 DEF AnnounceStages
<1> QED
  BY <1>1, <1>3, <1>4

\* And what is published, when the calls are calls there were.
LEMMA PublicationsStay ==
  ASSUME PublicationsOK,
         \A c \in DOMAIN conns : c \in DOMAIN publishes' =>
           /\ c \in DOMAIN conns' /\ conns'[c].user = conns[c].user
           /\ conns[c].stage \in AnnounceStages => conns'[c].stage = conns[c].stage,
         \A p \in DOMAIN publishes' :
           p \in DOMAIN publishes /\ publishes'[p].event = publishes[p].event
  PROVE  PublicationsOK'
<1> SUFFICES ASSUME NEW p \in DOMAIN publishes'
             PROVE  PublicationOK(p, publishes'[p], conns')
  BY DEF PublicationsOK
<1>1. PublicationOK(p, publishes[p], conns)
  BY DEF PublicationsOK
<1> QED
  BY <1>1 DEF PublicationOK

\* A step after which the connections are the same.
LEMMA ViewKeeps ==
  ASSUME PresenceInv, HubInv', SameView(conns, conns'), PublicationsOK',
         \A c \in DOMAIN conns : conns[c].stage = "register" =>
           \A u \in Users : HeardBy(conns'[c], u) = HeardBy(conns[c], u),
         \A c \in DOMAIN conns : IsOpen(conns, c) =>
           \A u \in Users \ {conns[c].user} : Knows(conns', publishes', c, u)
  PROVE  PresenceInv'
<1>1. ServesOK(conns')
  BY ServesStay DEF PresenceInv
<1>2. DevicesKnow'
  BY ViewIsSame DEF SameView, DevicesKnow
<1> QED
  BY <1>1, <1>2 DEF PresenceInv

-------------------------------------------------------------------------------
(* Steps that publish nothing *)

\* A step of one connection after which it hears what it heard.
LEMMA QuietKeeps ==
  ASSUME PresenceInv, HubInv', UNCHANGED publishes,
         NEW c \in DOMAIN conns, conns' = [conns EXCEPT ![c] = conns'[c]],
         conns'[c].user = conns[c].user,
         conns'[c].overtaken = conns[c].overtaken,
         \/ conns'[c].stage = conns[c].stage
         \/ conns[c].stage = "serving" /\ conns'[c].stage = "unregister",
         \A u \in Users : HeardBy(conns'[c], u) = HeardBy(conns[c], u),
         conns'[c].missed = conns[c].missed
  PROVE  PresenceInv'
<1>1. /\ DOMAIN conns' = DOMAIN conns
      /\ \A d \in DOMAIN conns : d # c => conns'[d] = conns[d]
  BY DEF PresenceInv, HubInv, TypeOK, IsTable
<1>2. SameView(conns, conns')
  <2>1. ASSUME NEW d \in DOMAIN conns
        PROVE  /\ conns'[d].user = conns[d].user
               /\ conns'[d].overtaken = conns[d].overtaken
               /\ \/ conns'[d].stage = conns[d].stage
                  \/ conns[d].stage = "serving" /\ conns'[d].stage = "unregister"
    <3>1. CASE d = c
      BY <3>1
    <3>2. CASE d # c
      BY <1>1, <3>2
    <3> QED
      BY <3>1, <3>2
  <2> QED
    BY <1>1, <2>1 DEF SameView
<1>3. \A d \in DOMAIN conns :
        /\ conns'[d].user = conns[d].user
        /\ conns'[d].overtaken = conns[d].overtaken
        /\ conns'[d].missed = conns[d].missed
        /\ \A u \in Users : HeardBy(conns'[d], u) = HeardBy(conns[d], u)
        /\ conns[d].stage \in AnnounceStages => conns'[d].stage = conns[d].stage
  BY <1>1 DEF AnnounceStages
<1>4. PublicationsOK'
  BY <1>1, <1>3, PublicationsStay DEF PresenceInv
<1>5. ASSUME NEW d \in DOMAIN conns, IsOpen(conns, d),
             NEW u \in Users \ {conns[d].user}
      PROVE  Knows(conns', publishes', d, u)
  <2>1. Knows(conns, publishes, d, u)
    BY <1>5 DEF PresenceInv, DevicesKnow
  <2>2. /\ AnnouncingIn(conns', u) = AnnouncingIn(conns, u)
        /\ Truth(conns', u) = Truth(conns, u)
    BY <1>2, ViewIsSame
  <2>3. \A e \in AnnouncingIn(conns, u) : WillTell(conns, publishes, e, d) =>
          e \in AnnouncingIn(conns', u) /\ WillTell(conns', publishes', e, d)
    BY <1>3, <2>2 DEF WillTell, AnnouncingIn
  <2> QED
    BY <1>3, <2>1, <2>2, <2>3, KnowsStays
<1> QED
  BY <1>2, <1>3, <1>4, <1>5, ViewKeeps

\* writeLoop takes an event.
LEMMA WriteEventTells ==
  ASSUME PresenceInv, HubInv', NEW c \in Conns, WriteEvent(c)
  PROVE  PresenceInv'
<1> DEFINE conn  == conns[c]
           event == Head(conn.send)
           shown == IF event = OtherEvent THEN conn.shown
                    ELSE [conn.shown EXCEPT ![event.user] = Says(event)]
           next  == [conn EXCEPT !.send = Tail(conn.send), !.shown = shown]
<1>1. /\ c \in DOMAIN conns /\ conn.send # << >> /\ conn \in Conn
      /\ UNCHANGED publishes
  BY HubTyped DEF PresenceInv, WriteEvent
<1>2. conns' = [conns EXCEPT ![c] = next]
  BY <1>1 DEF WriteEvent, Conn, Says
<1>3. conns'[c] = next
  BY <1>1, <1>2
<1>4. next \in Conn
  BY <1>1, <1>2, <1>3, RowOfTable DEF HubInv, TypeOK, IsTable
<1>5. /\ next.user = conn.user /\ next.stage = conn.stage
      /\ next.missed = conn.missed /\ next.overtaken = conn.overtaken
      /\ next.send = Tail(conn.send) /\ next.shown = shown
  BY <1>1 DEF Conn
<1> HIDE DEF next
<1>6. \A u \in Users : HeardBy(next, u) = HeardBy(conn, u)
  BY <1>1, <1>4, <1>5, HeardAfterTake
<1>7. /\ next.user = conns[c].user /\ next.stage = conns[c].stage
      /\ next.missed = conns[c].missed /\ next.overtaken = conns[c].overtaken
      /\ \A u \in Users : HeardBy(next, u) = HeardBy(conns[c], u)
  BY <1>5, <1>6
<1>8. c \in DOMAIN conns /\ UNCHANGED publishes
  BY <1>1
<1> QED
  BY <1>2, <1>3, <1>7, <1>8, QuietKeeps

\* A connection waits to leave.
LEMMA DisconnectTells ==
  ASSUME PresenceInv, HubInv', NEW c \in Conns, Disconnect(c)
  PROVE  PresenceInv'
<1> DEFINE next == [conns[c] EXCEPT !.stage = "unregister"]
<1>1. /\ c \in DOMAIN conns /\ conns[c].stage = "serving" /\ conns[c] \in Conn
      /\ conns' = [conns EXCEPT ![c] = next] /\ UNCHANGED publishes
  BY HubTyped DEF PresenceInv, Disconnect
<1>2. /\ next.user = conns[c].user /\ next.stage = "unregister"
      /\ next.missed = conns[c].missed /\ next.overtaken = conns[c].overtaken
      /\ next.send = conns[c].send /\ next.shown = conns[c].shown
  BY <1>1 DEF Conn
<1> HIDE DEF next
<1>3. \A u \in Users : HeardBy(next, u) = HeardBy(conns[c], u)
  BY <1>2, HeardSame
<1>4. conns'[c] = next
  BY <1>1
<1> QED
  BY <1>1, <1>2, <1>3, <1>4, QuietKeeps

\* Friendships begin and end; whoever is told, is told.
LEMMA SocialTells ==
  ASSUME PresenceInv, HubInv', Social
  PROVE  PresenceInv'
<1>1. UNCHANGED <<conns, publishes>>
  BY DEF Social, hubVars
<1> QED
  BY <1>1 DEF PresenceInv, PublicationsOK, DevicesKnow

\* A handshake: the new connection knows nothing.
LEMMA AcceptTells ==
  ASSUME PresenceInv, HubInv', NEW c \in Conns, Accept(c)
  PROVE  PresenceInv'
<1>1. PICK v \in Users : conns' = Put(conns, c,
        [user |-> v, stage |-> "register", send |-> << >>,
         shown |-> [w \in Users |-> "unknown"], missed |-> {},
         overtaken |-> FALSE])
  BY DEF Accept
<1> DEFINE conn == [user |-> v, stage |-> "register", send |-> << >>,
                    shown |-> [w \in Users |-> "unknown"], missed |-> {},
                    overtaken |-> FALSE]
<1>2. /\ conn.stage = "register" /\ ~ conn.overtaken
      /\ \A u \in Users : HeardBy(conn, u) = "unknown"
  <2>1. \A u : About(conn, u) = {}
    BY EmptySeq DEF About
  <2>2. \A u \in Users : conn.shown[u] = "unknown"
    OBVIOUS
  <2> QED
    BY <2>1, <2>2, HeardByNone
<1>3. /\ c \notin DOMAIN conns /\ UNCHANGED publishes
      /\ conns' = Put(conns, c, conn)
  BY <1>1 DEF Accept
<1> HIDE DEF conn
<1>4. /\ DOMAIN conns' = DOMAIN conns \cup {c} /\ conns'[c] = conn
      /\ \A d \in DOMAIN conns : conns'[d] = conns[d]
  BY <1>3 DEF Put
<1>5. /\ \A users : ClientsOf(conns', users) = ClientsOf(conns, users)
      /\ \A u : AnnouncingIn(conns', u) = AnnouncingIn(conns, u)
      /\ \A u : Truth(conns', u) = Truth(conns, u)
      /\ \A d : IsOpen(conns', d) <=> IsOpen(conns, d)
  BY <1>2, <1>3, <1>4
  DEF ClientsOf, AnnouncingIn, Truth, IsOpen, OpenStages, AnnounceStages
<1>6. PublicationsOK'
  BY <1>3, <1>4, PublicationsStay DEF PresenceInv
<1>7. ServesOK(conns')
  <2>1. ServesOK(conns)
    BY DEF PresenceInv
  <2>2. conns'[c].stage = "register" /\ conns'[c].stage \notin AnnounceStages
    BY <1>2, <1>4 DEF AnnounceStages
  <2> QED
    BY <1>2, <1>4, <1>5, <2>1, <2>2 DEF ServesOK
<1>8. ASSUME NEW d \in DOMAIN conns', IsOpen(conns', d),
             NEW u \in Users \ {conns'[d].user}
      PROVE  Knows(conns', publishes', d, u)
  <2>1. d \in DOMAIN conns /\ IsOpen(conns, d) /\ conns'[d] = conns[d]
    BY <1>4, <1>5, <1>8 DEF IsOpen
  <2>2. Knows(conns, publishes, d, u)
    BY <1>8, <2>1 DEF PresenceInv, DevicesKnow
  <2>3. \A e \in AnnouncingIn(conns, u) : WillTell(conns, publishes, e, d) =>
          e \in AnnouncingIn(conns', u) /\ WillTell(conns', publishes', e, d)
    BY <1>3, <1>4, <1>5, <2>1 DEF WillTell, AnnouncingIn
  <2> QED
    BY <1>5, <2>1, <2>2, <2>3, KnowsStays
<1>9. DevicesKnow'
  BY <1>8 DEF DevicesKnow
<1> QED
  BY <1>6, <1>7, <1>9 DEF PresenceInv

-------------------------------------------------------------------------------
(* Publish begins *)

\* Of the connections of some users.
LEMMA ClientsAreUsers ==
  ASSUME NEW cs, NEW users
  PROVE  /\ \A c \in ClientsOf(cs, users) :
              c \in DOMAIN cs /\ IsOpen(cs, c) /\ cs[c].user \in users
         /\ \A c : IsOpen(cs, c) /\ cs[c].user \in users
                   => c \in ClientsOf(cs, users)
BY DEF ClientsOf, IsOpen

\* The row of a call that begins.
LEMMA PublishRow ==
  ASSUME NEW p, NEW event \in Event, NEW to \in SUBSET Users,
         Publish(p, event, to)
  PROVE  /\ p \notin DOMAIN publishes
         /\ DOMAIN publishes' = DOMAIN publishes \cup {p}
         /\ \A q \in DOMAIN publishes : publishes'[q] = publishes[q]
         /\ publishes'[p].event = event
         /\ IF publishes'[p].locked
            THEN publishes'[p].todo = ClientsOf(conns, to)
            ELSE publishes'[p].to = to
<1> DEFINE publication ==
      [event |-> event, to |-> to, locked |-> FALSE, todo |-> {}]
      row == IF MayRLock THEN Granted(publication, conns) ELSE publication
<1>1. p \notin DOMAIN publishes /\ publishes' = Put(publishes, p, row)
  BY DEF Publish
<1>2. /\ row.event = event
      /\ IF row.locked THEN row.todo = ClientsOf(conns, to) ELSE row.to = to
  <2>1. /\ publication \in Publication /\ publication.event = event
        /\ publication.to = to /\ publication.locked = FALSE
    BY DEF Publication
  <2>2. CASE MayRLock
    <3>1. row = Granted(publication, conns)
      BY <2>2
    <3> HIDE DEF publication, row
    <3>2. /\ Granted(publication, conns).event = publication.event
          /\ Granted(publication, conns).locked = TRUE
          /\ Granted(publication, conns).todo = ClientsOf(conns, publication.to)
      BY <2>1 DEF Granted, Publication
    <3> QED
      BY <2>1, <3>1, <3>2
  <2>3. CASE ~ MayRLock
    BY <2>1, <2>3
  <2> QED
    BY <2>2, <2>3
<1> HIDE DEF row, publication
<1>3. /\ DOMAIN publishes' = DOMAIN publishes \cup {p} /\ publishes'[p] = row
      /\ \A q \in DOMAIN publishes : publishes'[q] = publishes[q]
  BY <1>1 DEF Put
<1> QED
  BY <1>1, <1>2, <1>3

\* Other events tell nobody anything about presence.
LEMMA PublishOtherTells ==
  ASSUME PresenceInv, HubInv', NEW p \in Publishers, PublishOther(p)
  PROVE  PresenceInv'
<1>1. PICK to \in SUBSET Users : Publish(p, OtherEvent, to)
  BY DEF PublishOther
<1>2. /\ OtherEvent \in Event /\ p \notin Conns /\ UNCHANGED conns
  BY HubAssumption DEF Event, PublishOther
<1>3. /\ DOMAIN publishes' = DOMAIN publishes \cup {p}
      /\ \A q \in DOMAIN publishes : publishes'[q] = publishes[q]
      /\ publishes'[p].event = OtherEvent
  BY <1>1, <1>2, PublishRow
<1>4. PublicationsOK'
  <2>1. ASSUME NEW q \in DOMAIN publishes'
        PROVE  PublicationOK(q, publishes'[q], conns)
    <3>1. CASE q = p
      BY <1>2, <1>3, <3>1 DEF PublicationOK
    <3>2. CASE q # p
      BY <1>3, <3>2 DEF PresenceInv, PublicationsOK
    <3> QED
      BY <3>1, <3>2
  <2> QED
    BY <1>2, <2>1 DEF PublicationsOK
<1>5. ASSUME NEW d \in DOMAIN conns, IsOpen(conns, d),
             NEW u \in Users \ {conns[d].user}
      PROVE  Knows(conns, publishes', d, u)
  <2>1. Knows(conns, publishes, d, u)
    BY <1>5 DEF PresenceInv, DevicesKnow
  <2>2. \A e \in AnnouncingIn(conns, u) : e # p
    BY <1>2, HubTyped DEF PresenceInv, AnnouncingIn
  <2>3. \A e \in AnnouncingIn(conns, u) : WillTell(conns, publishes, e, d) =>
          WillTell(conns, publishes', e, d)
    BY <1>3, <2>2 DEF WillTell
  <2> QED
    BY <2>1, <2>3, KnowsStays
<1>6. DevicesKnow'
  BY <1>2, <1>5 DEF DevicesKnow
<1> QED
  BY <1>2, <1>4, <1>6 DEF PresenceInv

\* What the connections are like after the friends were read or could not be.
LEMMA ToldView ==
  ASSUME PresenceInv, NEW c \in DOMAIN conns, NEW to
  PROVE  /\ IsTable(Told(c, to), Conns, Conn)
         /\ SameView(conns, Told(c, to))
         /\ \A d \in DOMAIN conns :
              /\ Told(c, to)[d].user = conns[d].user
              /\ Told(c, to)[d].stage = conns[d].stage
              /\ Told(c, to)[d].overtaken = conns[d].overtaken
              /\ conns[d].missed \subseteq Told(c, to)[d].missed
              /\ \A u : HeardBy(Told(c, to)[d], u) = HeardBy(conns[d], u)
              /\ ~ conns[c].overtaken /\ IsOpen(conns, d)
                   /\ conns[d].user \notin to \cup {conns[c].user}
                 => conns[c].user \in Told(c, to)[d].missed
<1> DEFINE told == Told(c, to)
<1>1. /\ IsTable(told, Conns, Conn) /\ DOMAIN told = DOMAIN conns
      /\ \A d \in DOMAIN conns :
           /\ told[d].user = conns[d].user /\ told[d].stage = conns[d].stage
           /\ told[d].send = conns[d].send /\ told[d].shown = conns[d].shown
           /\ told[d].overtaken = conns[d].overtaken
           /\ conns[d].missed \subseteq told[d].missed
           /\ ~ conns[c].overtaken /\ IsOpen(conns, d)
                /\ conns[d].user \notin to \cup {conns[c].user}
              => conns[c].user \in told[d].missed
  BY HubTyped, ToldFields DEF PresenceInv
<1> HIDE DEF told
<1>2. \A d \in DOMAIN conns : \A u : HeardBy(told[d], u) = HeardBy(conns[d], u)
  BY <1>1, HeardSame
<1>3. SameView(conns, told)
  BY <1>1 DEF SameView
<1> QED
  BY <1>1, <1>2, <1>3 DEF told

\* An announcement begins to be sent.  Whoever it is not for misses it.
LEMMA PublishPresenceTells ==
  ASSUME PresenceInv, HubInv', NEW c \in Conns, PublishPresence(c)
  PROVE  PresenceInv'
<1> DEFINE v     == conns[c].user
           to    == FriendsOf(v)
           event == [user |-> v, online |-> conns[c].stage = "connected"]
<1>1. /\ c \in DOMAIN conns /\ conns[c].stage \in AnnounceStages
      /\ conns' = Told(c, to) /\ Publish(c, event, to)
  BY DEF PublishPresence, Announces, AnnounceStages
<1>2. v \in Users /\ to \in SUBSET Users
  BY <1>1, HubTyped DEF PresenceInv, FriendsOf
<1>3. event \in Event
  <2>1. (conns[c].stage = "connected") \in BOOLEAN
    OBVIOUS
  <2> QED
    BY <1>2, <2>1 DEF Event, PresenceEvent
<1> HIDE DEF to
<1>4. /\ c \notin DOMAIN publishes
      /\ DOMAIN publishes' = DOMAIN publishes \cup {c}
      /\ \A q \in DOMAIN publishes : publishes'[q] = publishes[q]
      /\ publishes'[c].event = event
      /\ IF publishes'[c].locked THEN publishes'[c].todo = ClientsOf(conns, to)
                                 ELSE publishes'[c].to = to
  BY <1>1, <1>2, <1>3, PublishRow
<1>5. /\ SameView(conns, conns') /\ DOMAIN conns' = DOMAIN conns
      /\ \A d \in DOMAIN conns :
           /\ conns'[d].user = conns[d].user
           /\ conns'[d].stage = conns[d].stage
           /\ conns'[d].overtaken = conns[d].overtaken
           /\ conns[d].missed \subseteq conns'[d].missed
           /\ \A u : HeardBy(conns'[d], u) = HeardBy(conns[d], u)
           /\ ~ conns[c].overtaken /\ IsOpen(conns, d)
                /\ conns[d].user \notin to \cup {v}
              => v \in conns'[d].missed
  <2>1. SameView(conns, conns')
    BY <1>1, ToldView
  <2> QED
    BY <1>1, <2>1, ToldView DEF SameView
<1>6. PublicationsOK'
  <2>1. ASSUME NEW q \in DOMAIN publishes'
        PROVE  PublicationOK(q, publishes'[q], conns')
    <3>1. CASE q = c
      BY <1>1, <1>4, <1>5, <3>1, HubAssumption DEF PublicationOK
    <3>2. CASE q # c
      <4>1. PublicationOK(q, publishes'[q], conns)
        BY <1>4, <3>2 DEF PresenceInv, PublicationsOK
      <4> QED
        BY <1>5, <4>1 DEF PublicationOK
    <3> QED
      BY <3>1, <3>2
  <2> QED
    BY <2>1 DEF PublicationsOK
<1> HIDE DEF event, v
<1>7. ASSUME NEW d \in DOMAIN conns, IsOpen(conns, d),
             NEW u \in Users \ {conns[d].user}
      PROVE  Knows(conns', publishes', d, u)
  <2>1. Knows(conns, publishes, d, u)
    BY <1>7 DEF PresenceInv, DevicesKnow
  <2>2. /\ AnnouncingIn(conns', u) = AnnouncingIn(conns, u)
        /\ Truth(conns', u) = Truth(conns, u)
    BY <1>5, ViewIsSame
  <2>3. CASE u = v /\ ~ conns[c].overtaken /\ conns[d].user \notin to
    <3>1. u \in conns'[d].missed
      BY <1>5, <1>7, <2>3
    <3> QED
      BY <3>1 DEF Knows, IsTold
  <2>4. CASE u = v /\ ~ conns[c].overtaken /\ conns[d].user \in to
    <3>1. c \in AnnouncingIn(conns', u)
      BY <1>1, <2>2, <2>4 DEF AnnouncingIn, v
    <3>2. d \in ClientsOf(conns, to)
      BY <1>7, <2>4, ClientsAreUsers
    <3>3. WillTell(conns', publishes', c, d)
      BY <1>1, <1>4, <1>5, <2>4, <3>2 DEF WillTell
    <3> QED
      BY <3>1, <3>3 DEF Knows
  <2>5. CASE u # v \/ conns[c].overtaken
    <3>1. \A e \in AnnouncingIn(conns, u) :
            WillTell(conns, publishes, e, d) => e # c
      BY <2>5 DEF WillTell, AnnouncingIn, v
    <3>2. \A e \in AnnouncingIn(conns, u) : WillTell(conns, publishes, e, d) =>
            e \in AnnouncingIn(conns', u) /\ WillTell(conns', publishes', e, d)
      BY <1>4, <1>5, <2>2, <3>1 DEF WillTell, AnnouncingIn
    <3> QED
      BY <1>5, <2>1, <2>2, <3>2, KnowsStays
  <2> QED
    BY <2>3, <2>4, <2>5
<1> QED
  BY <1>5, <1>6, <1>7, ViewKeeps

-------------------------------------------------------------------------------
(* Steps of the lock *)

\* A write lock that was granted: nobody was sending, and who waited goes through
\* the connections that are open now.  Either nothing is new about a user, or
\* the connection that enters or leaves is going to announce it.
LEMMA UnlockTells ==
  ASSUME PresenceInv, HubInv', MayLock, publishes' = Unlocked(conns'),
         NEW c \in DOMAIN conns, conns[c].stage \in {"register", "unregister"},
         DOMAIN conns' \subseteq DOMAIN conns,
         \A d \in DOMAIN conns : d # c =>
           /\ d \in DOMAIN conns' /\ conns'[d].user = conns[d].user
           /\ conns'[d].stage = conns[d].stage
           /\ conns'[d].missed = conns[d].missed
           /\ \A u : HeardBy(conns'[d], u) = HeardBy(conns[d], u),
         IsOpen(conns', c) =>
           \A u \in Users : HeardBy(conns'[c], u) = "unknown",
         \A u \in Users :
           \/ /\ Truth(conns', u) = Truth(conns, u)
              /\ \A d \in AnnouncingIn(conns, u) :
                   conns'[d].overtaken = conns[d].overtaken
           \/ c \in AnnouncingIn(conns', u) /\ ~ conns'[c].overtaken,
         ServesOK(conns')
  PROVE  PresenceInv'
<1>1. DOMAIN publishes' = DOMAIN publishes
  BY DEF Unlocked
<1>2. ASSUME NEW p \in DOMAIN publishes
      PROVE  /\ ~ publishes[p].locked
             /\ publishes'[p].event = publishes[p].event
             /\ publishes'[p].locked = TRUE
             /\ publishes'[p].todo = ClientsOf(conns', publishes[p].to)
  <2>1. publishes[p] \in Publication /\ ~ publishes[p].locked
    BY HubTyped DEF PresenceInv, MayLock
  <2>2. publishes'[p] = Granted(publishes[p], conns')
    BY <2>1 DEF Unlocked
  <2>3. /\ Granted(publishes[p], conns').event = publishes[p].event
        /\ Granted(publishes[p], conns').locked = TRUE
        /\ Granted(publishes[p], conns').todo = ClientsOf(conns', publishes[p].to)
    BY <2>1 DEF Granted, Publication
  <2> QED
    BY <2>1, <2>2, <2>3
<1>3. c \notin DOMAIN publishes /\ conns[c].stage \notin AnnounceStages
  <2>1. c \in Conns
    BY HubTyped DEF PresenceInv
  <2>2. c \in DOMAIN publishes => conns[c].stage \in AnnounceStages
    BY <2>1 DEF PresenceInv, PublicationsOK, PublicationOK
  <2> QED
    BY <2>2 DEF AnnounceStages
<1>4. PublicationsOK'
  <2>1. \A d \in DOMAIN conns : d \in DOMAIN publishes' =>
          /\ d \in DOMAIN conns' /\ conns'[d].user = conns[d].user
          /\ conns[d].stage \in AnnounceStages => conns'[d].stage = conns[d].stage
    BY <1>1, <1>3
  <2> QED
    BY <1>1, <1>2, <2>1, PublicationsStay DEF PresenceInv
<1>5. ASSUME NEW u
      PROVE  AnnouncingIn(conns, u) \subseteq AnnouncingIn(conns', u) \ {c}
  BY <1>3 DEF AnnouncingIn
<1>6. ASSUME NEW d \in DOMAIN conns', IsOpen(conns', d),
             NEW u \in Users \ {conns'[d].user}
      PROVE  Knows(conns', publishes', d, u)
  <2>1. CASE d = c
    <3>1. HeardBy(conns'[d], u) = "unknown"
      BY <1>6, <2>1
    <3> QED
      BY <3>1 DEF Knows, IsTold
  <2>2. CASE c \in AnnouncingIn(conns', u) /\ ~ conns'[c].overtaken
    <3>1. WillTell(conns', publishes', c, d)
      BY <1>1, <1>3, <2>2 DEF WillTell
    <3> QED
      BY <2>2, <3>1 DEF Knows
  <2>3. CASE /\ d # c
             /\ Truth(conns', u) = Truth(conns, u)
             /\ \A e \in AnnouncingIn(conns, u) :
                  conns'[e].overtaken = conns[e].overtaken
    <3>1. /\ d \in DOMAIN conns /\ conns'[d].user = conns[d].user
          /\ conns'[d].missed = conns[d].missed
          /\ HeardBy(conns'[d], u) = HeardBy(conns[d], u)
          /\ IsOpen(conns, d)
      BY <1>6, <2>3 DEF IsOpen
    <3>2. Knows(conns, publishes, d, u)
      BY <1>6, <3>1 DEF PresenceInv, DevicesKnow
    <3>3. ASSUME NEW e \in AnnouncingIn(conns, u),
                 WillTell(conns, publishes, e, d)
          PROVE  e \in AnnouncingIn(conns', u) /\ WillTell(conns', publishes', e, d)
      <4>1. e \in AnnouncingIn(conns', u)
        BY <1>5
      <4>2. ~ conns'[e].overtaken
        BY <2>3, <3>3 DEF WillTell
      <4>3. ASSUME e \in DOMAIN publishes'
            PROVE  publishes'[e].locked /\ d \in publishes'[e].todo
        <5>1. e \in DOMAIN publishes /\ conns[d].user \in publishes[e].to
          BY <1>1, <1>2, <3>3, <4>3 DEF WillTell
        <5>2. d \in ClientsOf(conns', publishes[e].to)
          BY <1>6, <3>1, <5>1, ClientsAreUsers
        <5> QED
          BY <1>2, <5>1, <5>2
      <4> QED
        BY <4>1, <4>2, <4>3 DEF WillTell
    <3> QED
      BY <2>3, <3>1, <3>2, <3>3, KnowsStays
  <2> QED
    BY <2>1, <2>2, <2>3
<1>7. DevicesKnow'
  BY <1>6 DEF DevicesKnow
<1> QED
  BY <1>4, <1>7 DEF PresenceInv

\* A step of one connection, with an announcement that overtakes the others.
LEMMA AnnounceFields ==
  ASSUME PresenceInv, NEW c \in DOMAIN conns,
         conns[c].stage \notin AnnounceStages, NEW stage,
         conns' = [Overtaken(conns[c].user) EXCEPT ![c].stage = stage]
  PROVE  /\ DOMAIN conns' = DOMAIN conns
         /\ \A d \in DOMAIN conns :
              /\ conns'[d].user = conns[d].user
              /\ conns'[d].stage = IF d = c THEN stage ELSE conns[d].stage
              /\ conns'[d].missed = conns[d].missed
              /\ \A u : HeardBy(conns'[d], u) = HeardBy(conns[d], u)
              /\ d # c /\ conns[d].user = conns[c].user
                 => (conns'[d].overtaken <=> conns'[d].stage \in AnnounceStages)
              /\ conns[d].user # conns[c].user
                 => conns'[d].overtaken = conns[d].overtaken
         /\ ~ conns'[c].overtaken
<1> DEFINE v     == conns[c].user
           after == Overtaken(v)
<1>1. IsTable(conns, Conns, Conn) /\ ServesOK(conns)
  BY HubTyped DEF PresenceInv
<1>2. /\ IsTable(after, Conns, Conn) /\ DOMAIN after = DOMAIN conns
      /\ \A d \in DOMAIN conns :
           /\ after[d].user = conns[d].user /\ after[d].stage = conns[d].stage
           /\ after[d].send = conns[d].send /\ after[d].shown = conns[d].shown
           /\ after[d].missed = conns[d].missed
           /\ d \in Announcing(v) => after[d].overtaken
           /\ d \notin Announcing(v) => after[d] = conns[d]
  BY <1>1, OvertakenFields
<1>3. conns' = [after EXCEPT ![c].stage = stage]
  OBVIOUS
<1> HIDE DEF after
<1>4. after[c] \in Conn
  BY <1>2, RowOfTable
<1>5. /\ DOMAIN conns' = DOMAIN conns
      /\ \A d \in DOMAIN conns : d # c => conns'[d] = after[d]
      /\ conns'[c] = [after[c] EXCEPT !.stage = stage]
  BY <1>2, <1>3
<1>6. /\ conns'[c].user = after[c].user /\ conns'[c].stage = stage
      /\ conns'[c].send = after[c].send /\ conns'[c].shown = after[c].shown
      /\ conns'[c].missed = after[c].missed
      /\ conns'[c].overtaken = after[c].overtaken
  BY <1>4, <1>5 DEF Conn
<1>7. ASSUME NEW d \in DOMAIN conns
      PROVE  /\ conns'[d].user = conns[d].user
             /\ conns'[d].stage = IF d = c THEN stage ELSE conns[d].stage
             /\ conns'[d].missed = conns[d].missed
             /\ conns'[d].send = conns[d].send
             /\ conns'[d].shown = conns[d].shown
             /\ d \in Announcing(v) => conns'[d].overtaken
             /\ d \notin Announcing(v)
                => conns'[d].overtaken = conns[d].overtaken
  <2>1. CASE d = c
    BY <1>2, <1>6, <2>1
  <2>2. CASE d # c
    BY <1>2, <1>5, <2>2
  <2> QED
    BY <2>1, <2>2
<1>8. ASSUME NEW d \in DOMAIN conns
      PROVE  /\ conns[d].overtaken => conns[d].stage \in AnnounceStages
             /\ d \in Announcing(v) <=>
                  conns[d].user = v /\ conns[d].stage \in AnnounceStages
  BY <1>1 DEF ServesOK, Announcing, AnnounceStages
<1>9. ASSUME NEW d \in DOMAIN conns, NEW u
      PROVE  HeardBy(conns'[d], u) = HeardBy(conns[d], u)
  <2>1. conns'[d].send = conns[d].send /\ conns'[d].shown = conns[d].shown
    BY <1>7
  <2> QED
    BY <2>1, HeardSame
<1>10. ~ conns'[c].overtaken
  BY <1>7, <1>8
<1>11. ASSUME NEW d \in DOMAIN conns, d # c, conns[d].user = v
       PROVE  conns'[d].overtaken <=> conns'[d].stage \in AnnounceStages
  <2>1. conns'[d].stage = conns[d].stage
    BY <1>7, <1>11
  <2>2. CASE d \in Announcing(v)
    BY <1>7, <1>8, <2>1, <2>2
  <2>3. CASE d \notin Announcing(v)
    <3>1. conns[d].stage \notin AnnounceStages /\ ~ conns[d].overtaken
      BY <1>8, <1>11, <2>3
    <3> QED
      BY <1>7, <2>1, <2>3, <3>1
  <2> QED
    BY <2>2, <2>3
<1>12. \A d \in DOMAIN conns : conns[d].user # v =>
         conns'[d].overtaken = conns[d].overtaken
  BY <1>7, <1>8
<1> QED
  BY <1>5, <1>7, <1>9, <1>10, <1>11, <1>12

\* A connection enters the hub.
LEMMA RegisterTells ==
  ASSUME PresenceInv, HubInv', NEW c \in Conns, Register(c)
  PROVE  PresenceInv'
<1> DEFINE v == conns[c].user
<1>1. /\ c \in DOMAIN conns /\ conns[c].stage = "register" /\ conns[c] \in Conn
      /\ MayLock /\ publishes' = Unlocked(conns')
      /\ conns[c].stage \notin AnnounceStages
      /\ ServesOK(conns) /\ \A u \in Users : HeardBy(conns[c], u) = "unknown"
      /\ ~ conns[c].overtaken
  BY HubTyped DEF PresenceInv, Register, ServesOK, AnnounceStages
<1>2. CASE Online(v)
  <2> DEFINE next == [conns[c] EXCEPT !.stage = "serving"]
  <2>1. /\ DOMAIN conns' = DOMAIN conns /\ conns'[c] = next
        /\ \A d \in DOMAIN conns : d # c => conns'[d] = conns[d]
    BY <1>1, <1>2 DEF Register
  <2>2. /\ next.user = v /\ next.stage = "serving" /\ next.send = conns[c].send
        /\ next.shown = conns[c].shown /\ next.overtaken = conns[c].overtaken
    BY <1>1 DEF Conn
  <2> HIDE DEF next
  <2>3. \A u \in Users : HeardBy(conns'[c], u) = "unknown"
    BY <1>1, <2>1, <2>2, HeardSame
  <2>4. /\ \A u : u # v => ClientsOf(conns', {u}) = ClientsOf(conns, {u})
        /\ ClientsOf(conns, {v}) # {}
        /\ \A u : ClientsOf(conns, {u}) \subseteq ClientsOf(conns', {u})
    BY <1>1, <1>2, <2>1, <2>2 DEF ClientsOf, OpenStages, Online
  <2>5. \A u : ClientsOf(conns', {u}) # {} <=> ClientsOf(conns, {u}) # {}
    BY <2>4
  <2>6. \A u : /\ Truth(conns', u) = Truth(conns, u)
               /\ \A d \in AnnouncingIn(conns, u) :
                    conns'[d].overtaken = conns[d].overtaken
    BY <1>1, <2>1, <2>5 DEF Truth, AnnouncingIn
  <2>7. ServesOK(conns')
    <3> SUFFICES ASSUME NEW d \in DOMAIN conns'
                 PROVE  /\ conns'[d].stage = "register" =>
                             \A u \in Users : HeardBy(conns'[d], u) = "unknown"
                        /\ conns'[d].overtaken => conns'[d].stage \in AnnounceStages
                        /\ conns'[d].stage \in AnnounceStages /\ ~ conns'[d].overtaken
                           => (conns'[d].stage = "connected"
                                 <=> ClientsOf(conns', {conns'[d].user}) # {})
      BY DEF ServesOK
    <3>1. CASE d = c
      BY <1>1, <2>1, <2>2, <2>3, <3>1 DEF AnnounceStages
    <3>2. CASE d # c
      <4>1. d \in DOMAIN conns /\ conns'[d] = conns[d]
        BY <2>1, <3>2
      <4> QED
        BY <1>1, <2>5, <4>1 DEF ServesOK
    <3> QED
      BY <3>1, <3>2
  <2>8. \A d \in DOMAIN conns : d # c =>
          /\ d \in DOMAIN conns' /\ conns'[d].user = conns[d].user
          /\ conns'[d].stage = conns[d].stage
          /\ conns'[d].missed = conns[d].missed
          /\ \A u : HeardBy(conns'[d], u) = HeardBy(conns[d], u)
    BY <2>1
  <2> QED
    BY <1>1, <2>1, <2>3, <2>6, <2>7, <2>8, UnlockTells
<1>3. CASE ~ Online(v)
  <2>1. conns' = [Overtaken(v) EXCEPT ![c].stage = "connected"]
    BY <1>3 DEF Register
  <2>2. /\ DOMAIN conns' = DOMAIN conns
        /\ \A d \in DOMAIN conns :
             /\ conns'[d].user = conns[d].user
             /\ conns'[d].stage = IF d = c THEN "connected" ELSE conns[d].stage
             /\ conns'[d].missed = conns[d].missed
             /\ \A u : HeardBy(conns'[d], u) = HeardBy(conns[d], u)
             /\ d # c /\ conns[d].user = v
                => (conns'[d].overtaken <=> conns'[d].stage \in AnnounceStages)
             /\ conns[d].user # v => conns'[d].overtaken = conns[d].overtaken
        /\ ~ conns'[c].overtaken
    BY <1>1, <2>1, AnnounceFields
  <2>3. \A u : u # v => ClientsOf(conns', {u}) = ClientsOf(conns, {u})
    BY <2>2 DEF ClientsOf
  <2>4. c \in ClientsOf(conns', {v}) /\ c \in AnnouncingIn(conns', v)
    BY <1>1, <2>2 DEF ClientsOf, OpenStages, AnnouncingIn, AnnounceStages
  <2>5. \A u : u # v => /\ Truth(conns', u) = Truth(conns, u)
                        /\ \A d \in AnnouncingIn(conns, u) :
                             conns'[d].overtaken = conns[d].overtaken
    BY <2>2, <2>3 DEF Truth, AnnouncingIn
  <2>6. ServesOK(conns')
    <3> SUFFICES ASSUME NEW d \in DOMAIN conns'
                 PROVE  /\ conns'[d].stage = "register" =>
                             \A u \in Users : HeardBy(conns'[d], u) = "unknown"
                        /\ conns'[d].overtaken => conns'[d].stage \in AnnounceStages
                        /\ conns'[d].stage \in AnnounceStages /\ ~ conns'[d].overtaken
                           => (conns'[d].stage = "connected"
                                 <=> ClientsOf(conns', {conns'[d].user}) # {})
      BY DEF ServesOK
    <3>1. CASE d = c
      BY <1>1, <2>2, <2>4, <3>1
    <3>2. CASE d # c /\ conns[d].user = v
      BY <1>1, <2>2, <3>2 DEF ServesOK
    <3>3. CASE d # c /\ conns[d].user # v
      <4>1. /\ d \in DOMAIN conns /\ conns'[d].stage = conns[d].stage
            /\ conns'[d].overtaken = conns[d].overtaken
            /\ conns'[d].user = conns[d].user
            /\ \A u : HeardBy(conns'[d], u) = HeardBy(conns[d], u)
            /\ ClientsOf(conns', {conns'[d].user}) = ClientsOf(conns, {conns[d].user})
        BY <2>2, <2>3, <3>3
      <4> QED
        BY <1>1, <4>1 DEF ServesOK
    <3> QED
      BY <3>1, <3>2, <3>3
  <2> HIDE DEF v
  <2> QED
    BY <1>1, <2>2, <2>4, <2>5, <2>6, UnlockTells
<1> QED
  BY <1>2, <1>3

\* A connection leaves the hub.
LEMMA UnregisterTells ==
  ASSUME PresenceInv, HubInv', NEW c \in Conns, Unregister(c)
  PROVE  PresenceInv'
<1> DEFINE v == conns[c].user
<1>1. /\ c \in DOMAIN conns /\ conns[c].stage = "unregister"
      /\ conns[c].stage \notin AnnounceStages
      /\ MayLock /\ publishes' = Unlocked(conns') /\ ServesOK(conns)
      /\ c \in ClientsOf(conns, {v})
  BY DEF PresenceInv, Unregister, AnnounceStages, ClientsOf, OpenStages
<1>2. CASE IsLast(c)
  <2>1. conns' = [Overtaken(v) EXCEPT ![c].stage = "disconnected"]
    BY <1>2 DEF Unregister
  <2>2. /\ DOMAIN conns' = DOMAIN conns
        /\ \A d \in DOMAIN conns :
             /\ conns'[d].user = conns[d].user
             /\ conns'[d].stage = IF d = c THEN "disconnected" ELSE conns[d].stage
             /\ conns'[d].missed = conns[d].missed
             /\ \A u : HeardBy(conns'[d], u) = HeardBy(conns[d], u)
             /\ d # c /\ conns[d].user = v
                => (conns'[d].overtaken <=> conns'[d].stage \in AnnounceStages)
             /\ conns[d].user # v => conns'[d].overtaken = conns[d].overtaken
        /\ ~ conns'[c].overtaken
    BY <1>1, <2>1, AnnounceFields
  <2>3. \A u : u # v => ClientsOf(conns', {u}) = ClientsOf(conns, {u})
    BY <2>2 DEF ClientsOf
  <2>4. /\ ClientsOf(conns', {v}) = {} /\ c \in AnnouncingIn(conns', v)
        /\ ~ IsOpen(conns', c)
    <3>1. \A d \in ClientsOf(conns', {v}) : d # c /\ d \in ClientsOf(conns, {v})
      BY <1>1, <2>2 DEF ClientsOf, OpenStages
    <3>2. ClientsOf(conns, {v}) = {c}
      BY <1>2 DEF IsLast
    <3> QED
      BY <1>1, <2>2, <3>1, <3>2 DEF AnnouncingIn, AnnounceStages, IsOpen, OpenStages
  <2>5. \A u : u # v => /\ Truth(conns', u) = Truth(conns, u)
                        /\ \A d \in AnnouncingIn(conns, u) :
                             conns'[d].overtaken = conns[d].overtaken
    BY <2>2, <2>3 DEF Truth, AnnouncingIn
  <2>6. ServesOK(conns')
    <3> SUFFICES ASSUME NEW d \in DOMAIN conns'
                 PROVE  /\ conns'[d].stage = "register" =>
                             \A u \in Users : HeardBy(conns'[d], u) = "unknown"
                        /\ conns'[d].overtaken => conns'[d].stage \in AnnounceStages
                        /\ conns'[d].stage \in AnnounceStages /\ ~ conns'[d].overtaken
                           => (conns'[d].stage = "connected"
                                 <=> ClientsOf(conns', {conns'[d].user}) # {})
      BY DEF ServesOK
    <3>1. CASE d = c
      BY <1>1, <2>2, <2>4, <3>1
    <3>2. CASE d # c /\ conns[d].user = v
      BY <1>1, <2>2, <3>2 DEF ServesOK
    <3>3. CASE d # c /\ conns[d].user # v
      <4>1. /\ d \in DOMAIN conns /\ conns'[d].stage = conns[d].stage
            /\ conns'[d].overtaken = conns[d].overtaken
            /\ conns'[d].user = conns[d].user
            /\ \A u : HeardBy(conns'[d], u) = HeardBy(conns[d], u)
            /\ ClientsOf(conns', {conns'[d].user}) = ClientsOf(conns, {conns[d].user})
        BY <2>2, <2>3, <3>3
      <4> QED
        BY <1>1, <4>1 DEF ServesOK
    <3> QED
      BY <3>1, <3>2, <3>3
  <2> HIDE DEF v
  <2> QED
    BY <1>1, <2>2, <2>4, <2>5, <2>6, UnlockTells
<1>3. CASE ~ IsLast(c)
  <2>1. /\ DOMAIN conns' = DOMAIN conns \ {c}
        /\ \A d \in DOMAIN conns' : conns'[d] = conns[d]
    BY <1>3 DEF Unregister, Remove
  <2>2. /\ \A u : ClientsOf(conns', {u}) = ClientsOf(conns, {u}) \ {c}
        /\ \A u : u # v => c \notin ClientsOf(conns, {u})
        /\ ~ IsOpen(conns', c)
    BY <2>1 DEF ClientsOf, IsOpen
  <2>3. ClientsOf(conns, {v}) # {c}
    BY <1>3 DEF IsLast
  <2>4. \A u : ClientsOf(conns', {u}) # {} <=> ClientsOf(conns, {u}) # {}
    <3>1. ClientsOf(conns, {v}) # {} /\ ClientsOf(conns, {v}) \ {c} # {}
      BY <1>1, <2>3
    <3>2. \A u : u # v => ClientsOf(conns, {u}) \ {c} = ClientsOf(conns, {u})
      BY <2>2
    <3> QED
      BY <2>2, <3>1, <3>2
  <2>5. \A u : /\ Truth(conns', u) = Truth(conns, u)
               /\ \A d \in AnnouncingIn(conns, u) :
                    conns'[d].overtaken = conns[d].overtaken
    BY <1>1, <2>1, <2>4 DEF Truth, AnnouncingIn
  <2>6. ServesOK(conns')
    BY <1>1, <2>1, <2>4 DEF ServesOK
  <2>7. \A d \in DOMAIN conns : d # c =>
          /\ d \in DOMAIN conns' /\ conns'[d].user = conns[d].user
          /\ conns'[d].stage = conns[d].stage
          /\ conns'[d].missed = conns[d].missed
          /\ \A u : HeardBy(conns'[d], u) = HeardBy(conns[d], u)
    BY <2>1
  <2> QED
    BY <1>1, <2>1, <2>2, <2>5, <2>6, <2>7, UnlockTells
<1> QED
  BY <1>2, <1>3

-------------------------------------------------------------------------------
(* Events into the channels *)

\* What a connection is after an event was offered to it: of the user the event
\* is about it hears what the latest announcement says, or misses that.
LEMMA OfferedTells ==
  ASSUME NEW conn \in Conn, NEW event \in Event, NEW late \in BOOLEAN
  PROVE  LET next == Offered(conn, event, late)
         IN /\ next.user = conn.user /\ next.stage = conn.stage
            /\ next.overtaken = conn.overtaken
            /\ \A u \in Users :
                 ~ (event # OtherEvent /\ event.user = u) =>
                   /\ HeardBy(next, u) = HeardBy(conn, u)
                   /\ u \in conn.missed => u \in next.missed
            /\ event # OtherEvent /\ ~ late =>
                 \/ event.user \in next.missed
                 \/ HeardBy(next, event.user) = Says(event)
            /\ event # OtherEvent /\ late =>
                 \/ event.user \in next.missed
                 \/ /\ HeardBy(next, event.user) = HeardBy(conn, event.user)
                    /\ event.user \notin conn.missed
<1> DEFINE room   == HasRoom(conn.send)
           send   == IF room THEN Append(conn.send, event) ELSE conn.send
           missed == MissedAfter(conn, event, room, late)
           next   == Offered(conn, event, late)
<1>1. next \in Conn
  BY OfferedTyped
<1>2. next = [conn EXCEPT !.send = send, !.missed = missed]
  BY DEF Offered, Conn
<1> HIDE DEF next
<1>3. /\ next.send = send /\ next.missed = missed
      /\ next.user = conn.user /\ next.shown = conn.shown
      /\ next.stage = conn.stage /\ next.overtaken = conn.overtaken
  BY <1>2 DEF Conn
<1>4. /\ event = OtherEvent => missed = conn.missed
      /\ event # OtherEvent /\ room /\ ~ late
         => missed = conn.missed \ {event.user}
      /\ event # OtherEvent /\ ~ room /\ ~ late
         => missed = conn.missed \cup {event.user}
      /\ event # OtherEvent /\ room /\ late
         => missed = conn.missed \cup {event.user}
      /\ event # OtherEvent /\ ~ room /\ late => missed = conn.missed
  <2>1. room \in BOOLEAN
    BY DEF HasRoom
  <2> HIDE DEF room
  <2> QED
    BY <2>1 DEF MissedAfter
<1> HIDE DEF missed
<1>5. CASE room
  <2>1. next.send = Append(conn.send, event)
    BY <1>3, <1>5
  <2>2. \A u : HeardBy(next, u) = IF event # OtherEvent /\ event.user = u
                                  THEN Says(event) ELSE HeardBy(conn, u)
    BY <1>1, <1>3, <2>1, HeardAfterAppend
  <2>3. \A u \in Users :
          ~ (event # OtherEvent /\ event.user = u) /\ u \in conn.missed
          => u \in next.missed
    BY <1>3, <1>4, <1>5
  <2>4. event # OtherEvent /\ late => event.user \in next.missed
    BY <1>3, <1>4, <1>5
  <2> QED
    BY <1>3, <2>2, <2>3, <2>4 DEF next
<1>6. CASE ~ room
  <2>1. \A u : HeardBy(next, u) = HeardBy(conn, u)
    BY <1>3, <1>6, HeardSame
  <2>2. conn.missed \subseteq next.missed
        /\ (event # OtherEvent /\ ~ late => event.user \in next.missed)
    BY <1>3, <1>4, <1>6
  <2> QED
    BY <1>3, <2>1, <2>2 DEF next
<1> QED
  BY <1>5, <1>6

\* The latest announcement says how it is; an overtaken one is not what a device
\* is waiting for.
LEMMA SendTells ==
  ASSUME PresenceInv, HubInv', NEW p, NEW c, Send(p, c)
  PROVE  PresenceInv'
<1> DEFINE event == publishes[p].event
           late  == IsOvertaken(p)
           conn  == Offered(conns[c], event, late)
<1>1. /\ p \in DOMAIN publishes /\ c \in publishes[p].todo
      /\ publishes' = [publishes EXCEPT ![p].todo = @ \ {c}]
      /\ publishes[p] \in Publication /\ event \in Event /\ publishes[p].locked
      /\ c \in DOMAIN conns /\ conns[c] \in Conn /\ IsOpen(conns, c)
  <2>1. /\ p \in DOMAIN publishes /\ c \in publishes[p].todo
        /\ publishes' = [publishes EXCEPT ![p].todo = @ \ {c}]
    BY DEF Send
  <2>2. IsOpen(conns, c) /\ publishes[p].locked
    BY <2>1 DEF PresenceInv, HubInv, SendsAreOpen
  <2> QED
    BY <2>1, <2>2, HubTyped DEF PresenceInv, IsOpen
<1>2. conns' = [conns EXCEPT ![c] = conn]
  BY DEF Send
<1>3. late \in BOOLEAN
  BY HubTyped DEF IsOvertaken, PresenceInv, Conn
<1>4. /\ conn.user = conns[c].user /\ conn.stage = conns[c].stage
      /\ conn.overtaken = conns[c].overtaken
      /\ \A u \in Users :
           ~ (event # OtherEvent /\ event.user = u) =>
             /\ HeardBy(conn, u) = HeardBy(conns[c], u)
             /\ u \in conns[c].missed => u \in conn.missed
      /\ event # OtherEvent /\ ~ late =>
           \/ event.user \in conn.missed
           \/ HeardBy(conn, event.user) = Says(event)
      /\ event # OtherEvent /\ late =>
           \/ event.user \in conn.missed
           \/ /\ HeardBy(conn, event.user) = HeardBy(conns[c], event.user)
              /\ event.user \notin conns[c].missed
  BY <1>1, <1>3, OfferedTells
<1> HIDE DEF conn
<1>5. /\ DOMAIN conns' = DOMAIN conns /\ conns'[c] = conn
      /\ \A d \in DOMAIN conns : d # c => conns'[d] = conns[d]
  BY <1>1, <1>2
<1>6. SameView(conns, conns')
      /\ \A d \in DOMAIN conns : /\ conns'[d].user = conns[d].user
                                 /\ conns'[d].stage = conns[d].stage
                                 /\ conns'[d].overtaken = conns[d].overtaken
  BY <1>4, <1>5 DEF SameView
<1>7. /\ DOMAIN publishes' = DOMAIN publishes
      /\ \A q \in DOMAIN publishes : q # p => publishes'[q] = publishes[q]
      /\ publishes'[p].event = event
      /\ publishes'[p].locked = publishes[p].locked
      /\ publishes'[p].todo = publishes[p].todo \ {c}
  <2>1. /\ DOMAIN publishes' = DOMAIN publishes
        /\ publishes'[p] = [publishes[p] EXCEPT !.todo = @ \ {c}]
        /\ \A q \in DOMAIN publishes : q # p => publishes'[q] = publishes[q]
    BY <1>1
  <2> QED
    BY <1>1, <2>1 DEF Publication
<1>8. PublicationsOK'
  <2>1. \A q \in DOMAIN publishes' :
          q \in DOMAIN publishes /\ publishes'[q].event = publishes[q].event
    BY <1>7
  <2> QED
    BY <1>5, <1>6, <2>1, PublicationsStay DEF PresenceInv
<1>9. p \in Conns => /\ p \in DOMAIN conns
                     /\ event # OtherEvent /\ event.user = conns[p].user
                     /\ late <=> conns[p].overtaken
                     /\ ~ late => Says(event) = Truth(conns, event.user)
  <2> SUFFICES ASSUME p \in Conns
               PROVE  /\ p \in DOMAIN conns
                      /\ event # OtherEvent /\ event.user = conns[p].user
                      /\ late <=> conns[p].overtaken
                      /\ ~ late => Says(event) = Truth(conns, event.user)
    OBVIOUS
  <2>1. /\ p \in DOMAIN conns /\ conns[p].stage \in AnnounceStages
        /\ event = [user |-> conns[p].user, online |-> conns[p].stage = "connected"]
    BY <1>1 DEF PresenceInv, PublicationsOK, PublicationOK
  <2>2. /\ event.user = conns[p].user
        /\ event.online = (conns[p].stage = "connected")
    BY <2>1
  <2>3. event # OtherEvent
    <3>1. conns[p].user \in Users /\ (conns[p].stage = "connected") \in BOOLEAN
      BY <2>1, HubTyped DEF PresenceInv
    <3>2. event \in PresenceEvent
      BY <2>1, <3>1 DEF PresenceEvent
    <3> QED
      BY <3>2, HubAssumption
  <2> HIDE DEF event
  <2>4. late <=> conns[p].overtaken
    BY <2>1 DEF IsOvertaken
  <2>5. ~ conns[p].overtaken =>
          (conns[p].stage = "connected" <=> ClientsOf(conns, {conns[p].user}) # {})
    BY <2>1 DEF PresenceInv, ServesOK
  <2>6. ~ late => Says(event) = Truth(conns, event.user)
    BY <2>2, <2>4, <2>5 DEF Says, Truth
  <2> QED
    BY <2>1, <2>2, <2>3, <2>4, <2>6
<1>10. p \notin Conns => event = OtherEvent
  BY <1>1, HubTyped DEF PresenceInv, PublicationsOK, PublicationOK
<1> HIDE DEF event, late
<1>11. ASSUME NEW d \in DOMAIN conns, IsOpen(conns, d),
              NEW u \in Users \ {conns[d].user}
       PROVE  Knows(conns', publishes', d, u)
  <2>1. /\ Truth(conns', u) = Truth(conns, u)
        /\ AnnouncingIn(conns', u) = AnnouncingIn(conns, u)
    BY <1>6, ViewIsSame
  <2>2. Knows(conns, publishes, d, u)
    BY <1>11 DEF PresenceInv, DevicesKnow
  <2>3. CASE d = c /\ event # OtherEvent /\ event.user = u /\ ~ late
    BY <1>4, <1>5, <1>9, <1>10, <2>1, <2>3 DEF Knows, IsTold
  <2>4. CASE d = c /\ event # OtherEvent /\ event.user = u /\ u \in conn.missed
    BY <1>5, <2>4 DEF Knows, IsTold
  <2>5. CASE ~ (d = c /\ event # OtherEvent /\ event.user = u
                /\ (~ late \/ u \in conn.missed))
    <3>1. /\ HeardBy(conns'[d], u) = HeardBy(conns[d], u)
          /\ u \in conns[d].missed => u \in conns'[d].missed
      BY <1>4, <1>5, <2>5
    <3>2. ASSUME NEW e \in AnnouncingIn(conns, u),
                 WillTell(conns, publishes, e, d)
          PROVE  e \in AnnouncingIn(conns', u) /\ WillTell(conns', publishes', e, d)
      <4>1. /\ e \in DOMAIN conns /\ e \in Conns /\ conns[e].user = u
            /\ conns'[e].overtaken = conns[e].overtaken
            /\ conns'[d].user = conns[d].user
        BY <1>6, HubTyped DEF PresenceInv, AnnouncingIn
      <4>2. ~ (e = p /\ d = c)
        <5> SUFFICES ASSUME e = p, d = c PROVE FALSE
          OBVIOUS
        <5>1. event # OtherEvent /\ event.user = u /\ late
          BY <1>9, <2>5, <4>1
        <5> QED
          BY <1>9, <3>2, <4>1, <5>1 DEF WillTell
      <4>3. CASE e = p
        BY <1>1, <1>7, <2>1, <3>2, <4>1, <4>2, <4>3 DEF WillTell
      <4>4. CASE e # p
        BY <1>7, <2>1, <3>2, <4>1, <4>4 DEF WillTell
      <4> QED
        BY <4>3, <4>4
    <3> QED
      BY <2>1, <2>2, <3>1, <3>2, KnowsStays
  <2> QED
    BY <2>3, <2>4, <2>5
<1>12. \A d \in DOMAIN conns : conns[d].stage = "register" =>
         \A u \in Users : HeardBy(conns'[d], u) = HeardBy(conns[d], u)
  BY <1>1, <1>5 DEF IsOpen, OpenStages
<1> QED
  BY <1>6, <1>8, <1>11, <1>12, ViewKeeps

-------------------------------------------------------------------------------
(* The end of an announcement *)

\* A callback that returns leaves the hub as it is.
LEMMA ReturnedView ==
  ASSUME NEW cs, IsTable(cs, Conns, Conn), ServesOK(cs),
         NEW c \in DOMAIN cs, cs[c].stage \in AnnounceStages
  PROVE  /\ \A d \in DOMAIN cs :
              d # c => d \in DOMAIN Returned(cs, c) /\ Returned(cs, c)[d] = cs[d]
         /\ \A d \in DOMAIN Returned(cs, c) :
              /\ d \in DOMAIN cs
              /\ Returned(cs, c)[d].user = cs[d].user
              /\ Returned(cs, c)[d].missed = cs[d].missed
              /\ \A u : HeardBy(Returned(cs, c)[d], u) = HeardBy(cs[d], u)
         /\ \A users : ClientsOf(Returned(cs, c), users) = ClientsOf(cs, users)
         /\ \A u : AnnouncingIn(Returned(cs, c), u) = AnnouncingIn(cs, u) \ {c}
         /\ ServesOK(Returned(cs, c))
<1> DEFINE after == Returned(cs, c)
           next  == [cs[c] EXCEPT !.stage = "serving", !.overtaken = FALSE]
<1>1. cs[c] \in Conn
  BY RowOfTable
<1>2. /\ next.stage = "serving" /\ next.user = cs[c].user
      /\ next.missed = cs[c].missed /\ next.send = cs[c].send
      /\ next.shown = cs[c].shown /\ ~ next.overtaken
  BY <1>1 DEF Conn
<1>3. /\ cs[c].stage = "connected" => after = [cs EXCEPT ![c] = next]
      /\ cs[c].stage = "disconnected" => after = Remove(cs, {c})
  BY DEF Returned, IsTable
<1> HIDE DEF next, after
<1>4. /\ DOMAIN after \subseteq DOMAIN cs
      /\ \A d \in DOMAIN cs : d # c => d \in DOMAIN after /\ after[d] = cs[d]
      /\ c \in DOMAIN after => after[c] = next /\ cs[c].stage = "connected"
      /\ cs[c].stage = "connected" => c \in DOMAIN after
  BY <1>3 DEF Remove, AnnounceStages
<1>5. ASSUME NEW d \in DOMAIN after
      PROVE  /\ d \in DOMAIN cs
             /\ after[d].user = cs[d].user /\ after[d].missed = cs[d].missed
             /\ after[d].send = cs[d].send /\ after[d].shown = cs[d].shown
  BY <1>2, <1>4
<1>6. ASSUME NEW d \in DOMAIN after, NEW u
      PROVE  HeardBy(after[d], u) = HeardBy(cs[d], u)
  BY <1>5, HeardSame
<1>7. ASSUME NEW users
      PROVE  ClientsOf(after, users) = ClientsOf(cs, users)
  BY <1>2, <1>4 DEF ClientsOf, OpenStages, AnnounceStages
<1>8. ASSUME NEW u
      PROVE  AnnouncingIn(after, u) = AnnouncingIn(cs, u) \ {c}
  BY <1>2, <1>4 DEF AnnouncingIn, AnnounceStages
<1>9. ServesOK(after)
  <2> SUFFICES ASSUME NEW d \in DOMAIN after
               PROVE  /\ after[d].stage = "register" =>
                           \A u \in Users : HeardBy(after[d], u) = "unknown"
                      /\ after[d].overtaken => after[d].stage \in AnnounceStages
                      /\ after[d].stage \in AnnounceStages /\ ~ after[d].overtaken
                         => (after[d].stage = "connected"
                               <=> ClientsOf(after, {after[d].user}) # {})
    BY DEF ServesOK
  <2>1. CASE d = c
    BY <1>2, <1>4, <2>1 DEF AnnounceStages
  <2>2. CASE d # c
    <3>1. d \in DOMAIN cs /\ after[d] = cs[d]
      BY <1>4, <2>2
    <3>2. ClientsOf(after, {after[d].user}) = ClientsOf(cs, {cs[d].user})
      BY <1>7, <3>1
    <3> QED
      BY <3>1, <3>2 DEF ServesOK
  <2> QED
    BY <2>1, <2>2
<1> QED
  BY <1>4, <1>5, <1>6, <1>7, <1>8, <1>9 DEF after

\* The end of Publish: everybody on the list had their turn.
LEMMA EndPublishTells ==
  ASSUME PresenceInv, HubInv', NEW p \in Conns \cup Publishers, EndPublish(p)
  PROVE  PresenceInv'
<1>1. /\ p \in DOMAIN publishes /\ publishes[p].locked /\ publishes[p].todo = {}
      /\ publishes' = Remove(publishes, {p}) /\ conns' = Returned(conns, p)
      /\ PublicationOK(p, publishes[p], conns)
  BY DEF EndPublish, PresenceInv, PublicationsOK
<1>2. /\ DOMAIN publishes' = DOMAIN publishes \ {p}
      /\ \A q \in DOMAIN publishes' : publishes'[q] = publishes[q]
  BY <1>1 DEF Remove
<1>3. CASE p \notin Conns
  <2>1. p \notin DOMAIN conns
    BY <1>3, HubTyped DEF PresenceInv
  <2>2. conns' = conns
    BY <1>1, <2>1 DEF Returned
  <2>3. PublicationsOK'
    BY <1>1, <1>2, <2>2 DEF PresenceInv, PublicationsOK
  <2>4. ASSUME NEW d \in DOMAIN conns, IsOpen(conns, d),
               NEW u \in Users \ {conns[d].user}
        PROVE  Knows(conns, publishes', d, u)
    <3>1. Knows(conns, publishes, d, u)
      BY <2>4 DEF PresenceInv, DevicesKnow
    <3>2. \A e \in AnnouncingIn(conns, u) : WillTell(conns, publishes, e, d) =>
            WillTell(conns, publishes', e, d)
      BY <1>2 DEF WillTell
    <3> QED
      BY <3>1, <3>2, KnowsStays
  <2>5. DevicesKnow'
    BY <2>2, <2>4 DEF DevicesKnow
  <2> QED
    BY <2>2, <2>3, <2>5 DEF PresenceInv
<1>4. CASE p \in Conns
  <2>1. p \in DOMAIN conns /\ conns[p].stage \in AnnounceStages
    BY <1>1, <1>4 DEF PublicationOK
  <2>2. IsTable(conns, Conns, Conn) /\ ServesOK(conns)
    BY HubTyped DEF PresenceInv
  <2>3. /\ \A d \in DOMAIN conns :
             d # p => d \in DOMAIN conns' /\ conns'[d] = conns[d]
        /\ \A d \in DOMAIN conns' :
             /\ d \in DOMAIN conns /\ conns'[d].user = conns[d].user
             /\ conns'[d].missed = conns[d].missed
             /\ \A u : HeardBy(conns'[d], u) = HeardBy(conns[d], u)
        /\ \A users : ClientsOf(conns', users) = ClientsOf(conns, users)
        /\ \A u : AnnouncingIn(conns', u) = AnnouncingIn(conns, u) \ {p}
        /\ ServesOK(conns')
    BY <1>1, <2>1, <2>2, ReturnedView
  <2>4. PublicationsOK'
    BY <1>2, <2>3, PublicationsStay DEF PresenceInv
  <2>5. ASSUME NEW d \in DOMAIN conns', IsOpen(conns', d),
               NEW u \in Users \ {conns'[d].user}
        PROVE  Knows(conns', publishes', d, u)
    <3>1. /\ d \in DOMAIN conns /\ u \in Users \ {conns[d].user}
          /\ conns'[d].user = conns[d].user /\ conns'[d].missed = conns[d].missed
          /\ HeardBy(conns'[d], u) = HeardBy(conns[d], u)
      BY <2>3, <2>5
    <3>2. IsOpen(conns, d)
      <4>1. d \in ClientsOf(conns', {conns'[d].user})
        BY <2>5, ClientsAreUsers
      <4> QED
        BY <2>3, <4>1, ClientsAreUsers
    <3>3. Knows(conns, publishes, d, u)
      BY <3>1, <3>2 DEF PresenceInv, DevicesKnow
    <3>4. Truth(conns', u) = Truth(conns, u)
      BY <2>3 DEF Truth
    <3>5. ASSUME NEW e \in AnnouncingIn(conns, u),
                 WillTell(conns, publishes, e, d)
          PROVE  e \in AnnouncingIn(conns', u) /\ WillTell(conns', publishes', e, d)
      <4>1. e # p
        BY <1>1, <3>5 DEF WillTell
      <4>2. e \in AnnouncingIn(conns', u) /\ conns'[e] = conns[e]
        BY <2>3, <4>1 DEF AnnouncingIn
      <4> QED
        BY <1>2, <3>1, <3>5, <4>1, <4>2 DEF WillTell
    <3> QED
      BY <3>1, <3>3, <3>4, <3>5, KnowsStays
  <2>6. DevicesKnow'
    BY <2>5 DEF DevicesKnow
  <2> QED
    BY <2>3, <2>4, <2>6 DEF PresenceInv
<1> QED
  BY <1>3, <1>4

\* Nobody is told: all who are connected miss it.
LEMMA FailPresenceTells ==
  ASSUME PresenceInv, HubInv', NEW c \in Conns, FailPresence(c)
  PROVE  PresenceInv'
<1> DEFINE v    == conns[c].user
           told == Told(c, {})
<1>1. /\ c \in DOMAIN conns /\ conns[c].stage \in AnnounceStages
      /\ c \notin DOMAIN publishes /\ UNCHANGED publishes
      /\ conns' = Returned(told, c)
  BY DEF FailPresence, Announces, AnnounceStages
<1>2. /\ IsTable(told, Conns, Conn) /\ SameView(conns, told)
      /\ DOMAIN told = DOMAIN conns
      /\ \A d \in DOMAIN conns :
           /\ told[d].user = conns[d].user /\ told[d].stage = conns[d].stage
           /\ told[d].overtaken = conns[d].overtaken
           /\ conns[d].missed \subseteq told[d].missed
           /\ \A u : HeardBy(told[d], u) = HeardBy(conns[d], u)
           /\ ~ conns[c].overtaken /\ IsOpen(conns, d) /\ conns[d].user # v
              => v \in told[d].missed
  <2>1. SameView(conns, told)
    BY <1>1, ToldView
  <2> QED
    BY <1>1, <2>1, ToldView DEF SameView
<1> HIDE DEF told
<1>3. ServesOK(told)
  BY <1>2, ServesStay DEF PresenceInv
<1>4. /\ \A d \in DOMAIN told :
           d # c => d \in DOMAIN conns' /\ conns'[d] = told[d]
      /\ \A d \in DOMAIN conns' :
           /\ d \in DOMAIN told /\ conns'[d].user = told[d].user
           /\ conns'[d].missed = told[d].missed
           /\ \A u : HeardBy(conns'[d], u) = HeardBy(told[d], u)
      /\ \A users : ClientsOf(conns', users) = ClientsOf(told, users)
      /\ \A u : AnnouncingIn(conns', u) = AnnouncingIn(told, u) \ {c}
      /\ ServesOK(conns')
  BY <1>1, <1>2, <1>3, ReturnedView
<1>5. /\ \A users : ClientsOf(conns', users) = ClientsOf(conns, users)
      /\ \A u : AnnouncingIn(conns', u) = AnnouncingIn(conns, u) \ {c}
  BY <1>2, <1>4, ViewIsSame
<1>6. PublicationsOK'
  <2>1. \A d \in DOMAIN conns : d \in DOMAIN publishes' =>
          /\ d \in DOMAIN conns' /\ conns'[d].user = conns[d].user
          /\ conns[d].stage \in AnnounceStages => conns'[d].stage = conns[d].stage
    BY <1>1, <1>2, <1>4
  <2> QED
    BY <1>1, <2>1, PublicationsStay DEF PresenceInv
<1>7. ASSUME NEW d \in DOMAIN conns', IsOpen(conns', d),
             NEW u \in Users \ {conns'[d].user}
      PROVE  Knows(conns', publishes', d, u)
  <2>1. /\ d \in DOMAIN conns /\ u \in Users \ {conns[d].user}
        /\ conns'[d].user = conns[d].user
        /\ conns'[d].missed = told[d].missed
        /\ conns[d].missed \subseteq conns'[d].missed
        /\ HeardBy(conns'[d], u) = HeardBy(conns[d], u)
    BY <1>2, <1>4, <1>7
  <2>2. IsOpen(conns, d)
    <3>1. d \in ClientsOf(conns', {conns'[d].user})
      BY <1>7, ClientsAreUsers
    <3> QED
      BY <1>5, <3>1, ClientsAreUsers
  <2>3. Knows(conns, publishes, d, u)
    BY <2>1, <2>2 DEF PresenceInv, DevicesKnow
  <2>4. Truth(conns', u) = Truth(conns, u)
    BY <1>5 DEF Truth
  <2>5. CASE u = v /\ ~ conns[c].overtaken
    BY <1>2, <2>1, <2>2, <2>5 DEF Knows, IsTold
  <2>6. CASE u # v \/ conns[c].overtaken
    <3>1. ASSUME NEW e \in AnnouncingIn(conns, u),
                 WillTell(conns, publishes, e, d)
          PROVE  e \in AnnouncingIn(conns', u) /\ WillTell(conns', publishes', e, d)
      <4>1. e # c
        BY <2>6, <3>1 DEF WillTell, AnnouncingIn
      <4>2. /\ e \in AnnouncingIn(conns', u)
            /\ conns'[e].overtaken = conns[e].overtaken
        BY <1>2, <1>4, <1>5, <4>1 DEF AnnouncingIn
      <4> QED
        BY <1>1, <2>1, <3>1, <4>2 DEF WillTell
    <3> QED
      BY <2>1, <2>3, <2>4, <3>1, KnowsStays
  <2> QED
    BY <2>5, <2>6
<1>8. DevicesKnow'
  BY <1>7 DEF DevicesKnow
<1> QED
  BY <1>4, <1>6, <1>8 DEF PresenceInv

-------------------------------------------------------------------------------
(* The theorem about presence *)

LEMMA PresenceInit == Init => PresenceInv
BY HubInit DEF Init, NoRows, PresenceInv, PublicationsOK, ServesOK, DevicesKnow

LEMMA PresenceStep == PresenceInv /\ [Next]_vars => PresenceInv'
<1> SUFFICES ASSUME PresenceInv, [Next]_vars PROVE PresenceInv'
  OBVIOUS
<1>0. HubInv'
  BY HubNext DEF PresenceInv
<1>1. CASE Social
  BY <1>0, <1>1, SocialTells
<1>2. ASSUME NEW c \in Conns, Serve(c) PROVE PresenceInv'
  BY <1>0, <1>2, AcceptTells, RegisterTells, PublishPresenceTells,
     FailPresenceTells, WriteEventTells, DisconnectTells, UnregisterTells
  DEF Serve
<1>3. ASSUME NEW p \in Publishers, PublishOther(p) PROVE PresenceInv'
  BY <1>0, <1>3, PublishOtherTells
<1>4. ASSUME NEW p \in Conns \cup Publishers, Deliver(p) PROVE PresenceInv'
  BY <1>0, <1>4, SendTells, EndPublishTells DEF Deliver
<1>5. CASE UNCHANGED vars
  BY <1>0, <1>5 DEF vars, PresenceInv, PublicationsOK, DevicesKnow
<1> QED
  BY <1>1, <1>2, <1>3, <1>4, <1>5 DEF Next

\* docs/websocket.md, presence "to friends when a user goes online or offline":
\* once no announcement of a user is under way, no device that got the latest of
\* them last shows anything else than the truth, whoever connects and leaves
\* meanwhile, whichever announcements overtake each other, and however
\* friendships begin and end.
THEOREM PresenceIsTold == Spec => []PresenceIsTrue
<1>1. PresenceInv /\ [Next]_vars => PresenceInv'
  BY PresenceStep
<1> QED
  BY <1>1, PresenceInit, PresenceFollows, PTL DEF Spec

===============================================================================
