------------------------------ MODULE RealtimeHub ------------------------------
(*****************************************************************************)
(* WebSocket connections and the events sent to them: internal/realtime/     *)
(* hub.go with the presence callbacks of internal/httpapi/websocket.go.      *)
(*                                                                           *)
(* The hub keeps its connections under an RWMutex.  Serve takes the write    *)
(* lock to register and to unregister a connection; Publish holds the read   *)
(* lock while it puts an event into the channel of one connection after      *)
(* another, and drops it where the channel is full.  Everything here is in   *)
(* memory: a restart is Init.                                                *)
(*****************************************************************************)
EXTENDS Integers, Sequences, FiniteSets, Tables, Friendships

CONSTANTS
  Conns,       \* WebSocket connections
  Publishers,  \* HTTP handlers and read loops that publish other events
  OtherEvent,  \* an event that is not about presence
  QueueSize,   \* capacity of client.send (32 in Serve)
  ListFails    \* whether the read of the friends to tell may fail

PresenceEvent == [user : Users, online : BOOLEAN]
Event == PresenceEvent \cup {OtherEvent}

ASSUME HubAssumption ==
  /\ QueueSize \in Nat \ {0}
  /\ ListFails \in BOOLEAN
  /\ Conns \cap Publishers = {}
  /\ OtherEvent \notin PresenceEvent

VARIABLES
  conns,     \* connections whose Serve runs
  publishes  \* calls of Publish under way, by the goroutine that makes them

hubVars == <<conns, publishes>>
vars == <<friends, blocks, conns, publishes>>

-------------------------------------------------------------------------------
(* Types *)

\* Where Serve is: it waits for the write lock to register, is in OnConnect, has
\* its loops running, waits for the write lock to unregister, is in
\* OnDisconnect.  The connection is in the hub at the open ones.
Stages == {"register", "connected", "serving", "unregister", "disconnected"}
OpenStages == {"connected", "serving", "unregister"}

\* send holds the events in the channel, shown what the device was last told of
\* each user.  The rest is history: missed has the users of whom it was not told
\* the latest, overtaken says that its user was announced again meanwhile.
Conn ==
  {conn \in [user : Users, stage : Stages, send : Seq(Event),
             shown : [Users -> {"unknown", "online", "offline"}],
             missed : SUBSET Users, overtaken : BOOLEAN] : Len(conn.send) <= QueueSize}

\* The users the event is for; once the read lock is held, the connections that
\* are still to get it.
Publication ==
  [event : Event, to : SUBSET Users, locked : BOOLEAN, todo : SUBSET Conns]

TypeOK ==
  /\ friends \subseteq SUBSET Users
  /\ blocks \subseteq Users \X Users
  /\ IsTable(conns, Conns, Conn)
  /\ IsTable(publishes, Conns \cup Publishers, Publication)

Init ==
  /\ FriendshipsInit
  /\ conns = NoRows
  /\ publishes = NoRows

-------------------------------------------------------------------------------
(* The hub and its lock *)

IsOpen(cs, c) == c \in DOMAIN cs /\ cs[c].stage \in OpenStages

\* Hub.clients: the connections of some users.
ClientsOf(cs, users) ==
  {c \in DOMAIN cs : cs[c].stage \in OpenStages /\ cs[c].user \in users}

Online(u) == ClientsOf(conns, {u}) # {}

\* Mutant: nobody waits for the readers.
MayLockAnyway == TRUE

\* mu.Lock is granted when no reader holds the lock.
MayLock == \A p \in DOMAIN publishes : ~ publishes[p].locked

\* mu.RLock is granted at once when no writer waits.
MayRLock ==
  \A c \in DOMAIN conns : conns[c].stage \notin {"register", "unregister"}

\* Publish has the read lock and goes through the connections of its users.
Granted(publication, cs) ==
  [publication EXCEPT !.locked = TRUE, !.todo = ClientsOf(cs, publication.to)]

\* mu.Unlock lets in the readers that wait.
Unlocked(cs) ==
  [p \in DOMAIN publishes |->
     IF publishes[p].locked THEN publishes[p] ELSE Granted(publishes[p], cs)]

-------------------------------------------------------------------------------
(* Publish *)

Publish(p, event, to) ==
  LET publication == [event |-> event, to |-> to, locked |-> FALSE, todo |-> {}]
  IN /\ p \notin DOMAIN publishes
     /\ publishes' = Put(publishes, p, IF MayRLock
                                       THEN Granted(publication, conns)
                                       ELSE publication)

\* Message, read, conversation and typing events, to the members of some
\* conversation.
PublishOther(p) ==
  /\ \E to \in SUBSET Users \ {{}} : Publish(p, OtherEvent, to)
  /\ UNCHANGED <<friends, blocks, conns>>

\* Mutant: the channel takes one more.
HasRoomForMore(queue) == Len(queue) <= QueueSize

HasRoom(queue) == Len(queue) < QueueSize

\* What a connection misses after an event about a user was or was not put into
\* its channel: the latest may be dropped, or an overtaken one may come after it.
MissedAfter(conn, event, put, overtaken) ==
  CASE event = OtherEvent \/ (~ put /\ overtaken) -> conn.missed
    [] event # OtherEvent /\ put /\ ~ overtaken -> conn.missed \ {event.user}
    [] event # OtherEvent /\ put # ~ overtaken -> conn.missed \cup {event.user}

\* select with default: a full channel drops the event.
Offered(conn, event, overtaken) ==
  [conn EXCEPT
     !.send = IF HasRoom(@) THEN Append(@, event) ELSE @,
     !.missed = MissedAfter(conn, event, HasRoom(conn.send), overtaken)]

IsOvertaken(p) == p \in DOMAIN conns /\ conns[p].overtaken

\* Mutant: a full channel makes Publish wait.
SendWhenRoom(p, c) ==
  /\ p \in DOMAIN publishes /\ c \in publishes[p].todo
  /\ HasRoom(conns[c].send)
  /\ conns' = [conns EXCEPT ![c] = Offered(@, publishes[p].event, IsOvertaken(p))]
  /\ publishes' = [publishes EXCEPT ![p].todo = @ \ {c}]
  /\ UNCHANGED <<friends, blocks>>

Send(p, c) ==
  /\ p \in DOMAIN publishes /\ c \in publishes[p].todo
  /\ conns' = [conns EXCEPT ![c] = Offered(@, publishes[p].event, IsOvertaken(p))]
  /\ publishes' = [publishes EXCEPT ![p].todo = @ \ {c}]
  /\ UNCHANGED <<friends, blocks>>

\* OnConnect returns to Serve, which starts the loops; after OnDisconnect Serve
\* is over.
Returned(cs, c) ==
  CASE c \in DOMAIN cs /\ cs[c].stage = "connected" ->
         [cs EXCEPT ![c].stage = "serving", ![c].overtaken = FALSE]
    [] c \in DOMAIN cs /\ cs[c].stage = "disconnected" ->
         Remove(cs, {c})
    [] OTHER -> cs

\* mu.RUnlock.
EndPublish(p) ==
  /\ p \in DOMAIN publishes /\ publishes[p].locked /\ publishes[p].todo = {}
  /\ publishes' = Remove(publishes, {p})
  /\ conns' = Returned(conns, p)
  /\ UNCHANGED <<friends, blocks>>

-------------------------------------------------------------------------------
(* Serve *)

FriendsOf(u) == {v \in Users \ {u} : {u, v} \in friends}

\* The handshake of an authenticated user, and Serve as far as mu.Lock.
Accept(c) ==
  /\ c \notin DOMAIN conns
  /\ \E u \in Users :
       conns' = Put(conns, c,
         [user |-> u, stage |-> "register", send |-> << >>,
          shown |-> [v \in Users |-> "unknown"], missed |-> {},
          overtaken |-> FALSE])
  /\ UNCHANGED <<friends, blocks, publishes>>

\* Announcements of the user that are not over yet.
Announcing(u) ==
  {c \in DOMAIN conns :
     conns[c].user = u /\ conns[c].stage \in {"connected", "disconnected"}}

\* The connections when an announcement of the user begins.
Overtaken(u) ==
  [c \in DOMAIN conns |-> IF c \in Announcing(u)
                          THEN [conns[c] EXCEPT !.overtaken = TRUE]
                          ELSE conns[c]]

\* register; OnConnect has something to do for the first connection only.
Register(c) ==
  /\ c \in DOMAIN conns /\ conns[c].stage = "register"
  /\ MayLock
  /\ conns' = IF Online(conns[c].user)
              THEN [conns EXCEPT ![c].stage = "serving"]
              ELSE [Overtaken(conns[c].user) EXCEPT ![c].stage = "connected"]
  /\ publishes' = Unlocked(conns')
  /\ UNCHANGED <<friends, blocks>>

Announces(c) ==
  /\ c \in DOMAIN conns /\ conns[c].stage \in {"connected", "disconnected"}
  /\ c \notin DOMAIN publishes

\* The connections after c told, or would have told, nobody but the users `to'.
Told(c, to) ==
  LET u == conns[c].user
      untold(d) == /\ ~ conns[c].overtaken
                   /\ IsOpen(conns, d) /\ conns[d].user \notin to \cup {u}
  IN [d \in DOMAIN conns |-> IF untold(d)
                             THEN [conns[d] EXCEPT !.missed = @ \cup {u}]
                             ELSE conns[d]]

\* publishPresenceEvent: the friends are read, then Publish is called.
PublishPresence(c) ==
  LET u == conns[c].user
  IN /\ Announces(c)
     /\ Publish(c, [user |-> u, online |-> conns[c].stage = "connected"],
                FriendsOf(u))
     /\ conns' = Told(c, FriendsOf(u))
     /\ UNCHANGED <<friends, blocks>>

\* ListFriendsForUser gave an error: nobody is told.
FailPresence(c) ==
  /\ ListFails /\ Announces(c)
  /\ conns' = Returned(Told(c, {}), c)
  /\ UNCHANGED <<friends, blocks, publishes>>

\* writeLoop: an event reaches the device.
WriteEvent(c) ==
  /\ c \in DOMAIN conns /\ conns[c].stage = "serving" /\ conns[c].send # << >>
  /\ LET event == Head(conns[c].send)
     IN conns' = [conns EXCEPT
          ![c].send = Tail(@),
          ![c].shown = IF event = OtherEvent THEN @
                       ELSE [@ EXCEPT ![event.user] =
                               IF event.online THEN "online" ELSE "offline"]]
  /\ UNCHANGED <<friends, blocks, publishes>>

\* A loop ended with an error; Serve goes as far as mu.Lock.
Disconnect(c) ==
  /\ c \in DOMAIN conns /\ conns[c].stage = "serving"
  /\ conns' = [conns EXCEPT ![c].stage = "unregister"]
  /\ UNCHANGED <<friends, blocks, publishes>>

\* Mutant: the length is taken before the delete.
IsLastOfAny(c) == ClientsOf(conns, {conns[c].user}) # {}

IsLast(c) == ClientsOf(conns, {conns[c].user}) = {c}

\* unregister, which closes the channel; OnDisconnect has something to do for the
\* last connection only.
Unregister(c) ==
  /\ c \in DOMAIN conns /\ conns[c].stage = "unregister"
  /\ MayLock
  /\ conns' = IF IsLast(c)
              THEN [Overtaken(conns[c].user) EXCEPT ![c].stage = "disconnected"]
              ELSE Remove(conns, {c})
  /\ publishes' = Unlocked(conns')
  /\ UNCHANGED <<friends, blocks>>

-------------------------------------------------------------------------------

Serve(c) ==
  \/ Accept(c)
  \/ Register(c)
  \/ PublishPresence(c)
  \/ FailPresence(c)
  \/ WriteEvent(c)
  \/ Disconnect(c)
  \/ Unregister(c)

Deliver(p) == (\E c \in Conns : Send(p, c)) \/ EndPublish(p)

Social == FriendshipsNext /\ UNCHANGED hubVars

Next ==
  \/ Social
  \/ \E c \in Conns : Serve(c)
  \/ \E p \in Publishers : PublishOther(p)
  \/ \E p \in Conns \cup Publishers : Deliver(p)

Spec == Init /\ [][Next]_vars

\* Goroutines run, and no writer is passed over for ever (sync.Mutex, which
\* orders the writers of an RWMutex, hands itself to one that waits long).
\* Nothing is assumed of devices: they may never take an event, nor go away.
Fairness ==
  /\ \A c \in Conns :
       /\ SF_vars(Register(c))
       /\ WF_vars(PublishPresence(c) \/ FailPresence(c))
       /\ SF_vars(Unregister(c))
  /\ \A p \in Conns \cup Publishers : WF_vars(Deliver(p))

LiveSpec == Spec /\ Fairness

-------------------------------------------------------------------------------
(* Properties *)

\* Publish never sends on a channel that unregister has closed, which would
\* panic: while it goes through its connections none of them leaves.
SendsAreOpen ==
  \A p \in DOMAIN publishes : \A c \in publishes[p].todo :
    publishes[p].locked /\ IsOpen(conns, c)

\* What a device shows of a user once it has taken the events in its channel.
HeardBy(conn, u) ==
  LET about == {i \in 1 .. Len(conn.send) :
                  conn.send[i] # OtherEvent /\ conn.send[i].user = u}
      latest == CHOOSE i \in about : \A j \in about : j <= i
  IN IF about = {} THEN conn.shown[u]
     ELSE IF conn.send[latest].online THEN "online" ELSE "offline"

Heard(c, u) == HeardBy(conns[c], u)

\* docs/websocket.md: presence is sent "to friends when a user goes online or
\* offline".  Once nothing about a user is under way, a device shows the truth of
\* a friend, or nothing, unless the latest announcement did not reach it (its
\* channel was full, the friends could not be read, they were no friends then) or
\* an older one reached it later.
PresenceIsTrue ==
  \A c \in ClientsOf(conns, Users) : \A u \in FriendsOf(conns[c].user) :
    Announcing(u) = {} /\ u \notin conns[c].missed =>
      Heard(c, u) \in {"unknown", IF Online(u) THEN "online" ELSE "offline"}

\* The same of every device, whatever its channel dropped.
PresenceReachesFriends ==
  \A c \in ClientsOf(conns, Users) : \A u \in FriendsOf(conns[c].user) :
    Announcing(u) = {} =>
      Heard(c, u) \in {"unknown", IF Online(u) THEN "online" ELSE "offline"}

\* No connection waits for ever to be registered, announced or unregistered:
\* Publish holds up nobody, however slow the devices are it sends to.
HubNeverStalls ==
  \A c \in Conns :
    (c \in DOMAIN conns /\ conns[c].stage # "serving")
      ~> (c \notin DOMAIN conns \/ conns[c].stage = "serving")
===============================================================================
