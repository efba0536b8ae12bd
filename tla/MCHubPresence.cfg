\* Two users, one of them with two connections, and channels that are full with
\* one event.
SPECIFICATION Spec
CONSTANTS
  Users = {u1, u2}
  Moves = {"befriend", "unfriend"}
  Conns = {c1, c2, c3}
  Publishers = {}
  OtherEvent = OtherEvent
  QueueSize = 1
  ListFails = TRUE
SYMMETRY Symmetry
INVARIANT TypeOK
INVARIANT SendsAreOpen
INVARIANT PresenceIsTrue
