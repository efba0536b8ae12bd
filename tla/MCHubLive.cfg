\* Two connections and a publisher.
SPECIFICATION LiveSpec
CONSTANTS
  Users = {u1, u2}
  Moves = {"befriend"}
  Conns = {c1, c2}
  Publishers = {p1}
  OtherEvent = OtherEvent
  QueueSize = 1
  ListFails = TRUE
PROPERTY HubNeverStalls
