\* Three handlers between two users; while they come one at a time, three users.
SPECIFICATION MCSpec
CONSTANTS
  Third = u3
  Users = {u1, u2, u3}
  RequestIds = {i1, i2}
  DirectIds = {d1, d2}
  Workers = {w1, w2, w3}
  Operations = {"request", "accept", "decline", "block", "unblock", "unfriend", "direct"}
  NoId = NoId
SYMMETRY Symmetry
INVARIANT TypeOK
INVARIANT AcceptedAreFriends
INVARIANT OneDirectPerPair
INVARIANT PairsAreConsistent
PROPERTY ImplementsFriendships
PROPERTY ImplementsFriendGraph
