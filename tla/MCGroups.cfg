\* Two handlers on one group of up to three users, with friendships and blocks
\* moving under them.
SPECIFICATION SerialSpec
CONSTANTS
  Users = {u1, u2, u3}
  GroupIds = {g1}
  Titles = {t1}
  Workers = {w1, w2}
  Moves = {"befriend", "unfriend", "block", "unblock"}
  MaxTargets = 1
  MaxBlocks = 1
  NoGroup = NoGroup
  NoTitle = NoTitle
SYMMETRY Symmetry
INVARIANT TypeOK
INVARIANT OnlyOwnersHaveTheRole
PROPERTY OwnersManage
