\* A reader who walks a history of two messages in pages of one, and two
\* handlers that send to it, delete, favorite and read in it.
SPECIFICATION MCSpec
CONSTANTS
  Sender = u1
  Reader = u2
  Favorite = 1
  Users = {u1, u2}
  Readers = {u2}
  PageSize = 1
  Conversations = {c1}
  Groups = {}
  MessageIds = {1, 2}
  Bodies = {b1}
  MessageTypes = {"text"}
  Requests = {r1, r2}
  Operations = {"send", "delete", "favorite", "unfavorite", "read"}
  NoBody = NoBody
  NoMessage = NoMessage
  MaxBatchSize = 1
  MillisPerSecond = 2
  MaxChanges = 2
  MaxClock = 1
SYMMETRY Symmetry
INVARIANT HistoryTypeOK
INVARIANT HistoryIsListedOnce
INVARIANT PreviewIsNewest
PROPERTY DeletedForMeIsFinal
PROPERTY ReadAtOnlyGrows
PROPERTY ReadThroughIsRead
