\* Writes, deletions and changes of the members between the statements of a sync
\* call, a page of one message at a time, by a client that keeps calling.
SPECIFICATION FairSyncSpec
CONSTANTS
  Users = {u1}
  Conversations = {c1}
  Groups = {c1}
  MessageIds = {m1, m2}
  Bodies = {b1}
  MessageTypes = {"text"}
  Requests = {r1}
  Operations = {"send", "recall", "delete"}
  NoBody = NoBody
  NoMessage = NoMessage
  MaxBatchSize = 1
  MillisPerSecond = 1
  MaxChanges = 3
  MaxClock = 0
  Clients = {u1}
  Legacy = {}
  Limit = 1
INVARIANT SyncTypeOK
INVARIANT NoMissedChange
PROPERTY EveryChangeIsReached
