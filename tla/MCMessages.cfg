\* Two handlers that send, quote, edit, recall and forward batches of two; of the
\* other operations, those on the first message.
SPECIFICATION Spec
CONSTANTS
  Users = {u1}
  Conversations = {c1, c2}
  Groups = {}
  MessageIds = {m1, m2, m3}
  Bodies = {b1}
  MessageTypes = {"text"}
  Requests = {r1, r2}
  Operations = {"send", "quote", "edit", "recall", "forward", "delete", "favorite", "unfavorite", "read"}
  NoBody = NoBody
  NoMessage = NoMessage
  MaxBatchSize = 2
  MillisPerSecond = 2
  MaxChanges = 3
  MaxClock = 1
CONSTRAINT Bounded
SYMMETRY Symmetry
INVARIANT TypeOK
INVARIANT RecalledHasNoBody
PROPERTY RecalledIsFinal
PROPERTY RecalledStaysOut
PROPERTY ImplementsChangeLog
