\* One device, two handlers, channels of two events.
SPECIFICATION DeliverySpec
CONSTANTS
  MessageIds = {m1, m2}
  Devices = {d1}
  Handlers = {h1, h2}
  MaxBatchSize = 2
  QueueSize = 2
  MaxChanges = 4
SYMMETRY Symmetry
INVARIANT DeliveryTypeOK
INVARIANT MissedIsRecovered
INVARIANT OrderlyIsRecovered
