\* Three conversations, walked in pages of one or two.
SPECIFICATION Spec
CONSTANTS
  Convs <- MCConvs
  Limits <- MCLimits
  Asked <- MCPins
  Devices = {d1}
  Writers = {w1}
  MaxTime = 2
INVARIANTS TypeOK WalksAreComplete NothingIsRepeated
