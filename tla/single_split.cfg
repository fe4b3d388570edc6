SPECIFICATION Spec
CONSTANTS
  MaxReqs = 2
  Addrs = {a1, a2}
  Blocks <- TwoBlocks
  Shapes <- ShapesWrites
  Workers = {w1, w2}
  OutCap <- SmallPool
  InCap = 2
  Closable = {}
CHECK_DEADLOCK FALSE
INVARIANTS
  BlocksHoldWhatWasWritten
