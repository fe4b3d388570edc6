SPECIFICATION Spec
CONSTANTS
  FragSize = 2
  NumIot = 2
  Word = 8
  StorageSize = 8
  MaxReqs = 2
  Shapes <- ShapesFew
  Workers = {w1, w2}
  SockCap = 1
  Closable = {}
  StaleRead = {"done", "more"}
SYMMETRY Threads
INVARIANTS
  BlocksHoldWhatWasWritten
