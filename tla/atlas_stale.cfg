SPECIFICATION Spec
CONSTANTS
  FragSize = 2
  NumIot = 2
  Word = 8
  StorageSize = 8
  MaxReqs = 2
  Shapes <- ShapesDisc
  Workers = {w1, w2}
  SockCap = 1
  Closable = {0, 1}
  StaleRead = {"done", "more", "fault"}
SYMMETRY Threads
INVARIANTS
  FullInv
