SPECIFICATION FairSpec
CONSTANTS
  FragSize = 2
  NumIot = 2
  Word = 8
  StorageSize = 8
  MaxReqs = 2
  Shapes <- ShapesFew
  Workers = {w1, w2}
  SockCap = 1
  Closable = {1}
  StaleRead = {"done", "fault"}
INVARIANTS
  TypeOK
  StaleOnlyAtLastTest
  FragmentsAccountedFor
  CommandsAddressed
  FaultsHaveACause
PROPERTIES
  RefinesBlockDevice
  RequestsAreAnswered
