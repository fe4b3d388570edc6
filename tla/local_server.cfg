SPECIFICATION Spec
CONSTANTS
  NodeCounts = {0, 1, 2}
  MaxFd = 7
  MaxReqs = 3
  Blocks <- ThreeBlocks
  Shapes <- ShapesAll
INVARIANTS
  TypeOK
  OneServerReadsTheDevice
  HandlersOnTheirSockets
  FailureReleasesAll
  ReadsAreInOrder
PROPERTIES
  RefinesBlockDevice
  EndTogether
  RequestsAreAnswered
