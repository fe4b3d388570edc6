SPECIFICATION FairSpec
CONSTANTS
  MaxReqs = 3
  Addrs = {a1, a2}
  Blocks <- TwoBlocks
  Shapes <- ShapesMix
  Workers = {w1, w2}
  OutCap <- BothPrograms
  InCap = 1
  Closable = {"nbd", "iot"}
INVARIANTS
  TypeOK
  AddressesNameRequests
  FaultsHaveACause
PROPERTIES
  RefinesBlockDevice
  RequestsAreAnswered
