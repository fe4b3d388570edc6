SPECIFICATION FairSpec
CONSTANTS
  Workers = {w1, w2}
  Clients = {boss, c1}
  Boss = boss
  MaxTasks = 2
  Returns = {"ok", "bad"}
CHECK_DEADLOCK FALSE
INVARIANTS
  TypeOK
  NobodySleepsOverWork
PROPERTIES
  RefinesExecutor
  WaitsReturn
  ShutDownReturns
