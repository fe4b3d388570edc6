SPECIFICATION Spec
CONSTANTS
  Dispatchers = {d1, d2}
  Callbacks = {1, 2}
  MaxDepth = 2
INVARIANTS
  SubscriptionsAgree
  FaultsHaveACause
  NotifyReachesAll
CHECK_DEADLOCK FALSE
