SPECIFICATION Spec
CONSTANTS
  Workers = {w1, w2}
  Clients = {boss}
  Boss = boss
  MaxTasks = 1
  Returns = {"ok"}
CHECK_DEADLOCK FALSE
INVARIANT FinishesQueue
