SPECIFICATION Spec
CONSTANTS
  Boss = boss
  Workers = {w1, w2, w3}
  Keys = {"read", "write"}
  Unknown = "other"
CHECK_DEADLOCK FALSE
INVARIANTS
  TypeOK
  OneInstance
  FaultsHaveACause
PROPERTIES
  EveryoneGetsIt
