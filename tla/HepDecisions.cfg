CONSTANTS
  q1 = q1
  Req = {q1}
  Endpoints = {"resolve", "batch"}
  NoAction = NoAction
  Stale = {"core_selection_accept"}
  RepairTypes = {"HEP_CREATE"}
  TimeLimit = TRUE
  MaxStamp = 3
SPECIFICATION Spec
CONSTRAINT OneStray
INVARIANTS TypeOK StoppedIsRepairable StoredAsDecided AnswerIsPossible
CHECK_DEADLOCK FALSE
