CONSTANTS
  q1 = q1
  Req = {q1}
  Endpoints = {"resolve"}
  NoAction = NoAction
  Stale = {}
  RepairTypes = {"HEP_CREATE"}
  TimeLimit = FALSE
  MaxStamp = 3
SPECIFICATION Spec
INVARIANT DecisionResumes
CHECK_DEADLOCK FALSE
