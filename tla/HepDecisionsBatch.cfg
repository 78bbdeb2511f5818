CONSTANTS
  q1 = q1
  Req = {}
  Endpoints = {"batch"}
  NoAction = NoAction
  Stale = {"merge_approve"}
  RepairTypes = {"HEP_CREATE"}
  TimeLimit = FALSE
  MaxStamp = 3
SPECIFICATION FairSpec
PROPERTY BatchResumes
CHECK_DEADLOCK FALSE
