CONSTANTS
  r1 = r1
  r2 = r2
  r3 = r3
  a1 = a1
  t1 = t1
  NoRecid = NoRecid
  Recid = {r1, r2, r3, a1}
  ExtId = {}
  Txn = {t1}
  PidType = {"lit", "aut"}
  TypeOf <- MCTypeOf
  MaxVersion = 3
SPECIFICATION WalkSpec
INVARIANT NeverRevisits
PROPERTIES WalkEnds IsMergedRecords
CHECK_DEADLOCK FALSE
