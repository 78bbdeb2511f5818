CONSTANTS
  a1 = a1
  a2 = a2
  a3 = a3
  b1 = b1
  b2 = b2
  x1 = x1
  NoRecid = NoRecid
  Recid = {a1, a2, a3}
  ExtId = {x1}
  Txn = {b1, b2}
  PidType = {"lit"}
  TypeOf <- Sameness
  MaxVersion = 3
  Sig = {b1, b2}
  Profile = {a1, a2}
  NoProfile = NoProfile
  NewStub = NewStub
  LinkVersions = 3
  Author = {x1, b1, b2}
  WithOrcid = {b1, b2}
  Work = {a1, a2}
  Person = {x1}
  Changes = 2
SPECIFICATION PartsSpec
SYMMETRY Alike
CONSTRAINT FewAtWork
INVARIANTS TypesOK NoRedirectCycle RedirectedIsMerged PidsMatchRecord
INVARIANTS EntriesAreLinked
INVARIANTS FlagsAreTrue CountsAreShown  OneRecord
PROPERTY CuratedLinksStay
CHECK_DEADLOCK FALSE
