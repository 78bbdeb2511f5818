CONSTANTS
  p1 = p1
  p2 = p2
  i1 = i1
  w1 = w1
  w2 = w2
  Paper = {p1, p2}
  Source = {"arxiv"}
  Item = {i1}
  Run = {w1, w2}
  NoPaper = NoPaper
  LastVersion = 4
  Batch = {p1, p2}
  Article = {i1}
  Harvest = {w1, w2}
  NoBatch = NoBatch
  Preprint = {p1, p2}
  LastDay = 4
SPECIFICATION PartsSpec
INVARIANTS TypesOK PostedOnce ChangesAreLoaded
PROPERTIES EditsSurvive UpdatesAreAtomic ConflictsAreReviewed
SYMMETRY Alike
CONSTRAINT FewEdits
CHECK_DEADLOCK FALSE
