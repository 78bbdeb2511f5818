CONSTANTS
  p1 = p1
  p2 = p2
  c1 = c1
  Paper = {p1, p2}
  Citer = {c1}
  NoRec = NoRec
  MaxVersion = 3
SPECIFICATION IndexingSpec
INVARIANTS DocIsLatest CountFollows
PROPERTY RedirectOnlyRedirects
CHECK_DEADLOCK FALSE
SYMMETRY Papers
CONSTRAINT Few
