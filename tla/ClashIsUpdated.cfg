CONSTANTS
  r1 = r1
  r2 = r2
  i1 = i1
  i2 = i2
  j1 = j1
  j2 = j2
  x1 = x1
  Rec = {r1, r2}
  Id = {i1, i2}
  Job = {j1, j2}
  NoRec = NoRec
  MaxVersion = 3
  MaxPutcode = 3
  Ext = {x1}
  Pusher = {j1, j2}
  PaperVersions = 4
SPECIFICATION PartsSpec
SYMMETRY Symmetry
CONSTRAINT Few
INVARIANT ClashIsUpdated
CHECK_DEADLOCK FALSE
