CONSTANTS
  w1 = w1
  w2 = w2
  w3 = w3
  w4 = w4
  Wf = {w1, w2, w3, w4}
  Source = {"arxiv", "publisher", "submitter"}
  SourceOf <- MCSourceOf
  Curator = Curator
  NoWf = NoWf
  Submission = {w3, w4}
  Faults = {"index_lag", "late_save", "search_down"}
SPECIFICATION Spec
INVARIANTS NewestIsKept SubmissionsAreKept
CONSTRAINT TwoRows
SYMMETRY Likes
CHECK_DEADLOCK FALSE
