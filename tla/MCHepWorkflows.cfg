CONSTANTS
  w1 = w1
  w2 = w2
  w3 = w3
  w4 = w4
  Wf = {w1, w2, w3}
  Source = {"arxiv", "publisher", "submitter"}
  SourceOf <- MCSourceOf
  Curator = Curator
  NoWf = NoWf
  Submission = {}
  Faults = {}
SPECIFICATION Spec
INVARIANTS TypeOK OneAtATime ShownAsStopped
PROPERTY IsPaperLock
CONSTRAINT OneTrouble
SYMMETRY Harvests
CHECK_DEADLOCK FALSE
