SPECIFICATION MCSpec
CONSTANTS
  Executions = {e1, e2}
  Cancellers = {k1}
  Parkers = {p, q}
  MaxTokens = 2
  MaxWaits = 3
  MaxCancels = 1
  MaxIds = 7
  RetirementBatch = 2
  Ancestries <- MCAncestries
  Capacity = 3
  MaxNotices = 3
  NoNotice = NoNotice
SYMMETRY Symmetry
INVARIANTS CancelExact CheckpointSees CancelReachesWait OnlyCancelled DiscardComplete
PROPERTIES ImplementsFifo
CHECK_DEADLOCK FALSE
