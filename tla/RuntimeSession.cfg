SPECIFICATION Spec
CONSTANTS
  Reviews = {r1, r2}
  Batches <- UpToTwo
  UndoLimit = 2
  Orphans = {o1, o2}
  Faults = {}
  MaxReviews = 5
  MaxToken = 3
INVARIANTS
  UndoHistoryMirrored
  DescribesModel
  HandleIsLive
PROPERTIES
  ImplementsUndoableLog
