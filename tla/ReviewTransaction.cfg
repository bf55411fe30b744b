SPECIFICATION Spec
CONSTANTS
  None = None
  Placeholder = 100
  ShortBurst = 2
  MinRows = 2
  Reviews <- ThreeReviews
  Batches <- ShortBatches
  UndoLimit = 2
  MaxSlots = 2
  MaxReviews = 3
INVARIANTS
  GpuMirrorsState
  CachedSlotsAreCurrent
  StateFollowsLog
PROPERTIES
  PredictionsAgree
  FailureLeavesNoTrace
  UndoRestoresExactly
  ImplementsUndoableLog
