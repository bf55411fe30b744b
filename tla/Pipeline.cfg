SPECIFICATION Spec
CONSTANTS
  r1 = r1
  r2 = r2
  k1 = k1
  k2 = k2
  Reviews = {r1, r2}
  Keys = {k1, k2}
  StageCount = 3
  KeyOf <- ThreeModules
  Capacity = 1
  ComputeBatch = 2
  Faults = {"feature", "compute", "conversion", "panic", "head"}
  Batches <- LongBatches
  MaxReviews = 4
  LayerCount = 2
  MinRows = 2
INVARIANTS
  StatesMatchFeatures
  StagesFoldPrefixes
  FailureIsReported
PROPERTIES
  LayeredMatchesReference
  CallReturns
  ImplementsAtomicBatch
