SPECIFICATION Spec
CONSTANTS
  Cards = {1, 2, 3}
  One = 4
  Order = "relative_overdueness"
  InitialSeeds <- TripleSeeds
  UpsertBatches <- ReinsertOrInsert
  Universes <- NoUniverses
  ChangedSeeds <- NoUniverses
  Days = {1}
  Extras = {0, 2}
  Predictions <- WithNaN
  RefreshLimit = 2
  UndoLimit = 1
  RevisitsRetention = FALSE
  MaxSlots = 4
  MaxGeneration = 3
INVARIANTS
  SelectionMatchesReference
  NextBoundaryIsTight
CHECK_DEADLOCK FALSE
