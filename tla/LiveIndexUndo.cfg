SPECIFICATION Spec
CONSTANTS
  Cards = {1, 2}
  One = 4
  Order = "retrievability_descending"
  InitialSeeds <- PairSeeds
  UpsertBatches <- ReinsertFirst
  Universes <- PairUniverses
  ChangedSeeds <- ChangeFirst
  Days = {1}
  Extras = {0, 1}
  Predictions = {1, 3}
  RefreshLimit = 1
  UndoLimit = 2
  RevisitsRetention = FALSE
  MaxSlots = 3
  MaxGeneration = 5
INVARIANTS
  SlotMapMatchesLiveSlots
  OrderIsExactAndSorted
  EligibilityIsCurrent
  EveryFrameRestores
PROPERTIES
  UndoRestoresRank
  ImplementsReference
CHECK_DEADLOCK FALSE
