SPECIFICATION Spec
CONSTANTS
  Cards = {1, 2}
  One = 4
  Order = "retrievability_ascending"
  InitialSeeds <- PairSeeds
  UpsertBatches <- NoUniverses
  Universes <- NoUniverses
  ChangedSeeds <- NoUniverses
  Days = {1}
  Extras = {0, 1}
  Predictions = {1, 3}
  RefreshLimit = 1
  UndoLimit = 2
  RevisitsRetention = TRUE
  MaxSlots = 2
  MaxGeneration = 6
PROPERTIES
  UndoRestoresRank
CHECK_DEADLOCK FALSE
