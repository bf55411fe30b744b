SPECIFICATION Spec
CONSTANTS
  a = a
  b = b
  deck = deck
  None = None
  Reviews = {a, b}
  Identities = {a, b, deck}
  IdentitiesOf <- CardAndDeck
  Runtimes = {1, 2}
  Paths = {"x", "y"}
  Scopes <- OneCard
  MaxReviews = 2
  UndoLimit = 1
  Exclusive = TRUE
INVARIANTS
  FilesAreWhole
  RuntimesAreSelections
PROPERTIES
  StreamedFilesAgree
  ImplementsCheckpointStore
CHECK_DEADLOCK FALSE
