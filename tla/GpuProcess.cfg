SPECIFICATION Spec
CONSTANTS
  a = a
  b = b
  Reviews = {a, b}
  Modules = {"card", "global"}
  KeyOf <- TwoModules
  Inputs <- MixedInputs
  BatchSize = 2
  Devices <- SomeDevices
  MaxRows = 5
INVARIANTS
  StatesSurvive
  ReportIsExact
PROPERTIES
  ScanMatchesReference
  ImplementsCommittedPrefix
CHECK_DEADLOCK FALSE
