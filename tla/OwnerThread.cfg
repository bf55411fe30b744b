SPECIFICATION Spec
CONSTANTS
  Callers = {c1, c2}
  Worker = w
  Nobody = nobody
  Faults = {"interrupt", "interrupt_locked", "unreportable", "collect"}
  MaxCalls = 4
CHECK_DEADLOCK FALSE
INVARIANTS
  ServedOnceInOrder
  StopDrainsQueue
PROPERTIES
  EveryCallReturns
  EveryCloseReturns
  CloseStopsWorker
