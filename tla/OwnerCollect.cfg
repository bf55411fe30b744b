SPECIFICATION Spec
CONSTANTS
  Callers = {c1}
  Worker = w
  Nobody = nobody
  Faults = {"collect_inside"}
  MaxCalls = 2
CHECK_DEADLOCK FALSE
PROPERTIES
  EveryCallReturns
