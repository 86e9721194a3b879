SPECIFICATION Spec
CONSTANTS
  Callers = {c1, c2, c3}
  Limit = 2
  Window = 2
  Patience = 1
  MaxTime = 7
  MaxCount = 4
INVARIANTS
  CounterDeletesItself
CHECK_DEADLOCK FALSE
