SPECIFICATION Spec
CONSTANTS
  Requests = {q1, q2}
  RequestMax = 2
  MaxAttempts = 2
CHECK_DEADLOCK FALSE
INVARIANTS
  CounterHasWindow
