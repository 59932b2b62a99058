SPECIFICATION Spec
CONSTANTS
  Requests = {q1, q2, q3}
  RequestMax = 2
  MaxAttempts = 2
SYMMETRY Symmetry
CHECK_DEADLOCK FALSE
INVARIANTS
  OneLogin
  OnlyMailed
PROPERTIES
  GuessesBounded
  OvertakenHarmless
