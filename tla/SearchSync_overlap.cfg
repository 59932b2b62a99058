SPECIFICATION Spec
CONSTANTS
  Tickets = {1}
  Syncers = {s1, s2}
  BatchLimit = 1
  MaxCommits = 3
  MaxRestarts = 0
  MaxLate = 0
  MaxReindex = 0
CHECK_DEADLOCK FALSE
INVARIANTS
  TakenNotOffered
