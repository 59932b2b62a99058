SPECIFICATION Spec
CONSTANTS
  Views = {"list"}
  Readers = {r1}
  Writers = {w1}
  MaxCommits = 1
  MaxErrors = 0
CHECK_DEADLOCK FALSE
INVARIANTS
  ListsSeeAnswered
