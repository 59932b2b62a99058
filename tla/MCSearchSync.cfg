SPECIFICATION Spec
CONSTANTS
  Tickets = {1, 3}
  Syncers = {s1, s2}
  BatchLimit = 1
  MaxCommits = 2
  MaxRestarts = 1
  MaxLate = 1
  MaxReindex = 1
SYMMETRY Symmetry
CHECK_DEADLOCK FALSE
INVARIANTS
  NothingForgotten
  ReindexRepairs
