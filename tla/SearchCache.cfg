SPECIFICATION CacheFairSpec
CONSTANTS
  Tickets = {1}
  Syncers = {s1, s2}
  BatchLimit = 1
  MaxCommits = 2
  MaxRestarts = 1
  MaxLate = 0
  MaxReindex = 0
  Searchers = {p1}
  MaxVersion = 2
  Fallback = TRUE
CHECK_DEADLOCK FALSE
INVARIANTS
  SearchSeesAnswered
PROPERTIES
  SearchCatchesUp
