SPECIFICATION FairSpec
CONSTANTS
  Views = {"detail", "list", "profile"}
  Readers = {r1, r2}
  Writers = {w1}
  MaxCommits = 1
  MaxErrors = 1
CHECK_DEADLOCK FALSE
INVARIANTS
  TypeOK
  DetailsSeeAnswered
PROPERTIES
  StaleEnds
