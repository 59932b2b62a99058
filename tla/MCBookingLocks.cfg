SPECIFICATION Spec
CONSTANTS
  alice = alice
  support = support
  m1 = m1
  o1 = o1
  o2 = o2
  Users = {alice}
  Support = support
  Tickets = {1, 2}
  Matches = {m1}
  MatchOf <- MCMatchOf
  Price <- MCPrice
  Orders = {o1, o2}
  MaxAttempts = 2
  MaxPerOrder = 2
  BatchSize = 1
  Percents = {50}
  Wallet0 <- MCWallet0
  Calls = {1, 2}
  MaxAlone = 2
CHECK_DEADLOCK FALSE
INVARIANTS
  LockOrderKept
  DeadlockNeedsReserve
PROPERTIES
  ImplementsBooking
  CallsEnd
