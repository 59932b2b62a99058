SPECIFICATION FairSpec
CONSTANTS
  alice = alice
  bob = bob
  support = support
  t1 = t1
  t2 = t2
  t3 = t3
  m1 = m1
  m2 = m2
  o1 = o1
  o2 = o2
  Users = {alice}
  Support = support
  Tickets = {t1, t2}
  Matches = {m1}
  MatchOf <- MCMatchOf
  Price <- MCPrice
  Orders = {o1, o2}
  MaxAttempts = 1
  MaxPerOrder = 2
  BatchSize = 1
  Percents = {50}
  Wallet0 <- MCWallet0
VIEW Relevant
CHECK_DEADLOCK FALSE
INVARIANTS
  TypeOK
  NoDoubleBooking
  SeatsMatchReservations
  OrderMatchesReservations
PROPERTIES
  FinalStatesStay
  ImplementsSeatSale
  PendingEnds
