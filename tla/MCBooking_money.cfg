SPECIFICATION Spec
CONSTANTS
  alice = alice
  bob = bob
  support = support
  t1 = t1
  t2 = t2
  t3 = t3
  m1 = m1
  m2 = m2
  o1 = o1
  o2 = o2
  Users = {alice, bob}
  Support = support
  Tickets = {t1, t2, t3}
  Matches = {m1, m2}
  MatchOf <- MCMatchOf
  Price <- MCPrice
  Orders = {o1}
  MaxAttempts = 2
  MaxPerOrder = 3
  BatchSize = 1
  Percents = {0, 50, 100}
  Wallet0 <- MCWallet0
VIEW Relevant
CHECK_DEADLOCK FALSE
INVARIANTS
  SettledOnce
  RefundsCovered
  WalletConserved
PROPERTIES
  PaidOnlyByPayment
