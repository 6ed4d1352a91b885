SPECIFICATION MCFairSpec
CONSTANTS
  t1 = t1
  t2 = t2
  c1 = c1
  c2 = c2
  s1 = s1
  s2 = s2
  Threads = {t1, t2}
  Coroutines = {c1, c2}
  Sessions = {s1, s2}
  Grant = 3
  Amounts = {1, 2}
  DefaultCredits = 2
  DatabaseFails = TRUE
  MaxRequests = 4
  MaxCrashes = 1
INVARIANT TypeOK
INVARIANT CreditedOnce
INVARIANT TransferredOnce
INVARIANT LoopLedgerBalances
PROPERTY LoopTransferSettles
\* The requests of the instance are used up.
CHECK_DEADLOCK FALSE
