SPECIFICATION FairSpec
CONSTANTS
  c1 = c1
  c2 = c2
  p1 = p1
  t1 = t1
  Payments = {p1}
  Tasks = {t1}
  Keys = {"attempt", "default"}
  Callers = {c1, c2}
  Requests <- OneAttempt
  Offline = FALSE
  ApprovalsRequired = 2
  MaxCalls = 4
INVARIANT TypeOK
INVARIANT DatabaseAgreesWithChain
INVARIANT SettledIsAnnounced
PROPERTY SettlementNeverFlips
PROPERTY ResultOutlivesRetries
PROPERTY EveryCallReturns
PROPERTY ImplementsSettlement
\* The calls of the instance are used up after MaxCalls.
CHECK_DEADLOCK FALSE
