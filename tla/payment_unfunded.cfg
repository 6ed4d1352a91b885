SPECIFICATION Spec
CONSTANTS
  c1 = c1
  p1 = p1
  t1 = t1
  Payments = {p1}
  Tasks = {t1}
  Keys = {"attempt", "default"}
  Callers = {c1}
  Requests <- OneAttempt
  Offline = FALSE
  ApprovalsRequired = 1
  MaxCalls = 4
INVARIANT AuthorizedIsFunded
\* The calls of the instance are used up after MaxCalls.
CHECK_DEADLOCK FALSE
