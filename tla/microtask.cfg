SPECIFICATION MicroFairSpec
CONSTANTS
  t1 = t1
  k1 = k1
  k2 = k2
  k3 = k3
  p1 = p1
  p2 = p2
  p3 = p3
  Payments = {p1, p2, p3}
  Tasks = {t1}
  Callers = {t1}
  Keys = {k1, k2, k3}
  Plan <- ThreeTodos
  Verdicts = {"passed", "retry", "review"}
  Requests <- TodoRequests
  Offline = FALSE
  ApprovalsRequired = 1
  MaxCalls = 9
INVARIANT VerdictIsSettled
INVARIANT CompletedTaskIsWhole
INVARIANT ReviewIsReachable
INVARIANT EscrowFollowsVerdict
PROPERTY TaskEnds
\* Tasks end.
CHECK_DEADLOCK FALSE
