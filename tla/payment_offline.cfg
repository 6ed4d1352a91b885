SPECIFICATION Spec
CONSTANTS
  c1 = c1
  c2 = c2
  k1 = k1
  k2 = k2
  p1 = p1
  p2 = p2
  p3 = p3
  t1 = t1
  t2 = t2
  Payments = {p1, p2, p3}
  Tasks = {t1, t2}
  Keys = {k1, k2}
  Callers = {c1, c2}
  Requests <- Todos
  Offline = TRUE
  ApprovalsRequired = 1
  MaxCalls = 6
SYMMETRY Symmetry
INVARIANT OneNoticePerSettlement
INVARIANT OnePaymentPerProposalKey
PROPERTY RecordedResultStable
\* The calls of the instance are used up after MaxCalls.
CHECK_DEADLOCK FALSE
