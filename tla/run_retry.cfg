SPECIFICATION Spec
CONSTANTS
  Length = 3
  MaxAttempts = 2
  MaxRequests = 5
  MaxCrashes = 2
INVARIANT AttemptBudget
INVARIANT NodesExplainStatus
\* A run ends, and the requests of the instance are used up.
CHECK_DEADLOCK FALSE
