SPECIFICATION Spec
CONSTANTS
  Length = 2
  MaxAttempts = 1
  MaxRequests = 2
  MaxCrashes = 0
INVARIANT CancelledReviewIsRejected
\* A run ends, and the requests of the instance are used up.
CHECK_DEADLOCK FALSE
