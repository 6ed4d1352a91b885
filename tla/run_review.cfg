SPECIFICATION FairSpec
CONSTANTS
  Length = 2
  MaxAttempts = 1
  MaxRequests = 4
  MaxCrashes = 1
INVARIANT TypeOK
INVARIANT WorkIsVisible
INVARIANT NoOrphanAttempt
PROPERTY SchedulesInOrder
PROPERTY JobEnds
PROPERTY PauseSettles
PROPERTY CancelSettles
\* A run ends, and the requests of the instance are used up.
CHECK_DEADLOCK FALSE
