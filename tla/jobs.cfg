SPECIFICATION FairSpec
CONSTANTS
  Job = {j1, j2}
  CodeJob = {}
  Request = {r1, r2}
  Written <- MCWritten
  StandingJob = {j2}
  MaxTime = 2
  MaxRecords = 1
INVARIANT TypeOK
PROPERTIES PauseHolds ServedMovesOnOrStandsStill DueIsServedOrTicksFail StopReturns
CHECK_DEADLOCK FALSE
