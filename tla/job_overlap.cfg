SPECIFICATION Spec
CONSTANTS
  Job = {j1}
  CodeJob = {}
  Request = {r1, r2}
  Written <- MCWritten
  StandingJob = {}
  MaxTime = 2
  MaxRecords = 2
SYMMETRY Symmetry
INVARIANT NoOverlap
CHECK_DEADLOCK FALSE
