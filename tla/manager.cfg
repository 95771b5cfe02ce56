SPECIFICATION Spec
CONSTANTS
  Exec = {e1, e2, e3}
  Client = {}
  NoExec = NoExec
  Nobody = Nobody
SYMMETRY Symmetry
INVARIANTS TypeOK PipeExclusive LockInv ForeignAnswersAreAbandoned LeftoversAwaitReset
PROPERTY LifecycleSpec
CHECK_DEADLOCK FALSE
