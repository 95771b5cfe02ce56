SPECIFICATION SessionSpec
CONSTANTS
  Exec = {e1, e2, e3}
  Client = {c1, c2}
  NoExec = NoExec
  Nobody = Nobody
CHECK_DEADLOCK FALSE
INVARIANT StoppedHasNoWorker
