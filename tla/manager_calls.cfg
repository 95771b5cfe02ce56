SPECIFICATION FairSpec
CONSTANTS
  Exec = {e1, e2}
  Client = {c1}
  NoExec = NoExec
  Nobody = Nobody
INVARIANT ActiveIsUsable
PROPERTY CallsReturn
CHECK_DEADLOCK FALSE
