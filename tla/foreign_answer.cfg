SPECIFICATION Spec
CONSTANTS
  Exec = {e1, e2}
  Client = {}
  NoExec = NoExec
  Nobody = Nobody
CHECK_DEADLOCK FALSE
INVARIANT AnswerIsOwn
