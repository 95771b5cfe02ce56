SPECIFICATION SessionSpec
CONSTANTS
  Exec = {e1, e2, e3}
  Client = {c1, c2}
  NoExec = NoExec
  Nobody = Nobody
SYMMETRY Symmetry
INVARIANTS SessionTypeOK AnswerIsOwn ActiveIsUsable
CHECK_DEADLOCK FALSE
