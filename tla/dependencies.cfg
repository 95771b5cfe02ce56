SPECIFICATION FairSpec
CONSTANTS
  Op = {o1, o2}
  Package = {1, 2}
  CanonicalName <- MCCanonicalName
  MaxVersion = 2
  Pinned <- MCPinned
  NoRequest = NoRequest
INVARIANTS TypeOK UndisturbedRecvHasData
PROPERTIES ReadyMeetsPins UndisturbedGetsOwnAnswers UndisturbedEnds
CHECK_DEADLOCK FALSE
