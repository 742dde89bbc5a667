CONSTANTS
  RetryCnt = 3
  RspTimeout = 4
  AtTimeout = 600
SPECIFICATION MCSpec
INVARIANT AttemptEnds
PROPERTIES Concludes
