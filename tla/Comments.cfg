CONSTANTS
  RetryCnt = 1
  RspTimeout = 0
  AtTimeout = 1
  CbcTimeout = 0
  SessIdle = 1
  Slice = 1
  Periods = {1}
  Dates = {"unparsed", "valid"}
SPECIFICATION WatchSpec
INVARIANT CommentsHold
