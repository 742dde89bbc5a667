CONSTANTS
  RetryCnt = 1
  RspTimeout = 0
  AtTimeout = 1
  CbcTimeout = 0
  SessIdle = 2
  Slice = 2
  Periods <- MCPeriods
  Dates = {"unparsed", "out_of_range", "valid"}
SPECIFICATION Spec
INVARIANTS TypeOK UploadNotStreaming AnswerBelongs RestartFromScratch AtOwned DateNotStale GpsDateAgrees
PROPERTIES BeliefDropped SharesTheLink
