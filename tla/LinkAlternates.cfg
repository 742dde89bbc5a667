CONSTANTS
  RetryCnt = 1
  RspTimeout = 0
  AtTimeout = 0
  CbcTimeout = 0
  SessIdle = 1
  Slice = 1
  Periods = {1}
  Dates = {"valid"}
SPECIFICATION AnsweringSpec
PROPERTIES UploadEnds LocationEnds
