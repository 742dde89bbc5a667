CONSTANTS
  RetryCnt = 1
  RspTimeout = 0
  AtTimeout = 0
  CbcTimeout = 0
  MaxRecords = 3
  ZeroRecords = {2}
  NoSpeedRecords = {3}
  NoPdopRecords = {2}
SPECIFICATION PosSpec
INVARIANT PosInv
PROPERTY PassedRowWhole
