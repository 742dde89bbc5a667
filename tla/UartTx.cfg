CONSTANTS
  TxMax = 4
  Byte <- MCByte
  Strings <- MCStrings
  SizeError <- MCSizeError
SPECIFICATION TxSpec
INVARIANT TxInv
PROPERTY TransmissionEnds
