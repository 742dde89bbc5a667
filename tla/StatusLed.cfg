CONSTANTS
  ChargerReads = 2
  EjectCalls = 2
  ChargeCalls = 1
  FullCalls = 1
  NormalCalls = 2
  LowOffCalls = 2
  LowOnCalls = 0
SPECIFICATION LedSpec
INVARIANT LedInv
PROPERTIES NoFalseCharger ChargerShown LedBlinks
