CONSTANTS
  DetectCalls = 3
  PressCalls = 6
  RefusedCalls = 31
  BlinkCalls = 4
SPECIFICATION SdSpec
INVARIANTS SdInv FewLostSaves
PROPERTY Remounted
