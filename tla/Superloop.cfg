CONSTANTS
  Slot <- MCSlot
  Count <- MCCount
SPECIFICATION SchedSpec
INVARIANTS RaiseKept NeverThrice
PROPERTY EveryTaskRuns
