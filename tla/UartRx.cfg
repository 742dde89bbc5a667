CONSTANTS
  RxMax = 3
  FrameTimeout = 3
  TaskTicks = 5
  MaxBytes = 5
SPECIFICATION RxSpec
INVARIANTS BufferSound
PROPERTIES NeverTwice WholeFrame FrameLeaves IsMailbox
