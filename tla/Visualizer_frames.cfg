SPECIFICATION Spec
CONSTANTS
  FrameCycles = 130
  IntStart = 50
  SignalLength = 30
  Longest = 14
  MaxFrames = 2
  Stretches <- MCStretches
  Values <- MCValues
  Pans <- MCPans
INVARIANTS
  FrameClock
  NoDrift
  BufferFits
  StreamIsSampled
PROPERTIES
  SlicesArePositive
  InterruptInWindow
CHECK_DEADLOCK FALSE
