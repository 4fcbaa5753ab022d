SPECIFICATION FairSpec
CONSTANTS
  MemSize = 64
  MaxCycles = 150
  SubroutineCycles = 200
  Starts <- MCStarts
INVARIANTS
  TypeOK
PROPERTIES
  ImplementsZ80
  FlagsAreExact
  DecimalAdjust
  SliceLength
  SubroutineReturns
  EveryCallReturns
CHECK_DEADLOCK FALSE
