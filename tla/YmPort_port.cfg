SPECIFICATION Spec
INVARIANTS
  LockIsSound
  WritesReachTheirRegisters
  FM6BackWhenIdle
