SPECIFICATION Spec
CONSTANTS
  NUM_VIDBUF = 4
  Faults <- MCFaults
  io_mode = 1
  recovery = 1
  ignore_ovp = 0
INVARIANTS
  TypeOK
  StartedRuns
  MemorySafe
  Ownership
  HeldBack
  GoodFirst
  DisplayedLast
  HiddenWhenStopped
PROPERTIES
  StatusMoves
