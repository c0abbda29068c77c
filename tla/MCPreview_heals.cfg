SPECIFICATION FairSpec
CONSTANTS
  NUM_VIDBUF = 4
  Faults <- MCFrameFaults
  io_mode = 1
  recovery = 1
  ignore_ovp = 0
INVARIANTS
  NoOrphanStream
  NoLeak
PROPERTIES
  StarvationHeals
  KeepsMoving
