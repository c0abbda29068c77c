SPECIFICATION FairSpec
CONSTANTS
  SigThreads = {"main", "switch"}
  Failures = {}
  MaxSuspends = 1
  NUM_VIDBUF = 2
  Faults = {}
  io_mode = 1
  recovery = 1
  ignore_ovp = 0
INVARIANTS
  OnStreams
PROPERTIES
  OnBringsPicture
  OffTakesPicture
