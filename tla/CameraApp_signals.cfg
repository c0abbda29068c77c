SPECIFICATION Spec
CONSTANTS
  SigThreads = {"main", "switch"}
  Failures = {"start", "recover", "read"}
  MaxSuspends = 1
  NUM_VIDBUF = 2
  Faults = {"format"}
  io_mode = 1
  recovery = 1
  ignore_ovp = 0
INVARIANTS
  StopsHidden
  OffIsHidden
PROPERTIES
  ImplementsControl
  ImplementsPreview
