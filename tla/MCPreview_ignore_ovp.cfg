SPECIFICATION Spec
CONSTANTS
  NUM_VIDBUF = 2
  Faults = {}
  io_mode = 1
  recovery = 1
  ignore_ovp = 1
INVARIANTS
  HiddenWhenStopped
