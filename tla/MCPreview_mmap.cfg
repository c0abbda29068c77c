SPECIFICATION Spec
CONSTANTS
  NUM_VIDBUF = 2
  Faults = {"mmap"}
  io_mode = 1
  recovery = 1
  ignore_ovp = 0
INVARIANTS
  StartedMapped
