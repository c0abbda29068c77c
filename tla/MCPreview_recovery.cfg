SPECIFICATION PersistentSpec
CONSTANTS
  NUM_VIDBUF = 2
  Faults = {"format"}
  io_mode = 1
  recovery = 1
  ignore_ovp = 0
PROPERTIES
  RecoveryPersists
