SPECIFICATION Spec
CONSTANTS
  Faults = {}
PROPERTIES
  CommandMode
CHECK_DEADLOCK FALSE
