SPECIFICATION Spec
CONSTANTS
  Faults <- AllFaults
INVARIANTS
  AllClosed
  Usable
PROPERTIES
  Settles
CHECK_DEADLOCK FALSE
