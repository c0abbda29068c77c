SPECIFICATION Spec
CONSTANTS
  NUM_VIDBUF = 4
  Faults <- MCOtherFaults
  io_mode = 1
  recovery = 1
  ignore_ovp = 0
PROPERTIES
  OrdersSucceed
