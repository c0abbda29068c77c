SPECIFICATION FairSpec
CONSTANTS
  SigThreads <- MCSigThreads
  Failures = {"start", "recover"}
  MaxSuspends = 2
INVARIANTS
  Conservation
  StopsDark
  OffMeansOff
  OneWayToHang
PROPERTIES
  SyncCalls
  CallsReturn
  ResumeRestarts
