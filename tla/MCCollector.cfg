CONSTANTS
  MaxPackets = 2
  MaxSignals = 2
  SignalTargets <- MCSignalTargets
SPECIFICATION FairSpec
INVARIANTS
  TypeOK
  PipelineKeepsReports
  EmptyPopMeansTerminate
  JoinsCannotBlock
  FreeCannotBlock
PROPERTIES
  ShutdownEnds
  SignalEndsWithNextPacket
  ReportsAreExported
CHECK_DEADLOCK FALSE
