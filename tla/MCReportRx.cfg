CONSTANTS
  Flows <- MCFlows
  SwitchIds <- MCSwitchIds
  Reports <- MCReports
  Room = 2
  MaxReports = 3
SPECIFICATION Spec
INVARIANTS
  TypeOK
  GaugesAreNewest
  SignalEndsWithNextReport
PROPERTIES
  ReportsAreExported
CHECK_DEADLOCK FALSE
