CONSTANTS
  Switches <- MCSwitches
  Hosts <- MCHosts
  Ports <- MCPorts
  Peer <- ShippedPeer
  Tables <- ShippedTables
  MaxHop = 4
  InsCnt = 6
  InsMap <- MCInsMap
  Collector = "h3"
  Sendable <- ShippedSendable
  MaxPackets = 1
  Depth = 1
SPECIFICATION Spec
INVARIANTS
  ReportEndsAfterIntData
CHECK_DEADLOCK FALSE
