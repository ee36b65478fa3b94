CONSTANTS
  Switches <- MCSwitches
  Hosts <- MCHosts
  Ports <- MCPorts
  Peer <- ShippedPeer
  Tables <- ShippedTables
  MaxHop = 4
  InsCnt = 6
  InsMap <- MCInsMap
  Collector = "h3"
  Sendable <- ShippedSendable
  MaxPackets = 3
  Depth = 1
SPECIFICATION Spec
INVARIANTS
  TypeOK
  Transparent
  OneReportEach
  SeqFindsLosses
CHECK_DEADLOCK FALSE
