CONSTANTS
  Switches <- MCSwitches
  Hosts <- MCHosts
  Ports <- MCPorts
  Peer <- LinePeer
  Tables <- LineTables
  MaxHop = 2
  InsCnt = 6
  InsMap <- MCInsMap
  Collector = "h3"
  Sendable <- LineSendable
  MaxPackets = 2
  Depth = 1
SPECIFICATION Spec
INVARIANTS
  LengthsAddUp
  StackMatchesShim
  StackIsRoute
  WithinMtu
PROPERTIES
  PacketsLeave
CHECK_DEADLOCK FALSE
