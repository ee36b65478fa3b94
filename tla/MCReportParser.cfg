CONSTANTS
  Datagrams <- MCDatagrams
  BufferSize = 512
  MaxIntHop = 2
  MaxDatagrams = 3
SPECIFICATION Spec
INVARIANTS
  TypeOK
  MetricsAreTrue
CHECK_DEADLOCK FALSE
