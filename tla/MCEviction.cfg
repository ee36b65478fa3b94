CONSTANTS
  f1 = f1
  f2 = f2
  f3 = f3
  s1 = s1
  s2 = s2
  l21 = l21
  q1 = q1
  q2 = q2
  Ids <- MCIds
  Slots <- MCSlots
  SlotsOf <- OwnSlots
  Threshold <- MCThreshold
  Reports <- FlowReports
  MaxLen = 1
  MaxReports = 3
  MaxFailures = 0
SPECIFICATION Spec
INVARIANTS
  RemovedNodesAreUnlinked
CHECK_DEADLOCK FALSE
