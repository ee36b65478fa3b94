CONSTANTS
  f1 = f1
  f2 = f2
  f3 = f3
  s1 = s1
  s2 = s2
  l21 = l21
  q1 = q1
  q2 = q2
  Ids <- MCIds
  Slots <- MCSlots
  SlotsOf <- PaddedSlots
  Threshold <- MCThreshold
  Reports <- FlowReports
  MaxLen = 2
  MaxReports = 3
  MaxFailures = 0
SPECIFICATION Spec
INVARIANTS
  ListedIdsHaveValues
CHECK_DEADLOCK FALSE
