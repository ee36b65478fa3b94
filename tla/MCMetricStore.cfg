CONSTANTS
  f1 = f1
  f2 = f2
  f3 = f3
  s1 = s1
  s2 = s2
  l21 = l21
  q1 = q1
  q2 = q2
  Ids <- MCIds
  Slots <- MCSlots
  SlotsOf <- OwnSlots
  Threshold <- MCThreshold
  Reports <- MCReports
  MaxLen = 3
  MaxReports = 2
  MaxFailures = 1
SPECIFICATION FairSpec
INVARIANTS
  TypeOK
  ListsAreWhole
  ReportedIdsAreListed
PROPERTIES
  DatabaseCatchesUp
CHECK_DEADLOCK FALSE
