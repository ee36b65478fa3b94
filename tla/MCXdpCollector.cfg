CONSTANTS
  c1 = c1
  c2 = c2
  f1 = f1
  f2 = f2
  s1 = s1
  s2 = s2
  opt = opt
  Exporters <- Programs
  Cpus = {c1, c2}
  RingSize = 1
  MaxIntHop = 2
  Threshold <- MCThreshold
  Reports <- MCReports
  MaxReports = 3
  MaxFaults = 1
SPECIFICATION Spec
INVARIANTS
  TypeOK
  ShownIsClose
  StaleOnlyWithCause
PROPERTIES
  EventsAreHandled
CHECK_DEADLOCK FALSE
