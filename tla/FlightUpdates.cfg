CONSTANTS
  f1 = f1
  f2 = f2
  c1 = c1
  c2 = c2
  c3 = c3
  g1 = g1
  g2 = g2
  None = None
  Flights = {f1, f2}
  Calls = {c1, c2, c3}
  Gates = {g1, g2}
  Requests <- Bodies
  Schedules <- Plans
  MaxFaults = 1
SPECIFICATION Spec
SYMMETRY Symmetry
CHECK_DEADLOCK FALSE
INVARIANTS
  EventsTellTheStory
  EveryStatusAnnounced
  GateConflictsReported
PROPERTY FieldsChangeByRequest
