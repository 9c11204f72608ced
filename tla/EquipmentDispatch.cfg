CONSTANTS
  a = a
  b = b
  r1 = r1
  None = None
  Turnarounds = {a, b}
  Jobs = 2
  Units = {1}
  Suitable <- AllSuitable
  PatchStatuses = {"available", "maintenance"}
  Clients = {r1}
  Copies = 2
  MaxLeft = 1
  MaxFaults = 1
  MaxEvents = 2
SPECIFICATION Spec
SYMMETRY Symmetry
CHECK_DEADLOCK FALSE
INVARIANTS
  AtMostOneOpenPerTask
  AssignedEventsAreTrue
  NoUnitLostByHandlers
  OnlyOwnAssignmentReleased
  ConsistentWhenSerial
