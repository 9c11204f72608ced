CONSTANTS
  a = a
  b = b
  r1 = r1
  None = None
  Turnarounds = {a, b}
  Jobs = 1
  Units = {1}
  Suitable <- AllSuitable
  PatchStatuses = {"available", "maintenance"}
  Clients = {r1}
  Copies = 1
  MaxLeft = 1
  MaxFaults = 0
  MaxEvents = 2
SPECIFICATION Spec
CHECK_DEADLOCK FALSE
INVARIANT ReleasedIsAvailable
