CONSTANTS
  a = a
  b = b
  c1 = c1
  c2 = c2
  None = None
  Turnarounds = {a, b}
  Jobs = 1
  Crew = {c1}
  Qualified <- AllQualified
  LastName <- SameName
  Slots = {1, 2}
  Copies = 1
  MaxFaults = 0
  MaxEvents = 1
SPECIFICATION Spec
CHECK_DEADLOCK FALSE
INVARIANT NoDoubleBooking
