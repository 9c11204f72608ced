CONSTANTS
  a = a
  b = b
  c1 = c1
  c2 = c2
  None = None
  Turnarounds = {a, b}
  Jobs = 2
  Crew = {c1, c2}
  Qualified <- AllQualified
  LastName <- SameName
  Slots = {1, 2}
  Copies = 2
  MaxFaults = 1
  MaxEvents = 2
SPECIFICATION FairSpec
CHECK_DEADLOCK FALSE
INVARIANTS
  NoDoubleBookingWithinTurnaround
  AssignedEventsAreTrue
  EveryTaskAnswered
  FreedUnlessOvertaken
  AssignedOnceUnlessOvertaken
PROPERTY QueueDrains
