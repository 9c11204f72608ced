CONSTANTS
  m1 = m1
  r1 = r1
  f1 = f1
  None = None
  Arrivals = {m1}
  Requests = {r1}
  Flights = {f1}
  FlightOf <- Flight
  TypeOf <- Type
  Reports <- WeatherReports
  MaxTime = 2
  MaxFaults = 2
SPECIFICATION FairSpec
CHECK_DEADLOCK FALSE
INVARIANTS
  OneTurnaroundPerFlight
  UnannouncedMeansCut
  TaskListsAreSound
  OneReportPerPlan
PROPERTY NoArrivalForgotten
