CONSTANTS
  f1 = f1
  f2 = f2
  f3 = f3
  r1 = r1
  r2 = r2
  r3 = r3
  j1 = j1
  j2 = j2
  g1 = g1
  g2 = g2
  None = None
  Flights = {f1, f2, f3}
  Dated = {f1}
  Complete = {f1, f2}
  Budgets <- MCBudgets
  Triggered = {r1, r2}
  Scheduled = {r3}
  Listings <- MCListings
  Jobs = {j1, j2}
  Turnarounds = {1, 2}
  Situations <- MCSituations
  Limit = 1
  Certs <- MCCerts
  Occupancies <- MCOccupancies
  NoTime = NoTime
  CrewIds = {c1, c2}
  UnitIds = {u1, u2}
  Missing = Missing
SPECIFICATION Spec
SYMMETRY Symmetry
CHECK_DEADLOCK FALSE
INVARIANTS
  StatusIsTrue
  OneOpenAlertPerCause
  FoundMeansAlerted
  BarsTellConflicts
  RostersAgree
