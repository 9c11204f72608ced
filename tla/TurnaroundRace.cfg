CONSTANTS
  t1 = t1
  t2 = t2
  r1 = r1
  r2 = r2
  r3 = r3
  c1 = c1
  Unknown = Unknown
  None = None
  Tasks = {t1, t2}
  Requests = {r1, r2}
  Crews = {c1}
  Dtos <- ForwardDtos
  MaxFailures = 0
SPECIFICATION Spec
CHECK_DEADLOCK FALSE
INVARIANT DoneMeansCompleted
