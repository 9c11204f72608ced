CONSTANTS
  t1 = t1
  t2 = t2
  r1 = r1
  r2 = r2
  r3 = r3
  c1 = c1
  Unknown = Unknown
  None = None
  Tasks = {t1, t2}
  Requests = {r1, r2, r3}
  Crews = {c1}
  Dtos <- AllDtos
  MaxFailures = 1
SPECIFICATION Spec
SYMMETRY Symmetry
CHECK_DEADLOCK FALSE
INVARIANTS
  CompletionAnnounced
  CompletionJustified
  AnnouncedAfterRecorded
  NoLostTaskUpdate
