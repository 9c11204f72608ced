CONSTANTS
  e1 = e1
  e2 = e2
  a1 = a1
  None = None
  Alerts = {a1}
  Accounts <- MCAccounts
  Followed <- MCFollowed
  Events = {e1, e2}
  Budgets <- MCBudgets
  MaxDials = 2
  MaxTries = 2
  Prefetch = 2
  Streams = {1, 2}
  Capacity = 1
SPECIFICATION Spec
CHECK_DEADLOCK FALSE
INVARIANTS
  OpenIsWatched
  DuplicatesOnlyAfterLoss
  StreamIsKept
  FetchSeesChange
  SessionIsOwn
  RoutesAgree
PROPERTIES
  SentIsAudited
  ScreenCatchesUp
  DeliveredAtLeastOnce
