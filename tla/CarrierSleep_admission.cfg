SPECIFICATION MCFairSpec
CONSTANTS
  Tasks = {t1, t2}
  Scopes = {x1}
  ScopeOf <- OneScope
  Timed = {}
  Threads = {a}
  Capacity = 2
  ReadyTarget = 1
  DispatchBound = 2
  MaxParks <- FirstParks
  All = All
  None = None
  t1 = t1
  t2 = t2
  x1 = x1
PROPERTIES
  StartReceived
  StopHalts
CHECK_DEADLOCK FALSE
