SPECIFICATION MCSpec
CONSTANTS
  Tasks = {t1, t2}
  Scopes = {x1}
  ScopeOf <- OneScope
  Timed = {t1}
  Threads = {a, b}
  Capacity = 2
  ReadyTarget = 1
  DispatchBound = 1
  MaxParks <- FirstParks
  All = All
  None = None
  t1 = t1
  t2 = t2
  x1 = x1
INVARIANT NoLostWakeup
SYMMETRY ThreadSymmetry
CHECK_DEADLOCK FALSE
