SPECIFICATION MCSpec
CONSTANTS
  t1 = t1
  t2 = t2
  t3 = t3
  o1 = o1
  NoOwner = NoOwner
  Notifier = Notifier
  Tasks = {t1, t2, t3}
  Outsiders = {o1}
  Callers <- MCCallers
  Permits = 1
  Capacity = 2
  MaxCalls <- MCCalls
  MaxSignals = 3
INVARIANT PermitsConserved
PROPERTIES ServedInOrder TakeReturns WaitReturns
CHECK_DEADLOCK FALSE
