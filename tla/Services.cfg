SPECIFICATION MCSpec
CONSTANTS
  Callers = {c1, c2}
  Workers = {w1, w2}
  PoolCapacity = 2
  PoolFaults = 0
  Readers = {t1, t2}
  IoCapacity = 2
  IoFaults = 1
  Messages = 1
  Calls <- Once
  t1 = t1
  Runtimes = {rt}
  LifecycleCapacity = 1
  MaxFaults = 2
INVARIANTS CapacityHeld ResultCommitted EntriesOwned CompletionHonest
PROPERTIES PoolSettles ReadersWake ShutdownReturns
CHECK_DEADLOCK FALSE
