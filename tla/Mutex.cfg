SPECIFICATION FairSpec
CONSTANTS
  t1 = t1
  t2 = t2
  t3 = t3
  Tasks <- ThreeTasks
  Capacity = 2
  MaxCalls = 2
  Nobody = Nobody
PROPERTIES ImplementsFairLock LockReturns
CHECK_DEADLOCK FALSE
