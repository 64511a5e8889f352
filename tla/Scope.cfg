SPECIFICATION FairSpec
CONSTANTS
  NONE = NONE
  o1 = o1
  o2 = o2
  Owners = {o1, o2}
  Supervisors = {o2}
  MaxCarriers = 2
  MaxTasks = 3
  MaxVthreads = 2
  QueueCapacity = 1
  BatchSize = 2
  CacheCapacity = 1
  Panics = {1}
  Configs <- Workloads
INVARIANTS CountsAgree ScopeDrained FailuresReported
PROPERTY WaitsReturn
CHECK_DEADLOCK FALSE
