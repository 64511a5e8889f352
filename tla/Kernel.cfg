SPECIFICATION MCSpec
CONSTANTS
  MaxLane = 3
  Roots = {"r1", "r2"}
  Kids = {"k1", "k2"}
  OwnerOf <- MCOwnerOf
  ScopeOf <- MCScopeOf
  Casts <- MCCasts
  Timed = {"r2", "k1"}
  MaxParks = 1
  NoTask = NoTask
  All = All
INVARIANTS TaskPlaced RouteExact BorrowedAlive HaltReclaimed HeadsServed
CHECK_DEADLOCK FALSE
