SPECIFICATION Spec
CONSTANTS
  Cells = {c1}
  Resident = {}
  Tasks = {t1, t2}
  Hubs = {h1, h2}
  HubOf <- SplitHubs
  Scopes = {x1, x2}
  ScopeOf <- SplitScopes
  Parkers <- SharedParkers
  Selectors = {s1, s2}
  CarrierOf <- MixedCarriers
  MaxGeneration = 3
  None = None
  Free = Free
  Outside = Outside
  t1 = t1
  t2 = t2
  h1 = h1
  h2 = h2
  x1 = x1
  x2 = x2
  s1 = s1
  s2 = s2
  c1 = c1
  c2 = c2
INVARIANTS ClaimExclusive RoutedToOwner OneOwner
CHECK_DEADLOCK FALSE
