SPECIFICATION FairSpec
CONSTANTS
  Cells = {c1}
  Resident = {}
  Tasks = {t1, t2}
  Hubs = {h1}
  HubOf <- OneHub
  Scopes = {x1}
  ScopeOf <- OneScope
  Parkers <- SharedParkers
  Selectors = {s1, s2}
  CarrierOf <- MixedCarriers
  MaxGeneration = 2
  None = None
  Free = Free
  Outside = Outside
  t1 = t1
  t2 = t2
  h1 = h1
  h2 = h2
  x1 = x1
  x2 = x2
  s1 = s1
  s2 = s2
  c1 = c1
  c2 = c2
PROPERTIES
  WakeDelivered
  AbortCompletes
CHECK_DEADLOCK FALSE
