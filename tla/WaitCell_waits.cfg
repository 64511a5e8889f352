SPECIFICATION Spec
CONSTANTS
  Cells = {c1, c2}
  Resident = {c2}
  Tasks = {t1, t2}
  Hubs = {h1}
  HubOf <- OneHub
  Scopes = {x1}
  ScopeOf <- OneScope
  Parkers <- OwnParkers
  Selectors = {s1, s2}
  CarrierOf <- MixedCarriers
  MaxGeneration = 1
  None = None
  Free = Free
  Outside = Outside
  t1 = t1
  t2 = t2
  h1 = h1
  h2 = h2
  x1 = x1
  x2 = x2
  s1 = s1
  s2 = s2
  c1 = c1
  c2 = c2
INVARIANTS NoLostWake PermitConserved
CHECK_DEADLOCK FALSE
