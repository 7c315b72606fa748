CONSTANTS
  c1 = c1
  c2 = c2
  e1 = e1
  e2 = e2
  e3 = e3
  r = r
  p = p
  Consumer = {c1, c2}
  Edge = {e1, e2, e3}
  Core = {r}
  Provider = p
  Content = {x1}
  Up <- Shared
  Flaw <- BadSignature
  Defects <- AllDefects
  NoTag = NoTag
  NoTracker = NoTracker
  Bit = {c1, c2}
  Hash <- Distinct
  Limit = 2
  CsLimit = 1
  MaxSends <- Four
  Granted = {c2}
  MaxFlight = 2
SPECIFICATION Spec
INVARIANTS
  OnlyAuthorisedReceive
CHECK_DEADLOCK FALSE
