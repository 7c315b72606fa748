CONSTANTS
  c1 = c1
  c2 = c2
  e1 = e1
  e2 = e2
  e3 = e3
  r = r
  p = p
  Consumer = {c1, c2}
  Edge = {e1, e2, e3}
  Core = {r}
  Provider = p
  Content = {x1, x2}
  Up <- Shared
  Flaw <- Sound
  Defects <- AllDefects
  NoTag = NoTag
  NoTracker = NoTracker
  Bit = {c1, c2}
  Hash <- Distinct
  Limit = 2
  CsLimit = 1
  MaxSends <- Thrice
  Granted = {c1, c2}
  MaxFlight = 2
SPECIFICATION Spec
INVARIANTS
  TrackerIsCopied
CHECK_DEADLOCK FALSE
