CONSTANTS
  n1 = n1
  n2 = n2
  n3 = n3
  Name = {x1}
  Nonce = {n1, n2, n3}
  Lifetime = {1, 2}
  Straggle = 1
  DeadTime = 4
  None = None
SPECIFICATION FairSpec
INVARIANTS
  TypeOK
  OneTimer
  TimerIsLastExpiry
  SentIsKnown
PROPERTIES
  RequestsEnd
  ImplementsTable

