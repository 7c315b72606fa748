CONSTANTS
  Packet = {p1, p2}
  Delay = {d1}
  None = None
  MaxEvents = 5
SPECIFICATION Spec
INVARIANTS
  TypeOK
  NoLostWakeup
  OneOutstandingEvent
  ExecutedInOrder
PROPERTIES
  EveryRequestRuns
  ImplementsServer
CHECK_DEADLOCK FALSE
