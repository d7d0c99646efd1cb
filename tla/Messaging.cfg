SPECIFICATION Spec
CONSTANTS
  e1 = e1
  e2 = e2
  p1 = p1
  t1 = t1
  t2 = t2
  Events = {e1}
  Endpoints = {p1}
  Threads = {t1, t2}
  EventAttempts = 2
  DeliveryAttempts = 2
  EmailSettings <- MCEmailSettings
  MaxFaults = 1
  MaxRequests = 2
CHECK_DEADLOCK FALSE
INVARIANTS
  OneMailPerEvent
  RecordsAreTrue
PROPERTIES
  DeliveredStaysAlone
  OutboxDrains
