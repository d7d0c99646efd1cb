SPECIFICATION Spec
CONSTANTS
  s1 = s1
  h1 = h1
  h2 = h2
  Subs = {s1}
  Handlers = {h1}
  MaxPeriod = 0
  MaxNow = 2
  MaxCrashes = 1
CHECK_DEADLOCK FALSE
INVARIANT NoBlindSecondCharge
