SPECIFICATION Spec
CONSTANTS
  h1 = h1
  h2 = h2
  s1 = s1
  Subs = {s1}
  Handlers = {h1, h2}
  MaxPeriod = 0
  MaxNow = 1
  MaxCrashes = 0
CHECK_DEADLOCK FALSE
INVARIANT CollectionsAgree
PROPERTIES
  EndedStaysEnded
  KeepsPromise
