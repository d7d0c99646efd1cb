SPECIFICATION Spec
CONSTANTS
  l1 = l1
  i1 = i1
  i2 = i2
  Links = {l1}
  Intents = {i1, i2}
  LinkOf <- MCLinkOf
  MaxUsesBound = 2
  MaxLost = 1
SYMMETRY MCSymmetry
CHECK_DEADLOCK FALSE
INVARIANTS
  TypeOK
  SessionAndIntentAgree
  PaidMeansSettledOnce
  EndingAnnouncedOnce
  PaidOneTimeLinkClosed
  EveryPaymentUsesLink
PROPERTIES
  KeepsPromise
  NoChargeAfterOutcome
  PaidOneTimeLinkTakesNoMoney
