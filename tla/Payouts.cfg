SPECIFICATION Spec
CONSTANTS
  NPayments = 1
  Amount <- MCAmount
  NRefunds = 1
  RefundAmounts = {50}
  NSettlements = 2
  Schedules <- MCSchedules
  ProviderFees = {5}
  Adjustments <- MCAdjustments
  PageSize = 1
  NPayouts = 3
  PayoutAmounts = {0, 40}
  BreakGlass = FALSE
CHECK_DEADLOCK FALSE
INVARIANTS
  PayoutsWithinNet
  PaidSettlementWasPaidOut
  PaidPayoutApproved
  LedgerTellsTables
PROPERTIES
  FinalizedIsFrozen
  PromiseSpec
