SPECIFICATION Spec
CONSTANTS
  NPayments = 3
  Amount <- MCAmount
  NRefunds = 2
  RefundAmounts = {50}
  NSettlements = 2
  Schedules <- MCSchedules
  ProviderFees = {5}
  Adjustments <- MCAdjustments
  PageSize = 2
  NPayouts = 0
  PayoutAmounts = {0}
  BreakGlass = FALSE
CHECK_DEADLOCK FALSE
INVARIANTS
  TypeOK
  GrossIsLines
