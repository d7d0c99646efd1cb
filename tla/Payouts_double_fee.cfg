SPECIFICATION Spec
CONSTANTS
  NPayments = 1
  Amount <- MCAmount
  NRefunds = 0
  RefundAmounts = {50}
  NSettlements = 1
  Schedules <- MCSchedules
  ProviderFees = {0}
  Adjustments <- MCNoAdjustments
  PageSize = 1
  NPayouts = 1
  PayoutAmounts = {0}
  BreakGlass = FALSE
CHECK_DEADLOCK FALSE
PROPERTY
  PayoutWithinAvailable
