--------------------------- MODULE FinancialModel ---------------------------
(***************************************************************************)
(* The money arithmetic every financial service shares: apps/api/src/      *)
(* finance/financial-model.ts, with the balance formulas of balances.ts.   *)
(*                                                                         *)
(* Amounts are integers of minor units; the code's bigint does not         *)
(* overflow.  A calculation that throws is a condition its caller checks.  *)
(***************************************************************************)
EXTENDS Integers

\* A fee schedule line.  Without an active one the platform charges nothing.
Schedule == [basisPoints : Nat, fixedMinor : Nat]

NoSchedule == [basisPoints |-> 0, fixedMinor |-> 0]

\* round_half_up(amount * basisPoints / 10000), by quotient and remainder.
applyBpsHalfUp(amountMinor, basisPoints) ==
  LET numerator == amountMinor * basisPoints
      q         == numerator \div 10000
      r         == numerator % 10000
  IN  IF r * 2 >= 10000 THEN q + 1 ELSE q

computePlatformFeeMinor(grossMinor, schedule) ==
  applyBpsHalfUp(grossMinor, schedule.basisPoints) + schedule.fixedMinor

\* What a payment leaves the merchant; negative when the code throws
\* FEES_EXCEED_GROSS.  The capture paths never know the provider's fee.
netToMerchant(grossMinor, platformFeesMinor) == grossMinor - platformFeesMinor

\* Captured less refunded: what a settlement may include of a payment.
computeEligibleMinor(capturedMinor, refundedMinor) == capturedMinor - refundedMinor

\* The settlement equation; reserves_minor is always 0.
settlementNet(grossMinor, providerFeesMinor, platformFeesMinor, adjustmentsMinor) ==
  grossMinor - (providerFeesMinor + platformFeesMinor) + adjustmentsMinor

\* Mutant: a negative net is let through.
netAllowed_Any(netMinor) == TRUE

\* Otherwise computeSettlementTotals throws SETTLEMENT_NET_NEGATIVE.
netAllowed(netMinor) == netMinor >= 0

floorNonNegativeMinor(value) == IF value < 0 THEN 0 ELSE value

derivePendingMinor(pendingSettlementNet, finalizedGrossMinor) ==
  floorNonNegativeMinor(pendingSettlementNet - finalizedGrossMinor)

deriveAvailableFromPayableNet(payableNet) == floorNonNegativeMinor(-payableNet)
=============================================================================
