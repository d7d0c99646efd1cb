---------------------------- MODULE Settlements ----------------------------
(***************************************************************************)
(* From captured payments to finalised settlements, for one organisation,  *)
(* environment and currency: the capture side of apps/api/src/finance/     *)
(* fee-accrual-service.ts, refunds/refunds-service.ts,                     *)
(* finance/fee-schedules-service.ts and the settlementService of           *)
(* finance/settlement-payout-recon.ts, each posting to the Ledger.         *)
(*                                                                         *)
(* Every operation is one transaction.  Refunds hold the payment's row     *)
(* lock, drafts an advisory lock, finalize and cancel the settlement's row *)
(* lock, from before their first read to the commit, so each is one step.  *)
(* The draft's read of payments and refunds takes no lock on them: a       *)
(* refund that commits after it is a refund after the draft.               *)
(***************************************************************************)
EXTENDS FinancialModel, Ledger, Sums, FiniteSets

CONSTANTS NPayments,      \* payments, numbered in the order of created_at
          Amount,         \* amount_minor of each payment
          NRefunds,       \* refund rows that may be inserted
          RefundAmounts,  \* amounts a refund is asked for
          NSettlements,   \* settlement rows that may be inserted
          Schedules,      \* fee schedules that may be activated
          ProviderFees,   \* provider_fees_minor asked for with a draft
          Adjustments,    \* adjustments_minor asked for with a draft
          PageSize        \* LIMIT of the draft's query (500)

Payments    == 1..NPayments
Refunds     == 1..NRefunds
Settlements == 1..NSettlements

ASSUME SettlementAssumption ==
  /\ NPayments \in Nat /\ NRefunds \in Nat /\ NSettlements \in Nat
  /\ Amount \in [Payments -> Nat \ {0}]
  /\ RefundAmounts \subseteq Nat \ {0}
  /\ Schedules \subseteq Schedule
  /\ ProviderFees \subseteq Nat
  /\ Adjustments \subseteq Int
  /\ PageSize \in Nat \ {0}

VARIABLES payment,     \* payment_intents: captured, and the fee accrued then
          refund,      \* refunds; payment 0 is a row not inserted
          schedule,    \* the active PROCESSING fee schedule
          settlement,  \* settlements
          line         \* each payment's active settlement line; 0 is none

settlementVars == <<payment, refund, schedule, settlement, line>>

SettlementStatus == {"ABSENT", "DRAFT", "FINALIZED", "PAID", "CANCELLED"}

SettlementRow == [status : SettlementStatus, gross : Nat, platformFees : Nat,
                  providerFees : Nat, adjustments : Int, net : Nat]

SettlementTypeOK ==
  /\ payment \in [Payments -> [captured : BOOLEAN, platformFees : Nat]]
  /\ refund \in [Refunds -> [payment : 0..NPayments, amount : Nat]]
  /\ schedule \in Schedule
  /\ settlement \in [Settlements -> SettlementRow]
  /\ line \in [Payments -> [settlement : 0..NSettlements, net : Nat]]

SettlementInit ==
  /\ payment = [i \in Payments |-> [captured |-> FALSE, platformFees |-> 0]]
  /\ refund = [r \in Refunds |-> [payment |-> 0, amount |-> 0]]
  /\ schedule = NoSchedule
  /\ settlement = [s \in Settlements |->
                     [status |-> "ABSENT", gross |-> 0, platformFees |-> 0,
                      providerFees |-> 0, adjustments |-> 0, net |-> 0]]
  /\ line = [i \in Payments |-> [settlement |-> 0, net |-> 0]]

-----------------------------------------------------------------------------
(* Sums the queries take *)

Refunded(i) ==
  Total([r \in Refunds |-> IF refund[r].payment = i THEN refund[r].amount ELSE 0],
        NRefunds)

Eligible(i) == computeEligibleMinor(Amount[i], Refunded(i))

\* The net_minor of the settlement's active lines.
LinesNet(s) ==
  Total([i \in Payments |-> IF line[i].settlement = s THEN line[i].net ELSE 0],
        NPayments)

\* Row ids are taken in order: which unused id a row gets makes no difference.
NextRefund(r)     == /\ refund[r].payment = 0
                     /\ \A q \in Refunds : q < r => refund[q].payment # 0
NextSettlement(s) == /\ settlement[s].status = "ABSENT"
                     /\ \A t \in Settlements :
                          t < s => settlement[t].status # "ABSENT"

-----------------------------------------------------------------------------
(* Payments, refunds, fee schedules *)

\* accrueOnPaymentSuccess, in the transaction that marks the payment SUCCEEDED.
\* A fee above the amount throws and takes that transaction with it.
Capture(i) ==
  LET fee == computePlatformFeeMinor(Amount[i], schedule)
  IN  /\ ~payment[i].captured
      /\ netToMerchant(Amount[i], fee) >= 0
      /\ payment' = [payment EXCEPT ![i] = [captured |-> TRUE, platformFees |-> fee]]
      /\ postPaymentSucceeded(i, Amount[i], fee)
      /\ UNCHANGED <<refund, schedule, settlement, line>>

\* createRefund, after the provider accepted, and applyProviderRefundEvent:
\* both insert a SUCCEEDED row within what is left of the captured amount.
CreateRefund(r, i, amount) ==
  /\ NextRefund(r)
  /\ payment[i].captured
  /\ Refunded(i) + amount <= Amount[i]
  /\ refund' = [refund EXCEPT ![r] = [payment |-> i, amount |-> amount]]
  /\ postRefund(r, amount)
  /\ UNCHANGED <<payment, schedule, settlement, line>>

\* upsert deactivates the active schedule.  The new one counts from its
\* effective_from: until then, or when it lapses, no schedule is active.
UpsertSchedule(new) ==
  /\ schedule' = new
  /\ UNCHANGED <<payment, refund, settlement, line, ledgerVars>>

-----------------------------------------------------------------------------
(* Settlements *)

\* The first PageSize SUCCEEDED payments of the period without an active line;
\* those with nothing left to settle are dropped only after the LIMIT.
DraftPage(first, last) ==
  LET candidates == {i \in first..last : payment[i].captured /\ line[i].settlement = 0}
  IN  {i \in candidates : Cardinality({j \in candidates : j < i}) < PageSize}

DraftLines(first, last) == {i \in DraftPage(first, last) : Eligible(i) > 0}

CreateDraft(s, first, last, providerFees, adjustments) ==
  LET included == DraftLines(first, last)
      gross    == Total([i \in Payments |->
                           IF i \in included THEN Eligible(i) ELSE 0], NPayments)
      accrued  == Total([i \in Payments |->
                           IF i \in included THEN payment[i].platformFees ELSE 0],
                        NPayments)
      platform == IF gross = 0 THEN 0
                  ELSE IF accrued > 0 THEN accrued
                  ELSE computePlatformFeeMinor(gross, schedule)
      provider == IF gross = 0 THEN 0 ELSE providerFees
      adjusted == IF gross = 0 THEN 0 ELSE adjustments
      net      == settlementNet(gross, provider, platform, adjusted)
  IN  /\ NextSettlement(s)
      /\ netAllowed(net)
      /\ settlement' = [settlement EXCEPT ![s] =
                          [status |-> "DRAFT", gross |-> gross,
                           platformFees |-> platform, providerFees |-> provider,
                           adjustments |-> adjusted, net |-> net]]
      /\ line' = [i \in Payments |->
                    IF i \in included
                    THEN [settlement |-> s, net |-> Eligible(i)]
                    ELSE line[i]]
      /\ UNCHANGED <<payment, refund, schedule, ledgerVars>>

\* recomputeSettlementTotals: from the lines as drafted and today's schedule,
\* whatever fee the payments accrued.
Finalize(s) ==
  LET gross    == LinesNet(s)
      platform == IF gross = 0 THEN 0 ELSE computePlatformFeeMinor(gross, schedule)
      provider == IF gross = 0 THEN 0 ELSE settlement[s].providerFees
      adjusted == IF gross = 0 THEN 0 ELSE settlement[s].adjustments
      net      == settlementNet(gross, provider, platform, adjusted)
  IN  /\ settlement[s].status = "DRAFT"
      /\ netAllowed(net)
      /\ settlement' = [settlement EXCEPT ![s] =
                          [status |-> "FINALIZED", gross |-> gross,
                           platformFees |-> platform, providerFees |-> provider,
                           adjustments |-> adjusted, net |-> net]]
      /\ postSettlementFinalizeFees(s, platform, provider)
      /\ UNCHANGED <<payment, refund, schedule, line>>

\* Mutant: the lines stay active.
CancelSettlement_KeepLines(s) ==
  /\ settlement[s].status = "DRAFT"
  /\ settlement' = [settlement EXCEPT ![s].status = "CANCELLED"]
  /\ UNCHANGED <<payment, refund, schedule, line, ledgerVars>>

\* Mutant: a finalised settlement can be cancelled too.
CancelSettlement_Finalized(s) ==
  /\ settlement[s].status \in {"DRAFT", "FINALIZED"}
  /\ settlement' = [settlement EXCEPT ![s].status = "CANCELLED"]
  /\ line' = [i \in Payments |-> IF line[i].settlement = s
                                 THEN [settlement |-> 0, net |-> 0] ELSE line[i]]
  /\ UNCHANGED <<payment, refund, schedule, ledgerVars>>

\* Releases the payments: their lines become inactive.
CancelSettlement(s) ==
  /\ settlement[s].status = "DRAFT"
  /\ settlement' = [settlement EXCEPT ![s].status = "CANCELLED"]
  /\ line' = [i \in Payments |-> IF line[i].settlement = s
                                 THEN [settlement |-> 0, net |-> 0] ELSE line[i]]
  /\ UNCHANGED <<payment, refund, schedule, ledgerVars>>

SettlementNext ==
  \/ \E i \in Payments : Capture(i)
  \/ \E r \in Refunds, i \in Payments, a \in RefundAmounts : CreateRefund(r, i, a)
  \/ \E new \in Schedules \union {NoSchedule} : UpsertSchedule(new)
  \/ \E s \in Settlements, first, last \in Payments, f \in ProviderFees,
        a \in Adjustments : CreateDraft(s, first, last, f, a)
  \/ \E s \in Settlements : Finalize(s)
  \/ \E s \in Settlements : CancelSettlement(s)
=============================================================================
