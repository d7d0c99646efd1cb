------------------------------ MODULE Payouts ------------------------------
(***************************************************************************)
(* Paying finalised settlements out: the payoutService of apps/api/src/    *)
(* finance/settlement-payout-recon.ts, on top of Settlements.              *)
(*                                                                         *)
(* Transactions run at READ COMMITTED and several are open at once.  Two   *)
(* of them read one table and write another, so they are steps:            *)
(*   - create locks the settlement's row (and an advisory lock), sums the  *)
(*     committed payouts, and inserts the payout with the rest it found;   *)
(*   - markPaid locks the payout's row, sums the payouts it can see as     *)
(*     PAID, its own among them, and commits, with the settlement PAID     *)
(*     when the sum reached its net.                                       *)
(* The others hold the payout's row lock throughout and are one step.      *)
(***************************************************************************)
EXTENDS Settlements

CONSTANTS NPayouts,       \* payout rows that may be inserted
          PayoutAmounts,  \* amounts asked for; 0 is none: all that remains
          BreakGlass      \* PAYOUT_ALLOW_BREAK_GLASS outside production

PayoutIds == 1..NPayouts

ASSUME PayoutAssumption == /\ NPayouts \in Nat
                           /\ PayoutAmounts \subseteq Nat
                           /\ BreakGlass \in BOOLEAN

VARIABLES payout,   \* payouts
          tx        \* the open transaction on each payout's row, if any

payoutVars == <<payout, tx>>

vars == <<settlementVars, ledgerVars, payoutVars>>

PayoutStatus == {"ABSENT", "PENDING", "SUBMITTED", "PAID", "FAILED", "CANCELLED"}

PayoutRow == [status : PayoutStatus, settlement : 0..NSettlements,
              amount : Nat, approved : BOOLEAN]

\* remaining: what create found unpaid; full: markPaid found all of it paid.
Transaction == [op : {"none", "create", "markPaid"}, settlement : 0..NSettlements,
                remaining : Int, full : BOOLEAN]

Idle == [op |-> "none", settlement |-> 0, remaining |-> 0, full |-> FALSE]

\* One type invariant for the financial core.
TypeOK == /\ SettlementTypeOK
          /\ LedgerTypeOK
          /\ payout \in [PayoutIds -> PayoutRow]
          /\ tx \in [PayoutIds -> Transaction]

Init == /\ SettlementInit
        /\ LedgerInit
        /\ payout = [p \in PayoutIds |-> [status |-> "ABSENT", settlement |-> 0,
                                          amount |-> 0, approved |-> FALSE]]
        /\ tx = [p \in PayoutIds |-> Idle]

-----------------------------------------------------------------------------
Committed == {"PENDING", "SUBMITTED", "PAID"}

Counted(row, s, statuses) ==
  IF row.settlement = s /\ row.status \in statuses THEN row.amount ELSE 0

\* SUM(amount_minor) of a settlement's payouts in one of these statuses.
PayoutSum(s, statuses) ==
  Total([p \in PayoutIds |-> Counted(payout[p], s, statuses)], NPayouts)

\* Mutant: a submitted payout is not counted.
sumCommittedPayoutMinor_NotSubmitted(s) == PayoutSum(s, {"PENDING", "PAID"})

sumCommittedPayoutMinor(s) == PayoutSum(s, Committed)

\* Mutant: create takes no lock.
RowFree_Always(s) == TRUE

\* No open create holds the settlement's row lock.
RowFree(s) == \A p \in PayoutIds : tx[p].op = "create" => tx[p].settlement # s

NextPayout(p) == /\ payout[p].status = "ABSENT" /\ tx[p].op = "none"
                 /\ \A q \in PayoutIds :
                      q < p => payout[q].status # "ABSENT" \/ tx[q].op # "none"

\* Mutant: no dual control.
payoutMarkPaidAllowed_Always(p) == TRUE

payoutMarkPaidAllowed(p) == payout[p].approved \/ BreakGlass

-----------------------------------------------------------------------------
(* create *)

CreatePayout(p, s) ==
  LET remaining == settlement[s].net - sumCommittedPayoutMinor(s)
  IN  /\ NextPayout(p)
      /\ RowFree(s)
      /\ settlement[s].status = "FINALIZED"
      /\ settlement[s].net > 0
      /\ remaining > 0
      /\ tx' = [tx EXCEPT ![p] = [op |-> "create", settlement |-> s,
                                  remaining |-> remaining, full |-> FALSE]]
      /\ UNCHANGED <<payout, settlementVars, ledgerVars>>

InsertPayout(p, asked) ==
  LET amount == IF asked = 0 THEN tx[p].remaining ELSE asked
  IN  /\ tx[p].op = "create"
      /\ amount <= tx[p].remaining
      /\ payout' = [payout EXCEPT ![p] =
                      [status |-> "PENDING", settlement |-> tx[p].settlement,
                       amount |-> amount, approved |-> FALSE]]
      /\ tx' = [tx EXCEPT ![p] = Idle]
      /\ UNCHANGED <<settlementVars, ledgerVars>>

-----------------------------------------------------------------------------
(* The payout's life *)

Update(p, from, row) ==
  /\ tx[p].op = "none"
  /\ payout[p].status \in from
  /\ payout' = [payout EXCEPT ![p] = row]
  /\ UNCHANGED <<tx, settlementVars, ledgerVars>>

SubmitPayout(p) == Update(p, {"PENDING"}, [payout[p] EXCEPT !.status = "SUBMITTED"])

ApprovePayout(p) == Update(p, {"PENDING", "SUBMITTED"},
                           [payout[p] EXCEPT !.approved = TRUE])

FailPayout(p) == Update(p, {"PENDING", "SUBMITTED"},
                        [payout[p] EXCEPT !.status = "FAILED"])

CancelPayout(p) == Update(p, {"PENDING"}, [payout[p] EXCEPT !.status = "CANCELLED"])

\* Mutant: unpaid payouts count as paid.
MarkPaid_ByCommitted(p) ==
  LET s == payout[p].settlement
  IN  /\ tx[p].op = "none"
      /\ payout[p].status = "SUBMITTED"
      /\ payoutMarkPaidAllowed(p)
      /\ tx' = [tx EXCEPT ![p] =
                  [op |-> "markPaid", settlement |-> s, remaining |-> 0,
                   full |-> /\ settlement[s].status = "FINALIZED"
                            /\ sumCommittedPayoutMinor(s) >= settlement[s].net]]
      /\ UNCHANGED <<payout, settlementVars, ledgerVars>>

\* maybeMarkSettlementFullyPaid sees the PAID payouts committed so far and the
\* one its own transaction updates.
MarkPaid(p) ==
  LET s == payout[p].settlement
  IN  /\ tx[p].op = "none"
      /\ payout[p].status = "SUBMITTED"
      /\ payoutMarkPaidAllowed(p)
      /\ tx' = [tx EXCEPT ![p] =
                  [op |-> "markPaid", settlement |-> s, remaining |-> 0,
                   full |-> /\ settlement[s].status = "FINALIZED"
                            /\ PayoutSum(s, {"PAID"}) + payout[p].amount
                                 >= settlement[s].net]]
      /\ UNCHANGED <<payout, settlementVars, ledgerVars>>

CommitPaid(p) ==
  LET s == tx[p].settlement
  IN  /\ tx[p].op = "markPaid"
      /\ tx[p].full => RowFree(s)
      /\ payout' = [payout EXCEPT ![p].status = "PAID"]
      /\ postPayoutPaid(p, payout[p].amount)
      /\ settlement' = IF tx[p].full
                       THEN [settlement EXCEPT ![s].status = "PAID"] ELSE settlement
      /\ tx' = [tx EXCEPT ![p] = Idle]
      /\ UNCHANGED <<payment, refund, schedule, line>>

\* A throw or a lost connection: the transaction leaves nothing behind.
Rollback(p) ==
  /\ tx[p].op # "none"
  /\ tx' = [tx EXCEPT ![p] = Idle]
  /\ UNCHANGED <<payout, settlementVars, ledgerVars>>

PayoutStep(p) ==
  \/ \E s \in Settlements : CreatePayout(p, s)
  \/ \E asked \in PayoutAmounts : InsertPayout(p, asked)
  \/ SubmitPayout(p)
  \/ ApprovePayout(p)
  \/ FailPayout(p)
  \/ CancelPayout(p)
  \/ MarkPaid(p)
  \/ CommitPaid(p)
  \/ Rollback(p)

Next == \/ SettlementNext /\ UNCHANGED payoutVars
        \/ \E p \in PayoutIds : PayoutStep(p)

Spec == Init /\ [][Next]_vars

-----------------------------------------------------------------------------
(* Properties *)

\* A settlement's gross is the sum of its lines as long as it holds them:
\* drafts, cancellations, refunds and other drafts leave no line behind or
\* counted twice (createDraft, cancel).
GrossIsLines ==
  \A s \in Settlements :
    IF settlement[s].status \in {"DRAFT", "FINALIZED", "PAID"}
    THEN settlement[s].gross = LinesNet(s)
    ELSE LinesNet(s) = 0

\* I14: payouts pending, submitted or paid never take more than the finalised
\* net, however creations, failures and mark-paids interleave (create).
PayoutsWithinNet ==
  \A s \in Settlements :
    sumCommittedPayoutMinor(s) <=
      IF settlement[s].status \in {"FINALIZED", "PAID"} THEN settlement[s].net ELSE 0

\* A settlement is PAID only when the money has all left: the decision that
\* maybeMarkSettlementFullyPaid takes before its commit still holds after it.
PaidSettlementWasPaidOut ==
  \A s \in Settlements :
    settlement[s].status = "PAID" =>
      /\ PayoutSum(s, {"PAID"}) = settlement[s].net
      /\ sumCommittedPayoutMinor(s) = settlement[s].net

\* Dual control: no payout is PAID, or in the course of being paid, without
\* the platform's approval, unless the break-glass switch is on (markPaid).
PaidPayoutApproved ==
  \A p \in PayoutIds :
    payout[p].status = "PAID" \/ tx[p].op = "markPaid" =>
      payout[p].approved \/ BreakGlass

\* What has been captured, refunded, charged at finalisation and paid out.
CapturedGross == Total([i \in Payments |-> IF payment[i].captured
                                           THEN Amount[i] ELSE 0], NPayments)
AccruedFees   == Total([i \in Payments |-> payment[i].platformFees], NPayments)
RefundedTotal == Total([r \in Refunds |-> refund[r].amount], NRefunds)
ChargedFees(fees) ==
  Total([s \in Settlements |-> IF settlement[s].status \in {"FINALIZED", "PAID"}
                               THEN settlement[s][fees] ELSE 0], NSettlements)
PaidOut       == Total([p \in PayoutIds |-> IF payout[p].status = "PAID"
                                            THEN payout[p].amount ELSE 0], NPayouts)

\* I4 and the posting rules: the ledger accounts hold exactly what the tables
\* say happened, each capture, refund, finalisation and payout posted once,
\* and never one of a transaction that rolled back.
LedgerTellsTables ==
  /\ balance["pending_settlement"] = CapturedGross - RefundedTotal
  /\ balance["merchant_payable"] =
       RefundedTotal + ChargedFees("platformFees") + ChargedFees("providerFees")
         + PaidOut - (CapturedGross - AccruedFees)
  /\ balance["platform_revenue"] = -(AccruedFees + ChargedFees("platformFees"))
  /\ balance["cash_provider"] = -(ChargedFees("providerFees") + PaidOut)

\* I13: the amounts and lines of a finalised settlement never change again, and
\* it only ever moves to PAID (finalize, cancel, createDraft).
FinalizedIsFrozen ==
  [][\A s \in Settlements :
       settlement[s].status \in {"FINALIZED", "PAID"} =>
         /\ settlement'[s] \in {settlement[s], [settlement[s] EXCEPT !.status = "PAID"]}
         /\ \A i \in Payments :
              (line[i].settlement = s \/ line'[i].settlement = s) => line'[i] = line[i]
    ]_vars

-----------------------------------------------------------------------------
(* What the documents say of the system, and the code does not keep *)

\* docs/implementation/P15_1E_PAYOUT.md: "When SUM(PAID payouts) >= settlement
\* net -> settlement PAID" (maybeMarkSettlementFullyPaid).
FullyPaidBecomesPaid ==
  \A s \in Settlements :
    settlement[s].status = "FINALIZED" /\ settlement[s].net > 0 =>
      PayoutSum(s, {"PAID"}) < settlement[s].net

\* I9, "Eligible amount = captured - refunds", of the amounts that finalize
\* freezes: a refund between the draft and finalize is still paid out.
FinalizedEligible ==
  [][\A s \in Settlements :
       settlement[s].status = "DRAFT" /\ settlement'[s].status = "FINALIZED" =>
         \A i \in Payments :
           line[i].settlement = s => line[i].net = Eligible(i)]_vars

\* "Payout Amount > Eligible Available Balance" must be prevented: a payout is
\* not larger than the available balance getBalances reports (payoutService).
PayoutWithinAvailable ==
  [][\A p \in PayoutIds :
       payout[p].status = "ABSENT" /\ payout'[p].status = "PENDING" =>
         payout'[p].amount <=
           deriveAvailableFromPayableNet(balance["merchant_payable"])]_vars

\* What getBalances reports as pending.
Pending ==
  derivePendingMinor(balance["pending_settlement"],
    Total([s \in Settlements |-> IF settlement[s].status = "FINALIZED"
                                 THEN settlement[s].gross ELSE 0], NSettlements))

\* "Captured funds not yet in a FINALIZED settlement": pending never rises
\* when nothing is captured (getBalances).
PendingRisesOnlyByCapture ==
  [][payment' = payment => Pending' <= Pending]_vars

-----------------------------------------------------------------------------
\* The settlements and payouts keep SettlementPromise.
BatchState == [s \in Settlements |->
                 CASE settlement[s].status = "ABSENT"    -> "none"
                   [] settlement[s].status = "DRAFT"     -> "open"
                   [] settlement[s].status = "CANCELLED" -> "void"
                   [] settlement[s].status = "FINALIZED" -> "closed"
                   [] settlement[s].status = "PAID"      -> "settled"]
BatchDue == [s \in Settlements |-> IF settlement[s].status \in {"FINALIZED", "PAID"}
                                   THEN settlement[s].net ELSE 0]
BatchPaid == [s \in Settlements |-> PayoutSum(s, {"PAID"})]

Promise == INSTANCE SettlementPromise WITH
             Batches <- Settlements, state <- BatchState,
             due <- BatchDue, paid <- BatchPaid

\* The refinement, as a property for TLC.
PromiseSpec == Promise!Spec
=============================================================================
