---------------------------- MODULE PayoutProofs ----------------------------
(***************************************************************************)
(* What holds of settlements and payouts for every number of payments,     *)
(* refunds, settlements, payouts and open transactions, and every amount.  *)
(***************************************************************************)
EXTENDS Payouts, SumsProofs

-----------------------------------------------------------------------------
(* The arithmetic *)

\* What applyBpsHalfUp makes of an amount is an amount.
LEMMA HalfUpNat ==
  ASSUME NEW amount \in Nat, NEW bps \in Nat
  PROVE  applyBpsHalfUp(amount, bps) \in Nat
<1>1. amount * bps \in Nat OBVIOUS
<1>2. (amount * bps) \div 10000 \in Nat BY <1>1
<1> QED BY <1>2 DEF applyBpsHalfUp

\* A platform fee is never negative.
LEMMA FeeNat ==
  ASSUME NEW amount \in Nat, NEW by \in Schedule
  PROVE  computePlatformFeeMinor(amount, by) \in Nat
<1>1. by.basisPoints \in Nat /\ by.fixedMinor \in Nat BY DEF Schedule
<1>2. applyBpsHalfUp(amount, by.basisPoints) \in Nat BY <1>1, HalfUpNat
<1> QED BY <1>1, <1>2 DEF computePlatformFeeMinor

\* applyBpsHalfUp rounds to the nearest minor unit, half a unit up: the fee is
\* off the exact share by half a unit at most (financial-model.ts).
THEOREM HalfUpIsNearest ==
  ASSUME NEW amount \in Nat, NEW bps \in Nat
  PROVE  /\ 2 * (amount * bps) - 10000 < 20000 * applyBpsHalfUp(amount, bps)
         /\ 20000 * applyBpsHalfUp(amount, bps) <= 2 * (amount * bps) + 10000
<1> DEFINE x == amount * bps
           q == x \div 10000
           r == x % 10000
<1>1. x \in Nat OBVIOUS
<1>2. applyBpsHalfUp(amount, bps) = IF r * 2 >= 10000 THEN q + 1 ELSE q
  BY DEF applyBpsHalfUp
<1> HIDE DEF x
<1>3. q \in Nat /\ r \in 0..9999 /\ x = 10000 * q + r BY <1>1
<1> HIDE DEF q, r
<1>4. 2 * x - 10000 < 20000 * applyBpsHalfUp(amount, bps) BY <1>1, <1>2, <1>3
<1>5. 20000 * applyBpsHalfUp(amount, bps) <= 2 * x + 10000 BY <1>1, <1>2, <1>3
<1> QED BY <1>4, <1>5 DEF x

-----------------------------------------------------------------------------
(* The sums of payouts *)

\* What a payout counts for is an amount.
LEMMA CountedNat ==
  ASSUME NEW row \in PayoutRow, NEW s, NEW St
  PROVE  Counted(row, s, St) \in Nat
BY DEF Counted, PayoutRow

\* The SUM over a settlement's payouts is an amount.
LEMMA PayoutSumNat ==
  ASSUME TypeOK, NEW s, NEW St
  PROVE  PayoutSum(s, St) \in Nat
<1> DEFINE f == [p \in PayoutIds |-> Counted(payout[p], s, St)]
<1>1. f \in [1..NPayouts -> Nat] BY CountedNat DEF TypeOK, PayoutIds
<1> QED BY <1>1, TotalNat, PayoutAssumption DEF PayoutSum, PayoutIds

\* So it is after a step.
LEMMA PayoutSumNatNext ==
  ASSUME TypeOK', NEW s
  PROVE  PayoutSum(s, {"PAID"})' \in Nat /\ sumCommittedPayoutMinor(s)' \in Nat
<1> DEFINE f == [p \in PayoutIds |-> Counted(payout'[p], s, {"PAID"})]
           g == [p \in PayoutIds |-> Counted(payout'[p], s, Committed)]
<1>1. f \in [1..NPayouts -> Nat] /\ g \in [1..NPayouts -> Nat]
  BY CountedNat DEF TypeOK, PayoutIds
<1>2. /\ PayoutSum(s, {"PAID"})' = Total(f, NPayouts)
      /\ sumCommittedPayoutMinor(s)' = Total(g, NPayouts)
  BY DEF PayoutSum, PayoutIds, sumCommittedPayoutMinor
<1> HIDE DEF f, g
<1> QED BY <1>1, <1>2, TotalNat, PayoutAssumption

\* Writing one payout's row changes each sum by what the row counts for.
LEMMA PayoutSumUpdate ==
  ASSUME TypeOK, NEW p \in PayoutIds, NEW row \in PayoutRow,
         payout' = [payout EXCEPT ![p] = row], NEW s, NEW St
  PROVE  PayoutSum(s, St)' =
           PayoutSum(s, St) + (Counted(row, s, St) - Counted(payout[p], s, St))
<1> DEFINE f == [q \in PayoutIds |-> Counted(payout[q], s, St)]
           g == [q \in PayoutIds |-> Counted(payout'[q], s, St)]
<1>1. payout \in [PayoutIds -> PayoutRow] BY DEF TypeOK
<1>2. payout' \in [PayoutIds -> PayoutRow] BY <1>1
<1>3. f \in [1..NPayouts -> Int] BY <1>1, CountedNat DEF PayoutIds
<1>4. g \in [1..NPayouts -> Int] BY <1>2, CountedNat DEF PayoutIds
<1>5. p \in 1..NPayouts BY DEF PayoutIds
<1>6. \A q \in 1..NPayouts : q # p => g[q] = f[q] BY <1>1 DEF PayoutIds
<1>7. g[p] = Counted(row, s, St) /\ f[p] = Counted(payout[p], s, St) BY <1>1
<1>8. PayoutSum(s, St) = Total(f, NPayouts) BY DEF PayoutSum
<1>9. PayoutSum(s, St)' = Total(g, NPayouts) BY DEF PayoutSum
<1> HIDE DEF f, g
<1>10. Total(g, NPayouts) = Total(f, NPayouts) + (g[p] - f[p])
  BY <1>3, <1>4, <1>5, <1>6, TotalUpdate, PayoutAssumption
<1> QED BY <1>7, <1>8, <1>9, <1>10

\* The PAID payouts and any one that is only committed are within the
\* committed sum.
LEMMA CommittedCoversPaid ==
  ASSUME TypeOK, NEW p \in PayoutIds, NEW s
  PROVE  /\ PayoutSum(s, {"PAID"}) <= sumCommittedPayoutMinor(s)
         /\ payout[p].status # "PAID" =>
              PayoutSum(s, {"PAID"}) + Counted(payout[p], s, Committed)
                <= sumCommittedPayoutMinor(s)
<1> DEFINE f == [q \in PayoutIds |-> Counted(payout[q], s, {"PAID"})]
           g == [q \in PayoutIds |-> Counted(payout[q], s, Committed)]
           h == [f EXCEPT ![p] = Counted(payout[p], s, Committed)]
<1>1. payout \in [PayoutIds -> PayoutRow] BY DEF TypeOK
<1>2. ASSUME NEW q \in PayoutIds
      PROVE  Counted(payout[q], s, {"PAID"}) <= Counted(payout[q], s, Committed)
  BY <1>1 DEF Counted, Committed, PayoutRow
<1>3. f \in [1..NPayouts -> Int] /\ g \in [1..NPayouts -> Int]
  BY <1>1, CountedNat DEF PayoutIds
<1>4. h \in [1..NPayouts -> Int] BY <1>1, <1>3, CountedNat DEF PayoutIds
<1>5. \A q \in 1..NPayouts : f[q] <= g[q] BY <1>2 DEF PayoutIds
<1>6. \A q \in 1..NPayouts : h[q] <= g[q]
  BY <1>1, <1>2, CountedNat DEF PayoutIds
<1>7. /\ p \in 1..NPayouts
      /\ \A q \in 1..NPayouts : q # p => h[q] = f[q]
      /\ h[p] = Counted(payout[p], s, Committed)
      /\ f[p] = Counted(payout[p], s, {"PAID"})
  BY DEF PayoutIds
<1>8. /\ PayoutSum(s, {"PAID"}) = Total(f, NPayouts)
      /\ sumCommittedPayoutMinor(s) = Total(g, NPayouts)
  BY DEF PayoutSum, sumCommittedPayoutMinor
<1> HIDE DEF f, g, h
<1>9. Total(f, NPayouts) <= Total(g, NPayouts)
  BY <1>3, <1>5, TotalMonotone, PayoutAssumption
<1>10. Total(h, NPayouts) <= Total(g, NPayouts)
  BY <1>3, <1>4, <1>6, TotalMonotone, PayoutAssumption
<1>11. Total(h, NPayouts) = Total(f, NPayouts) + (h[p] - f[p])
  BY <1>3, <1>4, <1>7, TotalUpdate, PayoutAssumption
<1>12. payout[p].status # "PAID" => Counted(payout[p], s, {"PAID"}) = 0
  BY DEF Counted
<1>13. Total(f, NPayouts) \in Int BY <1>3, TotalInt, PayoutAssumption
<1>14. Counted(payout[p], s, Committed) \in Nat BY <1>1, CountedNat
<1> QED BY <1>7, <1>8, <1>9, <1>10, <1>11, <1>12, <1>13, <1>14

-----------------------------------------------------------------------------
(* Sums over the other tables *)

\* The refunded sum and the sum of a settlement's lines are amounts.
LEMMA SettlementSums ==
  ASSUME SettlementTypeOK, NEW i, NEW s
  PROVE  Refunded(i) \in Nat /\ LinesNet(s) \in Nat
<1> DEFINE f == [r \in Refunds |-> IF refund[r].payment = i THEN refund[r].amount ELSE 0]
           g == [j \in Payments |-> IF line[j].settlement = s THEN line[j].net ELSE 0]
<1>1. f \in [1..NRefunds -> Nat] BY DEF SettlementTypeOK, Refunds
<1>2. g \in [1..NPayments -> Nat] BY DEF SettlementTypeOK, Payments
<1>3. Refunded(i) = Total(f, NRefunds) BY DEF Refunded
<1>4. LinesNet(s) = Total(g, NPayments) BY DEF LinesNet
<1> HIDE DEF f, g
<1> QED BY <1>1, <1>2, <1>3, <1>4, TotalNat, SettlementAssumption

-----------------------------------------------------------------------------
(* The steps of Settlements *)

\* A journal of integers keeps the ledger's types.
LEMMA PostTypes ==
  ASSUME LedgerTypeOK, NEW source \in SourceTypes \X Nat,
         NEW pending \in Int, NEW payable \in Int, NEW revenue \in Int, NEW cash \in Int,
         postBalancedJournalIdempotent(source, Lines(pending, payable, revenue, cash))
  PROVE  LedgerTypeOK'
<1> DEFINE lines == Lines(pending, payable, revenue, cash)
<1>1. \A a \in Accounts : lines[a] \in Int BY DEF Lines, Accounts
<1> HIDE DEF lines
<1>2. CASE source \in journals
  BY <1>2 DEF postBalancedJournalIdempotent, ledgerVars, LedgerTypeOK
<1>3. CASE source \notin journals
  <2>1. /\ journals' = journals \union {source}
        /\ balance' = [a \in Accounts |-> balance[a] + lines[a]]
    BY <1>3 DEF postBalancedJournalIdempotent, lines
  <2> QED BY <1>1, <2>1 DEF LedgerTypeOK
<1> QED BY <1>2, <1>3

\* Every operation of Settlements keeps the types, leaves the row of a finalised
\* or paid settlement as it is, and pays none.
SettlementsKept ==
  /\ SettlementTypeOK'
  /\ LedgerTypeOK'
  /\ \A s \in Settlements :
       /\ settlement[s].status \in {"FINALIZED", "PAID"} => settlement'[s] = settlement[s]
       /\ settlement'[s].status = "PAID" => settlement[s].status = "PAID"

\* A capture posts its journal and changes no settlement.
LEMMA CaptureKeeps ==
  ASSUME TypeOK, NEW i \in Payments, Capture(i)
  PROVE  SettlementsKept
<1> DEFINE fee == computePlatformFeeMinor(Amount[i], schedule)
<1>1. Amount[i] \in Nat /\ schedule \in Schedule
  BY SettlementAssumption DEF TypeOK, SettlementTypeOK
<1>2. fee \in Nat BY <1>1, FeeNat
<1>3. /\ payment' = [payment EXCEPT ![i] = [captured |-> TRUE, platformFees |-> fee]]
      /\ postPaymentSucceeded(i, Amount[i], fee)
      /\ UNCHANGED <<refund, schedule, settlement, line>>
  BY DEF Capture
<1> HIDE DEF fee
<1>4. SettlementTypeOK' BY <1>2, <1>3 DEF TypeOK, SettlementTypeOK
<1>5. LedgerTypeOK'
  <2>1. <<"payment_intent", i>> \in SourceTypes \X Nat
    BY SettlementAssumption DEF SourceTypes, Payments
  <2>2. -(Amount[i] - fee) \in Int /\ -fee \in Int /\ Amount[i] \in Int BY <1>1, <1>2
  <2> QED BY <1>3, <2>1, <2>2, PostTypes DEF postPaymentSucceeded, TypeOK
<1> QED BY <1>3, <1>4, <1>5 DEF SettlementsKept

\* A refund posts its journal and changes no settlement.
LEMMA CreateRefundKeeps ==
  ASSUME TypeOK, NEW r \in Refunds, NEW i \in Payments, NEW a \in RefundAmounts,
         CreateRefund(r, i, a)
  PROVE  SettlementsKept
<1>1. a \in Nat BY SettlementAssumption
<1>2. /\ refund' = [refund EXCEPT ![r] = [payment |-> i, amount |-> a]]
      /\ postRefund(r, a)
      /\ UNCHANGED <<payment, schedule, settlement, line>>
  BY DEF CreateRefund
<1>3. i \in 0..NPayments BY SettlementAssumption DEF Payments
<1>4. SettlementTypeOK' BY <1>1, <1>2, <1>3 DEF TypeOK, SettlementTypeOK
<1>5. LedgerTypeOK'
  <2>1. <<"refund", r>> \in SourceTypes \X Nat
    BY SettlementAssumption DEF SourceTypes, Refunds
  <2> QED BY <1>1, <1>2, <2>1, PostTypes DEF postRefund, TypeOK
<1> QED BY <1>2, <1>4, <1>5 DEF SettlementsKept

\* A fee schedule changes nothing else.
LEMMA UpsertScheduleKeeps ==
  ASSUME TypeOK, NEW new \in Schedules \union {NoSchedule}, UpsertSchedule(new)
  PROVE  SettlementsKept
<1>1. new \in Schedule BY SettlementAssumption DEF NoSchedule, Schedule
<1>2. schedule' = new /\ UNCHANGED <<payment, refund, settlement, line, ledgerVars>>
  BY DEF UpsertSchedule
<1>3. SettlementTypeOK' BY <1>1, <1>2 DEF TypeOK, SettlementTypeOK
<1>4. LedgerTypeOK' BY <1>2 DEF TypeOK, LedgerTypeOK, ledgerVars
<1> QED BY <1>2, <1>3, <1>4 DEF SettlementsKept

\* A draft writes the row of a settlement that was absent.
LEMMA CreateDraftKeeps ==
  ASSUME TypeOK, NEW s \in Settlements, NEW first \in Payments, NEW last \in Payments,
         NEW f \in ProviderFees, NEW a \in Adjustments,
         CreateDraft(s, first, last, f, a)
  PROVE  SettlementsKept
<1> DEFINE included == DraftLines(first, last)
           gross    == Total([i \in Payments |->
                                IF i \in included THEN Eligible(i) ELSE 0], NPayments)
           accrued  == Total([i \in Payments |->
                                IF i \in included THEN payment[i].platformFees ELSE 0],
                             NPayments)
           platform == IF gross = 0 THEN 0
                       ELSE IF accrued > 0 THEN accrued
                       ELSE computePlatformFeeMinor(gross, schedule)
           provider == IF gross = 0 THEN 0 ELSE f
           adjusted == IF gross = 0 THEN 0 ELSE a
           net      == settlementNet(gross, provider, platform, adjusted)
           row      == [status |-> "DRAFT", gross |-> gross,
                        platformFees |-> platform, providerFees |-> provider,
                        adjustments |-> adjusted, net |-> net]
<1>1. /\ settlement[s].status = "ABSENT"
      /\ netAllowed(net)
      /\ settlement' = [settlement EXCEPT ![s] = row]
      /\ line' = [i \in Payments |->
                    IF i \in included
                    THEN [settlement |-> s, net |-> Eligible(i)]
                    ELSE line[i]]
      /\ UNCHANGED <<payment, refund, schedule, ledgerVars>>
  BY DEF CreateDraft, NextSettlement
<1>2. ASSUME NEW i \in Payments PROVE Eligible(i) \in Int
  <2>1. Refunded(i) \in Nat BY SettlementSums DEF TypeOK
  <2>2. Amount[i] \in Nat BY SettlementAssumption
  <2> QED BY <2>1, <2>2 DEF Eligible, computeEligibleMinor
<1>3. ASSUME NEW i \in Payments, i \in included PROVE Eligible(i) \in Nat
  <2>1. Eligible(i) > 0 BY <1>3 DEF DraftLines
  <2> QED BY <1>2, <2>1
<1>4. \A i \in Payments : payment[i].platformFees \in Nat
  BY DEF TypeOK, SettlementTypeOK
<1> HIDE DEF included
<1>5. gross \in Nat
  <2> DEFINE g == [i \in Payments |-> IF i \in included THEN Eligible(i) ELSE 0]
  <2>1. g \in [1..NPayments -> Nat] BY <1>3 DEF Payments
  <2> HIDE DEF g
  <2>2. Total(g, NPayments) \in Nat BY <2>1, TotalNat, SettlementAssumption
  <2> QED BY <2>2 DEF g
<1>6. accrued \in Nat
  <2> DEFINE g == [i \in Payments |->
                    IF i \in included THEN payment[i].platformFees ELSE 0]
  <2>1. g \in [1..NPayments -> Nat] BY <1>4 DEF Payments
  <2> HIDE DEF g
  <2>2. Total(g, NPayments) \in Nat BY <2>1, TotalNat, SettlementAssumption
  <2> QED BY <2>2 DEF g
<1> HIDE DEF gross, accrued
<1>7. platform \in Nat
  <2>1. schedule \in Schedule BY DEF TypeOK, SettlementTypeOK
  <2>2. computePlatformFeeMinor(gross, schedule) \in Nat BY <1>5, <2>1, FeeNat
  <2> QED BY <1>6, <2>2
<1>8. provider \in Nat /\ adjusted \in Int BY SettlementAssumption
<1> HIDE DEF platform, provider, adjusted
<1>9. net \in Int BY <1>5, <1>7, <1>8 DEF settlementNet
<1> HIDE DEF net
<1>10. net \in Nat BY <1>1, <1>9 DEF netAllowed
<1>11. row \in SettlementRow
  BY <1>5, <1>7, <1>8, <1>10 DEF SettlementRow, SettlementStatus
<1>12. row.status = "DRAFT" OBVIOUS
<1> HIDE DEF row
<1>13. settlement \in [Settlements -> SettlementRow]
  BY DEF TypeOK, SettlementTypeOK
<1>14. line' \in [Payments -> [settlement : 0..NSettlements, net : Nat]]
  <2>1. s \in 0..NSettlements BY SettlementAssumption DEF Settlements
  <2>2. line \in [Payments -> [settlement : 0..NSettlements, net : Nat]]
    BY DEF TypeOK, SettlementTypeOK
  <2> QED BY <1>1, <1>3, <2>1, <2>2
<1>15. SettlementTypeOK'
  BY <1>1, <1>11, <1>13, <1>14 DEF TypeOK, SettlementTypeOK
<1>16. LedgerTypeOK' BY <1>1 DEF TypeOK, LedgerTypeOK, ledgerVars
<1>17. ASSUME NEW t \in Settlements
       PROVE  /\ settlement[t].status \in {"FINALIZED", "PAID"}
                    => settlement'[t] = settlement[t]
              /\ settlement'[t].status = "PAID" => settlement[t].status = "PAID"
  BY <1>1, <1>12, <1>13
<1> QED BY <1>15, <1>16, <1>17 DEF SettlementsKept

\* Finalize writes the row of a draft.
LEMMA FinalizeKeeps ==
  ASSUME TypeOK, NEW s \in Settlements, Finalize(s)
  PROVE  SettlementsKept
<1> DEFINE gross    == LinesNet(s)
           platform == IF gross = 0 THEN 0 ELSE computePlatformFeeMinor(gross, schedule)
           provider == IF gross = 0 THEN 0 ELSE settlement[s].providerFees
           adjusted == IF gross = 0 THEN 0 ELSE settlement[s].adjustments
           net      == settlementNet(gross, provider, platform, adjusted)
           row      == [status |-> "FINALIZED", gross |-> gross,
                        platformFees |-> platform, providerFees |-> provider,
                        adjustments |-> adjusted, net |-> net]
<1>1. /\ settlement[s].status = "DRAFT"
      /\ netAllowed(net)
      /\ settlement' = [settlement EXCEPT ![s] = row]
      /\ postSettlementFinalizeFees(s, platform, provider)
      /\ UNCHANGED <<payment, refund, schedule, line>>
  BY DEF Finalize
<1>2. gross \in Nat BY SettlementSums DEF TypeOK
<1> HIDE DEF gross
<1>3. settlement \in [Settlements -> SettlementRow] /\ schedule \in Schedule
  BY DEF TypeOK, SettlementTypeOK
<1>4. settlement[s].providerFees \in Nat /\ settlement[s].adjustments \in Int
  BY <1>3 DEF SettlementRow
<1>5. computePlatformFeeMinor(gross, schedule) \in Nat BY <1>2, <1>3, FeeNat
<1>6. platform \in Nat /\ provider \in Nat /\ adjusted \in Int BY <1>4, <1>5
<1> HIDE DEF platform, provider, adjusted
<1>7. net \in Int BY <1>2, <1>6 DEF settlementNet
<1> HIDE DEF net
<1>8. net \in Nat BY <1>1, <1>7 DEF netAllowed
<1>9. row \in SettlementRow
  BY <1>2, <1>6, <1>8 DEF SettlementRow, SettlementStatus
<1>10. row.status = "FINALIZED" OBVIOUS
<1> HIDE DEF row
<1>11. SettlementTypeOK'
  BY <1>1, <1>3, <1>9 DEF TypeOK, SettlementTypeOK
<1>12. LedgerTypeOK'
  <2>1. CASE platform + provider = 0
    BY <1>1, <2>1 DEF postSettlementFinalizeFees, ledgerVars, TypeOK, LedgerTypeOK
  <2>2. CASE platform + provider # 0
    <3>1. <<"settlement_finalize", s>> \in SourceTypes \X Nat
      BY SettlementAssumption DEF SourceTypes, Settlements
    <3>2. platform + provider \in Int /\ -platform \in Int /\ -provider \in Int
      BY <1>6
    <3>3. postBalancedJournalIdempotent(<<"settlement_finalize", s>>,
            Lines(0, platform + provider, -platform, -provider))
      BY <1>1, <2>2 DEF postSettlementFinalizeFees
    <3> QED BY <3>1, <3>2, <3>3, PostTypes DEF TypeOK
  <2> QED BY <2>1, <2>2
<1>13. ASSUME NEW t \in Settlements
       PROVE  /\ settlement[t].status \in {"FINALIZED", "PAID"}
                    => settlement'[t] = settlement[t]
              /\ settlement'[t].status = "PAID" => settlement[t].status = "PAID"
  BY <1>1, <1>3, <1>10
<1> QED BY <1>11, <1>12, <1>13 DEF SettlementsKept

\* Cancelling writes the row of a draft.
LEMMA CancelSettlementKeeps ==
  ASSUME TypeOK, NEW s \in Settlements, CancelSettlement(s)
  PROVE  SettlementsKept
<1>1. /\ settlement[s].status = "DRAFT"
      /\ settlement' = [settlement EXCEPT ![s].status = "CANCELLED"]
      /\ line' = [i \in Payments |-> IF line[i].settlement = s
                                     THEN [settlement |-> 0, net |-> 0] ELSE line[i]]
      /\ UNCHANGED <<payment, refund, schedule, ledgerVars>>
  BY DEF CancelSettlement
<1>2. /\ settlement \in [Settlements -> SettlementRow]
      /\ line \in [Payments -> [settlement : 0..NSettlements, net : Nat]]
  BY DEF TypeOK, SettlementTypeOK
<1>3. settlement' \in [Settlements -> SettlementRow]
  <2>1. [settlement[s] EXCEPT !.status = "CANCELLED"] \in SettlementRow
    BY <1>2 DEF SettlementRow, SettlementStatus
  <2> QED BY <1>1, <1>2, <2>1
<1>4. line' \in [Payments -> [settlement : 0..NSettlements, net : Nat]]
  BY <1>1, <1>2, SettlementAssumption
<1>5. SettlementTypeOK' BY <1>1, <1>3, <1>4 DEF TypeOK, SettlementTypeOK
<1>6. LedgerTypeOK' BY <1>1 DEF TypeOK, LedgerTypeOK, ledgerVars
<1>7. ASSUME NEW t \in Settlements
      PROVE  /\ settlement[t].status \in {"FINALIZED", "PAID"}
                   => settlement'[t] = settlement[t]
             /\ settlement'[t].status = "PAID" => settlement[t].status = "PAID"
  <2>1. CASE t = s
    <3>1. settlement'[t].status = "CANCELLED" BY <1>1, <1>2, <2>1 DEF SettlementRow
    <3> QED BY <1>1, <2>1, <3>1
  <2>2. CASE t # s BY <1>1, <1>2, <2>2
  <2> QED BY <2>1, <2>2
<1> QED BY <1>5, <1>6, <1>7 DEF SettlementsKept

\* So every step of Settlements does.
LEMMA SettlementNextKeeps ==
  ASSUME TypeOK, SettlementNext
  PROVE  SettlementsKept
BY CaptureKeeps, CreateRefundKeeps, UpsertScheduleKeeps, CreateDraftKeeps,
   FinalizeKeeps, CancelSettlementKeeps DEF SettlementNext

-----------------------------------------------------------------------------
(* The inductive invariant *)

\* A payout that was inserted names its settlement and takes something from it.
PayoutRowWhole ==
  \A p \in PayoutIds : payout[p].status # "ABSENT" =>
    payout[p].settlement \in Settlements /\ payout[p].amount > 0

\* An open create holds a settlement that is still FINALIZED, and what it read
\* as unpaid is still unpaid.
OpenCreateHolds ==
  \A p \in PayoutIds : tx[p].op = "create" =>
    LET s == tx[p].settlement
    IN  /\ s \in Settlements
        /\ payout[p].status = "ABSENT"
        /\ settlement[s].status = "FINALIZED"
        /\ tx[p].remaining > 0
        /\ tx[p].remaining + sumCommittedPayoutMinor(s) <= settlement[s].net

\* The row lock: one create at a time on a settlement.
OneCreatePerSettlement ==
  \A p, q \in PayoutIds :
    /\ tx[p].op = "create" /\ tx[q].op = "create"
    /\ tx[p].settlement = tx[q].settlement
    => p = q

\* An open markPaid holds a submitted payout; what it found paid is still paid.
OpenMarkPaidHolds ==
  \A p \in PayoutIds : tx[p].op = "markPaid" =>
    LET s == tx[p].settlement
    IN  /\ payout[p].status = "SUBMITTED"
        /\ payout[p].settlement = s
        /\ tx[p].full =>
             /\ settlement[s].status \in {"FINALIZED", "PAID"}
             /\ PayoutSum(s, {"PAID"}) + payout[p].amount >= settlement[s].net

\* PayoutsWithinNet is kept by create because of OpenCreateHolds, which needs
\* the lock; PaidSettlementWasPaidOut by markPaid because of OpenMarkPaidHolds.
IInv ==
  /\ TypeOK
  /\ PayoutRowWhole
  /\ OpenCreateHolds
  /\ OneCreatePerSettlement
  /\ OpenMarkPaidHolds
  /\ PayoutsWithinNet
  /\ PaidSettlementWasPaidOut
  /\ PaidPayoutApproved

\* The invariant holds when nothing has been captured yet.
LEMMA InitIInv == Init => IInv
<1> SUFFICES ASSUME Init PROVE IInv OBVIOUS
<1>1. /\ payout = [p \in PayoutIds |-> [status |-> "ABSENT", settlement |-> 0,
                                          amount |-> 0, approved |-> FALSE]]
      /\ tx = [p \in PayoutIds |-> Idle]
      /\ settlement = [s \in Settlements |->
                     [status |-> "ABSENT", gross |-> 0, platformFees |-> 0,
                      providerFees |-> 0, adjustments |-> 0, net |-> 0]]
  BY DEF Init, SettlementInit
<1>2. TypeOK
  <2>1. LedgerTypeOK BY DEF Init, LedgerInit, LedgerTypeOK
  <2>2. SettlementTypeOK
    <3>1. settlement \in [Settlements -> SettlementRow]
      BY <1>1 DEF SettlementRow, SettlementStatus
    <3>2. schedule \in Schedule BY DEF Init, SettlementInit, NoSchedule, Schedule
    <3>3. 0 \in 0..NPayments /\ 0 \in 0..NSettlements BY SettlementAssumption
    <3> QED BY <3>1, <3>2, <3>3 DEF Init, SettlementInit, SettlementTypeOK
  <2>3. payout \in [PayoutIds -> PayoutRow]
    BY <1>1, SettlementAssumption DEF PayoutRow, PayoutStatus
  <2>4. tx \in [PayoutIds -> Transaction]
    BY <1>1, SettlementAssumption DEF Transaction, Idle
  <2> QED BY <2>1, <2>2, <2>3, <2>4 DEF TypeOK
<1>3. ASSUME NEW s \in Settlements PROVE sumCommittedPayoutMinor(s) = 0
  <2> DEFINE f == [p \in PayoutIds |-> Counted(payout[p], s, Committed)]
  <2>1. f \in [1..NPayouts -> Int] /\ \A p \in 1..NPayouts : f[p] = 0
    BY <1>1 DEF PayoutIds, Counted, Committed
  <2>2. sumCommittedPayoutMinor(s) = Total(f, NPayouts)
    BY DEF sumCommittedPayoutMinor, PayoutSum
  <2> HIDE DEF f
  <2> QED BY <2>1, <2>2, TotalZero, PayoutAssumption
<1>4. \A p \in PayoutIds : payout[p].status = "ABSENT" /\ tx[p].op = "none"
  BY <1>1 DEF Idle
<1>5. \A s \in Settlements : settlement[s].status = "ABSENT" BY <1>1
<1>6. PayoutsWithinNet BY <1>3, <1>5 DEF PayoutsWithinNet
<1>7. PaidSettlementWasPaidOut BY <1>5 DEF PaidSettlementWasPaidOut
<1>8. /\ PayoutRowWhole /\ OpenCreateHolds /\ OneCreatePerSettlement
      /\ OpenMarkPaidHolds /\ PaidPayoutApproved
  BY <1>4 DEF PayoutRowWhole, OpenCreateHolds, OneCreatePerSettlement,
              OpenMarkPaidHolds, PaidPayoutApproved
<1> QED BY <1>2, <1>6, <1>7, <1>8 DEF IInv

\* The sums read the payouts only.
LEMMA SumsUnchanged ==
  ASSUME payout' = payout, NEW s, NEW St
  PROVE  /\ PayoutSum(s, St)' = PayoutSum(s, St)
         /\ sumCommittedPayoutMinor(s)' = sumCommittedPayoutMinor(s)
BY DEF sumCommittedPayoutMinor, PayoutSum

\* Captures, refunds, fee schedules and settlements keep the invariant: the
\* rows payouts read are frozen.
LEMMA SettlementStepKeepsIInv ==
  ASSUME IInv, SettlementsKept, UNCHANGED payoutVars
  PROVE  IInv'
<1>1. payout' = payout /\ tx' = tx BY DEF payoutVars
<1>2. TypeOK' BY <1>1 DEF IInv, TypeOK, SettlementsKept
<1>3. \A s \in Settlements :
        /\ settlement[s].status \in {"FINALIZED", "PAID"} => settlement'[s] = settlement[s]
        /\ settlement'[s].status = "PAID" => settlement[s].status = "PAID"
  BY DEF SettlementsKept
<1>4. \A s : /\ PayoutSum(s, {"PAID"})' = PayoutSum(s, {"PAID"})
             /\ sumCommittedPayoutMinor(s)' = sumCommittedPayoutMinor(s)
  BY <1>1, SumsUnchanged
<1>5. PayoutRowWhole' /\ OneCreatePerSettlement' /\ PaidPayoutApproved'
  BY <1>1 DEF IInv, PayoutRowWhole, OneCreatePerSettlement, PaidPayoutApproved
<1>6. OpenCreateHolds'
  BY <1>1, <1>3, <1>4 DEF IInv, OpenCreateHolds
<1>7. OpenMarkPaidHolds'
  <2> SUFFICES ASSUME NEW p \in PayoutIds, tx[p].op = "markPaid", tx[p].full
               PROVE  LET s == tx[p].settlement
                      IN  /\ settlement'[s].status \in {"FINALIZED", "PAID"}
                          /\ PayoutSum(s, {"PAID"})' + payout[p].amount
                               >= settlement'[s].net
    BY <1>1 DEF IInv, OpenMarkPaidHolds
  <2> DEFINE s == tx[p].settlement
  <2>1. /\ s \in Settlements
        /\ settlement[s].status \in {"FINALIZED", "PAID"}
        /\ PayoutSum(s, {"PAID"}) + payout[p].amount >= settlement[s].net
    BY DEF IInv, OpenMarkPaidHolds, PayoutRowWhole
  <2>2. settlement'[s] = settlement[s] BY <1>3, <2>1
  <2>3. PayoutSum(s, {"PAID"})' = PayoutSum(s, {"PAID"}) BY <1>1, SumsUnchanged
  <2> QED BY <2>1, <2>2, <2>3
<1>8. PayoutsWithinNet'
  <2> SUFFICES ASSUME NEW s \in Settlements
               PROVE  sumCommittedPayoutMinor(s)' <=
                        IF settlement'[s].status \in {"FINALIZED", "PAID"}
                        THEN settlement'[s].net ELSE 0
    BY DEF PayoutsWithinNet
  <2>1. settlement'[s].net \in Nat
    BY <1>2 DEF TypeOK, SettlementTypeOK, SettlementRow
  <2>2. sumCommittedPayoutMinor(s) \in Nat
    BY PayoutSumNat DEF IInv, sumCommittedPayoutMinor
  <2>3. sumCommittedPayoutMinor(s) <=
          IF settlement[s].status \in {"FINALIZED", "PAID"} THEN settlement[s].net ELSE 0
    BY DEF IInv, PayoutsWithinNet
  <2> QED BY <1>3, <1>4, <2>1, <2>2, <2>3
<1>9. PaidSettlementWasPaidOut'
  BY <1>3, <1>4 DEF IInv, PaidSettlementWasPaidOut
<1> QED BY <1>2, <1>5, <1>6, <1>7, <1>8, <1>9 DEF IInv

-----------------------------------------------------------------------------
(* The steps of a payout *)

\* Nothing outside the payouts changes.
OthersUnchanged == UNCHANGED <<settlementVars, ledgerVars>>

\* The invariant's types, when a payout's row and its transaction change.
LEMMA PayoutStepTypes ==
  ASSUME TypeOK, NEW p \in PayoutIds, NEW row \in PayoutRow, NEW t \in Transaction,
         payout' = [payout EXCEPT ![p] = row], tx' = [tx EXCEPT ![p] = t],
         SettlementTypeOK', LedgerTypeOK'
  PROVE  TypeOK'
BY DEF TypeOK

\* Settlements and the ledger keep their types when they do not change.
LEMMA OthersTypes ==
  ASSUME TypeOK, OthersUnchanged
  PROVE  SettlementTypeOK' /\ LedgerTypeOK'
BY DEF TypeOK, OthersUnchanged, SettlementTypeOK, LedgerTypeOK, settlementVars, ledgerVars

\* Submitting, approving, failing or cancelling a payout takes nothing more from
\* its settlement, and nothing at all from one that is PAID.
LEMMA UpdateKeepsIInv ==
  ASSUME IInv, NEW p \in PayoutIds, NEW from, NEW row \in PayoutRow,
         Update(p, from, row), from \subseteq {"PENDING", "SUBMITTED"},
         row.settlement = payout[p].settlement, row.amount = payout[p].amount,
         row.status \in {"PENDING", "SUBMITTED", "FAILED", "CANCELLED"}
  PROVE  IInv'
<1>1. /\ tx[p].op = "none"
      /\ payout[p].status \in {"PENDING", "SUBMITTED"}
      /\ payout' = [payout EXCEPT ![p] = row]
      /\ tx' = tx
      /\ OthersUnchanged
  BY DEF Update, OthersUnchanged
<1>2. /\ payout \in [PayoutIds -> PayoutRow] /\ tx \in [PayoutIds -> Transaction]
      /\ settlement \in [Settlements -> SettlementRow]
      /\ settlement' = settlement
  BY <1>1 DEF IInv, TypeOK, SettlementTypeOK, OthersUnchanged, settlementVars
<1>3. TypeOK'
  <2>1. tx' = [tx EXCEPT ![p] = tx[p]] /\ tx[p] \in Transaction BY <1>1, <1>2
  <2> QED BY <1>1, <2>1, OthersTypes, PayoutStepTypes DEF IInv
<1>4. payout'[p] = row /\ \A q \in PayoutIds : q # p => payout'[q] = payout[q]
  BY <1>1, <1>2
<1>5. ASSUME NEW s
      PROVE  /\ PayoutSum(s, {"PAID"})' = PayoutSum(s, {"PAID"})
             /\ PayoutSum(s, {"PAID"}) \in Nat
             /\ sumCommittedPayoutMinor(s) \in Nat
             /\ sumCommittedPayoutMinor(s)' <= sumCommittedPayoutMinor(s)
             /\ sumCommittedPayoutMinor(s) = PayoutSum(s, {"PAID"})
                  => sumCommittedPayoutMinor(s)' = sumCommittedPayoutMinor(s)
  <2> DEFINE old == Counted(payout[p], s, Committed)
             new == Counted(row, s, Committed)
  <2>1. /\ Counted(payout[p], s, {"PAID"}) = 0 /\ Counted(row, s, {"PAID"}) = 0
    BY <1>1 DEF Counted
  <2>2. old \in Nat /\ new \in Nat BY <1>2, CountedNat
  <2>3. new <= old BY <1>1, <1>2 DEF Counted, Committed, PayoutRow
  <2> HIDE DEF old, new
  <2>4. /\ PayoutSum(s, {"PAID"}) \in Nat /\ sumCommittedPayoutMinor(s) \in Nat
    BY PayoutSumNat DEF IInv, sumCommittedPayoutMinor
  <2>5. PayoutSum(s, {"PAID"})' =
          PayoutSum(s, {"PAID"})
            + (Counted(row, s, {"PAID"}) - Counted(payout[p], s, {"PAID"}))
    BY <1>1, PayoutSumUpdate DEF IInv
  <2>6. sumCommittedPayoutMinor(s)' = sumCommittedPayoutMinor(s) + (new - old)
    BY <1>1, PayoutSumUpdate DEF IInv, sumCommittedPayoutMinor, old, new
  <2>7. PayoutSum(s, {"PAID"}) + old <= sumCommittedPayoutMinor(s)
    BY <1>1, CommittedCoversPaid DEF IInv, old
  <2> QED BY <2>1, <2>2, <2>3, <2>4, <2>5, <2>6, <2>7
<1>6. PayoutRowWhole'
  BY <1>1, <1>4 DEF IInv, PayoutRowWhole
<1>7. OneCreatePerSettlement' BY <1>1 DEF IInv, OneCreatePerSettlement
<1>8. PaidPayoutApproved' BY <1>1, <1>4 DEF IInv, PaidPayoutApproved
<1>9. OpenCreateHolds'
  <2> SUFFICES ASSUME NEW q \in PayoutIds, tx[q].op = "create",
                      NEW s, s = tx[q].settlement
               PROVE  /\ payout'[q] = payout[q]
                      /\ tx[q].remaining + sumCommittedPayoutMinor(s)'
                           <= settlement[s].net
    BY <1>1, <1>2 DEF IInv, OpenCreateHolds
  <2>1. /\ s \in Settlements
        /\ tx[q].remaining + sumCommittedPayoutMinor(s) <= settlement[s].net
    BY DEF IInv, OpenCreateHolds
  <2>2. settlement[s].net \in Nat BY <1>2, <2>1 DEF SettlementRow
  <2>3. tx[q].remaining \in Int BY <1>2 DEF Transaction
  <2>4. /\ sumCommittedPayoutMinor(s) \in Nat
        /\ sumCommittedPayoutMinor(s)' <= sumCommittedPayoutMinor(s)
    BY <1>5
  <2>5. sumCommittedPayoutMinor(s)' \in Nat
    BY <1>3, PayoutSumNatNext
  <2>6. q # p BY <1>1
  <2>7. tx[q].remaining + sumCommittedPayoutMinor(s)' <= settlement[s].net
    BY <2>1, <2>2, <2>3, <2>4, <2>5
  <2> QED BY <1>4, <2>6, <2>7
<1>10. OpenMarkPaidHolds'
  <2> SUFFICES ASSUME NEW q \in PayoutIds, tx[q].op = "markPaid",
                      NEW s, s = tx[q].settlement
               PROVE  /\ payout'[q] = payout[q]
                      /\ PayoutSum(s, {"PAID"})' = PayoutSum(s, {"PAID"})
    BY <1>1, <1>2 DEF IInv, OpenMarkPaidHolds
  <2>1. q # p BY <1>1
  <2> QED BY <1>4, <1>5, <2>1
<1>11. PayoutsWithinNet'
  <2> SUFFICES ASSUME NEW s \in Settlements
               PROVE  sumCommittedPayoutMinor(s)' <=
                        IF settlement[s].status \in {"FINALIZED", "PAID"}
                        THEN settlement[s].net ELSE 0
    BY <1>2 DEF PayoutsWithinNet
  <2>1. sumCommittedPayoutMinor(s) <=
          IF settlement[s].status \in {"FINALIZED", "PAID"} THEN settlement[s].net ELSE 0
    BY DEF IInv, PayoutsWithinNet
  <2>2. settlement[s].net \in Nat BY <1>2 DEF SettlementRow
  <2>3. sumCommittedPayoutMinor(s)' \in Nat
    BY <1>3, PayoutSumNatNext
  <2>4. /\ sumCommittedPayoutMinor(s) \in Nat
        /\ sumCommittedPayoutMinor(s)' <= sumCommittedPayoutMinor(s)
    BY <1>5
  <2> QED BY <2>1, <2>2, <2>3, <2>4
<1>12. PaidSettlementWasPaidOut'
  <2> SUFFICES ASSUME NEW s \in Settlements, settlement[s].status = "PAID"
               PROVE  /\ PayoutSum(s, {"PAID"})' = settlement[s].net
                      /\ sumCommittedPayoutMinor(s)' = settlement[s].net
    BY <1>2 DEF PaidSettlementWasPaidOut
  <2>1. /\ PayoutSum(s, {"PAID"}) = settlement[s].net
        /\ sumCommittedPayoutMinor(s) = settlement[s].net
    BY DEF IInv, PaidSettlementWasPaidOut
  <2> QED BY <1>5, <2>1
<1> QED BY <1>3, <1>6, <1>7, <1>8, <1>9, <1>10, <1>11, <1>12 DEF IInv

\* A step that only opens or ends a transaction keeps the invariant when what the
\* transaction read is what the invariant asks of it.
LEMMA TxKeepsIInv ==
  ASSUME IInv, NEW p \in PayoutIds, NEW t \in Transaction,
         tx' = [tx EXCEPT ![p] = t], payout' = payout, OthersUnchanged,
         t.op = "create" =>
           /\ t.settlement \in Settlements
           /\ RowFree(t.settlement)
           /\ payout[p].status = "ABSENT"
           /\ settlement[t.settlement].status = "FINALIZED"
           /\ t.remaining > 0
           /\ t.remaining + sumCommittedPayoutMinor(t.settlement)
                <= settlement[t.settlement].net,
         t.op = "markPaid" =>
           /\ payout[p].status = "SUBMITTED"
           /\ payout[p].settlement = t.settlement
           /\ payoutMarkPaidAllowed(p)
           /\ t.full =>
                /\ settlement[t.settlement].status \in {"FINALIZED", "PAID"}
                /\ PayoutSum(t.settlement, {"PAID"}) + payout[p].amount
                     >= settlement[t.settlement].net
  PROVE  IInv'
<1>1. /\ tx \in [PayoutIds -> Transaction] /\ settlement' = settlement
      /\ payout \in [PayoutIds -> PayoutRow]
  BY DEF IInv, TypeOK, OthersUnchanged, settlementVars
<1>2. tx'[p] = t /\ \A q \in PayoutIds : q # p => tx'[q] = tx[q] BY <1>1
<1>3. TypeOK'
  <2>1. payout' = [payout EXCEPT ![p] = payout[p]] /\ payout[p] \in PayoutRow BY <1>1
  <2> QED BY <2>1, OthersTypes, PayoutStepTypes DEF IInv
<1>4. ASSUME NEW s
      PROVE  /\ PayoutSum(s, {"PAID"})' = PayoutSum(s, {"PAID"})
             /\ sumCommittedPayoutMinor(s)' = sumCommittedPayoutMinor(s)
  BY SumsUnchanged
<1>5. PayoutRowWhole' BY DEF IInv, PayoutRowWhole
<1>6. PaidPayoutApproved'
  BY <1>2 DEF IInv, PaidPayoutApproved, payoutMarkPaidAllowed
<1>7. PayoutsWithinNet' BY <1>1, <1>4 DEF IInv, PayoutsWithinNet
<1>8. PaidSettlementWasPaidOut' BY <1>1, <1>4 DEF IInv, PaidSettlementWasPaidOut
<1>9. OneCreatePerSettlement'
  BY <1>2 DEF IInv, OneCreatePerSettlement, RowFree
<1>10. OpenCreateHolds'
  <2> SUFFICES ASSUME NEW q \in PayoutIds, tx'[q].op = "create",
                      NEW s, s = tx'[q].settlement
               PROVE  /\ s \in Settlements
                      /\ payout[q].status = "ABSENT"
                      /\ settlement[s].status = "FINALIZED"
                      /\ tx'[q].remaining > 0
                      /\ tx'[q].remaining + sumCommittedPayoutMinor(s)'
                           <= settlement[s].net
    BY <1>1 DEF OpenCreateHolds
  <2>1. sumCommittedPayoutMinor(s)' = sumCommittedPayoutMinor(s) BY <1>4
  <2>2. CASE q = p BY <1>2, <2>1, <2>2
  <2>3. CASE q # p BY <1>2, <2>1, <2>3 DEF IInv, OpenCreateHolds
  <2> QED BY <2>2, <2>3
<1>11. OpenMarkPaidHolds'
  <2> SUFFICES ASSUME NEW q \in PayoutIds, tx'[q].op = "markPaid",
                      NEW s, s = tx'[q].settlement
               PROVE  /\ payout[q].status = "SUBMITTED"
                      /\ payout[q].settlement = s
                      /\ tx'[q].full =>
                           /\ settlement[s].status \in {"FINALIZED", "PAID"}
                           /\ PayoutSum(s, {"PAID"})' + payout[q].amount
                                >= settlement[s].net
    BY <1>1 DEF OpenMarkPaidHolds
  <2>1. PayoutSum(s, {"PAID"})' = PayoutSum(s, {"PAID"}) BY <1>4
  <2>2. CASE q = p BY <1>2, <2>1, <2>2
  <2>3. CASE q # p BY <1>2, <2>1, <2>3 DEF IInv, OpenMarkPaidHolds
  <2> QED BY <2>2, <2>3
<1> QED BY <1>3, <1>5, <1>6, <1>7, <1>8, <1>9, <1>10, <1>11 DEF IInv

\* create reads the rest under the settlement's lock.
LEMMA CreatePayoutKeepsIInv ==
  ASSUME IInv, NEW p \in PayoutIds, NEW s \in Settlements, CreatePayout(p, s)
  PROVE  IInv'
<1> DEFINE remaining == settlement[s].net - sumCommittedPayoutMinor(s)
           t == [op |-> "create", settlement |-> s,
                 remaining |-> remaining, full |-> FALSE]
<1>1. /\ payout[p].status = "ABSENT" /\ RowFree(s)
      /\ settlement[s].status = "FINALIZED" /\ remaining > 0
      /\ tx' = [tx EXCEPT ![p] = t] /\ payout' = payout /\ OthersUnchanged
  BY DEF CreatePayout, NextPayout, OthersUnchanged
<1>2. settlement[s].net \in Nat
  BY DEF IInv, TypeOK, SettlementTypeOK, SettlementRow
<1>3. sumCommittedPayoutMinor(s) \in Nat
  BY PayoutSumNat DEF IInv, sumCommittedPayoutMinor
<1>4. remaining \in Int /\ remaining + sumCommittedPayoutMinor(s) <= settlement[s].net
  BY <1>2, <1>3
<1> HIDE DEF remaining
<1>5. s \in 0..NSettlements BY SettlementAssumption DEF Settlements
<1>6. t \in Transaction BY <1>4, <1>5 DEF Transaction
<1>7. t.op = "create" /\ t.settlement = s /\ t.remaining = remaining OBVIOUS
<1> HIDE DEF t
<1> QED BY <1>1, <1>4, <1>6, <1>7, TxKeepsIInv

\* markPaid reads what the settlement has been paid.
LEMMA MarkPaidKeepsIInv ==
  ASSUME IInv, NEW p \in PayoutIds, MarkPaid(p)
  PROVE  IInv'
<1> DEFINE s == payout[p].settlement
           full == /\ settlement[s].status = "FINALIZED"
                   /\ PayoutSum(s, {"PAID"}) + payout[p].amount >= settlement[s].net
           t == [op |-> "markPaid", settlement |-> s, remaining |-> 0, full |-> full]
<1>1. /\ payout[p].status = "SUBMITTED" /\ payoutMarkPaidAllowed(p)
      /\ tx' = [tx EXCEPT ![p] = t] /\ payout' = payout /\ OthersUnchanged
  BY DEF MarkPaid, OthersUnchanged
<1>2. s \in 0..NSettlements BY DEF IInv, TypeOK, PayoutRow
<1>3. full \in BOOLEAN OBVIOUS
<1>4. full => /\ settlement[s].status \in {"FINALIZED", "PAID"}
              /\ PayoutSum(s, {"PAID"}) + payout[p].amount >= settlement[s].net
  OBVIOUS
<1> HIDE DEF full
<1>5. t \in Transaction BY <1>2, <1>3 DEF Transaction
<1>6. t.op = "markPaid" /\ t.settlement = s /\ t.full = full OBVIOUS
<1> HIDE DEF t
<1> QED BY <1>1, <1>4, <1>5, <1>6, TxKeepsIInv

\* A transaction that rolls back leaves nothing open.
LEMMA RollbackKeepsIInv ==
  ASSUME IInv, NEW p \in PayoutIds, Rollback(p)
  PROVE  IInv'
<1>1. tx' = [tx EXCEPT ![p] = Idle] /\ payout' = payout /\ OthersUnchanged
  BY DEF Rollback, OthersUnchanged
<1>2. Idle \in Transaction /\ Idle.op = "none"
  BY SettlementAssumption DEF Idle, Transaction
<1> QED BY <1>1, <1>2, TxKeepsIInv

\* create inserts no more than the rest it read, which is still there.
LEMMA InsertPayoutKeepsIInv ==
  ASSUME IInv, NEW p \in PayoutIds, NEW asked \in PayoutAmounts,
         InsertPayout(p, asked), NEW s, s = tx[p].settlement
  PROVE  IInv'
<1> DEFINE amount == IF asked = 0 THEN tx[p].remaining ELSE asked
           row == [status |-> "PENDING", settlement |-> s,
                   amount |-> amount, approved |-> FALSE]
<1>1. /\ tx[p].op = "create" /\ amount <= tx[p].remaining
      /\ payout' = [payout EXCEPT ![p] = row]
      /\ tx' = [tx EXCEPT ![p] = Idle]
      /\ OthersUnchanged
  BY DEF InsertPayout, OthersUnchanged
<1>2. /\ payout \in [PayoutIds -> PayoutRow] /\ tx \in [PayoutIds -> Transaction]
      /\ settlement \in [Settlements -> SettlementRow]
      /\ settlement' = settlement
  BY <1>1 DEF IInv, TypeOK, SettlementTypeOK, OthersUnchanged, settlementVars
<1>3. /\ s \in Settlements
      /\ payout[p].status = "ABSENT"
      /\ settlement[s].status = "FINALIZED"
      /\ tx[p].remaining > 0
      /\ tx[p].remaining + sumCommittedPayoutMinor(s) <= settlement[s].net
  BY <1>1 DEF IInv, OpenCreateHolds
<1>4. amount \in Nat /\ amount > 0
  <2>1. tx[p].remaining \in Int BY <1>2 DEF Transaction
  <2>2. asked \in Nat BY PayoutAssumption
  <2> QED BY <1>3, <2>1, <2>2
<1>5. tx[p].remaining \in Int BY <1>2 DEF Transaction
<1> HIDE DEF amount
<1>6. row \in PayoutRow
  BY <1>3, <1>4, SettlementAssumption DEF PayoutRow, PayoutStatus, Settlements
<1>7. row.status = "PENDING" /\ row.settlement = s /\ row.amount = amount OBVIOUS
<1> HIDE DEF row
<1>8. Idle \in Transaction /\ Idle.op = "none"
  BY SettlementAssumption DEF Idle, Transaction
<1>9. TypeOK' BY <1>1, <1>6, <1>8, OthersTypes, PayoutStepTypes DEF IInv
<1>10. /\ payout'[p] = row /\ tx'[p] = Idle
       /\ \A q \in PayoutIds : q # p => payout'[q] = payout[q] /\ tx'[q] = tx[q]
  BY <1>1, <1>2
<1>11. ASSUME NEW u
       PROVE  /\ PayoutSum(u, {"PAID"})' = PayoutSum(u, {"PAID"})
              /\ sumCommittedPayoutMinor(u) \in Nat
              /\ sumCommittedPayoutMinor(u)' =
                   sumCommittedPayoutMinor(u) + (IF u = s THEN amount ELSE 0)
  <2>1. /\ Counted(payout[p], u, {"PAID"}) = 0 /\ Counted(row, u, {"PAID"}) = 0
        /\ Counted(payout[p], u, Committed) = 0
        /\ Counted(row, u, Committed) = IF u = s THEN amount ELSE 0
    BY <1>3, <1>7 DEF Counted, Committed
  <2>2. /\ PayoutSum(u, {"PAID"}) \in Nat /\ sumCommittedPayoutMinor(u) \in Nat
    BY PayoutSumNat DEF IInv, sumCommittedPayoutMinor
  <2>3. PayoutSum(u, {"PAID"})' =
          PayoutSum(u, {"PAID"})
            + (Counted(row, u, {"PAID"}) - Counted(payout[p], u, {"PAID"}))
    BY <1>1, <1>6, PayoutSumUpdate DEF IInv
  <2>4. sumCommittedPayoutMinor(u)' =
          sumCommittedPayoutMinor(u)
            + (Counted(row, u, Committed) - Counted(payout[p], u, Committed))
    BY <1>1, <1>6, PayoutSumUpdate DEF IInv, sumCommittedPayoutMinor
  <2> QED BY <1>4, <2>1, <2>2, <2>3, <2>4
<1>12. PayoutRowWhole'
  BY <1>3, <1>4, <1>7, <1>10 DEF IInv, PayoutRowWhole
<1>13. OneCreatePerSettlement'
  BY <1>8, <1>10 DEF IInv, OneCreatePerSettlement
<1>14. PaidPayoutApproved'
  BY <1>7, <1>8, <1>10 DEF IInv, PaidPayoutApproved
<1>15. OpenCreateHolds'
  <2> SUFFICES ASSUME NEW q \in PayoutIds, tx'[q].op = "create",
                      NEW u, u = tx'[q].settlement
               PROVE  /\ u \in Settlements
                      /\ payout'[q].status = "ABSENT"
                      /\ settlement[u].status = "FINALIZED"
                      /\ tx'[q].remaining > 0
                      /\ tx'[q].remaining + sumCommittedPayoutMinor(u)'
                           <= settlement[u].net
    BY <1>2 DEF OpenCreateHolds
  <2>1. q # p BY <1>8, <1>10
  <2>2. u # s BY <1>1, <1>10, <2>1 DEF IInv, OneCreatePerSettlement
  <2>3. sumCommittedPayoutMinor(u)' = sumCommittedPayoutMinor(u) BY <1>11, <2>2
  <2> QED BY <1>10, <2>1, <2>3 DEF IInv, OpenCreateHolds
<1>16. OpenMarkPaidHolds'
  <2> SUFFICES ASSUME NEW q \in PayoutIds, tx'[q].op = "markPaid",
                      NEW u, u = tx'[q].settlement
               PROVE  /\ payout'[q].status = "SUBMITTED"
                      /\ payout'[q].settlement = u
                      /\ tx'[q].full =>
                           /\ settlement[u].status \in {"FINALIZED", "PAID"}
                           /\ PayoutSum(u, {"PAID"})' + payout'[q].amount
                                >= settlement[u].net
    BY <1>2 DEF OpenMarkPaidHolds
  <2>1. q # p BY <1>8, <1>10
  <2>2. PayoutSum(u, {"PAID"})' = PayoutSum(u, {"PAID"}) BY <1>11
  <2> QED BY <1>10, <2>1, <2>2 DEF IInv, OpenMarkPaidHolds
<1>17. PayoutsWithinNet'
  <2> SUFFICES ASSUME NEW u \in Settlements
               PROVE  sumCommittedPayoutMinor(u)' <=
                        IF settlement[u].status \in {"FINALIZED", "PAID"}
                        THEN settlement[u].net ELSE 0
    BY <1>2 DEF PayoutsWithinNet
  <2>1. sumCommittedPayoutMinor(u) <=
          IF settlement[u].status \in {"FINALIZED", "PAID"} THEN settlement[u].net ELSE 0
    BY DEF IInv, PayoutsWithinNet
  <2>2. settlement[u].net \in Nat BY <1>2 DEF SettlementRow
  <2>3. sumCommittedPayoutMinor(u) \in Nat
        /\ sumCommittedPayoutMinor(u)' =
             sumCommittedPayoutMinor(u) + (IF u = s THEN amount ELSE 0)
    BY <1>11
  <2>4. CASE u = s BY <1>1, <1>3, <1>4, <1>5, <2>2, <2>3, <2>4
  <2>5. CASE u # s BY <2>1, <2>2, <2>3, <2>5
  <2> QED BY <2>4, <2>5
<1>18. PaidSettlementWasPaidOut'
  <2> SUFFICES ASSUME NEW u \in Settlements, settlement[u].status = "PAID"
               PROVE  /\ PayoutSum(u, {"PAID"})' = settlement[u].net
                      /\ sumCommittedPayoutMinor(u)' = settlement[u].net
    BY <1>2 DEF PaidSettlementWasPaidOut
  <2>1. u # s BY <1>3
  <2> QED BY <1>11, <2>1 DEF IInv, PaidSettlementWasPaidOut
<1> QED BY <1>9, <1>12, <1>13, <1>14, <1>15, <1>16, <1>17, <1>18 DEF IInv

\* markPaid commits: the settlement is PAID only if the payouts make up its net,
\* which they then exactly do.
LEMMA CommitPaidKeepsIInv ==
  ASSUME IInv, NEW p \in PayoutIds, CommitPaid(p), NEW s, s = tx[p].settlement
  PROVE  IInv'
<1> DEFINE row == [payout[p] EXCEPT !.status = "PAID"]
           full == tx[p].full
           amount == payout[p].amount
<1>1. /\ tx[p].op = "markPaid"
      /\ full => RowFree(s)
      /\ payout' = [payout EXCEPT ![p] = row]
      /\ postPayoutPaid(p, amount)
      /\ settlement' = IF full THEN [settlement EXCEPT ![s].status = "PAID"]
                               ELSE settlement
      /\ tx' = [tx EXCEPT ![p] = Idle]
      /\ UNCHANGED <<payment, refund, schedule, line>>
  BY DEF CommitPaid
<1>2. /\ payout \in [PayoutIds -> PayoutRow] /\ tx \in [PayoutIds -> Transaction]
      /\ settlement \in [Settlements -> SettlementRow]
  BY DEF IInv, TypeOK, SettlementTypeOK
<1>3. /\ payout[p].status = "SUBMITTED" /\ payout[p].settlement = s
      /\ full => /\ settlement[s].status \in {"FINALIZED", "PAID"}
                 /\ PayoutSum(s, {"PAID"}) + amount >= settlement[s].net
  BY <1>1 DEF IInv, OpenMarkPaidHolds
<1>4. s \in Settlements BY <1>3 DEF IInv, PayoutRowWhole
<1>5. amount \in Nat /\ payout[p].approved \in BOOLEAN BY <1>2 DEF PayoutRow
<1>6. row \in PayoutRow BY <1>2 DEF PayoutRow, PayoutStatus
<1>7. /\ row.status = "PAID" /\ row.settlement = s /\ row.amount = amount
      /\ row.approved = payout[p].approved
  BY <1>2, <1>3 DEF PayoutRow
<1>8. Idle \in Transaction /\ Idle.op = "none"
  BY SettlementAssumption DEF Idle, Transaction
<1> HIDE DEF row
<1>9. /\ payout'[p] = row /\ tx'[p] = Idle
      /\ \A q \in PayoutIds : q # p => payout'[q] = payout[q] /\ tx'[q] = tx[q]
  BY <1>1, <1>2
<1>10. ASSUME NEW u \in Settlements
       PROVE  /\ settlement'[u] \in SettlementRow
              /\ settlement'[u].net = settlement[u].net
              /\ settlement'[u].status = IF full /\ u = s THEN "PAID"
                                         ELSE settlement[u].status
  <2>1. CASE full /\ u = s
    <3>1. settlement'[u] = [settlement[u] EXCEPT !.status = "PAID"]
      BY <1>1, <1>2, <2>1
    <3> QED BY <1>2, <2>1, <3>1 DEF SettlementRow, SettlementStatus
  <2>2. CASE ~(full /\ u = s)
    <3>1. settlement'[u] = settlement[u] BY <1>1, <1>2, <2>2
    <3> QED BY <1>2, <2>2, <3>1
  <2> QED BY <2>1, <2>2
<1>11. TypeOK'
  <2>1. settlement' \in [Settlements -> SettlementRow]
    <3>1. DOMAIN settlement' = Settlements /\ settlement' = [u \in Settlements |-> settlement'[u]]
      BY <1>1, <1>2
    <3> QED BY <1>10, <3>1
  <2>2. SettlementTypeOK' BY <1>1, <2>1 DEF IInv, TypeOK, SettlementTypeOK
  <2>3. LedgerTypeOK'
    <3>1. <<"payout", p>> \in SourceTypes \X Nat
      BY PayoutAssumption DEF SourceTypes, PayoutIds
    <3>2. amount \in Int /\ -amount \in Int BY <1>5
    <3>3. postBalancedJournalIdempotent(<<"payout", p>>, Lines(0, amount, 0, -amount))
      BY <1>1 DEF postPayoutPaid
    <3> HIDE DEF amount
    <3> QED BY <3>1, <3>2, <3>3, PostTypes DEF IInv, TypeOK
  <2> QED BY <1>1, <1>6, <1>8, <2>2, <2>3, PayoutStepTypes DEF IInv
<1> HIDE DEF full, amount
<1>12. ASSUME NEW u
       PROVE  /\ PayoutSum(u, {"PAID"}) \in Nat
              /\ sumCommittedPayoutMinor(u) \in Nat
              /\ PayoutSum(u, {"PAID"})' =
                   PayoutSum(u, {"PAID"}) + (IF u = s THEN amount ELSE 0)
              /\ sumCommittedPayoutMinor(u)' = sumCommittedPayoutMinor(u)
              /\ u = s => PayoutSum(u, {"PAID"}) + amount <= sumCommittedPayoutMinor(u)
  <2>1. /\ Counted(payout[p], u, {"PAID"}) = 0
        /\ Counted(row, u, {"PAID"}) = IF u = s THEN amount ELSE 0
        /\ Counted(payout[p], u, Committed) = IF u = s THEN amount ELSE 0
        /\ Counted(row, u, Committed) = IF u = s THEN amount ELSE 0
    BY <1>3, <1>7 DEF Counted, Committed, amount
  <2>2. /\ PayoutSum(u, {"PAID"}) \in Nat /\ sumCommittedPayoutMinor(u) \in Nat
    BY PayoutSumNat DEF IInv, sumCommittedPayoutMinor
  <2>3. PayoutSum(u, {"PAID"})' =
          PayoutSum(u, {"PAID"})
            + (Counted(row, u, {"PAID"}) - Counted(payout[p], u, {"PAID"}))
    BY <1>1, <1>6, PayoutSumUpdate DEF IInv
  <2>4. sumCommittedPayoutMinor(u)' =
          sumCommittedPayoutMinor(u)
            + (Counted(row, u, Committed) - Counted(payout[p], u, Committed))
    BY <1>1, <1>6, PayoutSumUpdate DEF IInv, sumCommittedPayoutMinor
  <2>5. PayoutSum(u, {"PAID"}) + Counted(payout[p], u, Committed)
          <= sumCommittedPayoutMinor(u)
    BY <1>3, CommittedCoversPaid DEF IInv
  <2> QED BY <1>5, <2>1, <2>2, <2>3, <2>4, <2>5
<1>13. PayoutRowWhole'
  BY <1>3, <1>4, <1>7, <1>9 DEF IInv, PayoutRowWhole, amount
<1>14. OneCreatePerSettlement' BY <1>8, <1>9 DEF IInv, OneCreatePerSettlement
<1>15. PaidPayoutApproved'
  BY <1>1, <1>7, <1>8, <1>9 DEF IInv, PaidPayoutApproved
<1>16. OpenCreateHolds'
  <2> SUFFICES ASSUME NEW q \in PayoutIds, tx'[q].op = "create",
                      NEW u, u = tx'[q].settlement
               PROVE  /\ u \in Settlements
                      /\ payout'[q].status = "ABSENT"
                      /\ settlement'[u].status = "FINALIZED"
                      /\ tx'[q].remaining > 0
                      /\ tx'[q].remaining + sumCommittedPayoutMinor(u)'
                           <= settlement'[u].net
    BY DEF OpenCreateHolds
  <2>1. q # p BY <1>8, <1>9
  <2>2. tx[q].op = "create" /\ tx[q].settlement = u BY <1>9, <2>1
  <2>3. /\ u \in Settlements
        /\ payout[q].status = "ABSENT"
        /\ settlement[u].status = "FINALIZED"
        /\ tx[q].remaining > 0
        /\ tx[q].remaining + sumCommittedPayoutMinor(u) <= settlement[u].net
    BY <2>2 DEF IInv, OpenCreateHolds
  <2>4. ~(full /\ u = s) BY <1>1, <2>2 DEF RowFree
  <2>5. settlement'[u].status = "FINALIZED" /\ settlement'[u].net = settlement[u].net
    BY <1>10, <2>3, <2>4
  <2> QED BY <1>9, <1>12, <2>1, <2>3, <2>5
<1>17. OpenMarkPaidHolds'
  <2> SUFFICES ASSUME NEW q \in PayoutIds, tx'[q].op = "markPaid",
                      NEW u, u = tx'[q].settlement
               PROVE  /\ payout'[q].status = "SUBMITTED"
                      /\ payout'[q].settlement = u
                      /\ tx'[q].full =>
                           /\ settlement'[u].status \in {"FINALIZED", "PAID"}
                           /\ PayoutSum(u, {"PAID"})' + payout'[q].amount
                                >= settlement'[u].net
    BY DEF OpenMarkPaidHolds
  <2>1. q # p BY <1>8, <1>9
  <2>2. payout'[q] = payout[q] /\ tx'[q] = tx[q] BY <1>9, <2>1
  <2>3. /\ payout[q].status = "SUBMITTED" /\ payout[q].settlement = u
        /\ tx[q].full =>
             /\ settlement[u].status \in {"FINALIZED", "PAID"}
             /\ PayoutSum(u, {"PAID"}) + payout[q].amount >= settlement[u].net
    BY <2>2 DEF IInv, OpenMarkPaidHolds
  <2>4. u \in Settlements BY <2>3 DEF IInv, PayoutRowWhole
  <2>5. /\ PayoutSum(u, {"PAID"}) \in Nat
        /\ PayoutSum(u, {"PAID"})' =
             PayoutSum(u, {"PAID"}) + (IF u = s THEN amount ELSE 0)
    BY <1>12
  <2>6. payout[q].amount \in Nat /\ settlement[u].net \in Nat
    BY <1>2, <2>4 DEF PayoutRow, SettlementRow
  <2>7. /\ settlement'[u].net = settlement[u].net
        /\ settlement[u].status \in {"FINALIZED", "PAID"}
             => settlement'[u].status \in {"FINALIZED", "PAID"}
    BY <1>10, <2>4
  <2>8. PayoutSum(u, {"PAID"}) + payout[q].amount >= settlement[u].net
          => PayoutSum(u, {"PAID"})' + payout[q].amount >= settlement[u].net
    BY <1>5, <2>5, <2>6 DEF amount
  <2> QED BY <2>2, <2>3, <2>7, <2>8
<1>18. PayoutsWithinNet'
  BY <1>3, <1>10, <1>12 DEF IInv, PayoutsWithinNet
<1>19. PaidSettlementWasPaidOut'
  <2> SUFFICES ASSUME NEW u \in Settlements, settlement'[u].status = "PAID"
               PROVE  /\ PayoutSum(u, {"PAID"})' = settlement[u].net
                      /\ sumCommittedPayoutMinor(u)' = settlement[u].net
    BY <1>10 DEF PaidSettlementWasPaidOut
  <2>1. settlement[u].net \in Nat BY <1>2 DEF SettlementRow
  <2>2. amount \in Nat BY <1>5 DEF amount
  <2>3. CASE full /\ u = s
    <3>1. sumCommittedPayoutMinor(u) <= settlement[u].net
      BY <1>3, <2>3 DEF IInv, PayoutsWithinNet
    <3>2. PayoutSum(u, {"PAID"}) + amount >= settlement[u].net BY <1>3, <2>3
    <3> QED BY <1>12, <2>1, <2>2, <2>3, <3>1, <3>2
  <2>4. CASE ~(full /\ u = s)
    <3>1. settlement[u].status = "PAID" BY <1>10, <2>4
    <3>2. /\ PayoutSum(u, {"PAID"}) = settlement[u].net
          /\ sumCommittedPayoutMinor(u) = settlement[u].net
      BY <3>1 DEF IInv, PaidSettlementWasPaidOut
    <3> QED BY <1>12, <2>1, <2>2, <3>2
  <2> QED BY <2>3, <2>4
<1> QED BY <1>11, <1>13, <1>14, <1>15, <1>16, <1>17, <1>18, <1>19 DEF IInv

\* A step of a payout touches neither payments nor refunds, fee schedules, lines.
LEMMA PayoutStepLeaves ==
  ASSUME NEW p \in PayoutIds, PayoutStep(p)
  PROVE  UNCHANGED <<payment, refund, schedule, line>>
BY DEF PayoutStep, CreatePayout, InsertPayout, SubmitPayout, ApprovePayout,
       FailPayout, CancelPayout, MarkPaid, CommitPaid, Rollback, Update, settlementVars

\* What a payout's step does to settlements: nothing, or CommitPaid marks one
\* that is finalised as PAID.
LEMMA PayoutStepSettlement ==
  ASSUME IInv, NEW p \in PayoutIds, PayoutStep(p)
  PROVE  \/ settlement' = settlement
         \/ /\ CommitPaid(p) /\ tx[p].full
            /\ tx[p].settlement \in Settlements
            /\ settlement[tx[p].settlement].status \in {"FINALIZED", "PAID"}
            /\ settlement' = [settlement EXCEPT ![tx[p].settlement].status = "PAID"]
<1>1. CASE CommitPaid(p)
  <2>1. tx[p].full => /\ tx[p].settlement \in Settlements
                      /\ settlement[tx[p].settlement].status \in {"FINALIZED", "PAID"}
    BY <1>1 DEF CommitPaid, IInv, OpenMarkPaidHolds, PayoutRowWhole
  <2> QED BY <1>1, <2>1 DEF CommitPaid
<1>2. CASE ~CommitPaid(p)
  BY <1>2 DEF PayoutStep, CreatePayout, InsertPayout, SubmitPayout, ApprovePayout,
              FailPayout, CancelPayout, MarkPaid, Rollback, Update, settlementVars
<1> QED BY <1>1, <1>2

-----------------------------------------------------------------------------
(* The invariant and what follows from it *)

\* One step of one payout keeps the invariant.
LEMMA PayoutStepKeepsIInv ==
  ASSUME IInv, NEW p \in PayoutIds, PayoutStep(p)
  PROVE  IInv'
<1>1. payout[p] \in PayoutRow BY DEF IInv, TypeOK
<1>2. ASSUME NEW s \in Settlements, CreatePayout(p, s) PROVE IInv'
  BY <1>2, CreatePayoutKeepsIInv
<1>3. ASSUME NEW asked \in PayoutAmounts, InsertPayout(p, asked) PROVE IInv'
  BY <1>3, InsertPayoutKeepsIInv
<1>4. CASE SubmitPayout(p)
  <2> DEFINE row == [payout[p] EXCEPT !.status = "SUBMITTED"]
  <2>1. /\ row \in PayoutRow /\ row.settlement = payout[p].settlement
        /\ row.amount = payout[p].amount /\ row.status = "SUBMITTED"
    BY <1>1 DEF PayoutRow, PayoutStatus
  <2>2. Update(p, {"PENDING"}, row) BY <1>4 DEF SubmitPayout
  <2> HIDE DEF row
  <2> QED BY <2>1, <2>2, UpdateKeepsIInv
<1>5. CASE ApprovePayout(p)
  <2> DEFINE row == [payout[p] EXCEPT !.approved = TRUE]
  <2>1. /\ row \in PayoutRow /\ row.settlement = payout[p].settlement
        /\ row.amount = payout[p].amount /\ row.status = payout[p].status
    BY <1>1 DEF PayoutRow
  <2>2. Update(p, {"PENDING", "SUBMITTED"}, row) BY <1>5 DEF ApprovePayout
  <2>3. payout[p].status \in {"PENDING", "SUBMITTED"} BY <2>2 DEF Update
  <2> HIDE DEF row
  <2> QED BY <2>1, <2>2, <2>3, UpdateKeepsIInv
<1>6. CASE FailPayout(p)
  <2> DEFINE row == [payout[p] EXCEPT !.status = "FAILED"]
  <2>1. /\ row \in PayoutRow /\ row.settlement = payout[p].settlement
        /\ row.amount = payout[p].amount /\ row.status = "FAILED"
    BY <1>1 DEF PayoutRow, PayoutStatus
  <2>2. Update(p, {"PENDING", "SUBMITTED"}, row) BY <1>6 DEF FailPayout
  <2> HIDE DEF row
  <2> QED BY <2>1, <2>2, UpdateKeepsIInv
<1>7. CASE CancelPayout(p)
  <2> DEFINE row == [payout[p] EXCEPT !.status = "CANCELLED"]
  <2>1. /\ row \in PayoutRow /\ row.settlement = payout[p].settlement
        /\ row.amount = payout[p].amount /\ row.status = "CANCELLED"
    BY <1>1 DEF PayoutRow, PayoutStatus
  <2>2. Update(p, {"PENDING"}, row) BY <1>7 DEF CancelPayout
  <2> HIDE DEF row
  <2> QED BY <2>1, <2>2, UpdateKeepsIInv
<1>8. CASE MarkPaid(p) BY <1>8, MarkPaidKeepsIInv
<1>9. CASE CommitPaid(p) BY <1>9, CommitPaidKeepsIInv
<1>10. CASE Rollback(p) BY <1>10, RollbackKeepsIInv
<1> QED BY <1>2, <1>3, <1>4, <1>5, <1>6, <1>7, <1>8, <1>9, <1>10 DEF PayoutStep

\* The other steps of a payout write no row, or write one that is not PAID over
\* one that is not PAID.
LEMMA PayoutStepRow ==
  ASSUME IInv, NEW p \in PayoutIds, PayoutStep(p), ~CommitPaid(p)
  PROVE  \/ payout' = payout
         \/ \E row \in PayoutRow : /\ payout' = [payout EXCEPT ![p] = row]
                                   /\ payout[p].status # "PAID" /\ row.status # "PAID"
<1>1. ASSUME NEW s \in Settlements, CreatePayout(p, s) PROVE payout' = payout
  BY <1>1 DEF CreatePayout
<1>2. CASE MarkPaid(p) \/ Rollback(p) BY <1>2 DEF MarkPaid, Rollback
<1>3. ASSUME NEW asked \in PayoutAmounts, InsertPayout(p, asked)
      PROVE  \E row : /\ payout' = [payout EXCEPT ![p] = row]
                      /\ payout[p].status # "PAID" /\ row.status # "PAID"
  <2>1. tx[p].op = "create" BY <1>3 DEF InsertPayout
  <2>2. payout[p].status = "ABSENT" BY <2>1 DEF IInv, OpenCreateHolds
  <2> DEFINE row == [status |-> "PENDING", settlement |-> tx[p].settlement,
                     amount |-> IF asked = 0 THEN tx[p].remaining ELSE asked,
                     approved |-> FALSE]
  <2>3. payout' = [payout EXCEPT ![p] = row] BY <1>3 DEF InsertPayout
  <2>4. row.status # "PAID" OBVIOUS
  <2> HIDE DEF row
  <2> QED BY <2>2, <2>3, <2>4
<1>4. ASSUME SubmitPayout(p) \/ ApprovePayout(p) \/ FailPayout(p) \/ CancelPayout(p)
      PROVE  \E row : /\ payout' = [payout EXCEPT ![p] = row]
                      /\ payout[p].status # "PAID" /\ row.status # "PAID"
  <2>1. PICK row : /\ payout' = [payout EXCEPT ![p] = row]
                   /\ payout[p].status \in {"PENDING", "SUBMITTED"}
                   /\ row \in {[payout[p] EXCEPT !.status = "SUBMITTED"],
                               [payout[p] EXCEPT !.approved = TRUE],
                               [payout[p] EXCEPT !.status = "FAILED"],
                               [payout[p] EXCEPT !.status = "CANCELLED"]}
    BY <1>4 DEF SubmitPayout, ApprovePayout, FailPayout, CancelPayout, Update
  <2>2. row.status # "PAID"
    <3>1. payout[p] \in PayoutRow BY DEF IInv, TypeOK
    <3> QED BY <2>1, <3>1 DEF PayoutRow
  <2> QED BY <2>1, <2>2
<1>5. \/ payout' = payout
      \/ \E row : /\ payout' = [payout EXCEPT ![p] = row]
                  /\ payout[p].status # "PAID" /\ row.status # "PAID"
  BY <1>1, <1>2, <1>3, <1>4 DEF PayoutStep
<1>6. /\ payout \in [PayoutIds -> PayoutRow] /\ payout' \in [PayoutIds -> PayoutRow]
  BY PayoutStepKeepsIInv DEF IInv, TypeOK
<1>7. ASSUME NEW row, payout' = [payout EXCEPT ![p] = row] PROVE row \in PayoutRow
  <2>1. payout'[p] = row BY <1>6, <1>7
  <2> QED BY <1>6, <2>1
<1> QED BY <1>5, <1>7

\* A step that changes nothing keeps the invariant.
LEMMA StutterKeepsIInv ==
  ASSUME IInv, UNCHANGED vars
  PROVE  IInv'
<1>1. UNCHANGED payoutVars /\ UNCHANGED settlementVars /\ UNCHANGED ledgerVars
  BY DEF vars
<1>2. settlement' = settlement BY <1>1 DEF settlementVars
<1>3. OthersUnchanged BY <1>1 DEF OthersUnchanged
<1>4. SettlementTypeOK' /\ LedgerTypeOK' BY <1>3, OthersTypes DEF IInv
<1>5. SettlementsKept BY <1>2, <1>4 DEF SettlementsKept
<1> QED BY <1>1, <1>5, SettlementStepKeepsIInv

\* Every step keeps the invariant.
LEMMA NextKeepsIInv == IInv /\ [Next]_vars => IInv'
<1> SUFFICES ASSUME IInv, [Next]_vars PROVE IInv' OBVIOUS
<1>1. CASE SettlementNext /\ UNCHANGED payoutVars
  <2>1. SettlementsKept BY <1>1, SettlementNextKeeps DEF IInv
  <2> QED BY <1>1, <2>1, SettlementStepKeepsIInv
<1>2. CASE \E p \in PayoutIds : PayoutStep(p) BY <1>2, PayoutStepKeepsIInv
<1>3. CASE UNCHANGED vars BY <1>3, StutterKeepsIInv
<1> QED BY <1>1, <1>2, <1>3 DEF Next

\* The invariant holds throughout every run.
LEMMA IInvAlways == Spec => []IInv
BY InitIInv, NextKeepsIInv, PTL DEF Spec

\* The financial core is type correct: fees, sums and the frozen net are never
\* negative, and journals carry integers.
THEOREM TypeCorrect == Spec => []TypeOK
<1>1. IInv => TypeOK BY DEF IInv
<1> QED BY <1>1, IInvAlways, PTL

\* I14, for any number of payouts created, submitted, failed and marked paid at
\* once: together they never take more than the finalised net.
THEOREM PayoutsStayWithinNet == Spec => []PayoutsWithinNet
<1>1. IInv => PayoutsWithinNet BY DEF IInv
<1> QED BY <1>1, IInvAlways, PTL

\* A settlement marked PAID has paid its net out, to the minor unit, and no
\* payout of it is outstanding.
THEOREM PaidIsPaidOut == Spec => []PaidSettlementWasPaidOut
<1>1. IInv => PaidSettlementWasPaidOut BY DEF IInv
<1> QED BY <1>1, IInvAlways, PTL

\* No payout is paid without the platform's approval.
THEOREM PaidIsApproved == Spec => []PaidPayoutApproved
<1>1. IInv => PaidPayoutApproved BY DEF IInv
<1> QED BY <1>1, IInvAlways, PTL

-----------------------------------------------------------------------------
(***************************************************************************)
(* What a step may never do to a finalised settlement, and that            *)
(* settlements and payouts implement SettlementPromise.                    *)
(***************************************************************************)

\* A finalised settlement.
Closed == {"FINALIZED", "PAID"}

\* Drafts and cancellations leave the lines of a finalised settlement alone: a
\* draft takes only payments without a line, a cancellation only its own.
LEMMA LinesFrozen ==
  ASSUME TypeOK, SettlementNext, NEW s \in Settlements,
         settlement[s].status \in Closed, NEW i \in Payments,
         line[i].settlement = s \/ line'[i].settlement = s
  PROVE  line'[i] = line[i]
<1>1. ASSUME NEW t \in Settlements, NEW first \in Payments, NEW last \in Payments,
             NEW f \in ProviderFees, NEW a \in Adjustments,
             CreateDraft(t, first, last, f, a)
      PROVE  line'[i] = line[i]
  <2> DEFINE included == DraftLines(first, last)
  <2>1. /\ settlement[t].status = "ABSENT"
        /\ line' = [j \in Payments |->
                      IF j \in included
                      THEN [settlement |-> t, net |-> Eligible(j)] ELSE line[j]]
    BY <1>1 DEF CreateDraft, NextSettlement
  <2>2. t # s BY <2>1 DEF Closed
  <2>3. i \in included => line[i].settlement = 0
    BY DEF DraftLines, DraftPage
  <2>4. s # 0 BY DEF Settlements
  <2> HIDE DEF included
  <2>5. i \notin included
    <3> SUFFICES ASSUME i \in included PROVE FALSE OBVIOUS
    <3>1. line'[i].settlement = t BY <2>1
    <3> QED BY <2>2, <2>3, <2>4, <3>1
  <2> QED BY <2>1, <2>5
<1>2. ASSUME NEW t \in Settlements, CancelSettlement(t)
      PROVE  line'[i] = line[i]
  <2>1. /\ settlement[t].status = "DRAFT"
        /\ line' = [j \in Payments |-> IF line[j].settlement = t
                                       THEN [settlement |-> 0, net |-> 0] ELSE line[j]]
    BY <1>2 DEF CancelSettlement
  <2>2. t # s /\ s # 0 BY <2>1 DEF Closed, Settlements
  <2>3. line[i].settlement # t
    <3> SUFFICES ASSUME line[i].settlement = t PROVE FALSE OBVIOUS
    <3>1. line'[i].settlement = 0 BY <2>1
    <3> QED BY <2>2, <3>1
  <2> QED BY <2>1, <2>3
<1>3. CASE line' = line BY <1>3
<1> QED BY <1>1, <1>2, <1>3
     DEF SettlementNext, Capture, CreateRefund, UpsertSchedule, Finalize

\* I13, as an action property: what finalize froze stays, whatever the other
\* transactions do; the status only ever moves to PAID.
THEOREM FinalizedStaysFrozen == Spec => FinalizedIsFrozen
<1>1. ASSUME IInv, [Next]_vars, NEW s \in Settlements, settlement[s].status \in Closed
      PROVE  /\ settlement'[s] \in {settlement[s], [settlement[s] EXCEPT !.status = "PAID"]}
             /\ \A i \in Payments :
                  (line[i].settlement = s \/ line'[i].settlement = s)
                     => line'[i] = line[i]
  <2>1. CASE SettlementNext
    <3>1. settlement'[s] = settlement[s]
      BY <1>1, <2>1, SettlementNextKeeps DEF SettlementsKept, IInv, Closed
    <3>2. \A i \in Payments :
            (line[i].settlement = s \/ line'[i].settlement = s) => line'[i] = line[i]
      BY <1>1, <2>1, LinesFrozen DEF IInv
    <3> QED BY <3>1, <3>2
  <2>2. ASSUME NEW p \in PayoutIds, PayoutStep(p)
        PROVE  /\ line' = line
               /\ settlement'[s] \in {settlement[s], [settlement[s] EXCEPT !.status = "PAID"]}
    <3>1. settlement \in [Settlements -> SettlementRow]
      BY <1>1 DEF IInv, TypeOK, SettlementTypeOK
    <3> QED BY <1>1, <2>2, <3>1, PayoutStepSettlement, PayoutStepLeaves
  <2>3. CASE UNCHANGED vars BY <2>3 DEF vars, settlementVars
  <2> QED BY <1>1, <2>1, <2>2, <2>3 DEF Next
<1>2. IInv /\ [Next]_vars =>
        [\A s \in Settlements :
           settlement[s].status \in {"FINALIZED", "PAID"} =>
             /\ settlement'[s] \in {settlement[s], [settlement[s] EXCEPT !.status = "PAID"]}
             /\ \A i \in Payments :
                  (line[i].settlement = s \/ line'[i].settlement = s)
                     => line'[i] = line[i]]_vars
  BY <1>1 DEF Closed
<1> QED BY <1>2, IInvAlways, PTL DEF Spec, FinalizedIsFrozen

-----------------------------------------------------------------------------
(* The refinement *)

\* The state a settlement's status stands for, for BatchState.
Stage(status) == CASE status = "ABSENT"    -> "none"
                   [] status = "DRAFT"     -> "open"
                   [] status = "CANCELLED" -> "void"
                   [] status = "FINALIZED" -> "closed"
                   [] status = "PAID"      -> "settled"

\* The amount a settlement's row stands for, for BatchDue.
DueOf(row) == IF row.status \in Closed THEN row.net ELSE 0

\* The refinement mapping, row by row.
LEMMA BatchesAre ==
  /\ BatchState  = [s \in Settlements |-> Stage(settlement[s].status)]
  /\ BatchState' = [s \in Settlements |-> Stage(settlement'[s].status)]
  /\ BatchDue    = [s \in Settlements |-> DueOf(settlement[s])]
  /\ BatchDue'   = [s \in Settlements |-> DueOf(settlement'[s])]
BY DEF BatchState, BatchDue, Stage, DueOf, Closed

\* What the promise sees depends on a settlement's row and its PAID payouts.
LEMMA PromiseKept ==
  ASSUME settlement' = settlement,
         \A s \in Settlements : PayoutSum(s, {"PAID"})' = PayoutSum(s, {"PAID"})
  PROVE  UNCHANGED Promise!promiseVars
<1>1. BatchState' = BatchState BY DEF BatchState
<1>2. BatchDue' = BatchDue BY DEF BatchDue
<1>3. BatchPaid' = BatchPaid BY DEF BatchPaid
<1> QED BY <1>1, <1>2, <1>3 DEF Promise!promiseVars

\* A step that writes one settlement's row and pays nothing moves one batch.
LEMMA RowMoves ==
  ASSUME TypeOK, NEW s \in Settlements, NEW row \in SettlementRow,
         settlement' = [settlement EXCEPT ![s] = row], payout' = payout,
         settlement[s].status \notin Closed
  PROVE  /\ BatchState[s] = Stage(settlement[s].status)
         /\ BatchState' = [BatchState EXCEPT ![s] = Stage(row.status)]
         /\ row.status \notin Closed => BatchDue' = BatchDue
         /\ row.status \in Closed =>
              /\ BatchDue' = [BatchDue EXCEPT ![s] = row.net]
              /\ BatchDue'[s] = row.net
         /\ BatchPaid' = BatchPaid
<1>1. settlement \in [Settlements -> SettlementRow] BY DEF TypeOK, SettlementTypeOK
<1>2. settlement'[s] = row /\ \A t \in Settlements : t # s => settlement'[t] = settlement[t]
  BY <1>1
<1>3. BatchState[s] = Stage(settlement[s].status) BY BatchesAre
<1>4. BatchState' = [BatchState EXCEPT ![s] = Stage(row.status)]
  BY <1>2, BatchesAre
<1>5. BatchDue' = [BatchDue EXCEPT ![s] = DueOf(row)] /\ BatchDue'[s] = DueOf(row)
  BY <1>2, BatchesAre
<1>6. /\ DueOf(settlement[s]) = 0
      /\ row.status \notin Closed => DueOf(row) = 0
  BY DEF DueOf
<1>7. row.status \in Closed => DueOf(row) = row.net BY DEF DueOf
<1>8. BatchPaid' = BatchPaid BY SumsUnchanged DEF BatchPaid
<1>9. row.status \notin Closed => BatchDue' = BatchDue
  BY <1>5, <1>6, BatchesAre
<1> QED BY <1>3, <1>4, <1>5, <1>7, <1>8, <1>9

\* A step of Settlements opens, voids or closes one batch, or none.
LEMMA SettlementSimulation ==
  ASSUME TypeOK, SettlementNext, UNCHANGED payoutVars
  PROVE  [Promise!Next]_(Promise!promiseVars)
<1>1. payout' = payout BY DEF payoutVars
<1>2. \A s \in Settlements : settlement[s] \in SettlementRow /\ settlement'[s] \in SettlementRow
  BY SettlementNextKeeps DEF SettlementsKept, TypeOK, SettlementTypeOK
<1>3. settlement \in [Settlements -> SettlementRow] BY DEF TypeOK, SettlementTypeOK
<1>4. ASSUME NEW s \in Settlements, NEW first \in Payments, NEW last \in Payments,
             NEW f \in ProviderFees, NEW a \in Adjustments,
             CreateDraft(s, first, last, f, a)
      PROVE  Promise!Next
  <2>1. /\ settlement[s].status = "ABSENT"
        /\ \E row : row.status = "DRAFT" /\ settlement' = [settlement EXCEPT ![s] = row]
    BY <1>4 DEF CreateDraft, NextSettlement
  <2>2. PICK row : row.status = "DRAFT" /\ settlement' = [settlement EXCEPT ![s] = row]
    BY <2>1
  <2>3. row \in SettlementRow BY <1>2, <1>3, <2>2
  <2>4. Promise!Open(s)
    BY <1>1, <2>1, <2>2, <2>3, RowMoves DEF Promise!Open, Promise!Move, Stage, Closed
  <2> QED BY <2>4 DEF Promise!Next
<1>5. ASSUME NEW s \in Settlements, Finalize(s)
      PROVE  Promise!Next
  <2>1. /\ settlement[s].status = "DRAFT"
        /\ \E row : row.status = "FINALIZED" /\ settlement' = [settlement EXCEPT ![s] = row]
    BY <1>5 DEF Finalize
  <2>2. PICK row : row.status = "FINALIZED" /\ settlement' = [settlement EXCEPT ![s] = row]
    BY <2>1
  <2>3. row \in SettlementRow BY <1>2, <1>3, <2>2
  <2>4. row.net \in Nat BY <2>3 DEF SettlementRow
  <2>5. /\ BatchState[s] = "open"
        /\ BatchState' = [BatchState EXCEPT ![s] = "closed"]
        /\ BatchDue' = [BatchDue EXCEPT ![s] = row.net] /\ BatchDue'[s] = row.net
        /\ BatchPaid' = BatchPaid
    <3>1. settlement[s].status \notin Closed /\ row.status \in Closed
      BY <2>1, <2>2 DEF Closed
    <3>2. Stage(settlement[s].status) = "open" /\ Stage(row.status) = "closed"
      BY <2>1, <2>2 DEF Stage
    <3> QED BY <1>1, <2>2, <2>3, <3>1, <3>2, RowMoves
  <2>6. Promise!Close(s)
    BY <2>4, <2>5 DEF Promise!Close, Promise!Move
  <2> QED BY <2>6 DEF Promise!Next
<1>6. ASSUME NEW s \in Settlements, CancelSettlement(s)
      PROVE  Promise!Next
  <2> DEFINE row == [settlement[s] EXCEPT !.status = "CANCELLED"]
  <2>1. /\ settlement[s].status = "DRAFT" /\ settlement' = [settlement EXCEPT ![s] = row]
    BY <1>6 DEF CancelSettlement
  <2>2. row \in SettlementRow /\ row.status = "CANCELLED"
    BY <1>3 DEF SettlementRow, SettlementStatus
  <2> HIDE DEF row
  <2>3. Promise!Void(s)
    BY <1>1, <2>1, <2>2, RowMoves DEF Promise!Void, Promise!Move, Stage, Closed
  <2> QED BY <2>3 DEF Promise!Next
<1>7. CASE settlement' = settlement
  BY <1>1, <1>7, SumsUnchanged, PromiseKept
<1> QED BY <1>4, <1>5, <1>6, <1>7
     DEF SettlementNext, Capture, CreateRefund, UpsertSchedule

\* A payout that is not PAID before or after a step adds nothing to what its
\* settlement has paid.
LEMMA PaidSumKept ==
  ASSUME TypeOK, NEW p \in PayoutIds, NEW row \in PayoutRow,
         payout' = [payout EXCEPT ![p] = row],
         payout[p].status # "PAID", row.status # "PAID", NEW s
  PROVE  PayoutSum(s, {"PAID"})' = PayoutSum(s, {"PAID"})
<1>1. Counted(payout[p], s, {"PAID"}) = 0 /\ Counted(row, s, {"PAID"}) = 0
  BY DEF Counted
<1>2. PayoutSum(s, {"PAID"}) \in Nat BY PayoutSumNat
<1>3. PayoutSum(s, {"PAID"})' =
        PayoutSum(s, {"PAID"})
          + (Counted(row, s, {"PAID"}) - Counted(payout[p], s, {"PAID"}))
  BY PayoutSumUpdate
<1> QED BY <1>1, <1>2, <1>3

\* The commit of markPaid is the one step that pays a batch.
LEMMA CommitPaidSimulation ==
  ASSUME IInv, NEW p \in PayoutIds, CommitPaid(p), NEW s, s = tx[p].settlement
  PROVE  Promise!Next
<1> DEFINE amount == payout[p].amount
           full == tx[p].full
           row == [payout[p] EXCEPT !.status = "PAID"]
<1>1. /\ tx[p].op = "markPaid"
      /\ payout' = [payout EXCEPT ![p] = row]
      /\ settlement' = IF full THEN [settlement EXCEPT ![s].status = "PAID"]
                               ELSE settlement
  BY DEF CommitPaid
<1>2. /\ payout \in [PayoutIds -> PayoutRow]
      /\ settlement \in [Settlements -> SettlementRow]
  BY DEF IInv, TypeOK, SettlementTypeOK
<1>3. /\ payout[p].status = "SUBMITTED" /\ payout[p].settlement = s
      /\ full => PayoutSum(s, {"PAID"}) + amount >= settlement[s].net
  BY <1>1 DEF IInv, OpenMarkPaidHolds
<1>4. s \in Settlements /\ amount \in Nat /\ amount > 0
  BY <1>2, <1>3 DEF IInv, PayoutRowWhole, PayoutRow
<1>5. row \in PayoutRow /\ row.status = "PAID" /\ row.settlement = s /\ row.amount = amount
  BY <1>2, <1>3 DEF PayoutRow, PayoutStatus
<1> HIDE DEF row
<1>6. ASSUME NEW u
      PROVE  /\ PayoutSum(u, {"PAID"}) \in Nat
             /\ PayoutSum(u, {"PAID"})' =
                  PayoutSum(u, {"PAID"}) + (IF u = s THEN amount ELSE 0)
  <2>1. /\ Counted(payout[p], u, {"PAID"}) = 0
        /\ Counted(row, u, {"PAID"}) = IF u = s THEN amount ELSE 0
    BY <1>3, <1>5 DEF Counted
  <2>2. PayoutSum(u, {"PAID"}) \in Nat BY PayoutSumNat DEF IInv
  <2>3. PayoutSum(u, {"PAID"})' =
          PayoutSum(u, {"PAID"})
            + (Counted(row, u, {"PAID"}) - Counted(payout[p], u, {"PAID"}))
    BY <1>1, <1>5, PayoutSumUpdate DEF IInv
  <2> QED BY <1>4, <2>1, <2>2, <2>3
<1>7. PayoutSum(s, {"PAID"}) + amount <= sumCommittedPayoutMinor(s)
  <2>1. Counted(payout[p], s, Committed) = amount BY <1>3 DEF Counted, Committed
  <2> QED BY <1>3, <2>1, CommittedCoversPaid DEF IInv
<1>8. sumCommittedPayoutMinor(s) \in Nat
  BY PayoutSumNat DEF IInv, sumCommittedPayoutMinor
<1>9. settlement[s].net \in Nat BY <1>2, <1>4 DEF SettlementRow
<1>10. settlement[s].status = "FINALIZED"
  <2>1. sumCommittedPayoutMinor(s) > 0 BY <1>4, <1>6, <1>7, <1>8
  <2>2. settlement[s].status \in {"FINALIZED", "PAID"}
    BY <1>4, <1>8, <2>1 DEF IInv, PayoutsWithinNet
  <2>3. settlement[s].status # "PAID"
    <3> SUFFICES ASSUME settlement[s].status = "PAID" PROVE FALSE OBVIOUS
    <3>1. PayoutSum(s, {"PAID"}) = sumCommittedPayoutMinor(s)
      BY <1>4 DEF IInv, PaidSettlementWasPaidOut
    <3> QED BY <1>4, <1>7, <1>8, <3>1
  <2> QED BY <2>2, <2>3
<1>11. sumCommittedPayoutMinor(s) <= settlement[s].net
  BY <1>4, <1>10 DEF IInv, PayoutsWithinNet
<1> HIDE DEF amount, full
<1>12. /\ BatchPaid[s] = PayoutSum(s, {"PAID"})
       /\ BatchPaid'[s] = PayoutSum(s, {"PAID"}) + amount
       /\ BatchPaid' = [BatchPaid EXCEPT ![s] = BatchPaid'[s]]
  BY <1>4, <1>6 DEF BatchPaid
<1>13. ASSUME NEW u \in Settlements
       PROVE  /\ settlement'[u].net = settlement[u].net
              /\ settlement'[u].status = IF full /\ u = s THEN "PAID"
                                         ELSE settlement[u].status
  <2>1. CASE full /\ u = s BY <1>1, <1>2, <2>1 DEF SettlementRow
  <2>2. CASE ~(full /\ u = s) BY <1>1, <1>2, <2>2
  <2> QED BY <2>1, <2>2
<1>14. BatchDue' = BatchDue /\ BatchDue[s] = settlement[s].net
  <2>1. ASSUME NEW u \in Settlements PROVE DueOf(settlement'[u]) = DueOf(settlement[u])
    BY <1>10, <1>13 DEF DueOf, Closed
  <2>2. DueOf(settlement[s]) = settlement[s].net BY <1>10 DEF DueOf, Closed
  <2> QED BY <1>4, <2>1, <2>2, BatchesAre
<1>15. BatchState[s] = "closed"
  BY <1>4, <1>10, BatchesAre DEF Stage
<1>16. BatchPaid[s] < BatchPaid'[s] /\ BatchPaid'[s] <= BatchDue[s]
  BY <1>4, <1>6, <1>7, <1>8, <1>9, <1>11, <1>12, <1>14 DEF amount
<1>17. CASE full
  <2>1. BatchPaid'[s] = BatchDue[s]
    BY <1>3, <1>4, <1>6, <1>7, <1>8, <1>9, <1>11, <1>12, <1>14, <1>17 DEF amount, full
  <2>2. BatchState' = [BatchState EXCEPT ![s] = "settled"]
    <3>1. Stage("PAID") = "settled" BY DEF Stage
    <3>2. ASSUME NEW u \in Settlements
          PROVE  Stage(settlement'[u].status) =
                   IF u = s THEN "settled" ELSE Stage(settlement[u].status)
      BY <1>13, <1>17, <3>1
    <3> QED BY <1>4, <3>2, BatchesAre
  <2>3. Promise!Pay(s)
    BY <1>12, <1>14, <1>15, <1>16, <2>1, <2>2 DEF Promise!Pay
  <2> QED BY <1>4, <2>3 DEF Promise!Next
<1>18. CASE ~full
  <2>1. BatchState' = BatchState BY <1>13, <1>18, BatchesAre
  <2>2. Promise!Pay(s)
    BY <1>12, <1>14, <1>15, <1>16, <2>1 DEF Promise!Pay
  <2> QED BY <1>4, <2>2 DEF Promise!Next
<1> QED BY <1>17, <1>18

\* A step of a payout pays its batch or is invisible to the promise.
LEMMA PayoutSimulation ==
  ASSUME IInv, NEW p \in PayoutIds, PayoutStep(p)
  PROVE  [Promise!Next]_(Promise!promiseVars)
<1>1. CASE CommitPaid(p) BY <1>1, CommitPaidSimulation
<1>2. CASE ~CommitPaid(p)
  <2>1. settlement' = settlement BY <1>2, PayoutStepSettlement
  <2>2. \/ payout' = payout
        \/ \E row \in PayoutRow : /\ payout' = [payout EXCEPT ![p] = row]
                                  /\ payout[p].status # "PAID" /\ row.status # "PAID"
    BY <1>2, PayoutStepRow
  <2>3. ASSUME NEW s \in Settlements
        PROVE  PayoutSum(s, {"PAID"})' = PayoutSum(s, {"PAID"})
    <3>1. CASE payout' = payout BY <3>1, SumsUnchanged
    <3>2. ASSUME NEW row \in PayoutRow, payout' = [payout EXCEPT ![p] = row],
                 payout[p].status # "PAID", row.status # "PAID"
          PROVE  PayoutSum(s, {"PAID"})' = PayoutSum(s, {"PAID"})
      BY <3>2, PaidSumKept DEF IInv
    <3> QED BY <2>2, <3>1, <3>2
  <2> QED BY <2>1, <2>3, PromiseKept
<1> QED BY <1>1, <1>2

\* Nothing is open, due or paid at first.
LEMMA InitPromise == Init => Promise!Init
<1> SUFFICES ASSUME Init PROVE Promise!Init OBVIOUS
<1>1. \A s \in Settlements : settlement[s].status = "ABSENT"
  BY DEF Init, SettlementInit
<1>2. ASSUME NEW s \in Settlements PROVE PayoutSum(s, {"PAID"}) = 0
  <2> DEFINE f == [p \in PayoutIds |-> Counted(payout[p], s, {"PAID"})]
  <2>1. f \in [1..NPayouts -> Int] /\ \A p \in 1..NPayouts : f[p] = 0
    BY DEF Init, PayoutIds, Counted
  <2>2. PayoutSum(s, {"PAID"}) = Total(f, NPayouts) BY DEF PayoutSum
  <2> HIDE DEF f
  <2> QED BY <2>1, <2>2, TotalZero, PayoutAssumption
<1>3. BatchState = [s \in Settlements |-> "none"] BY <1>1 DEF BatchState
<1>4. BatchDue = [s \in Settlements |-> 0] BY <1>1 DEF BatchDue
<1>5. BatchPaid = [s \in Settlements |-> 0] BY <1>2 DEF BatchPaid
<1> QED BY <1>3, <1>4, <1>5 DEF Promise!Init

\* Settlements and payouts implement SettlementPromise: whatever transactions
\* interleave, a closed batch is paid in parts up to what it was closed at, and
\* settled with the part that completes it.
THEOREM PayoutsKeepPromise == Spec => PromiseSpec
<1>1. IInv /\ [Next]_vars => [Promise!Next]_(Promise!promiseVars)
  <2> SUFFICES ASSUME IInv, [Next]_vars
               PROVE  [Promise!Next]_(Promise!promiseVars)
    OBVIOUS
  <2>1. CASE SettlementNext /\ UNCHANGED payoutVars
    BY <2>1, SettlementSimulation DEF IInv
  <2>2. CASE \E p \in PayoutIds : PayoutStep(p) BY <2>2, PayoutSimulation
  <2>3. CASE UNCHANGED vars
    <3>1. settlement' = settlement /\ payout' = payout
      BY <2>3 DEF vars, settlementVars, payoutVars
    <3> QED BY <3>1, SumsUnchanged, PromiseKept
  <2> QED BY <2>1, <2>2, <2>3 DEF Next
<1> QED BY <1>1, InitPromise, IInvAlways, PTL DEF Spec, PromiseSpec, Promise!Spec
=============================================================================
