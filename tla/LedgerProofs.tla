---------------------------- MODULE LedgerProofs ----------------------------
(***************************************************************************)
(* The books: refunds stay within the capture, a settlement's gross is the *)
(* sum of its lines, and the ledger accounts hold what the tables say.     *)
(***************************************************************************)
EXTENDS PayoutProofs

-----------------------------------------------------------------------------
(* Refunds *)

\* A refund row not inserted yet has no amount.
NoRefundNoAmount == \A r \in Refunds : refund[r].payment = 0 => refund[r].amount = 0

\* Inserting a refund adds its amount to what its payment has refunded and to
\* what has been refunded in all.
LEMMA RefundInserted ==
  ASSUME SettlementTypeOK, NoRefundNoAmount,
         NEW r \in Refunds, NEW i \in Payments, NEW amount \in Nat,
         refund[r].payment = 0,
         refund' = [refund EXCEPT ![r] = [payment |-> i, amount |-> amount]]
  PROVE  /\ \A j \in Payments :
              Refunded(j)' = Refunded(j) + (IF j = i THEN amount ELSE 0)
         /\ RefundedTotal' = RefundedTotal + amount
         /\ RefundedTotal \in Int
         /\ NoRefundNoAmount'
<1> DEFINE of(j) == [q \in Refunds |-> IF refund[q].payment = j
                                       THEN refund[q].amount ELSE 0]
           ofNext(j) == [q \in Refunds |-> IF refund'[q].payment = j
                                           THEN refund'[q].amount ELSE 0]
           all == [q \in Refunds |-> refund[q].amount]
           allNext == [q \in Refunds |-> refund'[q].amount]
<1>1. refund \in [Refunds -> [payment : 0..NPayments, amount : Nat]]
  BY DEF SettlementTypeOK
<1>2. /\ refund'[r].payment = i /\ refund'[r].amount = amount
      /\ refund[r].amount = 0
      /\ \A q \in Refunds : q # r => refund'[q] = refund[q]
  BY <1>1 DEF NoRefundNoAmount
<1>3. r \in 1..NRefunds /\ NRefunds \in Nat BY SettlementAssumption DEF Refunds
<1>4. \A q \in Refunds : refund[q].amount \in Nat /\ refund'[q].amount \in Nat
  BY <1>1, <1>2
<1>5. ASSUME NEW j \in Payments
      PROVE  Refunded(j)' = Refunded(j) + (IF j = i THEN amount ELSE 0)
  <2>1. of(j) \in [1..NRefunds -> Int] /\ ofNext(j) \in [1..NRefunds -> Int]
    BY <1>4 DEF Refunds
  <2>2. \A q \in 1..NRefunds : q # r => ofNext(j)[q] = of(j)[q] BY <1>2 DEF Refunds
  <2>3. j # 0 BY DEF Payments
  <2>4. of(j)[r] = 0 /\ ofNext(j)[r] = IF j = i THEN amount ELSE 0 BY <1>2, <2>3
  <2>5. Refunded(j) = Total(of(j), NRefunds) /\ Refunded(j)' = Total(ofNext(j), NRefunds)
    BY DEF Refunded
  <2> HIDE DEF of, ofNext
  <2>6. Total(ofNext(j), NRefunds)
          = Total(of(j), NRefunds) + (ofNext(j)[r] - of(j)[r])
    BY <1>3, <2>1, <2>2, TotalUpdate
  <2> QED BY <2>4, <2>5, <2>6
<1>6. RefundedTotal' = RefundedTotal + amount /\ RefundedTotal \in Int
  <2>1. all \in [1..NRefunds -> Int] /\ allNext \in [1..NRefunds -> Int]
    BY <1>4 DEF Refunds
  <2>2. \A q \in 1..NRefunds : q # r => allNext[q] = all[q] BY <1>2 DEF Refunds
  <2>3. all[r] = 0 /\ allNext[r] = amount BY <1>2
  <2>4. RefundedTotal = Total(all, NRefunds) /\ RefundedTotal' = Total(allNext, NRefunds)
    BY DEF RefundedTotal
  <2> HIDE DEF all, allNext
  <2>5. Total(allNext, NRefunds) = Total(all, NRefunds) + (allNext[r] - all[r])
    BY <1>3, <2>1, <2>2, TotalUpdate
  <2>6. Total(all, NRefunds) \in Int BY <1>3, <2>1, TotalInt
  <2> QED BY <2>3, <2>4, <2>5, <2>6
<1>7. NoRefundNoAmount' BY <1>2 DEF NoRefundNoAmount, Payments
<1> QED BY <1>5, <1>6, <1>7

-----------------------------------------------------------------------------
(* Settlement lines *)

Live == {"DRAFT", "FINALIZED", "PAID"}

\* A line belongs to a settlement that has not been cancelled.
LinesOfLive ==
  \A i \in Payments :
    line[i].settlement # 0 => settlement[line[i].settlement].status \in Live

LineInv == LinesOfLive /\ GrossIsLines

\* What a settlement's lines sum to does not depend on the others'.
LEMMA LinesNetSame ==
  ASSUME NEW s,
         \A i \in Payments : line'[i] = line[i]
                             \/ (line[i].settlement # s /\ line'[i].settlement # s)
  PROVE  LinesNet(s)' = LinesNet(s)
<1> DEFINE f == [i \in Payments |-> IF line[i].settlement = s THEN line[i].net ELSE 0]
           g == [i \in Payments |-> IF line'[i].settlement = s THEN line'[i].net ELSE 0]
<1>1. f = g OBVIOUS
<1>2. LinesNet(s) = Total(f, NPayments) /\ LinesNet(s)' = Total(g, NPayments)
  BY DEF LinesNet
<1> QED BY <1>1, <1>2

\* A draft's gross is the sum of the lines it inserts.
LEMMA CreateDraftLines ==
  ASSUME TypeOK, LineInv, NEW s \in Settlements, NEW first \in Payments,
         NEW last \in Payments, NEW f \in ProviderFees, NEW a \in Adjustments,
         CreateDraft(s, first, last, f, a)
  PROVE  LineInv'
<1> DEFINE included == DraftLines(first, last)
           terms == [i \in Payments |-> IF i \in included THEN Eligible(i) ELSE 0]
           gross == Total(terms, NPayments)
           after == [i \in Payments |-> IF line'[i].settlement = s
                                        THEN line'[i].net ELSE 0]
<1>1. /\ settlement[s].status = "ABSENT"
      /\ line' = [i \in Payments |->
                    IF i \in included
                    THEN [settlement |-> s, net |-> Eligible(i)]
                    ELSE line[i]]
      /\ \E row : /\ row.status = "DRAFT" /\ row.gross = gross
                  /\ settlement' = [settlement EXCEPT ![s] = row]
  BY DEF CreateDraft, NextSettlement
<1>2. PICK row : /\ row.status = "DRAFT" /\ row.gross = gross
                 /\ settlement' = [settlement EXCEPT ![s] = row]
  BY <1>1
<1>3. \A i \in included : line[i].settlement = 0 BY DEF DraftLines, DraftPage
<1>4. s # 0 BY DEF Settlements
<1>5. \A i \in Payments : line[i].settlement # s
  BY <1>1, <1>4 DEF LineInv, LinesOfLive, Live
<1> HIDE DEF included
<1>6. /\ settlement'[s] = row
      /\ \A t \in Settlements : t # s => settlement'[t] = settlement[t]
  BY <1>2 DEF TypeOK, SettlementTypeOK
<1>7. ASSUME NEW i \in Payments
      PROVE  /\ i \in included => line'[i].settlement = s /\ line'[i].net = Eligible(i)
             /\ i \notin included => line'[i] = line[i]
  BY <1>1
<1>8. LinesNet(s)' = gross
  <2>1. ASSUME NEW i \in Payments
        PROVE  (IF i \in included THEN Eligible(i) ELSE 0)
                 = IF line'[i].settlement = s THEN line'[i].net ELSE 0
    BY <1>5, <1>7
  <2>2. terms = after BY <2>1
  <2>3. LinesNet(s)' = Total(after, NPayments) BY DEF LinesNet
  <2> QED BY <2>2, <2>3
<1> HIDE DEF gross, terms, after
<1>9. ASSUME NEW t \in Settlements, t # s
      PROVE  LinesNet(t)' = LinesNet(t)
  <2>1. t # 0 BY DEF Settlements
  <2>2. \A i \in Payments : line'[i] = line[i]
                            \/ (line[i].settlement # t /\ line'[i].settlement # t)
    BY <1>3, <1>7, <1>9, <2>1
  <2> QED BY <2>2, LinesNetSame
<1>10. LinesOfLive'
  <2> SUFFICES ASSUME NEW i \in Payments, line'[i].settlement # 0
               PROVE  settlement'[line'[i].settlement].status \in Live
    BY DEF LinesOfLive
  <2>1. CASE i \in included BY <1>2, <1>6, <1>7, <2>1 DEF Live
  <2>2. CASE i \notin included
    <3>1. line'[i] = line[i] BY <1>7, <2>2
    <3>2. line[i].settlement \in 0..NSettlements BY DEF TypeOK, SettlementTypeOK
    <3>3. line[i].settlement \in Settlements
      BY <2>2, <3>1, <3>2, SettlementAssumption DEF Settlements
    <3> QED BY <1>5, <1>6, <3>1, <3>3 DEF LineInv, LinesOfLive
  <2> QED BY <2>1, <2>2
<1>11. GrossIsLines'
  BY <1>2, <1>6, <1>8, <1>9 DEF LineInv, GrossIsLines
<1> QED BY <1>10, <1>11 DEF LineInv

\* Cancelling releases a draft's lines, and only those.
LEMMA CancelSettlementLines ==
  ASSUME TypeOK, LineInv, NEW s \in Settlements, CancelSettlement(s)
  PROVE  LineInv'
<1>1. /\ settlement' = [settlement EXCEPT ![s].status = "CANCELLED"]
      /\ line' = [i \in Payments |-> IF line[i].settlement = s
                                     THEN [settlement |-> 0, net |-> 0] ELSE line[i]]
  BY DEF CancelSettlement
<1>2. /\ settlement'[s].status = "CANCELLED"
      /\ \A t \in Settlements : t # s => settlement'[t] = settlement[t]
  BY <1>1 DEF TypeOK, SettlementTypeOK, SettlementRow
<1>3. ASSUME NEW i \in Payments
      PROVE  line'[i] = IF line[i].settlement = s THEN [settlement |-> 0, net |-> 0]
                        ELSE line[i]
  BY <1>1
<1>4. s # 0 BY DEF Settlements
<1>5. LinesNet(s)' = 0
  <2> DEFINE g == [i \in Payments |-> IF line'[i].settlement = s THEN line'[i].net ELSE 0]
  <2>1. g \in [1..NPayments -> Int] /\ \A i \in 1..NPayments : g[i] = 0
    BY <1>3, <1>4 DEF Payments
  <2>2. LinesNet(s)' = Total(g, NPayments) BY DEF LinesNet
  <2> HIDE DEF g
  <2> QED BY <2>1, <2>2, TotalZero, SettlementAssumption
<1>6. ASSUME NEW t \in Settlements, t # s PROVE LinesNet(t)' = LinesNet(t)
  <2>1. t # 0 BY DEF Settlements
  <2>2. \A i \in Payments : line'[i] = line[i]
                            \/ (line[i].settlement # t /\ line'[i].settlement # t)
    BY <1>3, <1>6, <2>1
  <2> QED BY <2>2, LinesNetSame
<1>7. LinesOfLive'
  <2> SUFFICES ASSUME NEW i \in Payments, line'[i].settlement # 0
               PROVE  settlement'[line'[i].settlement].status \in Live
    BY DEF LinesOfLive
  <2>1. line[i].settlement # s /\ line'[i] = line[i] BY <1>3
  <2>2. line[i].settlement \in 0..NSettlements BY DEF TypeOK, SettlementTypeOK
  <2>3. line[i].settlement \in Settlements
    BY <2>1, <2>2, SettlementAssumption DEF Settlements
  <2> QED BY <1>2, <2>1, <2>3 DEF LineInv, LinesOfLive
<1>8. GrossIsLines'
  BY <1>2, <1>5, <1>6 DEF LineInv, GrossIsLines
<1> QED BY <1>7, <1>8 DEF LineInv

\* Finalising recomputes the gross from the lines.
LEMMA FinalizeLines ==
  ASSUME TypeOK, LineInv, NEW s \in Settlements, Finalize(s)
  PROVE  LineInv'
<1>1. /\ line' = line
      /\ \E row : /\ row.status = "FINALIZED" /\ row.gross = LinesNet(s)
                  /\ settlement' = [settlement EXCEPT ![s] = row]
  BY DEF Finalize
<1>2. PICK row : /\ row.status = "FINALIZED" /\ row.gross = LinesNet(s)
                 /\ settlement' = [settlement EXCEPT ![s] = row]
  BY <1>1
<1>3. /\ settlement'[s] = row
      /\ \A t \in Settlements : t # s => settlement'[t] = settlement[t]
  BY <1>2 DEF TypeOK, SettlementTypeOK
<1>4. ASSUME NEW t \in Settlements PROVE LinesNet(t)' = LinesNet(t)
  BY <1>1, LinesNetSame
<1>5. GrossIsLines' BY <1>2, <1>3, <1>4 DEF LineInv, GrossIsLines
<1>6. LinesOfLive'
  <2> SUFFICES ASSUME NEW i \in Payments, line[i].settlement # 0
               PROVE  settlement'[line[i].settlement].status \in Live
    BY <1>1 DEF LinesOfLive
  <2>1. line[i].settlement \in 0..NSettlements BY DEF TypeOK, SettlementTypeOK
  <2>2. line[i].settlement \in Settlements
    BY <2>1, SettlementAssumption DEF Settlements
  <2> QED BY <1>2, <1>3, <2>2 DEF LineInv, LinesOfLive, Live
<1> QED BY <1>5, <1>6 DEF LineInv

\* Marking a finalised settlement PAID keeps its lines and its gross.
LEMMA PayoutLines ==
  ASSUME IInv, LineInv, NEW p \in PayoutIds, PayoutStep(p)
  PROVE  LineInv'
<1>1. line' = line BY PayoutStepLeaves
<1>2. \A t \in Settlements : LinesNet(t)' = LinesNet(t) BY <1>1, LinesNetSame
<1>3. settlement \in [Settlements -> SettlementRow]
  BY DEF IInv, TypeOK, SettlementTypeOK
<1>4. ASSUME NEW t \in Settlements
      PROVE  /\ settlement'[t].gross = settlement[t].gross
             /\ settlement'[t].status \in Live <=> settlement[t].status \in Live
  <2>1. CASE settlement' = settlement BY <2>1
  <2>2. ASSUME NEW s \in Settlements, settlement[s].status \in {"FINALIZED", "PAID"},
               settlement' = [settlement EXCEPT ![s].status = "PAID"]
        PROVE  /\ settlement'[t].gross = settlement[t].gross
               /\ settlement'[t].status \in Live <=> settlement[t].status \in Live
    <3>1. CASE t = s
      <4>1. settlement'[t] = [settlement[t] EXCEPT !.status = "PAID"]
        BY <1>3, <2>2, <3>1
      <4>2. settlement[t] \in SettlementRow BY <1>3
      <4> QED BY <2>2, <3>1, <4>1, <4>2 DEF SettlementRow, Live
    <3>2. CASE t # s BY <1>3, <2>2, <3>2
    <3> QED BY <3>1, <3>2
  <2> QED BY <2>1, <2>2, PayoutStepSettlement
<1>5. GrossIsLines' BY <1>2, <1>4 DEF LineInv, GrossIsLines, Live
<1>6. LinesOfLive'
  <2> SUFFICES ASSUME NEW i \in Payments, line[i].settlement # 0
               PROVE  settlement'[line[i].settlement].status \in Live
    BY <1>1 DEF LinesOfLive
  <2>1. line[i].settlement \in 0..NSettlements BY DEF IInv, TypeOK, SettlementTypeOK
  <2>2. line[i].settlement \in Settlements
    BY <2>1, SettlementAssumption DEF Settlements
  <2> QED BY <1>4, <2>2 DEF LineInv, LinesOfLive
<1> QED BY <1>5, <1>6 DEF LineInv

\* Captures, refunds and fee schedules leave settlements and lines alone.
LEMMA LinesUntouched ==
  ASSUME LineInv, UNCHANGED <<settlement, line>>
  PROVE  LineInv'
<1>1. \A t \in Settlements : LinesNet(t)' = LinesNet(t) BY LinesNetSame
<1> QED BY <1>1 DEF LineInv, LinesOfLive, GrossIsLines

\* A settlement always accounts for exactly the payments that belong to it, for
\* any number of drafts, cancellations, pages and refunds.
THEOREM GrossIsSumOfLines == Spec => []GrossIsLines
<1>1. Init => LineInv
  <2> SUFFICES ASSUME Init PROVE LineInv OBVIOUS
  <2>1. /\ \A i \in Payments : line[i].settlement = 0
        /\ \A s \in Settlements : settlement[s].status = "ABSENT"
    BY DEF Init, SettlementInit
  <2>2. ASSUME NEW s \in Settlements PROVE LinesNet(s) = 0
    <3> DEFINE g == [i \in Payments |-> IF line[i].settlement = s THEN line[i].net ELSE 0]
    <3>1. g \in [1..NPayments -> Int] /\ \A i \in 1..NPayments : g[i] = 0
      BY <2>1 DEF Payments, Settlements
    <3>2. LinesNet(s) = Total(g, NPayments) BY DEF LinesNet
    <3> HIDE DEF g
    <3> QED BY <3>1, <3>2, TotalZero, SettlementAssumption
  <2> QED BY <2>1, <2>2 DEF LineInv, LinesOfLive, GrossIsLines
<1>2. IInv /\ LineInv /\ [Next]_vars => LineInv'
  <2> SUFFICES ASSUME IInv, LineInv, [Next]_vars PROVE LineInv' OBVIOUS
  <2>1. CASE SettlementNext
    <3>1. TypeOK BY DEF IInv
    <3>2. ASSUME NEW i \in Payments, Capture(i) PROVE LineInv'
      BY <3>2, LinesUntouched DEF Capture
    <3>3. ASSUME NEW r, NEW i, NEW a, CreateRefund(r, i, a) PROVE LineInv'
      BY <3>3, LinesUntouched DEF CreateRefund
    <3>4. ASSUME NEW new, UpsertSchedule(new) PROVE LineInv'
      BY <3>4, LinesUntouched DEF UpsertSchedule
    <3> QED BY <2>1, <3>1, <3>2, <3>3, <3>4, CreateDraftLines, FinalizeLines,
               CancelSettlementLines DEF SettlementNext
  <2>2. CASE \E p \in PayoutIds : PayoutStep(p) BY <2>2, PayoutLines
  <2>3. CASE UNCHANGED vars BY <2>3, LinesUntouched DEF vars, settlementVars
  <2> QED BY <2>1, <2>2, <2>3 DEF Next
<1>3. LineInv => GrossIsLines BY DEF LineInv
<1> QED BY <1>1, <1>2, <1>3, IInvAlways, PTL DEF Spec

-----------------------------------------------------------------------------
(* The ledger *)

\* A payment accrues its fee with its capture.
FeeWithCapture == \A i \in Payments : ~payment[i].captured => payment[i].platformFees = 0

\* A journal was posted by the transaction that wrote the row it is about.
JournalsTell ==
  /\ \A i \in Payments : <<"payment_intent", i>> \in journals => payment[i].captured
  /\ \A r \in Refunds : <<"refund", r>> \in journals => refund[r].payment # 0
  /\ \A s \in Settlements : <<"settlement_finalize", s>> \in journals
                              => settlement[s].status \in {"FINALIZED", "PAID"}
  /\ \A p \in PayoutIds : <<"payout", p>> \in journals => payout[p].status = "PAID"

BooksInv == FeeWithCapture /\ NoRefundNoAmount /\ JournalsTell /\ LedgerTellsTables

\* The first journal of a source moves the accounts by its lines.
LEMMA PostMoves ==
  ASSUME LedgerTypeOK, NEW source, source \notin journals,
         NEW pending \in Int, NEW payable \in Int, NEW revenue \in Int, NEW cash \in Int,
         postBalancedJournalIdempotent(source, Lines(pending, payable, revenue, cash))
  PROVE  /\ journals' = journals \union {source}
         /\ balance'["pending_settlement"] = balance["pending_settlement"] + pending
         /\ balance'["merchant_payable"] = balance["merchant_payable"] + payable
         /\ balance'["platform_revenue"] = balance["platform_revenue"] + revenue
         /\ balance'["cash_provider"] = balance["cash_provider"] + cash
<1> DEFINE lines == Lines(pending, payable, revenue, cash)
<1>1. /\ lines["pending_settlement"] = pending /\ lines["merchant_payable"] = payable
      /\ lines["platform_revenue"] = revenue /\ lines["cash_provider"] = cash
  BY DEF Lines, Accounts
<1>2. /\ journals' = journals \union {source}
      /\ balance' = [a \in Accounts |-> balance[a] + lines[a]]
  BY DEF postBalancedJournalIdempotent
<1> HIDE DEF lines
<1> QED BY <1>1, <1>2 DEF Accounts

\* What the accounts are compared with are integers.
LEMMA BooksInt ==
  ASSUME TypeOK
  PROVE  /\ CapturedGross \in Int /\ AccruedFees \in Int /\ RefundedTotal \in Int
         /\ ChargedFees("platformFees") \in Int /\ ChargedFees("providerFees") \in Int
         /\ PaidOut \in Int
         /\ \A a \in Accounts : balance[a] \in Int
<1> DEFINE c == [i \in Payments |-> IF payment[i].captured THEN Amount[i] ELSE 0]
           a == [i \in Payments |-> payment[i].platformFees]
           r == [q \in Refunds |-> refund[q].amount]
           f == [s \in Settlements |-> IF settlement[s].status \in {"FINALIZED", "PAID"}
                                       THEN settlement[s].platformFees ELSE 0]
           g == [s \in Settlements |-> IF settlement[s].status \in {"FINALIZED", "PAID"}
                                       THEN settlement[s].providerFees ELSE 0]
           o == [p \in PayoutIds |-> IF payout[p].status = "PAID"
                                     THEN payout[p].amount ELSE 0]
<1>1. /\ NPayments \in Nat /\ NRefunds \in Nat /\ NSettlements \in Nat /\ NPayouts \in Nat
      /\ \A i \in Payments : Amount[i] \in Int
  BY SettlementAssumption, PayoutAssumption
<1>2. c \in [1..NPayments -> Int] /\ a \in [1..NPayments -> Int]
  BY <1>1 DEF TypeOK, SettlementTypeOK, Payments
<1>3. r \in [1..NRefunds -> Int] BY DEF TypeOK, SettlementTypeOK, Refunds
<1>4. f \in [1..NSettlements -> Int] /\ g \in [1..NSettlements -> Int]
  BY DEF TypeOK, SettlementTypeOK, SettlementRow, Settlements
<1>5. o \in [1..NPayouts -> Int] BY DEF TypeOK, PayoutRow, PayoutIds
<1>6. /\ CapturedGross = Total(c, NPayments) /\ AccruedFees = Total(a, NPayments)
      /\ RefundedTotal = Total(r, NRefunds)
      /\ ChargedFees("platformFees") = Total(f, NSettlements)
      /\ ChargedFees("providerFees") = Total(g, NSettlements)
      /\ PaidOut = Total(o, NPayouts)
  BY DEF CapturedGross, AccruedFees, RefundedTotal, ChargedFees, PaidOut
<1> HIDE DEF c, a, r, f, g, o
<1>7. \A x \in Accounts : balance[x] \in Int BY DEF TypeOK, LedgerTypeOK
<1> QED BY <1>1, <1>2, <1>3, <1>4, <1>5, <1>6, <1>7, TotalInt

\* A capture adds its amount and its fee to the sums.
LEMMA CaptureSums ==
  ASSUME TypeOK, FeeWithCapture, NEW i \in Payments, NEW fee \in Nat,
         ~payment[i].captured,
         payment' = [payment EXCEPT ![i] = [captured |-> TRUE, platformFees |-> fee]]
  PROVE  /\ CapturedGross' = CapturedGross + Amount[i]
         /\ AccruedFees' = AccruedFees + fee
         /\ FeeWithCapture'
<1> DEFINE c == [j \in Payments |-> IF payment[j].captured THEN Amount[j] ELSE 0]
           cNext == [j \in Payments |-> IF payment'[j].captured THEN Amount[j] ELSE 0]
           a == [j \in Payments |-> payment[j].platformFees]
           aNext == [j \in Payments |-> payment'[j].platformFees]
<1>1. /\ payment'[i].captured /\ payment'[i].platformFees = fee
      /\ payment[i].platformFees = 0
      /\ \A j \in Payments : j # i => payment'[j] = payment[j]
  BY DEF TypeOK, SettlementTypeOK, FeeWithCapture
<1>2. i \in 1..NPayments /\ NPayments \in Nat /\ \A j \in Payments : Amount[j] \in Nat
  BY SettlementAssumption DEF Payments
<1>3. \A j \in Payments : payment[j].platformFees \in Nat /\ payment'[j].platformFees \in Nat
  BY <1>1 DEF TypeOK, SettlementTypeOK
<1>4. /\ c \in [1..NPayments -> Int] /\ cNext \in [1..NPayments -> Int]
      /\ a \in [1..NPayments -> Int] /\ aNext \in [1..NPayments -> Int]
  BY <1>2, <1>3 DEF Payments
<1>5. /\ \A j \in 1..NPayments : j # i => cNext[j] = c[j] /\ aNext[j] = a[j]
      /\ c[i] = 0 /\ cNext[i] = Amount[i] /\ a[i] = 0 /\ aNext[i] = fee
  BY <1>1 DEF Payments
<1>6. /\ CapturedGross = Total(c, NPayments) /\ CapturedGross' = Total(cNext, NPayments)
      /\ AccruedFees = Total(a, NPayments) /\ AccruedFees' = Total(aNext, NPayments)
  BY DEF CapturedGross, AccruedFees
<1> HIDE DEF c, cNext, a, aNext
<1>7. Total(cNext, NPayments) = Total(c, NPayments) + (cNext[i] - c[i])
  BY <1>2, <1>4, <1>5, TotalUpdate
<1>8. Total(aNext, NPayments) = Total(a, NPayments) + (aNext[i] - a[i])
  BY <1>2, <1>4, <1>5, TotalUpdate
<1>9. FeeWithCapture' BY <1>1 DEF FeeWithCapture
<1> QED BY <1>2, <1>5, <1>6, <1>7, <1>8, <1>9

\* Finalising a draft adds its fees to those charged.
LEMMA FinalizeSums ==
  ASSUME TypeOK, NEW s \in Settlements, NEW row \in SettlementRow,
         settlement[s].status = "DRAFT", row.status = "FINALIZED",
         settlement' = [settlement EXCEPT ![s] = row]
  PROVE  /\ ChargedFees("platformFees")' = ChargedFees("platformFees") + row.platformFees
         /\ ChargedFees("providerFees")' = ChargedFees("providerFees") + row.providerFees
<1> DEFINE f == [t \in Settlements |-> IF settlement[t].status \in {"FINALIZED", "PAID"}
                                       THEN settlement[t].platformFees ELSE 0]
           fNext == [t \in Settlements |-> IF settlement'[t].status \in {"FINALIZED", "PAID"}
                                           THEN settlement'[t].platformFees ELSE 0]
           g == [t \in Settlements |-> IF settlement[t].status \in {"FINALIZED", "PAID"}
                                       THEN settlement[t].providerFees ELSE 0]
           gNext == [t \in Settlements |-> IF settlement'[t].status \in {"FINALIZED", "PAID"}
                                           THEN settlement'[t].providerFees ELSE 0]
<1>1. /\ settlement \in [Settlements -> SettlementRow]
      /\ settlement' \in [Settlements -> SettlementRow]
      /\ settlement'[s] = row
      /\ \A t \in Settlements : t # s => settlement'[t] = settlement[t]
  BY DEF TypeOK, SettlementTypeOK
<1>2. s \in 1..NSettlements /\ NSettlements \in Nat
  BY SettlementAssumption DEF Settlements
<1>3. /\ f \in [1..NSettlements -> Int] /\ fNext \in [1..NSettlements -> Int]
      /\ g \in [1..NSettlements -> Int] /\ gNext \in [1..NSettlements -> Int]
  BY <1>1 DEF SettlementRow, Settlements
<1>4. /\ \A t \in 1..NSettlements : t # s => fNext[t] = f[t] /\ gNext[t] = g[t]
      /\ f[s] = 0 /\ fNext[s] = row.platformFees
      /\ g[s] = 0 /\ gNext[s] = row.providerFees
  BY <1>1 DEF Settlements
<1>5. /\ ChargedFees("platformFees") = Total(f, NSettlements)
      /\ ChargedFees("platformFees")' = Total(fNext, NSettlements)
      /\ ChargedFees("providerFees") = Total(g, NSettlements)
      /\ ChargedFees("providerFees")' = Total(gNext, NSettlements)
  BY DEF ChargedFees
<1>6. row.platformFees \in Nat /\ row.providerFees \in Nat BY DEF SettlementRow
<1> HIDE DEF f, fNext, g, gNext
<1>7. Total(fNext, NSettlements) = Total(f, NSettlements) + (fNext[s] - f[s])
  BY <1>2, <1>3, <1>4, TotalUpdate
<1>8. Total(gNext, NSettlements) = Total(g, NSettlements) + (gNext[s] - g[s])
  BY <1>2, <1>3, <1>4, TotalUpdate
<1> QED BY <1>4, <1>5, <1>6, <1>7, <1>8

\* Nothing is charged by a step that finalises no settlement.
LEMMA ChargedSame ==
  ASSUME \A s \in Settlements :
           LET charged(row) == row.status \in {"FINALIZED", "PAID"}
           IN  \/ ~charged(settlement[s]) /\ ~charged(settlement'[s])
               \/ /\ charged(settlement[s]) /\ charged(settlement'[s])
                  /\ settlement'[s].platformFees = settlement[s].platformFees
                  /\ settlement'[s].providerFees = settlement[s].providerFees
  PROVE  /\ ChargedFees("platformFees")' = ChargedFees("platformFees")
         /\ ChargedFees("providerFees")' = ChargedFees("providerFees")
<1> DEFINE f == [t \in Settlements |-> IF settlement[t].status \in {"FINALIZED", "PAID"}
                                       THEN settlement[t].platformFees ELSE 0]
           fNext == [t \in Settlements |-> IF settlement'[t].status \in {"FINALIZED", "PAID"}
                                           THEN settlement'[t].platformFees ELSE 0]
           g == [t \in Settlements |-> IF settlement[t].status \in {"FINALIZED", "PAID"}
                                       THEN settlement[t].providerFees ELSE 0]
           gNext == [t \in Settlements |-> IF settlement'[t].status \in {"FINALIZED", "PAID"}
                                           THEN settlement'[t].providerFees ELSE 0]
<1>1. f = fNext /\ g = gNext OBVIOUS
<1>2. /\ ChargedFees("platformFees") = Total(f, NSettlements)
      /\ ChargedFees("platformFees")' = Total(fNext, NSettlements)
      /\ ChargedFees("providerFees") = Total(g, NSettlements)
      /\ ChargedFees("providerFees")' = Total(gNext, NSettlements)
  BY DEF ChargedFees
<1> QED BY <1>1, <1>2

\* Writing a payout's row changes what has been paid out by what it paid.
LEMMA PaidOutUpdate ==
  ASSUME TypeOK, NEW p \in PayoutIds, NEW row \in PayoutRow,
         payout' = [payout EXCEPT ![p] = row], payout[p].status # "PAID"
  PROVE  PaidOut' = PaidOut + (IF row.status = "PAID" THEN row.amount ELSE 0)
<1> DEFINE o == [q \in PayoutIds |-> IF payout[q].status = "PAID"
                                     THEN payout[q].amount ELSE 0]
           oNext == [q \in PayoutIds |-> IF payout'[q].status = "PAID"
                                         THEN payout'[q].amount ELSE 0]
<1>1. /\ payout \in [PayoutIds -> PayoutRow] /\ payout' \in [PayoutIds -> PayoutRow]
      /\ payout'[p] = row /\ \A q \in PayoutIds : q # p => payout'[q] = payout[q]
  BY DEF TypeOK
<1>2. p \in 1..NPayouts /\ NPayouts \in Nat BY PayoutAssumption DEF PayoutIds
<1>3. o \in [1..NPayouts -> Int] /\ oNext \in [1..NPayouts -> Int]
  BY <1>1 DEF PayoutRow, PayoutIds
<1>4. /\ \A q \in 1..NPayouts : q # p => oNext[q] = o[q]
      /\ o[p] = 0 /\ oNext[p] = IF row.status = "PAID" THEN row.amount ELSE 0
  BY <1>1 DEF PayoutIds
<1>5. PaidOut = Total(o, NPayouts) /\ PaidOut' = Total(oNext, NPayouts)
  BY DEF PaidOut
<1>6. row.amount \in Nat BY DEF PayoutRow
<1> HIDE DEF o, oNext
<1>7. Total(oNext, NPayouts) = Total(o, NPayouts) + (oNext[p] - o[p])
  BY <1>2, <1>3, <1>4, TotalUpdate
<1> QED BY <1>4, <1>5, <1>6, <1>7

\* A capture is booked once, with the fee it accrues.
LEMMA CaptureBooks ==
  ASSUME TypeOK, BooksInv, NEW i \in Payments, Capture(i), payout' = payout
  PROVE  BooksInv'
<1> DEFINE fee == computePlatformFeeMinor(Amount[i], schedule)
<1>1. /\ ~payment[i].captured
      /\ payment' = [payment EXCEPT ![i] = [captured |-> TRUE, platformFees |-> fee]]
      /\ postPaymentSucceeded(i, Amount[i], fee)
      /\ UNCHANGED <<refund, schedule, settlement, line>>
  BY DEF Capture
<1>2. Amount[i] \in Nat /\ schedule \in Schedule
  BY SettlementAssumption DEF TypeOK, SettlementTypeOK
<1>3. fee \in Nat BY <1>2, FeeNat
<1> HIDE DEF fee
<1>4. <<"payment_intent", i>> \notin journals BY <1>1 DEF BooksInv, JournalsTell
<1>5. /\ journals' = journals \union {<<"payment_intent", i>>}
      /\ balance'["pending_settlement"] = balance["pending_settlement"] + Amount[i]
      /\ balance'["merchant_payable"] = balance["merchant_payable"] + (-(Amount[i] - fee))
      /\ balance'["platform_revenue"] = balance["platform_revenue"] + (-fee)
      /\ balance'["cash_provider"] = balance["cash_provider"] + 0
  <2>1. Amount[i] \in Int /\ -(Amount[i] - fee) \in Int /\ -fee \in Int BY <1>2, <1>3
  <2> QED BY <1>1, <1>4, <2>1, PostMoves DEF postPaymentSucceeded, TypeOK
<1>6. /\ CapturedGross' = CapturedGross + Amount[i]
      /\ AccruedFees' = AccruedFees + fee
      /\ FeeWithCapture'
  BY <1>1, <1>3, CaptureSums DEF BooksInv
<1>7. /\ RefundedTotal' = RefundedTotal /\ PaidOut' = PaidOut
      /\ ChargedFees("platformFees")' = ChargedFees("platformFees")
      /\ ChargedFees("providerFees")' = ChargedFees("providerFees")
  BY <1>1 DEF RefundedTotal, PaidOut, ChargedFees
<1>8. JournalsTell'
  <2>1. payment'[i].captured /\ \A j \in Payments : j # i => payment'[j] = payment[j]
    BY <1>1 DEF TypeOK, SettlementTypeOK
  <2> QED BY <1>1, <1>5, <2>1 DEF BooksInv, JournalsTell
<1>9. LedgerTellsTables'
  BY <1>2, <1>3, <1>5, <1>6, <1>7, BooksInt DEF BooksInv, LedgerTellsTables, Accounts
<1> QED BY <1>1, <1>6, <1>8, <1>9 DEF BooksInv, NoRefundNoAmount

\* A refund is booked once.
LEMMA CreateRefundBooks ==
  ASSUME TypeOK, BooksInv, NEW r \in Refunds, NEW i \in Payments,
         NEW a \in RefundAmounts, CreateRefund(r, i, a), payout' = payout
  PROVE  BooksInv'
<1>1. /\ refund[r].payment = 0
      /\ refund' = [refund EXCEPT ![r] = [payment |-> i, amount |-> a]]
      /\ postRefund(r, a)
      /\ UNCHANGED <<payment, schedule, settlement, line>>
  BY DEF CreateRefund, NextRefund
<1>2. a \in Nat BY SettlementAssumption
<1>3. <<"refund", r>> \notin journals BY <1>1 DEF BooksInv, JournalsTell
<1>4. /\ journals' = journals \union {<<"refund", r>>}
      /\ balance'["pending_settlement"] = balance["pending_settlement"] + (-a)
      /\ balance'["merchant_payable"] = balance["merchant_payable"] + a
      /\ balance'["platform_revenue"] = balance["platform_revenue"] + 0
      /\ balance'["cash_provider"] = balance["cash_provider"] + 0
  <2>1. -a \in Int /\ a \in Int BY <1>2
  <2> QED BY <1>1, <1>3, <2>1, PostMoves DEF postRefund, TypeOK
<1>5. RefundedTotal' = RefundedTotal + a /\ NoRefundNoAmount'
  BY <1>1, <1>2, RefundInserted DEF BooksInv, TypeOK
<1>6. /\ CapturedGross' = CapturedGross /\ AccruedFees' = AccruedFees
      /\ PaidOut' = PaidOut
      /\ ChargedFees("platformFees")' = ChargedFees("platformFees")
      /\ ChargedFees("providerFees")' = ChargedFees("providerFees")
  BY <1>1 DEF CapturedGross, AccruedFees, PaidOut, ChargedFees
<1>7. JournalsTell'
  <2>1. /\ refund'[r].payment = i /\ i # 0
        /\ \A q \in Refunds : q # r => refund'[q] = refund[q]
    BY <1>1 DEF TypeOK, SettlementTypeOK, Payments
  <2> QED BY <1>1, <1>4, <2>1 DEF BooksInv, JournalsTell
<1>8. LedgerTellsTables'
  BY <1>2, <1>4, <1>5, <1>6, BooksInt DEF BooksInv, LedgerTellsTables, Accounts
<1> QED BY <1>1, <1>5, <1>7, <1>8 DEF BooksInv, FeeWithCapture

\* The fees of a finalised settlement are booked once, unless both are 0.
LEMMA FinalizeBooks ==
  ASSUME TypeOK, BooksInv, NEW s \in Settlements, Finalize(s), payout' = payout
  PROVE  BooksInv'
<1> DEFINE gross    == LinesNet(s)
           platform == IF gross = 0 THEN 0 ELSE computePlatformFeeMinor(gross, schedule)
           provider == IF gross = 0 THEN 0 ELSE settlement[s].providerFees
           adjusted == IF gross = 0 THEN 0 ELSE settlement[s].adjustments
           net      == settlementNet(gross, provider, platform, adjusted)
           row      == [status |-> "FINALIZED", gross |-> gross,
                        platformFees |-> platform, providerFees |-> provider,
                        adjustments |-> adjusted, net |-> net]
<1>1. /\ settlement[s].status = "DRAFT"
      /\ settlement' = [settlement EXCEPT ![s] = row]
      /\ postSettlementFinalizeFees(s, platform, provider)
      /\ UNCHANGED <<payment, refund, schedule, line>>
  BY DEF Finalize
<1> HIDE DEF platform, provider
<1>2. row.status = "FINALIZED" /\ row.platformFees = platform /\ row.providerFees = provider
  OBVIOUS
<1> HIDE DEF row
<1>3. row \in SettlementRow
  <2>1. settlement' \in [Settlements -> SettlementRow]
    BY FinalizeKeeps DEF SettlementsKept, SettlementTypeOK
  <2>2. settlement \in [Settlements -> SettlementRow] BY DEF TypeOK, SettlementTypeOK
  <2> QED BY <1>1, <2>1, <2>2
<1>4. platform \in Nat /\ provider \in Nat BY <1>2, <1>3 DEF SettlementRow
<1>5. <<"settlement_finalize", s>> \notin journals BY <1>1 DEF BooksInv, JournalsTell
<1>6. postSettlementFinalizeFees(s, platform, provider) BY <1>1
<1>7. /\ ChargedFees("platformFees")' = ChargedFees("platformFees") + platform
      /\ ChargedFees("providerFees")' = ChargedFees("providerFees") + provider
  BY <1>1, <1>2, <1>3, FinalizeSums
<1>8. /\ journals' \subseteq journals \union {<<"settlement_finalize", s>>}
      /\ balance'["pending_settlement"] = balance["pending_settlement"] + 0
      /\ balance'["merchant_payable"] = balance["merchant_payable"] + (platform + provider)
      /\ balance'["platform_revenue"] = balance["platform_revenue"] + (-platform)
      /\ balance'["cash_provider"] = balance["cash_provider"] + (-provider)
  <2>1. CASE platform + provider = 0
    <3>1. platform = 0 /\ provider = 0 BY <1>4, <2>1
    <3>2. balance' = balance /\ journals' = journals
      BY <1>6, <2>1 DEF postSettlementFinalizeFees, ledgerVars
    <3>3. \A x \in Accounts : balance[x] \in Int BY DEF TypeOK, LedgerTypeOK
    <3> QED BY <3>1, <3>2, <3>3 DEF Accounts
  <2>2. CASE platform + provider # 0
    <3>1. platform + provider \in Int /\ -platform \in Int /\ -provider \in Int BY <1>4
    <3>2. postBalancedJournalIdempotent(<<"settlement_finalize", s>>,
            Lines(0, platform + provider, -platform, -provider))
      BY <1>6, <2>2 DEF postSettlementFinalizeFees
    <3> QED BY <1>5, <3>1, <3>2, PostMoves DEF TypeOK
  <2> QED BY <2>1, <2>2
<1>9. /\ CapturedGross' = CapturedGross /\ AccruedFees' = AccruedFees
      /\ RefundedTotal' = RefundedTotal /\ PaidOut' = PaidOut
  BY <1>1 DEF CapturedGross, AccruedFees, RefundedTotal, PaidOut
<1>10. JournalsTell'
  <2>1. /\ settlement'[s].status = "FINALIZED"
        /\ \A t \in Settlements : t # s => settlement'[t] = settlement[t]
    BY <1>1, <1>2 DEF TypeOK, SettlementTypeOK
  <2> QED BY <1>1, <1>8, <2>1 DEF BooksInv, JournalsTell
<1>11. LedgerTellsTables'
  BY <1>4, <1>7, <1>8, <1>9, BooksInt DEF BooksInv, LedgerTellsTables, Accounts
<1> QED BY <1>1, <1>10, <1>11 DEF BooksInv, NoRefundNoAmount, FeeWithCapture

\* What leaves the ledger and its rows alone leaves the books alone.
LEMMA BooksUntouched ==
  ASSUME BooksInv, UNCHANGED <<payment, refund, ledgerVars>>, PaidOut' = PaidOut,
         \A p \in PayoutIds : payout[p].status = "PAID" => payout'[p].status = "PAID",
         \A s \in Settlements :
           LET charged(row) == row.status \in {"FINALIZED", "PAID"}
           IN  \/ ~charged(settlement[s]) /\ ~charged(settlement'[s])
               \/ /\ charged(settlement[s]) /\ charged(settlement'[s])
                  /\ settlement'[s].platformFees = settlement[s].platformFees
                  /\ settlement'[s].providerFees = settlement[s].providerFees
  PROVE  BooksInv'
<1>1. /\ ChargedFees("platformFees")' = ChargedFees("platformFees")
      /\ ChargedFees("providerFees")' = ChargedFees("providerFees")
  BY ChargedSame
<1>2. /\ CapturedGross' = CapturedGross /\ AccruedFees' = AccruedFees
      /\ RefundedTotal' = RefundedTotal
  BY DEF CapturedGross, AccruedFees, RefundedTotal
<1>3. balance' = balance /\ journals' = journals BY DEF ledgerVars
<1>4. LedgerTellsTables' BY <1>1, <1>2, <1>3 DEF BooksInv, LedgerTellsTables
<1>5. JournalsTell' BY <1>3 DEF BooksInv, JournalsTell
<1> QED BY <1>4, <1>5 DEF BooksInv, NoRefundNoAmount, FeeWithCapture

\* A step of Settlements keeps the books.
LEMMA SettlementBooks ==
  ASSUME TypeOK, BooksInv, SettlementNext, UNCHANGED payoutVars
  PROVE  BooksInv'
<1>1. payout' = payout /\ PaidOut' = PaidOut BY DEF payoutVars, PaidOut
<1>2. settlement \in [Settlements -> SettlementRow] BY DEF TypeOK, SettlementTypeOK
<1>3. ASSUME NEW s \in Settlements, NEW first \in Payments, NEW last \in Payments,
             NEW f \in ProviderFees, NEW a \in Adjustments,
             CreateDraft(s, first, last, f, a)
      PROVE  BooksInv'
  <2>1. UNCHANGED <<payment, refund, ledgerVars>> BY <1>3 DEF CreateDraft
  <2>2. settlement[s].status = "ABSENT" BY <1>3 DEF CreateDraft, NextSettlement
  <2>3. \E row : row.status = "DRAFT" /\ settlement' = [settlement EXCEPT ![s] = row]
    BY <1>3 DEF CreateDraft
  <2>4. settlement'[s].status = "DRAFT"
        /\ \A t \in Settlements : t # s => settlement'[t] = settlement[t]
    BY <1>2, <2>3
  <2> QED BY <1>1, <2>1, <2>2, <2>4, BooksUntouched
<1>4. ASSUME NEW s \in Settlements, CancelSettlement(s) PROVE BooksInv'
  <2>1. /\ UNCHANGED <<payment, refund, ledgerVars>> /\ settlement[s].status = "DRAFT"
        /\ settlement' = [settlement EXCEPT ![s].status = "CANCELLED"]
    BY <1>4 DEF CancelSettlement
  <2>2. settlement'[s].status = "CANCELLED"
        /\ \A t \in Settlements : t # s => settlement'[t] = settlement[t]
    BY <1>2, <2>1 DEF SettlementRow
  <2> QED BY <1>1, <2>1, <2>2, BooksUntouched
<1>5. ASSUME NEW new, UpsertSchedule(new) PROVE BooksInv'
  <2>1. UNCHANGED <<payment, refund, settlement, ledgerVars>> BY <1>5 DEF UpsertSchedule
  <2> QED BY <1>1, <2>1, BooksUntouched
<1> QED BY <1>1, <1>3, <1>4, <1>5, CaptureBooks, CreateRefundBooks, FinalizeBooks
     DEF SettlementNext

\* A payout is booked once, when markPaid commits.
LEMMA CommitPaidBooks ==
  ASSUME IInv, BooksInv, NEW p \in PayoutIds, CommitPaid(p)
  PROVE  BooksInv'
<1> DEFINE amount == payout[p].amount
           row == [payout[p] EXCEPT !.status = "PAID"]
<1>1. /\ tx[p].op = "markPaid"
      /\ payout' = [payout EXCEPT ![p] = row]
      /\ postPayoutPaid(p, amount)
      /\ UNCHANGED <<payment, refund, schedule, line>>
  BY DEF CommitPaid
<1>2. payout[p].status = "SUBMITTED" BY <1>1 DEF IInv, OpenMarkPaidHolds
<1>3. payout \in [PayoutIds -> PayoutRow] BY DEF IInv, TypeOK
<1>4. /\ amount \in Nat /\ row \in PayoutRow /\ row.status = "PAID"
      /\ row.amount = amount
  BY <1>3 DEF PayoutRow, PayoutStatus
<1>5. <<"payout", p>> \notin journals BY <1>2 DEF BooksInv, JournalsTell
<1> HIDE DEF amount, row
<1>6. /\ journals' = journals \union {<<"payout", p>>}
      /\ balance'["pending_settlement"] = balance["pending_settlement"] + 0
      /\ balance'["merchant_payable"] = balance["merchant_payable"] + amount
      /\ balance'["platform_revenue"] = balance["platform_revenue"] + 0
      /\ balance'["cash_provider"] = balance["cash_provider"] + (-amount)
  <2>1. amount \in Int /\ -amount \in Int BY <1>4
  <2> QED BY <1>1, <1>5, <2>1, PostMoves DEF postPayoutPaid, IInv, TypeOK
<1>7. PaidOut' = PaidOut + amount
  BY <1>1, <1>2, <1>4, PaidOutUpdate DEF IInv
<1>8. /\ CapturedGross' = CapturedGross /\ AccruedFees' = AccruedFees
      /\ RefundedTotal' = RefundedTotal
  BY <1>1 DEF CapturedGross, AccruedFees, RefundedTotal
<1>9. ASSUME NEW t \in Settlements
      PROVE  \/ settlement'[t] = settlement[t]
             \/ /\ settlement[t].status \in {"FINALIZED", "PAID"}
                /\ settlement'[t].status = "PAID"
                /\ settlement'[t].platformFees = settlement[t].platformFees
                /\ settlement'[t].providerFees = settlement[t].providerFees
  <2>1. settlement \in [Settlements -> SettlementRow]
    BY DEF IInv, TypeOK, SettlementTypeOK
  <2>2. ASSUME NEW s \in Settlements, settlement[s].status \in {"FINALIZED", "PAID"},
               settlement' = [settlement EXCEPT ![s].status = "PAID"], t = s
        PROVE  /\ settlement'[t].status = "PAID"
               /\ settlement'[t].platformFees = settlement[t].platformFees
               /\ settlement'[t].providerFees = settlement[t].providerFees
    <3>1. settlement'[t] = [settlement[t] EXCEPT !.status = "PAID"] BY <2>1, <2>2
    <3>2. settlement[t] \in SettlementRow BY <2>1
    <3> QED BY <3>1, <3>2 DEF SettlementRow
  <2>3. ASSUME NEW s \in Settlements, t # s,
               settlement' = [settlement EXCEPT ![s].status = "PAID"]
        PROVE  settlement'[t] = settlement[t]
    BY <2>1, <2>3
  <2>4. PayoutStep(p) BY DEF PayoutStep
  <2> QED BY <2>2, <2>3, <2>4, PayoutStepSettlement
<1>10. /\ ChargedFees("platformFees")' = ChargedFees("platformFees")
       /\ ChargedFees("providerFees")' = ChargedFees("providerFees")
  BY <1>9, ChargedSame
<1>11. LedgerTellsTables'
  BY <1>4, <1>6, <1>7, <1>8, <1>10, BooksInt
     DEF BooksInv, LedgerTellsTables, Accounts, IInv
<1>12. JournalsTell'
  <2>1. payout'[p].status = "PAID" /\ \A q \in PayoutIds : q # p => payout'[q] = payout[q]
    BY <1>1, <1>3, <1>4
  <2>2. \A t \in Settlements : settlement[t].status \in {"FINALIZED", "PAID"}
                                 => settlement'[t].status \in {"FINALIZED", "PAID"}
    BY <1>9
  <2> QED BY <1>1, <1>6, <2>1, <2>2 DEF BooksInv, JournalsTell
<1> QED BY <1>1, <1>11, <1>12 DEF BooksInv, NoRefundNoAmount, FeeWithCapture

\* The other steps of a payout book nothing and pay nothing.
LEMMA PayoutBooks ==
  ASSUME IInv, BooksInv, NEW p \in PayoutIds, PayoutStep(p)
  PROVE  BooksInv'
<1>1. CASE CommitPaid(p) BY <1>1, CommitPaidBooks
<1>2. CASE ~CommitPaid(p)
  <2>1. settlement' = settlement BY <1>2, PayoutStepSettlement
  <2>2. UNCHANGED <<payment, refund>> BY PayoutStepLeaves
  <2>3. UNCHANGED ledgerVars
    BY <1>2 DEF PayoutStep, CreatePayout, InsertPayout, SubmitPayout, ApprovePayout,
                FailPayout, CancelPayout, MarkPaid, Rollback, Update
  <2>4. \/ payout' = payout
        \/ \E row \in PayoutRow : /\ payout' = [payout EXCEPT ![p] = row]
                                  /\ payout[p].status # "PAID" /\ row.status # "PAID"
    BY <1>2, PayoutStepRow
  <2>5. /\ PaidOut' = PaidOut
        /\ \A q \in PayoutIds : payout[q].status = "PAID" => payout'[q].status = "PAID"
    <3>1. CASE payout' = payout BY <3>1 DEF PaidOut
    <3>2. ASSUME NEW row \in PayoutRow, payout' = [payout EXCEPT ![p] = row],
                 payout[p].status # "PAID", row.status # "PAID"
          PROVE  /\ PaidOut' = PaidOut
                 /\ \A q \in PayoutIds :
                      payout[q].status = "PAID" => payout'[q].status = "PAID"
      <4>1. PaidOut' = PaidOut + 0 /\ PaidOut \in Int
        BY <3>2, PaidOutUpdate, BooksInt DEF IInv
      <4>2. \A q \in PayoutIds : q # p => payout'[q] = payout[q]
        BY <3>2 DEF IInv, TypeOK
      <4> QED BY <3>2, <4>1, <4>2
    <3> QED BY <2>4, <3>1, <3>2
  <2> QED BY <2>1, <2>2, <2>3, <2>5, BooksUntouched
<1> QED BY <1>1, <1>2

\* I4 and the posting rules, over every history of captures, refunds, drafts,
\* finalisations and payouts: each is journaled once, and the balances the ledger
\* reports are the ones the tables add up to.
THEOREM LedgerAgreesWithTables == Spec => []LedgerTellsTables
<1>1. Init => BooksInv
  <2> SUFFICES ASSUME Init PROVE BooksInv OBVIOUS
  <2>1. /\ \A i \in Payments : ~payment[i].captured /\ payment[i].platformFees = 0
        /\ \A r \in Refunds : refund[r].payment = 0 /\ refund[r].amount = 0
        /\ \A s \in Settlements : settlement[s].status = "ABSENT"
        /\ \A p \in PayoutIds : payout[p].status = "ABSENT"
        /\ journals = {}
        /\ \A a \in Accounts : balance[a] = 0
    BY DEF Init, SettlementInit, LedgerInit
  <2> DEFINE zero(n) == [j \in 1..n |-> 0]
  <2>2. ASSUME NEW n \in Nat PROVE Total(zero(n), n) = 0
    <3>1. zero(n) \in [1..n -> Int] /\ \A j \in 1..n : zero(n)[j] = 0 OBVIOUS
    <3> HIDE DEF zero
    <3> QED BY <3>1, TotalZero
  <2>3. /\ CapturedGross = Total(zero(NPayments), NPayments)
        /\ AccruedFees = Total(zero(NPayments), NPayments)
    BY <2>1 DEF CapturedGross, AccruedFees, Payments
  <2>4. RefundedTotal = Total(zero(NRefunds), NRefunds)
    BY <2>1 DEF RefundedTotal, Refunds
  <2>5. /\ ChargedFees("platformFees") = Total(zero(NSettlements), NSettlements)
        /\ ChargedFees("providerFees") = Total(zero(NSettlements), NSettlements)
    BY <2>1 DEF ChargedFees, Settlements
  <2>6. PaidOut = Total(zero(NPayouts), NPayouts)
    BY <2>1 DEF PaidOut, PayoutIds
  <2> HIDE DEF zero
  <2>7. LedgerTellsTables
    <3>1. /\ CapturedGross = 0 /\ AccruedFees = 0 /\ RefundedTotal = 0 /\ PaidOut = 0
          /\ ChargedFees("platformFees") = 0 /\ ChargedFees("providerFees") = 0
      BY <2>2, <2>3, <2>4, <2>5, <2>6, SettlementAssumption, PayoutAssumption
    <3> QED BY <2>1, <3>1 DEF LedgerTellsTables, Accounts
  <2> QED BY <2>1, <2>7 DEF BooksInv, FeeWithCapture, NoRefundNoAmount, JournalsTell
<1>2. IInv /\ BooksInv /\ [Next]_vars => BooksInv'
  <2> SUFFICES ASSUME IInv, BooksInv, [Next]_vars PROVE BooksInv' OBVIOUS
  <2>1. CASE SettlementNext /\ UNCHANGED payoutVars BY <2>1, SettlementBooks DEF IInv
  <2>2. CASE \E p \in PayoutIds : PayoutStep(p) BY <2>2, PayoutBooks
  <2>3. CASE UNCHANGED vars
    <3>1. /\ UNCHANGED <<payment, refund, settlement, payout, ledgerVars>>
          /\ PaidOut' = PaidOut
      BY <2>3 DEF vars, settlementVars, payoutVars, PaidOut
    <3> QED BY <3>1, BooksUntouched
  <2> QED BY <2>1, <2>2, <2>3 DEF Next
<1>3. BooksInv => LedgerTellsTables BY DEF BooksInv
<1> QED BY <1>1, <1>2, <1>3, IInvAlways, PTL DEF Spec
=============================================================================
