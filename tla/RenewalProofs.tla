---------------------------- MODULE RenewalProofs ----------------------------
(***************************************************************************)
(* Theorems about Renewal, for any number of subscriptions, handlers and   *)
(* lost handlers, any number of periods and any time.                      *)
(***************************************************************************)
EXTENDS Renewal, TLAPS

-----------------------------------------------------------------------------
(***************************************************************************)
(* The inductive invariant.                                                *)
(***************************************************************************)

\* What is kept of an attempt that has not succeeded: the invoice may be tried
\* again.
Unsuccessful == {"AMBIGUOUS", "TIMEOUT", "PENDING", "FAILED"}

\* The attempts at an invoice before the n-th were answered, and none of them
\* by a success; and they were recorded.
Answered(s, p, n) ==
  \A m \in Attempts : m < n => providerTx[<<s, p, m>>] \in Unsuccessful
Recorded(s, p, n) ==
  \A m \in Attempts : m < n => attempt[<<s, p, m>>] \notin {"none", "SUCCEEDED"}

\* The answer kept under a key is what the provider decided, as far as it
\* names a decision; the recorded outcome is the one of that answer; a charge
\* is made only after the earlier attempts were answered.
KeyInv(k) ==
  /\ providerTx[k] = "SUCCEEDED" => charge[k] = "TAKEN"
  /\ providerTx[k] = "FAILED" => charge[k] = "REFUSED"
  /\ statusTx[k] = "SUCCEEDED" => charge[k] = "TAKEN"
  /\ attempt[k] # "none" => /\ providerTx[k] # "none"
                            /\ attempt[k] = outcomeOf(providerTx[k])
  /\ charge[k] # "none" => Answered(k[1], k[2], k[3])

\* What a handler carries from one of its phases to the next.
HandlerInv(h) ==
  LET key == handler[h].key
      answer == handler[h].answer
  IN handler[h].pc # "idle" =>
       /\ sub[key[1]].status # "none"
       /\ Answered(key[1], key[2], key[3])
       /\ Recorded(key[1], key[2], key[3])
       /\ handler[h].pc = "recovered" =>
            key[3] > 1 /\ charge[priorKey(key)] = "TAKEN"
       /\ handler[h].pc = "charging" =>
            /\ answer # "none"
            /\ answer = "SUCCEEDED" => charge[key] = "TAKEN"
            /\ answer = "FAILED" => charge[key] = "REFUSED"
       /\ handler[h].pc = "collected" => answer # "none" /\ providerTx[key] = answer

\* The count of an invoice is that of its answered and recorded attempts; only
\* on a PAID one may the last of them have succeeded.
InvoiceInv(s, p) ==
  LET n == invoice[s][p].count
  IN /\ Answered(s, p, n) /\ Recorded(s, p, n)
     /\ invoice[s][p].status # "PAID" =>
          Answered(s, p, n + 1) /\ Recorded(s, p, n + 1)
     /\ invoice[s][p].status = "PAID" =>
          \E m \in Attempts : charge[<<s, p, m>>] = "TAKEN"

\* As long as no two handlers held it at once: a subscription has one handler
\* at most, which collects for the period the subscription is in.
AloneInv(s) ==
  sub[s].status # "none" /\ ~overlapped[s] =>
    /\ sub[s].period <= MaxPeriod + 1
    /\ \A p \in Periods : invoice[s][p].status = "PAID" <=> p < sub[s].period
    /\ \A h \in Handlers : holds(h, s) => handler[h].key[2] = sub[s].period
    /\ \A g, h \in Handlers : holds(g, s) /\ holds(h, s) => g = h

\* Before there is a subscription nothing is held, paid or scanned of it.
NewInv(s) ==
  sub[s].status = "none" =>
    /\ candidate[s] = "none"
    /\ \A p \in Periods : invoice[s][p].status # "PAID"
    /\ \A h \in Handlers : ~holds(h, s)

\* Three attempts at one of its invoices were refused or left open.
Exhausted(s) ==
  \E p \in Periods :
    /\ \A n \in Attempts : attempt[<<s, p, n>>] \notin {"none", "SUCCEEDED"}
    /\ attempt[<<s, p, MAX_COLLECTION_ATTEMPTS>>] = "FAILED"

SubInv(s) ==
  /\ NewInv(s)
  /\ AloneInv(s)
  /\ sub[s].status \in {"UNPAID", "EXPIRED"} => Exhausted(s)

IInv ==
  /\ TypeOK
  /\ \A k \in Keys : KeyInv(k)
  /\ \A h \in Handlers : HandlerInv(h)
  /\ \A s \in Subs, p \in Periods : InvoiceInv(s, p)
  /\ \A s \in Subs : SubInv(s)

-----------------------------------------------------------------------------
(***************************************************************************)
(* Keys, rows and local states.                                            *)
(***************************************************************************)

LEMMA KeyFacts ==
  /\ \A s \in Subs, p \in Periods, n \in Attempts : <<s, p, n>> \in Keys
  /\ \A k \in Keys : /\ k[1] \in Subs /\ k[2] \in Periods /\ k[3] \in Attempts
                     /\ k = <<k[1], k[2], k[3]>>
  /\ \A k \in Keys : \A s, p, n : k = <<s, p, n>> <=> k[1] = s /\ k[2] = p /\ k[3] = n
  BY DEF Keys

LEMMA AttemptNumbers == Attempts = 1..3 /\ Attempts \subseteq Nat
  BY DEF Attempts, MAX_COLLECTION_ATTEMPTS

LEMMA PriorFacts ==
  ASSUME NEW k \in Keys, k[3] > 1
  PROVE  priorKey(k) \in Keys /\ priorKey(k) = <<k[1], k[2], k[3] - 1>>
<1>1. k[1] \in Subs /\ k[2] \in Periods /\ k[3] - 1 \in Attempts
  BY KeyFacts, AttemptNumbers
<1>2. QED
  BY <1>1, KeyFacts DEF priorKey

\* A handler that is not idle has a key and an answer.
LEMMA LocalFacts ==
  ASSUME TypeOK, NEW h \in Handlers
  PROVE  /\ handler[h] \in LocalStates
         /\ handler[h] = Idle <=> handler[h].pc = "idle"
         /\ handler[h].pc # "idle" =>
              /\ handler[h] \in [pc : {"prepared", "cleared", "recovered", "charging",
                                       "collected"},
                                 key : Keys, answer : Answers \cup {"none"}]
              /\ handler[h].key \in Keys
              /\ handler[h].answer \in Answers \cup {"none"}
  BY DEF TypeOK, LocalStates, Idle

LEMMA RowFacts ==
  ASSUME TypeOK, NEW s \in Subs
  PROVE  /\ sub[s].status = "none" => sub[s] = NoSubscription
         /\ sub[s].status # "none" => sub[s] \in SubscriptionRow
         /\ sub[s].status \in SubscriptionStatuses \cup {"none"}
  BY DEF TypeOK, NoSubscription, SubscriptionRow, SubscriptionStatuses, Terminal

LEMMA InvoiceFacts ==
  ASSUME TypeOK, NEW s \in Subs, NEW p \in Periods
  PROVE  /\ invoice[s][p] \in InvoiceRow
         /\ invoice[s][p].count \in 0..3
  BY DEF TypeOK, InvoiceRow, MAX_COLLECTION_ATTEMPTS

-----------------------------------------------------------------------------
(***************************************************************************)
(* Type correctness.                                                       *)
(***************************************************************************)

LEMMA OutcomeFacts ==
  /\ \A a \in Answers : outcomeOf(a) \in Outcomes \ {"none"}
  /\ \A a \in Answers : ambiguous(a) => a \in Outcomes \ {"none"} /\ outcomeOf(a) = a
  BY DEF Answers, Outcomes, outcomeOf, ambiguous

LEMMA InitType == Init => TypeOK
<1> SUFFICES ASSUME Init PROVE TypeOK
  OBVIOUS
<1> QED
  BY RenewalAssumption DEF Init, TypeOK, InvoiceRow, LocalStates, Outcomes, Answers,
     MAX_COLLECTION_ATTEMPTS

\* A row stays a row, whatever is written to its columns.
LEMMA RowWrites ==
  ASSUME NEW r \in SubscriptionRow
  PROVE  /\ Cancelled(r) \in SubscriptionRow
         /\ advanceSubscriptionPeriod(r) \in SubscriptionRow
         /\ exhausted(r) \in SubscriptionRow
         /\ pastDue(r.status) \in SubscriptionStatuses
         /\ \A status \in SubscriptionStatuses : [r EXCEPT !.status = status] \in SubscriptionRow
         /\ \A status \in SubscriptionStatuses, waits \in BOOLEAN :
              [r EXCEPT !.status = status, !.retryWaits = waits] \in SubscriptionRow
         /\ [r EXCEPT !.cancel_at_period_end = TRUE] \in SubscriptionRow
         /\ [r EXCEPT !.retryWaits = FALSE] \in SubscriptionRow
         /\ [r EXCEPT !.graceOver = TRUE] \in SubscriptionRow
         /\ [r EXCEPT !.status = "EXPIRED", !.next_billing_at = NULL] \in SubscriptionRow
         /\ \A t \in Nat \cup {NULL} :
              [r EXCEPT !.retryWaits = FALSE, !.next_billing_at = t] \in SubscriptionRow
<1> USE DEF SubscriptionRow, SubscriptionStatuses, Terminal, NULL
<1>1. Cancelled(r) \in SubscriptionRow
  BY DEF Cancelled
<1>2. advanceSubscriptionPeriod(r) \in SubscriptionRow
  <2> DEFINE p == r.period + 1
             t == r.period + 2
  <2>1. p \in Nat /\ t \in Nat \cup {NULL}
    OBVIOUS
  <2>2. advanceSubscriptionPeriod(r) =
          [r EXCEPT !.status = "ACTIVE", !.period = p, !.next_billing_at = t,
                    !.retryWaits = FALSE, !.graceOver = FALSE]
    BY DEF advanceSubscriptionPeriod
  <2> HIDE DEF p, t, NULL
  <2>3. QED
    BY <2>1, <2>2
<1>3. pastDue(r.status) \in SubscriptionStatuses
  BY DEF pastDue
<1>4. exhausted(r) \in SubscriptionRow
  BY DEF exhausted
<1>5. QED
  BY <1>1, <1>2, <1>3, <1>4

\* So does an invoice.
LEMMA InvoiceWrites ==
  ASSUME NEW i \in InvoiceRow
  PROVE  /\ [i EXCEPT !.retryWaits = FALSE] \in InvoiceRow
         /\ [i EXCEPT !.status = "PAID", !.retryWaits = FALSE] \in InvoiceRow
         /\ ensureInvoiceForPeriod(i) \in InvoiceRow
         /\ ensureInvoiceForPeriod(i).count = i.count
  BY DEF InvoiceRow, ensureInvoiceForPeriod

\* Only handlers and the merchant write rows; each action writes one.
LEMMA MerchantTypes ==
  ASSUME TypeOK, NEW s \in Subs, NewInv(s),
         \/ \E trial, atPeriodEnd \in BOOLEAN : CreateSubscription(s, trial, atPeriodEnd)
         \/ Pause(s)
         \/ Resume(s)
         \/ \E atPeriodEnd \in BOOLEAN : Cancel(s, atPeriodEnd)
         \/ \E p \in Periods : CollectInvoiceNow(s, p)
         \/ ScanTerminal(s)
         \/ ApplyTerminal(s)
         \/ RetryComes(s)
         \/ GracePasses(s)
  PROVE  TypeOK'
<1> USE RowFacts DEF TypeOK, collection
<1>0. ASSUME NEW r \in SubscriptionRow, sub' = [sub EXCEPT ![s] = r]
      PROVE  sub' \in [Subs -> {NoSubscription} \cup SubscriptionRow]
  BY <1>0
<1>1. ASSUME NEW trial \in BOOLEAN, NEW atPeriodEnd \in BOOLEAN,
             CreateSubscription(s, trial, atPeriodEnd)
      PROVE  TypeOK'
  <2> DEFINE r == [status |-> IF trial THEN "TRIALING" ELSE "ACTIVE", period |-> 0,
                   next_billing_at |-> 1, retryWaits |-> FALSE, graceOver |-> FALSE,
                   cancel_at_period_end |-> atPeriodEnd]
  <2>1. r \in SubscriptionRow
    BY DEF SubscriptionRow, SubscriptionStatuses
  <2>2. sub' = [sub EXCEPT ![s] = r] /\ UNCHANGED <<catalog, collection>>
    BY <1>1 DEF CreateSubscription
  <2> HIDE DEF r
  <2>3. QED
    BY <2>1, <2>2, <1>0
<1>2. CASE Pause(s)
  <2>1. sub[s].status # "none"
    BY <1>2 DEF Pause, canTransition, SUBSCRIPTION_TRANSITIONS
  <2>2. [sub[s] EXCEPT !.status = "PAUSED"] \in SubscriptionRow
    BY <2>1, RowWrites DEF SubscriptionStatuses
  <2>3. QED
    BY <1>2, <2>2, <1>0 DEF Pause
<1>3. CASE Resume(s)
  <2>1. [sub[s] EXCEPT !.status = "ACTIVE"] \in SubscriptionRow
    BY <1>3, RowWrites DEF Resume, SubscriptionStatuses
  <2>2. QED
    BY <1>3, <2>1, <1>0 DEF Resume
<1>4. ASSUME NEW atPeriodEnd \in BOOLEAN, Cancel(s, atPeriodEnd)
      PROVE  TypeOK'
  <2>1. /\ [sub[s] EXCEPT !.cancel_at_period_end = TRUE] \in SubscriptionRow
        /\ Cancelled(sub[s]) \in SubscriptionRow
    BY <1>4, RowWrites DEF Cancel
  <2>2. QED
    BY <1>4, <2>1, <1>0 DEF Cancel
<1>5. ASSUME NEW p \in Periods, CollectInvoiceNow(s, p)
      PROVE  TypeOK'
  <2> DEFINE t == IF sub[s].next_billing_at = NULL \/ sub[s].next_billing_at > now
                  THEN now ELSE sub[s].next_billing_at
             r == [sub[s] EXCEPT !.retryWaits = FALSE, !.next_billing_at = t]
  <2>1. /\ sub' = [sub EXCEPT ![s] = r]
        /\ invoice' = [invoice EXCEPT ![s][p].retryWaits = FALSE]
        /\ UNCHANGED <<catalog, attempt, providerTx, statusTx, charge, handler, candidate,
                       overlapped, now, crashes>>
    BY <1>5 DEF CollectInvoiceNow
  <2>2. invoice' \in [Subs -> [Periods -> InvoiceRow]]
    BY <2>1, InvoiceWrites
  <2>3. CASE sub[s].status = "none"
    <3>1. r = sub[s]
      BY <2>3 DEF NoSubscription
    <3>2. QED
      BY <2>1, <2>2, <3>1
  <2>4. CASE sub[s].status # "none"
    <3>1. t \in Nat \cup {NULL}
      BY <2>4, RenewalAssumption DEF SubscriptionRow
    <3>2. r \in SubscriptionRow
      <4> HIDE DEF t
      <4> QED
        BY <2>4, <3>1, RowWrites
    <3> HIDE DEF r
    <3>3. QED
      BY <2>1, <2>2, <3>2, <1>0
  <2>5. QED
    BY <2>3, <2>4
<1>6. CASE ScanTerminal(s)
  BY <1>6 DEF ScanTerminal
<1>7. CASE ApplyTerminal(s)
  <2> DEFINE r == IF candidate[s] = "expire" /\ sub[s].status = "UNPAID"
                    THEN [sub[s] EXCEPT !.status = "EXPIRED", !.next_billing_at = NULL]
                  ELSE IF candidate[s] = "cancel" /\ sub[s].cancel_at_period_end
                          /\ sub[s].status \notin Terminal
                    THEN Cancelled(sub[s])
                  ELSE sub[s]
  <2>1. /\ sub' = [sub EXCEPT ![s] = r]
        /\ candidate' = [candidate EXCEPT ![s] = "none"]
        /\ UNCHANGED <<catalog, invoice, attempt, providerTx, statusTx, charge, handler,
                       overlapped, now, crashes>>
    BY <1>7 DEF ApplyTerminal
  <2>2. r \in {NoSubscription} \cup SubscriptionRow
    BY RowWrites DEF NewInv
  <2> HIDE DEF r
  <2>3. QED
    BY <2>1, <2>2
<1>8. CASE RetryComes(s)
  <2>1. CASE sub' = [sub EXCEPT ![s].retryWaits = FALSE] /\ UNCHANGED invoice
    BY <1>8, <2>1, RowWrites, <1>0 DEF RetryComes
  <2>2. ASSUME NEW p \in Periods, invoice' = [invoice EXCEPT ![s][p].retryWaits = FALSE],
               UNCHANGED sub
        PROVE  TypeOK'
    <3>1. invoice' \in [Subs -> [Periods -> InvoiceRow]]
      BY <2>2, InvoiceWrites
    <3>2. QED
      BY <1>8, <2>2, <3>1 DEF RetryComes
  <2>3. QED
    BY <1>8, <2>1, <2>2 DEF RetryComes
<1>9. CASE GracePasses(s)
  BY <1>9, RowWrites, <1>0 DEF GracePasses
<1>10. QED
  BY <1>1, <1>2, <1>3, <1>4, <1>5, <1>6, <1>7, <1>8, <1>9

\* What a handler's step may write as its local state.
LEMMA LocalWrites ==
  ASSUME TypeOK, NEW h \in Handlers, handler[h].pc # "idle"
  PROVE  /\ \A pc \in {"prepared", "cleared", "recovered", "charging", "collected"} :
              [handler[h] EXCEPT !.pc = pc] \in LocalStates \ {Idle}
         /\ \A pc \in {"prepared", "cleared", "recovered", "charging", "collected"},
               a \in Answers \cup {"none"} :
              [handler[h] EXCEPT !.pc = pc, !.answer = a] \in LocalStates \ {Idle}
  BY LocalFacts DEF LocalStates, Idle

LEMMA HandlerTypes ==
  ASSUME TypeOK, NEW h \in Handlers, HandlerInv(h),
         (\E s \in Subs : Prepare(h, s)) \/ Handle(h) \/ GiveUp(h)
  PROVE  TypeOK'
<1> DEFINE key == handler[h].key
           s == key[1]
           n == key[3]
<1> USE KeyFacts, AttemptNumbers, LocalFacts DEF TypeOK
<1>1. ASSUME NEW t \in Subs, Prepare(h, t)
      PROVE  TypeOK'
  <2> DEFINE p == sub[t].period
             local == [pc |-> "prepared", key |-> <<t, p, invoice[t][p].count + 1>>,
                       answer |-> "none"]
  <2>1. p \in Periods
    BY <1>1, RowFacts, RenewalAssumption DEF Prepare, Periods, SubscriptionRow
  <2>2. invoice[t][p].count + 1 \in Attempts
    <3>1. invoice[t][p].count \in 0..3
      BY <2>1, InvoiceFacts
    <3>2. invoice[t][p].count < 3
      BY <1>1 DEF Prepare, canCollectAttempt, MAX_COLLECTION_ATTEMPTS
    <3> HIDE DEF TypeOK
    <3>3. QED
      BY <3>1, <3>2
  <2>3. local \in LocalStates
    BY <2>1, <2>2 DEF LocalStates
  <2>4. /\ invoice' = [invoice EXCEPT ![t][p] = ensureInvoiceForPeriod(@)]
        /\ handler' = [handler EXCEPT ![h] = local]
        /\ overlapped' = [overlapped EXCEPT ![t] = @ \/ \E g \in Handlers : holds(g, t)]
        /\ UNCHANGED <<catalog, sub, attempt, providerTx, statusTx, charge, candidate, now, crashes>>
    BY <1>1 DEF Prepare, moves
  <2>5. invoice' \in [Subs -> [Periods -> InvoiceRow]]
    <3>1. invoice[t][p] \in InvoiceRow
      BY <2>1
    <3>2. ensureInvoiceForPeriod(invoice[t][p]) \in InvoiceRow
      BY <3>1, InvoiceWrites
    <3>3. QED
      BY <2>1, <2>4, <3>2
  <2>6. overlapped' \in [Subs -> BOOLEAN]
    BY <2>4
  <2> HIDE DEF local
  <2>7. QED
    BY <2>3, <2>4, <2>5, <2>6
<1>2. CASE QueryBeforeRetry(h)
  <2>1. priorKey(key) \in Keys
    <3>1. key \in Keys /\ key[3] > 1
      BY <1>2 DEF QueryBeforeRetry, canQueryPrior
    <3> HIDE DEF TypeOK
    <3>3. QED
      BY <3>1, PriorFacts
  <2>2. PICK answer \in {"SUCCEEDED", "UNKNOWN"} :
          /\ statusTx' = [statusTx EXCEPT ![priorKey(key)] = answer]
          /\ moves(h, [handler[h] EXCEPT !.pc =
                         IF answer = "SUCCEEDED" THEN "recovered" ELSE "cleared"])
    BY <1>2 DEF QueryBeforeRetry
  <2>3. handler' \in [Handlers -> LocalStates]
    BY <1>2, <2>2, LocalWrites DEF moves, QueryBeforeRetry
  <2>4. QED
    BY <1>2, <2>1, <2>2, <2>3 DEF QueryBeforeRetry
<1>3. CASE CollectStored(h)
  <2>1. handler' \in [Handlers -> LocalStates]
    BY <1>3, LocalWrites DEF CollectStored, mayCollect, moves
  <2>2. QED
    BY <1>3, <2>1 DEF CollectStored
<1>4. CASE CollectFromProvider(h)
  <2>1. PICK decision \in {"TAKEN", "REFUSED"}, answer \in Answers :
          /\ charge' = [charge EXCEPT ![key] = decision]
          /\ moves(h, [handler[h] EXCEPT !.pc = "charging", !.answer = answer])
    BY <1>4 DEF CollectFromProvider, Answers
  <2>2. handler' \in [Handlers -> LocalStates]
    BY <1>4, <2>1, LocalWrites DEF CollectFromProvider, mayCollect, moves
  <2>3. QED
    BY <1>4, <2>1, <2>2 DEF CollectFromProvider
<1>5. CASE CommitCollection(h)
  <2>1. handler' \in [Handlers -> LocalStates]
    <3> DEFINE local == [handler[h] EXCEPT !.pc = "collected"]
    <3>1. local \in LocalStates
      BY <1>5, LocalWrites DEF CommitCollection
    <3>2. Idle \in LocalStates
      BY DEF LocalStates
    <3>3. handler' = [handler EXCEPT ![h] = local] \/ handler' = [handler EXCEPT ![h] = Idle]
      BY <1>5 DEF CommitCollection, moves
    <3> HIDE DEF local
    <3>4. CASE handler' = [handler EXCEPT ![h] = local]
      BY <3>1, <3>4
    <3>5. CASE handler' = [handler EXCEPT ![h] = Idle]
      BY <3>2, <3>5
    <3>6. QED
      BY <3>3, <3>4, <3>5
  <2>2. providerTx' \in [Keys -> Answers \cup {"none"}]
    BY <1>5 DEF CommitCollection
  <2>3. QED
    BY <1>5, <2>1, <2>2 DEF CommitCollection
<1>6. ASSUME NEW outcome \in Outcomes, recordAttempt(key, outcome)
      PROVE  attempt' \in [Keys -> Outcomes]
  BY <1>6 DEF recordAttempt
<1>7. ASSUME moves(h, Idle) PROVE handler' \in [Handlers -> LocalStates]
  BY <1>7 DEF moves, LocalStates
<1>8. ASSUME handler[h].pc # "idle"
      PROVE  /\ key \in Keys
             /\ s \in Subs /\ key[2] \in Periods /\ n \in 1..3
             /\ sub[s] \in SubscriptionRow
             /\ invoice[s][key[2]] \in InvoiceRow
  BY <1>8, RowFacts DEF HandlerInv
<1>9. CASE RecordSucceeded(h)
  <2>1. CASE mayBecomeActive(s)
    <3> DEFINE i == [status |-> "PAID", count |-> n, retryWaits |-> FALSE]
               r == advanceSubscriptionPeriod(sub[s])
    <3>1. /\ recordAttempt(key, "SUCCEEDED") /\ moves(h, Idle)
          /\ invoice' = [invoice EXCEPT ![s][key[2]] = i]
          /\ sub' = [sub EXCEPT ![s] = r]
          /\ UNCHANGED <<catalog, providerTx, statusTx, charge, candidate, overlapped, now, crashes>>
      BY <1>9, <2>1 DEF RecordSucceeded
    <3>2. i \in InvoiceRow
      BY <1>8, <1>9 DEF RecordSucceeded, InvoiceRow, MAX_COLLECTION_ATTEMPTS
    <3>3. r \in SubscriptionRow
      BY <1>8, <1>9, RowWrites DEF RecordSucceeded
    <3> HIDE DEF i, r
    <3>4. /\ sub' \in [Subs -> {NoSubscription} \cup SubscriptionRow]
          /\ invoice' \in [Subs -> [Periods -> InvoiceRow]]
      BY <3>1, <3>2, <3>3
    <3>5. attempt' \in [Keys -> Outcomes] /\ handler' \in [Handlers -> LocalStates]
      BY <3>1, <1>6, <1>7 DEF Outcomes
    <3>6. QED
      BY <3>1, <3>4, <3>5
  <2>2. CASE ~mayBecomeActive(s)
    BY <1>7, <1>9, <2>2 DEF RecordSucceeded
  <2>3. QED
    BY <2>1, <2>2
<1>10. CASE RecordRecovered(h)
  <2>1. CASE mayBecomeActive(s)
    <3> DEFINE i == [invoice[s][key[2]] EXCEPT !.status = "PAID", !.retryWaits = FALSE]
               r == advanceSubscriptionPeriod(sub[s])
    <3>1. /\ moves(h, Idle)
          /\ invoice' = [invoice EXCEPT ![s][key[2]] = i]
          /\ sub' = [sub EXCEPT ![s] = r]
          /\ UNCHANGED <<catalog, attempt, providerTx, statusTx, charge, candidate,
                         overlapped, now, crashes>>
      BY <1>8, <1>10, <2>1 DEF RecordRecovered
    <3>2. r \in SubscriptionRow
      BY <1>8, <1>10, RowWrites DEF RecordRecovered
    <3>3. i \in InvoiceRow
      BY <1>8, <1>10, InvoiceWrites DEF RecordRecovered
    <3> HIDE DEF i, r
    <3>4. /\ sub' \in [Subs -> {NoSubscription} \cup SubscriptionRow]
          /\ invoice' \in [Subs -> [Periods -> InvoiceRow]]
      BY <3>1, <3>2, <3>3
    <3>5. QED
      BY <3>1, <3>4, <1>7
  <2>2. CASE ~mayBecomeActive(s)
    BY <1>7, <1>10, <2>2 DEF RecordRecovered
  <2>3. QED
    BY <2>1, <2>2
<1>11. CASE RecordAmbiguous(h)
  <2> DEFINE i == [status |-> IF retryFollows(n) THEN "OPEN" ELSE "OVERDUE",
                   count |-> n, retryWaits |-> retryFollows(n)]
             r == [sub[s] EXCEPT !.status = pastDue(sub[s].status), !.retryWaits = retryFollows(n)]
  <2>1. /\ recordAttempt(key, handler[h].answer) /\ moves(h, Idle)
        /\ invoice' = [invoice EXCEPT ![s][key[2]] = i]
        /\ sub' = [sub EXCEPT ![s] = r]
        /\ UNCHANGED <<catalog, providerTx, statusTx, charge, candidate, overlapped, now, crashes>>
    BY <1>11, Zenon DEF RecordAmbiguous
  <2>2. /\ i \in InvoiceRow
        /\ retryFollows(n) \in BOOLEAN
    BY <1>8, <1>11 DEF RecordAmbiguous, InvoiceRow, MAX_COLLECTION_ATTEMPTS, retryFollows
  <2>3. r \in SubscriptionRow
    BY <1>8, <1>11, <2>2, RowWrites DEF RecordAmbiguous
  <2>4. handler[h].answer \in Outcomes
    BY <1>11 DEF RecordAmbiguous, ambiguous, Outcomes
  <2> HIDE DEF i, r
  <2>5. /\ sub' \in [Subs -> {NoSubscription} \cup SubscriptionRow]
        /\ invoice' \in [Subs -> [Periods -> InvoiceRow]]
        /\ attempt' \in [Keys -> Outcomes] /\ handler' \in [Handlers -> LocalStates]
    BY <2>1, <2>2, <2>3, <2>4, <1>6, <1>7
  <2>6. QED
    BY <2>1, <2>5
<1>12. CASE RecordFailed(h)
  <2> DEFINE i == [status |-> IF retryFollows(n) THEN "OPEN" ELSE "UNCOLLECTIBLE",
                   count |-> n, retryWaits |-> retryFollows(n)]
             r == IF retryFollows(n) THEN [sub[s] EXCEPT !.status = pastDue(sub[s].status), !.retryWaits = TRUE]
                                     ELSE exhausted(sub[s])
  <2>1. /\ recordAttempt(key, "FAILED") /\ moves(h, Idle)
        /\ invoice' = [invoice EXCEPT ![s][key[2]] = i]
        /\ sub' = [sub EXCEPT ![s] = r]
        /\ UNCHANGED <<catalog, providerTx, statusTx, charge, candidate, overlapped, now, crashes>>
    BY <1>12 DEF RecordFailed
  <2>2. i \in InvoiceRow
    BY <1>8, <1>12 DEF RecordFailed, InvoiceRow, MAX_COLLECTION_ATTEMPTS, retryFollows
  <2>3. r \in SubscriptionRow
    <3>1. sub[s] \in SubscriptionRow
      BY <1>8, <1>12 DEF RecordFailed
    <3> HIDE DEF TypeOK
    <3>2. QED
      BY <3>1, RowWrites
  <2> HIDE DEF i, r
  <2>4. /\ sub' \in [Subs -> {NoSubscription} \cup SubscriptionRow]
        /\ invoice' \in [Subs -> [Periods -> InvoiceRow]]
        /\ attempt' \in [Keys -> Outcomes] /\ handler' \in [Handlers -> LocalStates]
    BY <2>1, <2>2, <2>3, <1>6, <1>7 DEF Outcomes
  <2>5. QED
    BY <2>1, <2>4
<1>13. CASE GiveUp(h)
  BY <1>7, <1>13, RenewalAssumption DEF GiveUp
<1>14. QED
  BY <1>1, <1>2, <1>3, <1>4, <1>5, <1>9, <1>10, <1>11, <1>12, <1>13 DEF Handle

-----------------------------------------------------------------------------
(***************************************************************************)
(* What is kept of an attempt, and that there is a subscription, is never  *)
(* taken back.                                                             *)
(***************************************************************************)
Grows ==
  /\ \A k \in Keys :
       /\ attempt[k] # "none" => attempt'[k] = attempt[k]
       /\ providerTx[k] # "none" => providerTx'[k] = providerTx[k]
       /\ statusTx[k] # "none" => statusTx'[k] = statusTx[k]
       /\ charge[k] # "none" => charge'[k] = charge[k]
  /\ \A s \in Subs : sub[s].status # "none" => sub'[s].status # "none"

LEMMA AnsweredKept ==
  ASSUME Grows, NEW s \in Subs, NEW p \in Periods, NEW n \in Int
  PROVE  /\ Answered(s, p, n) => Answered(s, p, n)'
         /\ Recorded(s, p, n) => Recorded(s, p, n)'
<1>1. Answered(s, p, n) => Answered(s, p, n)'
  BY KeyFacts DEF Grows, Answered, Unsuccessful
<1>2. Recorded(s, p, n) => Recorded(s, p, n)'
  BY KeyFacts DEF Grows, Recorded
<1>3. QED
  BY <1>1, <1>2

LEMMA ExhaustedKept ==
  ASSUME Grows, NEW s \in Subs, Exhausted(s)
  PROVE  Exhausted(s)'
  BY KeyFacts DEF Grows, Exhausted, Attempts, MAX_COLLECTION_ATTEMPTS

LEMMA KeyKept ==
  ASSUME TypeOK, Grows, NEW k \in Keys, KeyInv(k),
         attempt'[k] = attempt[k], providerTx'[k] = providerTx[k],
         statusTx'[k] = statusTx[k], charge'[k] = charge[k]
  PROVE  KeyInv(k)'
  BY KeyFacts, AttemptNumbers, AnsweredKept DEF KeyInv

LEMMA HandlerKept ==
  ASSUME TypeOK, Grows, NEW h \in Handlers, HandlerInv(h), handler'[h] = handler[h]
  PROVE  HandlerInv(h)'
<1> DEFINE key == handler[h].key
<1> SUFFICES ASSUME handler[h].pc # "idle"
             PROVE  HandlerInv(h)'
  BY DEF HandlerInv
<1>1. /\ key \in Keys
      /\ key[1] \in Subs /\ key[2] \in Periods /\ key[3] \in Int
  BY LocalFacts, KeyFacts, AttemptNumbers
<1>2. /\ sub'[key[1]].status # "none"
      /\ Answered(key[1], key[2], key[3])'
      /\ Recorded(key[1], key[2], key[3])'
  BY <1>1, AnsweredKept DEF HandlerInv, Grows
<1>3. handler[h].pc = "recovered" => key[3] > 1 /\ charge'[priorKey(key)] = "TAKEN"
  BY <1>1, PriorFacts DEF HandlerInv, Grows
<1>4. handler[h].pc = "charging" =>
        /\ handler[h].answer # "none"
        /\ handler[h].answer = "SUCCEEDED" => charge'[key] = "TAKEN"
        /\ handler[h].answer = "FAILED" => charge'[key] = "REFUSED"
  BY <1>1 DEF HandlerInv, Grows
<1>5. handler[h].pc = "collected" => handler[h].answer # "none" /\ providerTx'[key] = handler[h].answer
  BY <1>1 DEF HandlerInv, Grows
<1>6. QED
  BY <1>2, <1>3, <1>4, <1>5 DEF HandlerInv, priorKey

\* An idle handler carries nothing.
LEMMA IdleHolds ==
  ASSUME NEW h, handler[h] = Idle
  PROVE  HandlerInv(h)
  BY DEF HandlerInv, Idle

LEMMA InvoiceKept ==
  ASSUME TypeOK, Grows, NEW s \in Subs, NEW p \in Periods, InvoiceInv(s, p),
         invoice'[s][p].status = invoice[s][p].status,
         invoice'[s][p].count = invoice[s][p].count
  PROVE  InvoiceInv(s, p)'
<1> DEFINE n == invoice[s][p].count
<1>1. n \in Int /\ n + 1 \in Int
  BY InvoiceFacts
<1>2. /\ Answered(s, p, n)' /\ Recorded(s, p, n)'
      /\ invoice[s][p].status # "PAID" => Answered(s, p, n + 1)' /\ Recorded(s, p, n + 1)'
  BY <1>1, AnsweredKept DEF InvoiceInv
<1>3. invoice[s][p].status = "PAID" => \E m \in Attempts : charge'[<<s, p, m>>] = "TAKEN"
  BY KeyFacts DEF InvoiceInv, Grows
<1>4. QED
  BY <1>2, <1>3 DEF InvoiceInv

\* A subscription that no handler moves, and whose handlers only get fewer.
LEMMA SubKept ==
  ASSUME TypeOK, Grows, NEW s \in Subs, SubInv(s),
         overlapped'[s] = overlapped[s],
         sub'[s].status = "none" => sub[s].status = "none" /\ candidate'[s] = candidate[s],
         sub[s].status = "none" => sub'[s].status = "none",
         sub[s].status # "none" => sub'[s].period = sub[s].period,
         sub'[s].status \in {"UNPAID", "EXPIRED"} => sub[s].status \in {"UNPAID", "EXPIRED"},
         \A p \in Periods : invoice'[s][p].status = "PAID" <=> invoice[s][p].status = "PAID",
         \A h \in Handlers : holds(h, s)' => holds(h, s) /\ handler'[h].key = handler[h].key
  PROVE  SubInv(s)'
<1>1. NewInv(s)'
  BY DEF SubInv, NewInv
<1>2. AloneInv(s)'
  BY DEF SubInv, AloneInv
<1>3. sub'[s].status \in {"UNPAID", "EXPIRED"} => Exhausted(s)'
  BY ExhaustedKept DEF SubInv
<1>4. QED
  BY <1>1, <1>2, <1>3 DEF SubInv

-----------------------------------------------------------------------------
(***************************************************************************)
(* Steps that collect nothing.                                             *)
(***************************************************************************)

\* Whatever changes rows only as SubKept allows keeps the invariant.
LEMMA QuietStep ==
  ASSUME IInv, TypeOK',
         UNCHANGED <<attempt, providerTx, statusTx, charge, handler, overlapped>>,
         \A s \in Subs, p \in Periods : /\ invoice'[s][p].status = invoice[s][p].status
                                        /\ invoice'[s][p].count = invoice[s][p].count,
         \A s \in Subs :
           /\ sub'[s].status = "none" => sub[s].status = "none" /\ candidate'[s] = candidate[s]
           /\ sub[s].status = "none" => sub'[s].status = "none"
           /\ sub[s].status # "none" => sub'[s].period = sub[s].period
           /\ sub'[s].status \in {"UNPAID", "EXPIRED"} => sub[s].status \in {"UNPAID", "EXPIRED"}
  PROVE  IInv'
<1>1. Grows
  BY DEF Grows
<1>2. ASSUME NEW k \in Keys PROVE KeyInv(k)'
  BY <1>1, KeyKept DEF IInv
<1>3. ASSUME NEW h \in Handlers PROVE HandlerInv(h)'
  BY <1>1, HandlerKept DEF IInv
<1>4. ASSUME NEW s \in Subs, NEW p \in Periods PROVE InvoiceInv(s, p)'
  BY <1>1, InvoiceKept DEF IInv
<1>5. ASSUME NEW s \in Subs PROVE SubInv(s)'
  <2>1. \A h \in Handlers : holds(h, s)' => holds(h, s) /\ handler'[h].key = handler[h].key
    BY DEF holds
  <2>2. QED
    BY <1>1, <2>1, SubKept DEF IInv
<1>6. QED
  BY <1>2, <1>3, <1>4, <1>5 DEF IInv

LEMMA CatalogStep ==
  ASSUME IInv, CreateCustomer \/ UpdateCustomer \/ CreateProduct \/ CreatePrice
  PROVE  IInv'
<1>1. /\ UNCHANGED <<sub, collection>>
      /\ catalog' \in [customer : {"none", "ACTIVE", "DISABLED"},
                       product : {"none", "ACTIVE"}, price : {"none", "ACTIVE"}]
  BY DEF IInv, TypeOK, CreateCustomer, UpdateCustomer, CreateProduct, CreatePrice
<1>2. TypeOK'
  BY <1>1 DEF IInv, TypeOK, collection
<1>3. QED
  BY <1>1, <1>2, QuietStep DEF collection

LEMMA TickStep ==
  ASSUME IInv, Tick
  PROVE  IInv'
<1>1. TypeOK'
  BY RenewalAssumption DEF IInv, TypeOK, Tick
<1>2. QED
  BY <1>1, QuietStep DEF Tick

LEMMA CreateStep ==
  ASSUME IInv, NEW s \in Subs, NEW trial \in BOOLEAN, NEW atPeriodEnd \in BOOLEAN,
         CreateSubscription(s, trial, atPeriodEnd)
  PROVE  IInv'
<1> DEFINE r == [status |-> IF trial THEN "TRIALING" ELSE "ACTIVE", period |-> 0,
                 next_billing_at |-> 1, retryWaits |-> FALSE, graceOver |-> FALSE,
                 cancel_at_period_end |-> atPeriodEnd]
<1>1. /\ sub[s].status = "none"
      /\ sub' = [sub EXCEPT ![s] = r]
      /\ UNCHANGED <<catalog, collection>>
  BY DEF CreateSubscription
<1>2. TypeOK'
  BY MerchantTypes DEF IInv, SubInv
<1>3. sub'[s] = r /\ \A t \in Subs \ {s} : sub'[t] = sub[t]
  BY <1>1 DEF IInv, TypeOK
<1>4. r.status \in {"TRIALING", "ACTIVE"} /\ r.period = 0
  OBVIOUS
<1> HIDE DEF r
<1>5. Grows
  BY <1>1, <1>3, <1>4 DEF Grows, collection
<1>6. ASSUME NEW k \in Keys PROVE KeyInv(k)'
  BY <1>1, <1>5, KeyKept DEF IInv, collection
<1>7. ASSUME NEW h \in Handlers PROVE HandlerInv(h)'
  BY <1>1, <1>5, HandlerKept DEF IInv, collection
<1>8. ASSUME NEW t \in Subs, NEW p \in Periods PROVE InvoiceInv(t, p)'
  BY <1>1, <1>5, InvoiceKept DEF IInv, collection
<1>9. ASSUME NEW t \in Subs PROVE SubInv(t)'
  <2>1. CASE t = s
    <3>1. NewInv(s)' /\ sub'[s].status \notin {"UNPAID", "EXPIRED"}
      BY <1>3, <1>4 DEF NewInv
    <3>2. AloneInv(s)'
      BY <1>1, <1>3, <1>4, RenewalAssumption DEF AloneInv, IInv, SubInv, NewInv, collection, holds, Periods
    <3>3. QED
      BY <2>1, <3>1, <3>2 DEF SubInv
  <2>2. CASE t # s
    <3>1. \A h \in Handlers : holds(h, t)' => holds(h, t) /\ handler'[h].key = handler[h].key
      BY <1>1 DEF holds, collection
    <3>2. QED
      BY <1>1, <1>3, <1>5, <2>2, <3>1, SubKept DEF IInv, collection
  <2>3. QED
    BY <2>1, <2>2
<1>10. QED
  BY <1>2, <1>6, <1>7, <1>8, <1>9 DEF IInv

LEMMA MerchantStep ==
  ASSUME IInv, NEW s \in Subs,
         \/ Pause(s)
         \/ Resume(s)
         \/ \E atPeriodEnd \in BOOLEAN : Cancel(s, atPeriodEnd)
         \/ \E p \in Periods : CollectInvoiceNow(s, p)
         \/ ScanTerminal(s)
         \/ ApplyTerminal(s)
         \/ RetryComes(s)
         \/ GracePasses(s)
  PROVE  IInv'
<1>0. TypeOK /\ NewInv(s)
  BY DEF IInv, SubInv
<1>1. TypeOK'
  BY <1>0, MerchantTypes
<1> DEFINE Quiet(t) ==
             /\ sub'[t].status = "none" => sub[t].status = "none" /\ candidate'[t] = candidate[t]
             /\ sub[t].status = "none" => sub'[t].status = "none"
             /\ sub[t].status # "none" => sub'[t].period = sub[t].period
             /\ sub'[t].status \in {"UNPAID", "EXPIRED"} => sub[t].status \in {"UNPAID", "EXPIRED"}
           Others == UNCHANGED <<attempt, providerTx, statusTx, charge, handler, overlapped>>
           Invoices == \A t \in Subs, p \in Periods :
                         /\ invoice'[t][p].status = invoice[t][p].status
                         /\ invoice'[t][p].count = invoice[t][p].count
           Result == Others /\ Invoices /\ \A t \in Subs : Quiet(t)
<1> SUFFICES Result
  BY <1>1, QuietStep
<1> USE <1>0, RowFacts DEF collection
<1>2. CASE Pause(s)
  BY <1>2 DEF Pause, TypeOK, canTransition, SUBSCRIPTION_TRANSITIONS, SubscriptionRow
<1>3. CASE Resume(s)
  BY <1>3 DEF Resume, TypeOK, SubscriptionRow
<1>4. ASSUME NEW atPeriodEnd \in BOOLEAN, Cancel(s, atPeriodEnd)
      PROVE  Result
  <2>1. Others /\ Invoices /\ candidate' = candidate /\ sub[s].status # "none"
    BY <1>4 DEF Cancel
  <2>2. CASE sub' = [sub EXCEPT ![s].cancel_at_period_end = TRUE]
    BY <2>1, <2>2 DEF TypeOK, SubscriptionRow
  <2>3. CASE sub' = [sub EXCEPT ![s] = Cancelled(@)]
    BY <2>1, <2>3 DEF TypeOK, SubscriptionRow, Cancelled
  <2>4. QED
    BY <1>4, <2>2, <2>3 DEF Cancel
<1>5. ASSUME NEW p \in Periods, CollectInvoiceNow(s, p)
      PROVE  Result
  <2>1. Others
    BY <1>5 DEF CollectInvoiceNow
  <2>2. Invoices
    BY <1>5 DEF CollectInvoiceNow, TypeOK, InvoiceRow
  <2>3. \A t \in Subs : Quiet(t)
    <3> DEFINE x == IF sub[s].next_billing_at = NULL \/ sub[s].next_billing_at > now
                    THEN now ELSE sub[s].next_billing_at
    <3>1. sub' = [sub EXCEPT ![s] = [sub[s] EXCEPT !.retryWaits = FALSE, !.next_billing_at = x]]
      BY <1>5 DEF CollectInvoiceNow
    <3> HIDE DEF x
    <3>2. candidate' = candidate
      BY <1>5 DEF CollectInvoiceNow
    <3>3. QED
      BY <3>1, <3>2 DEF TypeOK, SubscriptionRow, NoSubscription
  <2>4. QED
    BY <2>1, <2>2, <2>3
<1>6. CASE ScanTerminal(s)
  BY <1>6 DEF ScanTerminal, TypeOK, graceExpired, cancelDue
<1>7. CASE ApplyTerminal(s)
  <2>1. Others /\ Invoices
    BY <1>7 DEF ApplyTerminal
  <2>2. sub[s].status # "none"
    BY <1>7 DEF ApplyTerminal, NewInv
  <2>3. \A t \in Subs : Quiet(t)
    BY <1>7, <2>2 DEF ApplyTerminal, Cancelled, TypeOK, SubscriptionRow
  <2>4. QED
    BY <2>1, <2>3
<1>8. CASE RetryComes(s)
  <2>1. Others
    BY <1>8 DEF RetryComes
  <2>2. candidate' = candidate /\ sub[s].status # "none"
    BY <1>8 DEF RetryComes
  <2>3. CASE sub' = [sub EXCEPT ![s].retryWaits = FALSE] /\ UNCHANGED invoice
    BY <2>1, <2>2, <2>3 DEF TypeOK, SubscriptionRow
  <2>4. ASSUME NEW p \in Periods, invoice' = [invoice EXCEPT ![s][p].retryWaits = FALSE],
               UNCHANGED sub
        PROVE  Result
    <3>1. Invoices
      BY <2>4 DEF TypeOK, InvoiceRow
    <3>2. QED
      BY <2>1, <2>2, <2>4, <3>1
  <2>5. QED
    BY <1>8, <2>3, <2>4 DEF RetryComes
<1>9. CASE GracePasses(s)
  BY <1>9 DEF GracePasses, TypeOK, SubscriptionRow
<1>10. QED
  BY <1>2, <1>3, <1>4, <1>5, <1>6, <1>7, <1>8, <1>9

-----------------------------------------------------------------------------
(***************************************************************************)
(* Steps of a handler.                                                     *)
(***************************************************************************)

\* The others keep what they carry, and rows stay, as long as the handler asks
\* and stores answers.
LEMMA LocalStep ==
  ASSUME IInv, TypeOK', Grows, NEW h \in Handlers,
         UNCHANGED <<sub, invoice, attempt, candidate, overlapped>>,
         \A g \in Handlers \ {h} : handler'[g] = handler[g],
         handler[h].pc # "idle",
         handler'[h].pc # "idle" => handler'[h].key = handler[h].key,
         HandlerInv(h)',
         \A k \in Keys : KeyInv(k)'
  PROVE  IInv'
<1>1. ASSUME NEW g \in Handlers PROVE HandlerInv(g)'
  BY HandlerKept DEF IInv
<1>2. ASSUME NEW s \in Subs, NEW p \in Periods PROVE InvoiceInv(s, p)'
  BY InvoiceKept DEF IInv
<1>3. ASSUME NEW s \in Subs PROVE SubInv(s)'
  <2>1. \A g \in Handlers : holds(g, s)' => holds(g, s) /\ handler'[g].key = handler[g].key
    BY DEF holds
  <2>2. QED
    BY <2>1, SubKept DEF IInv
<1>4. QED
  BY <1>1, <1>2, <1>3 DEF IInv

\* What a handler's local state is after it was written.
LEMMA Moved ==
  ASSUME TypeOK, NEW h \in Handlers, NEW local, moves(h, local)
  PROVE  handler'[h] = local /\ \A g \in Handlers \ {h} : handler'[g] = handler[g]
  BY DEF TypeOK, moves

LEMMA MovedOn ==
  ASSUME TypeOK, NEW h \in Handlers, handler[h].pc # "idle", NEW pc, NEW a,
         moves(h, [handler[h] EXCEPT !.pc = pc, !.answer = a])
  PROVE  /\ handler'[h].pc = pc /\ handler'[h].key = handler[h].key /\ handler'[h].answer = a
         /\ \A g \in Handlers \ {h} : handler'[g] = handler[g]
<1>1. handler'[h] = [handler[h] EXCEPT !.pc = pc, !.answer = a]
      /\ \A g \in Handlers \ {h} : handler'[g] = handler[g]
  BY Moved
<1>2. handler[h] \in [pc : {"prepared", "cleared", "recovered", "charging", "collected"},
                     key : Keys, answer : Answers \cup {"none"}]
  BY LocalFacts
<1> HIDE DEF Keys
<1>3. QED
  BY <1>1, <1>2

\* The attempts before the one a handler makes stay answered and recorded.
LEMMA HeldAnswered ==
  ASSUME TypeOK, NEW h \in Handlers, HandlerInv(h), handler[h].pc # "idle"
  PROVE  \E s \in Subs, p \in Periods, n \in 1..3 :
           /\ handler[h].key = <<s, p, n>> /\ <<s, p, n>> \in Keys
           /\ Answered(s, p, n) /\ Recorded(s, p, n)
           /\ Grows => Answered(s, p, n)' /\ Recorded(s, p, n)'
<1>1. PICK s \in Subs, p \in Periods, n \in 1..3 :
        handler[h].key = <<s, p, n>> /\ <<s, p, n>> \in Keys
  BY LocalFacts, KeyFacts, AttemptNumbers
<1>2. Answered(s, p, n) /\ Recorded(s, p, n)
  BY <1>1 DEF HandlerInv
<1>3. n \in Int
  OBVIOUS
<1>4. QED
  BY <1>1, <1>2, <1>3, AnsweredKept

LEMMA QueryStep ==
  ASSUME IInv, NEW h \in Handlers, QueryBeforeRetry(h)
  PROVE  IInv'
<1> DEFINE key == handler[h].key
           prior == priorKey(key)
<1>1. TypeOK /\ HandlerInv(h) /\ handler[h].pc = "prepared" /\ TypeOK'
  BY HandlerTypes DEF IInv, QueryBeforeRetry, Handle
<1>2. key \in Keys /\ key[3] > 1 /\ prior \in Keys
  BY <1>1, LocalFacts, PriorFacts DEF QueryBeforeRetry, canQueryPrior
<1>3. PICK answer \in {"SUCCEEDED", "UNKNOWN"} :
        /\ statusTx[prior] = "none" => answer = "UNKNOWN" \/ charge[prior] = "TAKEN"
        /\ statusTx[prior] # "none" => answer = statusTx[prior]
        /\ statusTx' = [statusTx EXCEPT ![prior] = answer]
        /\ moves(h, [handler[h] EXCEPT !.pc =
                       IF answer = "SUCCEEDED" THEN "recovered" ELSE "cleared"])
  BY DEF QueryBeforeRetry
<1>4. answer = "SUCCEEDED" => charge[prior] = "TAKEN"
  BY <1>2, <1>3 DEF IInv, KeyInv
<1>5. UNCHANGED <<sub, invoice, attempt, providerTx, charge, candidate, overlapped>>
  BY DEF QueryBeforeRetry
<1>6. statusTx'[prior] = answer /\ \A k \in Keys \ {prior} : statusTx'[k] = statusTx[k]
  BY <1>1, <1>2, <1>3 DEF TypeOK
<1>7. Grows
  BY <1>2, <1>3, <1>5, <1>6 DEF Grows
<1>8. /\ handler'[h].pc \in {"recovered", "cleared"}
      /\ handler'[h].pc = "recovered" => answer = "SUCCEEDED"
      /\ handler'[h].key = key /\ handler'[h].answer = handler[h].answer
      /\ \A g \in Handlers \ {h} : handler'[g] = handler[g]
  BY <1>1, <1>3, Moved, LocalFacts
<1>9. HandlerInv(h)'
  <2>1. key[1] \in Subs /\ key[2] \in Periods /\ key[3] \in Int
    BY <1>2, KeyFacts, AttemptNumbers
  <2>2. QED
    BY <2>1, <1>1, <1>2, <1>4, <1>5, <1>7, <1>8, AnsweredKept DEF HandlerInv, priorKey
<1>10. ASSUME NEW k \in Keys PROVE KeyInv(k)'
  <2>1. CASE k # prior
    BY <2>1, <1>1, <1>5, <1>6, <1>7, KeyKept DEF IInv
  <2>2. CASE k = prior
    BY <2>2, <1>4, <1>5, <1>6 DEF IInv, KeyInv, Answered
  <2>3. QED
    BY <2>1, <2>2
<1>11. QED
  BY <1>1, <1>5, <1>7, <1>8, <1>9, <1>10, LocalStep

LEMMA StoredStep ==
  ASSUME IInv, NEW h \in Handlers, CollectStored(h)
  PROVE  IInv'
<1>1. TypeOK /\ HandlerInv(h) /\ handler[h].pc # "idle" /\ TypeOK'
  BY HandlerTypes DEF IInv, CollectStored, mayCollect, Handle
<1>2. PICK s \in Subs, p \in Periods, n \in 1..3 :
        /\ handler[h].key = <<s, p, n>> /\ <<s, p, n>> \in Keys
        /\ Grows => Answered(s, p, n)' /\ Recorded(s, p, n)'
  BY <1>1, HeldAnswered
<1> DEFINE key == <<s, p, n>>
<1>3. /\ providerTx[key] # "none"
      /\ moves(h, [handler[h] EXCEPT !.pc = "collected", !.answer = providerTx[key]])
      /\ UNCHANGED <<sub, invoice, attempt, providerTx, statusTx, charge, candidate, overlapped>>
  BY <1>2 DEF CollectStored
<1>4. Grows
  BY <1>3 DEF Grows
<1>5. /\ handler'[h].pc = "collected" /\ handler'[h].key = handler[h].key
      /\ handler'[h].answer = providerTx[key]
      /\ \A g \in Handlers \ {h} : handler'[g] = handler[g]
  BY <1>1, <1>3, MovedOn
<1>6. HandlerInv(h)'
  BY <1>1, <1>2, <1>3, <1>4, <1>5 DEF HandlerInv
<1>7. ASSUME NEW k \in Keys PROVE KeyInv(k)'
  BY <1>1, <1>3, <1>4, KeyKept DEF IInv
<1>8. QED
  BY <1>1, <1>3, <1>4, <1>5, <1>6, <1>7, LocalStep

LEMMA ChargeStep ==
  ASSUME IInv, NEW h \in Handlers, CollectFromProvider(h)
  PROVE  IInv'
<1>1. TypeOK /\ HandlerInv(h) /\ handler[h].pc # "idle" /\ TypeOK'
  BY HandlerTypes DEF IInv, CollectFromProvider, mayCollect, Handle
<1>2. PICK s \in Subs, p \in Periods, n \in 1..3 :
        /\ handler[h].key = <<s, p, n>> /\ <<s, p, n>> \in Keys
        /\ Grows => Answered(s, p, n)' /\ Recorded(s, p, n)'
  BY <1>1, HeldAnswered
<1> DEFINE key == <<s, p, n>>
<1>3. PICK decision \in {"TAKEN", "REFUSED"}, answer \in Answers :
        /\ charge[key] \in {"none", decision}
        /\ charge' = [charge EXCEPT ![key] = decision]
        /\ answer = "SUCCEEDED" => decision = "TAKEN"
        /\ answer = "FAILED" => decision = "REFUSED"
        /\ moves(h, [handler[h] EXCEPT !.pc = "charging", !.answer = answer])
  BY <1>2 DEF CollectFromProvider, Answers
<1>4. /\ providerTx[key] = "none"
      /\ UNCHANGED <<sub, invoice, attempt, providerTx, statusTx, candidate, overlapped>>
  BY <1>2 DEF CollectFromProvider
<1>5. charge'[key] = decision /\ \A k \in Keys \ {key} : charge'[k] = charge[k]
  BY <1>1, <1>2, <1>3 DEF TypeOK
<1>6. Grows
  BY <1>2, <1>3, <1>4, <1>5 DEF Grows
<1>7. /\ handler'[h].pc = "charging" /\ handler'[h].key = handler[h].key
      /\ handler'[h].answer = answer
      /\ \A g \in Handlers \ {h} : handler'[g] = handler[g]
  BY <1>1, <1>3, MovedOn
<1>8. HandlerInv(h)'
  BY <1>1, <1>2, <1>3, <1>4, <1>5, <1>6, <1>7 DEF HandlerInv, Answers
<1>9. ASSUME NEW k \in Keys PROVE KeyInv(k)'
  <2>1. CASE k # key
    BY <2>1, <1>1, <1>4, <1>5, <1>6, KeyKept DEF IInv
  <2>2. KeyInv(key)'
    <3>1. KeyInv(key)
      BY <1>2 DEF IInv
    <3>2. attempt[key] = "none"
      BY <3>1, <1>4 DEF KeyInv
    <3>3. statusTx[key] = "SUCCEEDED" => decision = "TAKEN"
      BY <3>1, <1>3 DEF KeyInv
    <3>4. QED
      BY <3>2, <3>3, <1>2, <1>4, <1>5, <1>6 DEF KeyInv
  <2>3. QED
    BY <2>1, <2>2
<1>10. QED
  BY <1>1, <1>4, <1>6, <1>7, <1>8, <1>9, LocalStep

LEMMA GiveUpStep ==
  ASSUME IInv, NEW h \in Handlers, moves(h, Idle), handler[h].pc # "idle", TypeOK',
         UNCHANGED <<sub, invoice, attempt, providerTx, statusTx, charge, candidate, overlapped>>
  PROVE  IInv'
<1>1. Grows
  BY DEF Grows
<1>2. handler'[h] = Idle /\ \A g \in Handlers \ {h} : handler'[g] = handler[g]
  BY Moved DEF IInv
<1>3. HandlerInv(h)' /\ handler'[h].pc = "idle"
  BY <1>2 DEF HandlerInv, Idle
<1>4. ASSUME NEW k \in Keys PROVE KeyInv(k)'
  BY <1>1, KeyKept DEF IInv
<1>5. QED
  BY <1>1, <1>2, <1>3, <1>4, LocalStep

LEMMA CommitStep ==
  ASSUME IInv, NEW h \in Handlers, CommitCollection(h)
  PROVE  IInv'
<1>1. TypeOK /\ HandlerInv(h) /\ handler[h].pc = "charging" /\ TypeOK'
  BY HandlerTypes DEF IInv, CommitCollection, Handle
<1>2. PICK s \in Subs, p \in Periods, n \in 1..3 :
        /\ handler[h].key = <<s, p, n>> /\ <<s, p, n>> \in Keys
        /\ Answered(s, p, n) /\ Recorded(s, p, n)
        /\ Grows => Answered(s, p, n)' /\ Recorded(s, p, n)'
  BY <1>1, HeldAnswered
<1> DEFINE key == <<s, p, n>>
<1>3. UNCHANGED <<sub, invoice, attempt, statusTx, charge, candidate, overlapped>>
  BY DEF CommitCollection
<1>4. CASE providerTx[key] # "none"
  BY <1>1, <1>2, <1>3, <1>4, GiveUpStep DEF CommitCollection
<1>5. CASE providerTx[key] = "none"
  <2>1. /\ providerTx' = [providerTx EXCEPT ![key] = handler[h].answer]
        /\ moves(h, [handler[h] EXCEPT !.pc = "collected"])
    BY <1>2, <1>5 DEF CommitCollection
  <2>2. providerTx'[key] = handler[h].answer /\ \A k \in Keys \ {key} : providerTx'[k] = providerTx[k]
    BY <1>1, <1>2, <2>1 DEF TypeOK
  <2>3. Grows
    BY <1>2, <1>3, <1>5, <2>2 DEF Grows
  <2>4. /\ handler'[h].pc = "collected" /\ handler'[h].key = handler[h].key
        /\ handler'[h].answer = handler[h].answer
        /\ \A g \in Handlers \ {h} : handler'[g] = handler[g]
    BY <1>1, <2>1, Moved, LocalFacts
  <2>5. /\ handler[h].answer # "none"
        /\ handler[h].answer = "SUCCEEDED" => charge[key] = "TAKEN"
        /\ handler[h].answer = "FAILED" => charge[key] = "REFUSED"
        /\ sub[s].status # "none"
    BY <1>1, <1>2 DEF HandlerInv
  <2>6. HandlerInv(h)'
    BY <1>1, <1>2, <1>3, <2>2, <2>3, <2>4, <2>5 DEF HandlerInv
  <2>7. ASSUME NEW k \in Keys PROVE KeyInv(k)'
    <3>1. CASE k # key
      BY <3>1, <1>1, <1>3, <2>2, <2>3, KeyKept DEF IInv
    <3>2. KeyInv(key)'
      <4>1. KeyInv(key)
        BY <1>2 DEF IInv
      <4>2. QED
        BY <4>1, <1>2, <1>3, <1>5, <2>2, <2>3, <2>5 DEF KeyInv
    <3>3. QED
      BY <3>1, <3>2
  <2>8. QED
    BY <1>1, <1>3, <2>3, <2>4, <2>6, <2>7, LocalStep
<1>6. QED
  BY <1>4, <1>5

\* The end of a handler: it writes the invoice it collected and the row of its
\* subscription, which moves on exactly when the invoice is PAID.
LEMMA EndStep ==
  ASSUME IInv, TypeOK', Grows, NEW h \in Handlers, handler[h].pc # "idle",
         NEW s \in Subs, NEW p \in Periods, NEW n \in 1..3, handler[h].key = <<s, p, n>>,
         moves(h, Idle), UNCHANGED <<candidate, overlapped>>,
         NEW i, invoice' = [invoice EXCEPT ![s][p] = i],
         NEW r, sub' = [sub EXCEPT ![s] = r],
         r.status # "none",
         r.status \in {"UNPAID", "EXPIRED"} => Exhausted(s)',
         r.period = IF i.status = "PAID" THEN sub[s].period + 1 ELSE sub[s].period,
         InvoiceInv(s, p)',
         \A k \in Keys : KeyInv(k)'
  PROVE  IInv'
<1>1. TypeOK /\ HandlerInv(h) /\ SubInv(s)
  BY DEF IInv
<1>2. handler'[h] = Idle /\ \A g \in Handlers \ {h} : handler'[g] = handler[g]
  BY <1>1, Moved
<1>3. /\ invoice'[s][p] = i
      /\ \A q \in Periods \ {p} : invoice'[s][q] = invoice[s][q]
      /\ \A t \in Subs \ {s} : invoice'[t] = invoice[t]
      /\ sub'[s] = r
      /\ \A t \in Subs \ {s} : sub'[t] = sub[t]
  BY <1>1 DEF TypeOK
<1>4. ASSUME NEW g \in Handlers PROVE HandlerInv(g)'
  <2>1. CASE g = h
    BY <1>2, <2>1 DEF HandlerInv, Idle
  <2>2. CASE g # h
    BY <1>1, <1>2, <2>2, HandlerKept DEF IInv
  <2>3. QED
    BY <2>1, <2>2
<1>5. ASSUME NEW t \in Subs, NEW q \in Periods PROVE InvoiceInv(t, q)'
  <2>1. CASE t = s /\ q = p
    BY <2>1
  <2>2. CASE t # s \/ q # p
    BY <1>1, <1>3, <2>2, InvoiceKept DEF IInv
  <2>3. QED
    BY <2>1, <2>2
<1>6. \A g \in Handlers : \A t : holds(g, t)' => g # h /\ holds(g, t) /\ handler'[g].key = handler[g].key
  BY <1>2 DEF holds, Idle
<1>7. ASSUME NEW t \in Subs PROVE SubInv(t)'
  <2>1. CASE t = s
    <3>1. NewInv(s)'
      BY <1>3 DEF NewInv
    <3>2. AloneInv(s)'
      <4> SUFFICES ASSUME ~overlapped[s]
                   PROVE  AloneInv(s)'
        BY DEF AloneInv
      <4>1. holds(h, s) /\ sub[s].status # "none"
        BY <1>1 DEF holds, HandlerInv
      <4>2. AloneInv(s)
        BY <1>1 DEF SubInv
      <4>3. /\ p = sub[s].period
            /\ \A q \in Periods : invoice[s][q].status = "PAID" <=> q < sub[s].period
            /\ \A g \in Handlers : ~holds(g, s)'
        BY <4>1, <4>2, <1>6 DEF AloneInv
      <4>4. sub'[s].period <= MaxPeriod + 1
        BY <4>3, <1>3, RenewalAssumption DEF Periods
      <4>5. ASSUME NEW q \in Periods
            PROVE  invoice'[s][q].status = "PAID" <=> q < sub'[s].period
        <5>1. p \in Int /\ q \in Int
          BY RenewalAssumption DEF Periods
        <5>2. CASE q = p
          BY <1>3, <4>3, <5>1, <5>2
        <5>3. CASE q # p
          BY <1>3, <4>3, <5>1, <5>3
        <5>4. QED
          BY <5>2, <5>3
      <4>6. QED
        BY <4>3, <4>4, <4>5 DEF AloneInv
    <3>3. QED
      BY <2>1, <3>1, <3>2, <1>3 DEF SubInv
  <2>2. CASE t # s
    BY <1>1, <1>3, <1>6, <2>2, SubKept DEF IInv
  <2>3. QED
    BY <2>1, <2>2
<1>8. QED
  BY <1>4, <1>5, <1>7 DEF IInv

\* A refused activation rolls everything back.
LEMMA RolledBackStep ==
  ASSUME IInv, NEW h \in Handlers, RecordSucceeded(h) \/ RecordRecovered(h),
         ~mayBecomeActive(handler[h].key[1])
  PROVE  IInv'
<1>1. TypeOK'
  BY HandlerTypes DEF IInv, Handle
<1>2. /\ handler[h].pc # "idle" /\ moves(h, Idle)
      /\ UNCHANGED <<sub, invoice, attempt, providerTx, statusTx, charge, candidate, overlapped>>
  BY DEF RecordSucceeded, RecordRecovered
<1>3. QED
  BY <1>1, <1>2, GiveUpStep

\* What the outcome of an attempt changes in what is kept of attempts.
LEMMA RecordedFacts ==
  ASSUME IInv, NEW h \in Handlers, handler[h].pc = "collected",
         NEW s \in Subs, NEW p \in Periods, NEW n \in 1..3, handler[h].key = <<s, p, n>>,
         recordAttempt(<<s, p, n>>, outcomeOf(handler[h].answer)),
         UNCHANGED <<providerTx, statusTx, charge>>,
         \A t \in Subs : sub[t].status # "none" => sub'[t].status # "none"
  PROVE  /\ Grows
         /\ attempt'[<<s, p, n>>] = outcomeOf(handler[h].answer)
         /\ Answered(s, p, n)' /\ Recorded(s, p, n)'
         /\ outcomeOf(handler[h].answer) # "SUCCEEDED" =>
              Answered(s, p, n + 1)' /\ Recorded(s, p, n + 1)'
         /\ outcomeOf(handler[h].answer) = "SUCCEEDED" => charge[<<s, p, n>>] = "TAKEN"
         /\ \A k \in Keys : KeyInv(k)'
<1> DEFINE key == <<s, p, n>>
<1>0. PICK outcome : outcome = outcomeOf(handler[h].answer)
  OBVIOUS
<1>1. TypeOK /\ HandlerInv(h) /\ key \in Keys /\ KeyInv(key)
  BY KeyFacts, AttemptNumbers DEF IInv
<1>2. providerTx[key] = handler[h].answer /\ providerTx[key] \in Answers
  BY <1>1 DEF HandlerInv, TypeOK
<1>3. outcome # "none" /\ outcome \in Outcomes
  BY <1>0, <1>2, OutcomeFacts
<1>4. attempt[key] \in {"none", outcome}
  BY <1>0, <1>1, <1>2 DEF KeyInv
<1>5. attempt'[key] = outcome /\ \A k \in Keys \ {key} : attempt'[k] = attempt[k]
  BY <1>0, <1>1, <1>4 DEF TypeOK, recordAttempt
<1>6. Grows
  BY <1>4, <1>5 DEF Grows
<1>7. Answered(s, p, n)' /\ Recorded(s, p, n)'
  <2>1. Answered(s, p, n) /\ Recorded(s, p, n)
    BY <1>1 DEF HandlerInv
  <2>2. n \in Int
    OBVIOUS
  <2>3. QED
    BY <1>6, <2>1, <2>2, AnsweredKept
<1>8. outcome # "SUCCEEDED" => providerTx[key] \in Unsuccessful
  BY <1>0, <1>2 DEF outcomeOf, Answers, Unsuccessful
<1>9. ASSUME outcome # "SUCCEEDED"
      PROVE  Answered(s, p, n + 1)' /\ Recorded(s, p, n + 1)'
  <2>1. \A m \in Attempts : m < n + 1 => m < n \/ m = n
    BY AttemptNumbers
  <2>2. QED
    BY <1>3, <1>5, <1>7, <1>8, <1>9, <2>1 DEF Answered, Recorded
<1>10. outcome = "SUCCEEDED" => charge[key] = "TAKEN"
  BY <1>0, <1>1, <1>2 DEF KeyInv, outcomeOf
<1>11. ASSUME NEW k \in Keys PROVE KeyInv(k)'
  <2>1. CASE k # key
    BY <1>1, <1>5, <1>6, <2>1, KeyKept DEF IInv
  <2>2. KeyInv(key)'
    BY <1>0, <1>1, <1>2, <1>3, <1>5, <1>7 DEF KeyInv, Answers
  <2>3. QED
    BY <2>1, <2>2
<1>12. QED
  BY <1>0, <1>3, <1>5, <1>6, <1>7, <1>9, <1>10, <1>11

\* An advanced row, an exhausted one and one that waits for its next attempt.
LEMMA RowEnds ==
  ASSUME NEW r \in SubscriptionRow
  PROVE  /\ advanceSubscriptionPeriod(r).status = "ACTIVE"
         /\ advanceSubscriptionPeriod(r).period = r.period + 1
         /\ exhausted(r).period = r.period /\ exhausted(r).status # "none"
         /\ \A waits \in BOOLEAN :
              LET w == [r EXCEPT !.status = pastDue(r.status), !.retryWaits = waits]
              IN /\ w.period = r.period /\ w.status # "none"
                 /\ w.status \in {"UNPAID", "EXPIRED"} => r.status \in {"UNPAID", "EXPIRED"}
  BY DEF SubscriptionRow, SubscriptionStatuses, Terminal, advanceSubscriptionPeriod,
     exhausted, pastDue

LEMMA SucceededStep ==
  ASSUME IInv, NEW h \in Handlers, RecordSucceeded(h)
  PROVE  IInv'
<1>1. TypeOK /\ HandlerInv(h) /\ handler[h].pc = "collected" /\ TypeOK'
  BY HandlerTypes DEF IInv, RecordSucceeded, Handle
<1>2. PICK s \in Subs, p \in Periods, n \in 1..3 : handler[h].key = <<s, p, n>>
  BY <1>1, HeldAnswered
<1>3. CASE ~mayBecomeActive(s)
  BY <1>2, <1>3, RolledBackStep
<1>4. CASE mayBecomeActive(s)
  <2> DEFINE i == [status |-> "PAID", count |-> n, retryWaits |-> FALSE]
             r == advanceSubscriptionPeriod(sub[s])
  <2>1. /\ recordAttempt(<<s, p, n>>, "SUCCEEDED") /\ moves(h, Idle)
        /\ "SUCCEEDED" = outcomeOf(handler[h].answer)
        /\ invoice' = [invoice EXCEPT ![s][p] = i]
        /\ sub' = [sub EXCEPT ![s] = r]
        /\ UNCHANGED <<providerTx, statusTx, charge, candidate, overlapped>>
    BY <1>2, <1>4 DEF RecordSucceeded
  <2>2. sub[s] \in SubscriptionRow
    BY <1>1, <1>2, RowFacts DEF HandlerInv
  <2>3. r.status = "ACTIVE" /\ r.period = sub[s].period + 1
    BY <2>2, RowEnds
  <2>4. i.status = "PAID" /\ i.count = n
    OBVIOUS
  <2> HIDE DEF i, r
  <2>5. /\ invoice'[s][p] = i
        /\ \A t \in Subs : sub[t].status # "none" => sub'[t].status # "none"
    BY <1>1, <2>1, <2>3 DEF TypeOK
  <2>6. /\ Grows
        /\ Answered(s, p, n)' /\ Recorded(s, p, n)'
        /\ charge[<<s, p, n>>] = "TAKEN"
        /\ \A k \in Keys : KeyInv(k)'
    <3>1. UNCHANGED <<providerTx, statusTx, charge>>
      BY <2>1
    <3>2. Grows /\ \A k \in Keys : KeyInv(k)'
      BY <1>1, <1>2, <2>1, <2>5, <3>1, RecordedFacts
    <3>3. Answered(s, p, n)' /\ Recorded(s, p, n)'
      BY <1>1, <1>2, <2>1, <2>5, <3>1, RecordedFacts
    <3>4. charge[<<s, p, n>>] = "TAKEN"
      BY <1>1, <1>2, <2>1, <2>5, <3>1, RecordedFacts
    <3>5. QED
      BY <3>2, <3>3, <3>4
  <2>7. InvoiceInv(s, p)'
    BY <2>1, <2>4, <2>5, <2>6, AttemptNumbers DEF InvoiceInv
  <2>8. QED
    BY <1>1, <1>2, <2>1, <2>3, <2>4, <2>6, <2>7, EndStep
<1>5. QED
  BY <1>3, <1>4

LEMMA RecoveredStep ==
  ASSUME IInv, NEW h \in Handlers, RecordRecovered(h)
  PROVE  IInv'
<1>1. TypeOK /\ HandlerInv(h) /\ handler[h].pc = "recovered" /\ TypeOK'
  BY HandlerTypes DEF IInv, RecordRecovered, Handle
<1>2. PICK s \in Subs, p \in Periods, n \in 1..3 : handler[h].key = <<s, p, n>>
  BY <1>1, HeldAnswered
<1>3. CASE ~mayBecomeActive(s)
  BY <1>2, <1>3, RolledBackStep
<1>4. CASE mayBecomeActive(s)
  <2> DEFINE i == [invoice[s][p] EXCEPT !.status = "PAID", !.retryWaits = FALSE]
             r == advanceSubscriptionPeriod(sub[s])
  <2>0. PICK c \in Int : c = invoice[s][p].count
    BY <1>1, InvoiceFacts
  <2>1. /\ moves(h, Idle)
        /\ invoice' = [invoice EXCEPT ![s][p] = i]
        /\ sub' = [sub EXCEPT ![s] = r]
        /\ UNCHANGED <<attempt, providerTx, statusTx, charge, candidate, overlapped>>
    BY <1>1, <1>2, <1>4 DEF RecordRecovered, TypeOK
  <2>2. sub[s] \in SubscriptionRow
    BY <1>1, <1>2, RowFacts DEF HandlerInv
  <2>3. r.status = "ACTIVE" /\ r.period = sub[s].period + 1
    BY <2>2, RowEnds
  <2>4. i.status = "PAID" /\ i.count = c
    BY <1>1, <2>0, InvoiceFacts DEF InvoiceRow
  <2> HIDE DEF i, r
  <2>5. /\ invoice'[s][p] = i
        /\ \A t \in Subs : sub[t].status # "none" => sub'[t].status # "none"
    BY <1>1, <2>1, <2>3 DEF TypeOK
  <2>6. Grows
    BY <2>1, <2>5 DEF Grows
  <2>7. \A k \in Keys : KeyInv(k)'
    BY <1>1, <2>1, <2>6, KeyKept DEF IInv
  <2>8. \E m \in Attempts : charge[<<s, p, m>>] = "TAKEN"
    <3>1. n > 1 /\ charge[<<s, p, n - 1>>] = "TAKEN"
      BY <1>1, <1>2 DEF HandlerInv, priorKey
    <3>2. QED
      BY <3>1, AttemptNumbers
  <2>9. InvoiceInv(s, p)'
    <3>1. Answered(s, p, c) /\ Recorded(s, p, c)
      BY <2>0 DEF IInv, InvoiceInv
    <3>2. Answered(s, p, c)' /\ Recorded(s, p, c)'
      BY <2>6, <3>1, AnsweredKept
    <3>3. QED
      BY <2>1, <2>4, <2>5, <2>8, <3>2 DEF InvoiceInv
  <2>10. QED
    BY <1>1, <1>2, <2>1, <2>3, <2>4, <2>6, <2>7, <2>9, EndStep
<1>5. QED
  BY <1>3, <1>4

\* An attempt that was recorded, and not as a success.
LEMMA UnsuccessfulStep ==
  ASSUME IInv, TypeOK', NEW h \in Handlers, handler[h].pc = "collected",
         NEW s \in Subs, NEW p \in Periods, NEW n \in 1..3, handler[h].key = <<s, p, n>>,
         NEW outcome, outcome = outcomeOf(handler[h].answer), outcome # "SUCCEEDED",
         recordAttempt(<<s, p, n>>, outcome), moves(h, Idle),
         NEW i, invoice' = [invoice EXCEPT ![s][p] = i], i.status # "PAID", i.count = n,
         NEW r, sub' = [sub EXCEPT ![s] = r], r.status # "none", r.period = sub[s].period,
         r.status \in {"UNPAID", "EXPIRED"} =>
           sub[s].status \in {"UNPAID", "EXPIRED"} \/ (n = 3 /\ outcome = "FAILED"),
         UNCHANGED <<providerTx, statusTx, charge, candidate, overlapped>>
  PROVE  IInv'
<1>1. /\ invoice'[s][p] = i
      /\ \A t \in Subs : sub[t].status # "none" => sub'[t].status # "none"
  BY DEF IInv, TypeOK
<1>2. /\ Grows
      /\ attempt'[<<s, p, n>>] = outcome
      /\ Answered(s, p, n)' /\ Recorded(s, p, n)'
      /\ Answered(s, p, n + 1)' /\ Recorded(s, p, n + 1)'
      /\ \A k \in Keys : KeyInv(k)'
  <2>1. UNCHANGED <<providerTx, statusTx, charge>>
    OBVIOUS
  <2>2. Grows
    BY <1>1, <2>1, RecordedFacts
  <2>3. attempt'[<<s, p, n>>] = outcome
    BY <1>1, <2>1, RecordedFacts
  <2>4. Answered(s, p, n)' /\ Recorded(s, p, n)'
    BY <1>1, <2>1, RecordedFacts
  <2>5. Answered(s, p, n + 1)' /\ Recorded(s, p, n + 1)'
    BY <1>1, <2>1, RecordedFacts
  <2>6. \A k \in Keys : KeyInv(k)'
    BY <1>1, <2>1, RecordedFacts
  <2>7. QED
    BY <2>2, <2>3, <2>4, <2>5, <2>6
<1>3. InvoiceInv(s, p)'
  BY <1>1, <1>2 DEF InvoiceInv
<1>4. ASSUME r.status \in {"UNPAID", "EXPIRED"} PROVE Exhausted(s)'
  <2>1. CASE sub[s].status \in {"UNPAID", "EXPIRED"}
    BY <1>2, <2>1, ExhaustedKept DEF IInv, SubInv
  <2>2. CASE n = 3 /\ outcome = "FAILED"
    <3>1. \A m \in Attempts : m < n + 1
      BY <2>2, AttemptNumbers
    <3>2. QED
      BY <1>2, <2>2, <3>1 DEF Exhausted, Recorded, MAX_COLLECTION_ATTEMPTS
  <2>3. QED
    BY <1>4, <2>1, <2>2
<1>5. QED
  BY <1>2, <1>3, <1>4, EndStep

LEMMA AmbiguousStep ==
  ASSUME IInv, NEW h \in Handlers, RecordAmbiguous(h)
  PROVE  IInv'
<1>1. TypeOK /\ HandlerInv(h) /\ handler[h].pc = "collected" /\ TypeOK'
  BY HandlerTypes DEF IInv, RecordAmbiguous, Handle
<1>2. PICK s \in Subs, p \in Periods, n \in 1..3 : handler[h].key = <<s, p, n>>
  BY <1>1, HeldAnswered
<1> DEFINE i == [status |-> IF retryFollows(n) THEN "OPEN" ELSE "OVERDUE",
                 count |-> n, retryWaits |-> retryFollows(n)]
           r == [sub[s] EXCEPT !.status = pastDue(sub[s].status), !.retryWaits = retryFollows(n)]
           outcome == handler[h].answer
<1>3. /\ recordAttempt(<<s, p, n>>, outcome) /\ moves(h, Idle)
      /\ invoice' = [invoice EXCEPT ![s][p] = i]
      /\ ambiguous(outcome)
      /\ UNCHANGED <<providerTx, statusTx, charge, candidate, overlapped>>
  BY <1>2 DEF RecordAmbiguous
<1>4. sub' = [sub EXCEPT ![s] = r]
  BY <1>2 DEF RecordAmbiguous
<1>5. outcome = outcomeOf(outcome) /\ outcome # "SUCCEEDED"
  BY <1>3 DEF ambiguous, outcomeOf
<1>6. sub[s] \in SubscriptionRow /\ retryFollows(n) \in BOOLEAN
  BY <1>1, <1>2, RowFacts DEF HandlerInv, retryFollows, MAX_COLLECTION_ATTEMPTS
<1>7. /\ r.status # "none" /\ r.period = sub[s].period
      /\ r.status \in {"UNPAID", "EXPIRED"} => sub[s].status \in {"UNPAID", "EXPIRED"}
  BY <1>6, RowEnds
<1>8. i.status # "PAID" /\ i.count = n
  OBVIOUS
<1> HIDE DEF i, r, outcome
<1>9. outcome = outcomeOf(handler[h].answer)
  BY <1>5 DEF outcome
<1>10. QED
  BY <1>1, <1>2, <1>3, <1>4, <1>5, <1>7, <1>8, <1>9, UnsuccessfulStep

LEMMA FailedStep ==
  ASSUME IInv, NEW h \in Handlers, RecordFailed(h)
  PROVE  IInv'
<1>1. TypeOK /\ HandlerInv(h) /\ handler[h].pc = "collected" /\ TypeOK'
  BY HandlerTypes DEF IInv, RecordFailed, Handle
<1>2. PICK s \in Subs, p \in Periods, n \in 1..3 : handler[h].key = <<s, p, n>>
  BY <1>1, HeldAnswered
<1> DEFINE i == [status |-> IF retryFollows(n) THEN "OPEN" ELSE "UNCOLLECTIBLE",
                 count |-> n, retryWaits |-> retryFollows(n)]
           r == IF retryFollows(n)
                THEN [sub[s] EXCEPT !.status = pastDue(sub[s].status), !.retryWaits = TRUE]
                ELSE exhausted(sub[s])
<1>3. /\ recordAttempt(<<s, p, n>>, "FAILED") /\ moves(h, Idle)
      /\ invoice' = [invoice EXCEPT ![s][p] = i]
      /\ sub' = [sub EXCEPT ![s] = r]
      /\ "FAILED" = outcomeOf(handler[h].answer)
      /\ UNCHANGED <<providerTx, statusTx, charge, candidate, overlapped>>
  BY <1>2 DEF RecordFailed
<1>4. sub[s] \in SubscriptionRow /\ (~retryFollows(n) => n = 3)
  BY <1>1, <1>2, RowFacts DEF HandlerInv, retryFollows, MAX_COLLECTION_ATTEMPTS
<1>5. /\ r.status # "none" /\ r.period = sub[s].period
      /\ r.status \in {"UNPAID", "EXPIRED"} => sub[s].status \in {"UNPAID", "EXPIRED"} \/ n = 3
  <2>1. CASE retryFollows(n)
    BY <1>4, <2>1, RowEnds
  <2>2. CASE ~retryFollows(n)
    BY <1>4, <2>2, RowEnds
  <2>3. QED
    BY <2>1, <2>2
<1>6. i.status # "PAID" /\ i.count = n
  OBVIOUS
<1> HIDE DEF i, r
<1>7. QED
  BY <1>1, <1>2, <1>3, <1>5, <1>6, UnsuccessfulStep

\* A handler that prepares an attempt: the invoice is not PAID, so that all its
\* attempts were answered without success.
LEMMA PrepareStep ==
  ASSUME IInv, NEW h \in Handlers, NEW s \in Subs, Prepare(h, s)
  PROVE  IInv'
<1>1. TypeOK /\ TypeOK' /\ HandlerInv(h)
  BY HandlerTypes DEF IInv
<1>2. PICK p \in Periods, c \in 0..2 : p = sub[s].period /\ c = invoice[s][p].count
  <2>1. sub[s].period \in Periods
    BY <1>1, RowFacts, RenewalAssumption DEF Prepare, Periods, SubscriptionRow
  <2>2. invoice[s][sub[s].period].count \in 0..3
    BY <1>1, <2>1, InvoiceFacts
  <2>3. invoice[s][sub[s].period].count < 3
    BY DEF Prepare, canCollectAttempt, MAX_COLLECTION_ATTEMPTS
  <2>4. QED
    BY <2>1, <2>2, <2>3
<1> DEFINE i == ensureInvoiceForPeriod(invoice[s][p])
           local == [pc |-> "prepared", key |-> <<s, p, c + 1>>, answer |-> "none"]
<1>3. /\ handler[h] = Idle
      /\ sub[s].status # "none" /\ invoice[s][p].status # "PAID"
      /\ invoice' = [invoice EXCEPT ![s][p] = i]
      /\ moves(h, local)
      /\ overlapped' = [overlapped EXCEPT ![s] = @ \/ \E g \in Handlers : holds(g, s)]
      /\ UNCHANGED <<sub, attempt, providerTx, statusTx, charge, candidate>>
  BY <1>2 DEF Prepare
<1>4. i.count = c /\ i.status # "PAID"
  <2>1. invoice[s][p] \in InvoiceRow
    BY <1>1, InvoiceFacts
  <2>2. QED
    BY <1>2, <1>3, <2>1 DEF ensureInvoiceForPeriod, InvoiceRow
<1> HIDE DEF i
<1>5. /\ handler'[h] = local
      /\ \A g \in Handlers \ {h} : handler'[g] = handler[g]
      /\ invoice'[s][p] = i
      /\ \A q \in Periods \ {p} : invoice'[s][q] = invoice[s][q]
      /\ \A t \in Subs \ {s} : invoice'[t] = invoice[t] /\ overlapped'[t] = overlapped[t]
      /\ ~overlapped'[s] => ~overlapped[s] /\ \A g \in Handlers : ~holds(g, s)
  <2>1. handler'[h] = local /\ \A g \in Handlers \ {h} : handler'[g] = handler[g]
    BY <1>1, <1>3, Moved
  <2> HIDE DEF local
  <2>2. /\ invoice'[s][p] = i
        /\ \A q \in Periods \ {p} : invoice'[s][q] = invoice[s][q]
        /\ \A t \in Subs \ {s} : invoice'[t] = invoice[t]
    BY <1>1, <1>3 DEF TypeOK
  <2>3. \A t \in Subs \ {s} : overlapped'[t] = overlapped[t]
    BY <1>1, <1>3 DEF TypeOK
  <2>4. ~overlapped'[s] => ~overlapped[s] /\ \A g \in Handlers : ~holds(g, s)
    BY <1>1, <1>3 DEF TypeOK
  <2>5. QED
    BY <2>1, <2>2, <2>3, <2>4
<1>6. local.pc = "prepared" /\ local.key = <<s, p, c + 1>> /\ local.key[1] = s /\ local.key[2] = p
  OBVIOUS
<1> HIDE DEF local
<1>7. Grows
  BY <1>3 DEF Grows
<1>8. /\ Answered(s, p, c)' /\ Recorded(s, p, c)'
      /\ Answered(s, p, c + 1)' /\ Recorded(s, p, c + 1)'
  <2>1. /\ Answered(s, p, c) /\ Recorded(s, p, c)
        /\ Answered(s, p, c + 1) /\ Recorded(s, p, c + 1)
    BY <1>2, <1>3 DEF IInv, InvoiceInv
  <2>2. c \in Int /\ c + 1 \in Int
    OBVIOUS
  <2>3. QED
    BY <1>7, <2>1, <2>2, AnsweredKept
<1>9. ASSUME NEW k \in Keys PROVE KeyInv(k)'
  BY <1>1, <1>3, <1>7, KeyKept DEF IInv
<1>10. ASSUME NEW g \in Handlers PROVE HandlerInv(g)'
  <2>1. CASE g = h
    BY <1>3, <1>5, <1>6, <1>8, <2>1 DEF HandlerInv
  <2>2. CASE g # h
    BY <1>1, <1>5, <1>7, <2>2, HandlerKept DEF IInv
  <2>3. QED
    BY <2>1, <2>2
<1>11. ASSUME NEW t \in Subs, NEW q \in Periods PROVE InvoiceInv(t, q)'
  <2>1. CASE t = s /\ q = p
    BY <1>4, <1>5, <1>8, <2>1 DEF InvoiceInv
  <2>2. CASE t # s \/ q # p
    BY <1>1, <1>5, <1>7, <2>2, InvoiceKept DEF IInv
  <2>3. QED
    BY <2>1, <2>2
<1>12. ASSUME NEW t \in Subs PROVE SubInv(t)'
  <2>1. CASE t = s
    <3>1. NewInv(s)'
      BY <1>3 DEF NewInv
    <3>2. AloneInv(s)'
      <4> SUFFICES ASSUME ~overlapped'[s]
                   PROVE  AloneInv(s)'
        BY DEF AloneInv
      <4>1. ~overlapped[s] /\ \A g \in Handlers : ~holds(g, s)
        BY <1>5
      <4>2. \A g \in Handlers : holds(g, s)' => g = h
        BY <4>1, <1>5 DEF holds
      <4>3. handler'[h].key[2] = sub'[s].period
        BY <1>2, <1>3, <1>5, <1>6
      <4>4. /\ sub'[s].period <= MaxPeriod + 1
            /\ \A q \in Periods : invoice[s][q].status = "PAID" <=> q < sub[s].period
        BY <1>3, <4>1 DEF IInv, SubInv, AloneInv
      <4>5. \A q \in Periods : invoice'[s][q].status = "PAID" <=> invoice[s][q].status = "PAID"
        BY <1>3, <1>4, <1>5
      <4>6. QED
        BY <1>3, <4>2, <4>3, <4>4, <4>5 DEF AloneInv
    <3>3. sub'[s].status \in {"UNPAID", "EXPIRED"} => Exhausted(s)'
      BY <1>3, <1>7, ExhaustedKept DEF IInv, SubInv
    <3>4. QED
      BY <2>1, <3>1, <3>2, <3>3 DEF SubInv
  <2>2. CASE t # s
    <3>1. \A g \in Handlers : holds(g, t)' => holds(g, t) /\ handler'[g].key = handler[g].key
      BY <1>5, <1>6, <2>2 DEF holds
    <3>2. QED
      BY <1>1, <1>3, <1>5, <1>7, <2>2, <3>1, SubKept DEF IInv
  <2>3. QED
    BY <2>1, <2>2
<1>13. QED
  BY <1>1, <1>9, <1>10, <1>11, <1>12 DEF IInv

-----------------------------------------------------------------------------
(***************************************************************************)
(* The theorems.                                                           *)
(***************************************************************************)
LEMMA InitInv == Init => IInv
<1> SUFFICES ASSUME Init PROVE IInv
  OBVIOUS
<1>1. TypeOK
  BY InitType
<1>2. ASSUME NEW k \in Keys PROVE KeyInv(k)
  BY <1>2 DEF Init, KeyInv
<1>3. ASSUME NEW h \in Handlers PROVE HandlerInv(h)
  BY <1>3 DEF Init, HandlerInv, Idle
<1>4. ASSUME NEW s \in Subs, NEW p \in Periods PROVE InvoiceInv(s, p)
  BY <1>4, AttemptNumbers DEF Init, InvoiceInv, Answered, Recorded
<1>5. ASSUME NEW s \in Subs PROVE SubInv(s)
  BY <1>5 DEF Init, SubInv, NewInv, AloneInv, NoSubscription, holds, Idle
<1>6. QED
  BY <1>1, <1>2, <1>3, <1>4, <1>5 DEF IInv

LEMMA StepInv ==
  ASSUME IInv, [Next]_vars
  PROVE  IInv'
<1>1. CASE UNCHANGED vars
  BY <1>1, QuietStep DEF vars, IInv, TypeOK
<1>2. CASE CreateCustomer \/ UpdateCustomer \/ CreateProduct \/ CreatePrice
  BY <1>2, CatalogStep
<1>3. ASSUME NEW s \in Subs, NEW trial \in BOOLEAN, NEW atPeriodEnd \in BOOLEAN,
             CreateSubscription(s, trial, atPeriodEnd)
      PROVE  IInv'
  BY <1>3, CreateStep
<1>4. ASSUME NEW s \in Subs,
             \/ Pause(s) \/ Resume(s)
             \/ \E atPeriodEnd \in BOOLEAN : Cancel(s, atPeriodEnd)
             \/ \E p \in Periods : CollectInvoiceNow(s, p)
             \/ ScanTerminal(s) \/ ApplyTerminal(s)
             \/ RetryComes(s) \/ GracePasses(s)
      PROVE  IInv'
  BY <1>4, MerchantStep
<1>5. ASSUME NEW s \in Subs, NEW h \in Handlers, Prepare(h, s)
      PROVE  IInv'
  BY <1>5, PrepareStep
<1>6. ASSUME NEW h \in Handlers, Handle(h)
      PROVE  IInv'
  BY <1>6, QueryStep, StoredStep, ChargeStep, CommitStep, SucceededStep, RecoveredStep,
     AmbiguousStep, FailedStep DEF Handle
<1>7. ASSUME NEW h \in Handlers, GiveUp(h)
      PROVE  IInv'
  <2>1. TypeOK'
    BY <1>7, HandlerTypes DEF IInv
  <2>2. QED
    BY <1>7, <2>1, GiveUpStep DEF GiveUp
<1>8. CASE Tick
  BY <1>8, TickStep
<1>9. QED
  BY <1>1, <1>2, <1>3, <1>4, <1>5, <1>6, <1>7, <1>8 DEF Next

\* The inductive invariant holds.
THEOREM Invariance == Spec => []IInv
<1>1. Init => IInv
  BY InitInv
<1>2. IInv /\ [Next]_vars => IInv'
  BY StepInv
<1>3. QED
  BY <1>1, <1>2, PTL DEF Spec

\* Every variable keeps its type, whatever the handlers and the merchant do.
THEOREM TypeCorrect == Spec => []TypeOK
<1>1. IInv => TypeOK
  BY DEF IInv
<1>2. QED
  BY <1>1, Invariance, PTL

\* A PAID invoice was charged, no period is left behind as long as handlers do
\* not overlap, and a second charge needs an open answer to the first.
THEOREM Agreement == Spec => []CollectionsAgree
<1>1. ASSUME IInv PROVE PaidInvoiceWasCharged
  <2> SUFFICES ASSUME NEW s \in Subs, NEW p \in Periods, invoice[s][p].status = "PAID"
               PROVE  \E n \in Attempts : charge[<<s, p, n>>] = "TAKEN"
    BY DEF PaidInvoiceWasCharged
  <2>1. QED
    BY <1>1 DEF IInv, InvoiceInv
<1>2. ASSUME IInv PROVE NoPeriodLostAlone
  <2> SUFFICES ASSUME NEW s \in Subs, sub[s].status # "none", ~overlapped[s]
               PROVE  {p \in Periods : invoice[s][p].status = "PAID"} = 0..sub[s].period - 1
    BY DEF NoPeriodLostAlone
  <2>1. /\ sub[s].period <= MaxPeriod + 1
        /\ \A p \in Periods : invoice[s][p].status = "PAID" <=> p < sub[s].period
    BY <1>2 DEF IInv, SubInv, AloneInv
  <2>2. sub[s].period \in Nat
    BY <1>2, RowFacts DEF IInv, SubscriptionRow
  <2>3. \A p : p \in 0..sub[s].period - 1 <=> p \in Periods /\ p < sub[s].period
    BY <2>1, <2>2, RenewalAssumption DEF Periods
  <2>4. QED
    BY <2>1, <2>3
<1>3. ASSUME IInv PROVE SecondChargeNeedsOpenAnswer
  <2> SUFFICES ASSUME NEW s \in Subs, NEW p \in Periods, NEW m \in Attempts, NEW n \in Attempts,
                      m < n, charge[<<s, p, m>>] = "TAKEN", charge[<<s, p, n>>] = "TAKEN"
               PROVE  providerTx[<<s, p, m>>] \in {"AMBIGUOUS", "TIMEOUT", "PENDING"}
    BY DEF SecondChargeNeedsOpenAnswer
  <2>1. KeyInv(<<s, p, m>>) /\ KeyInv(<<s, p, n>>)
    BY <1>3, KeyFacts DEF IInv
  <2>2. Answered(s, p, n)
    BY <2>1 DEF KeyInv
  <2>3. providerTx[<<s, p, m>>] \in Unsuccessful
    BY <2>2 DEF Answered
  <2>4. QED
    BY <2>1, <2>3 DEF KeyInv, Unsuccessful
<1>4. IInv => CollectionsAgree
  BY <1>1, <1>2, <1>3 DEF CollectionsAgree
<1>5. QED
  BY <1>4, Invariance, PTL

\* UNPAID, and then EXPIRED, takes three recorded attempts at one invoice, none
\* of them a success and the last one refused.
THEOREM ThreeAttempts == Spec => []UnpaidAfterThreeAttempts
<1>1. IInv => UnpaidAfterThreeAttempts
  BY DEF IInv, SubInv, Exhausted, UnpaidAfterThreeAttempts
<1>2. QED
  BY <1>1, Invariance, PTL

-----------------------------------------------------------------------------
\* What a step does to an ended subscription.
EndedStays(s) ==
  sub[s].status \in Terminal =>
    /\ sub'[s].status = sub[s].status
    /\ sub'[s].period = sub[s].period
    /\ \A h \in Handlers : handler[h].pc = "idle" => handler'[h].pc = "idle"
                           \/ handler'[h].key[1] # s

\* An ended row refuses every transition and is not due.
LEMMA EndedFacts ==
  ASSUME NEW s \in Subs, sub[s].status \in Terminal
  PROVE  /\ ~mayBecomeActive(s) /\ ~due(s)
         /\ \A status \in SubscriptionStatuses : ~canTransition(sub[s].status, status)
         /\ sub[s].status \notin {"none", "UNPAID", "PAUSED"}
  BY DEF Terminal, mayBecomeActive, due, canTransition, SUBSCRIPTION_TRANSITIONS,
     RENEWAL_ELIGIBLE_STATUSES, SubscriptionStatuses

LEMMA EndedByMerchant ==
  ASSUME TypeOK, NEW s \in Subs, NEW t \in Subs,
         \/ \E trial, atPeriodEnd \in BOOLEAN : CreateSubscription(t, trial, atPeriodEnd)
         \/ Pause(t) \/ Resume(t)
         \/ \E atPeriodEnd \in BOOLEAN : Cancel(t, atPeriodEnd)
         \/ \E p \in Periods : CollectInvoiceNow(t, p)
         \/ ScanTerminal(t) \/ ApplyTerminal(t)
         \/ RetryComes(t) \/ GracePasses(t)
  PROVE  EndedStays(s)
<1> SUFFICES ASSUME sub[s].status \in Terminal
             PROVE  /\ sub'[s].status = sub[s].status
                    /\ sub'[s].period = sub[s].period
                    /\ UNCHANGED handler
  BY DEF EndedStays
<1> USE EndedFacts DEF collection
<1>1. sub[s] \in SubscriptionRow
  BY RowFacts
<1>2. CASE \E trial, atPeriodEnd \in BOOLEAN : CreateSubscription(t, trial, atPeriodEnd)
  BY <1>2 DEF CreateSubscription, TypeOK
<1>3. CASE Pause(t) \/ Resume(t)
  BY <1>3 DEF Pause, Resume, TypeOK, SubscriptionStatuses, Terminal
<1>4. CASE \E atPeriodEnd \in BOOLEAN : Cancel(t, atPeriodEnd)
  BY <1>4 DEF Cancel, TypeOK
<1>5. ASSUME NEW p \in Periods, CollectInvoiceNow(t, p)
      PROVE  /\ sub'[s].status = sub[s].status
             /\ sub'[s].period = sub[s].period
             /\ UNCHANGED handler
  <2> DEFINE x == IF sub[t].next_billing_at = NULL \/ sub[t].next_billing_at > now
                  THEN now ELSE sub[t].next_billing_at
  <2>1. sub' = [sub EXCEPT ![t] = [sub[t] EXCEPT !.retryWaits = FALSE, !.next_billing_at = x]]
    BY <1>5 DEF CollectInvoiceNow
  <2>2. UNCHANGED handler
    BY <1>5 DEF CollectInvoiceNow
  <2> HIDE DEF x
  <2>3. QED
    BY <1>1, <2>1, <2>2 DEF TypeOK, SubscriptionRow
<1>6. CASE ScanTerminal(t)
  BY <1>6 DEF ScanTerminal
<1>7. CASE ApplyTerminal(t)
  BY <1>7 DEF ApplyTerminal, TypeOK
<1>8. CASE RetryComes(t)
  BY <1>1, <1>8 DEF RetryComes, TypeOK, SubscriptionRow
<1>9. CASE GracePasses(t)
  BY <1>9 DEF GracePasses, TypeOK
<1>10. QED
  BY <1>2, <1>3, <1>4, <1>5, <1>6, <1>7, <1>8, <1>9

LEMMA EndedByHandler ==
  ASSUME TypeOK, NEW s \in Subs, NEW h \in Handlers, HandlerInv(h), Handle(h) \/ GiveUp(h)
  PROVE  EndedStays(s)
<1>1. handler[h].pc # "idle" /\ \A g \in Handlers \ {h} : handler'[g] = handler[g]
  BY DEF TypeOK, Handle, GiveUp, QueryBeforeRetry, CollectStored, CollectFromProvider,
     CommitCollection, RecordSucceeded, RecordRecovered, RecordAmbiguous, RecordFailed,
     mayCollect, moves
<1> SUFFICES ASSUME sub[s].status \in Terminal
             PROVE  sub'[s].status = sub[s].status /\ sub'[s].period = sub[s].period
  BY <1>1 DEF EndedStays
<1> DEFINE t == handler[h].key[1]
<1>2. t \in Subs /\ sub[s] \in SubscriptionRow
  BY <1>1, LocalFacts, KeyFacts, RowFacts DEF Terminal
<1>3. CASE UNCHANGED sub
  BY <1>3
<1>4. CASE RecordSucceeded(h) \/ RecordRecovered(h)
  BY <1>2, <1>4, EndedFacts DEF RecordSucceeded, RecordRecovered, TypeOK
<1>5. CASE RecordAmbiguous(h)
  <2>1. sub' = [sub EXCEPT ![t] = [sub[t] EXCEPT !.status = pastDue(sub[t].status),
                                                !.retryWaits = retryFollows(handler[h].key[3])]]
    BY <1>5 DEF RecordAmbiguous
  <2>2. QED
    BY <1>2, <2>1 DEF TypeOK, SubscriptionRow, pastDue, Terminal
<1>6. CASE RecordFailed(h)
  <2>1. \/ sub' = [sub EXCEPT ![t] = [sub[t] EXCEPT !.status = pastDue(sub[t].status), !.retryWaits = TRUE]]
        \/ sub' = [sub EXCEPT ![t] = exhausted(sub[t])]
    BY <1>6 DEF RecordFailed
  <2>2. CASE sub' = [sub EXCEPT ![t] = exhausted(sub[t])]
    <3>1. exhausted(sub[s]) = sub[s]
      BY DEF exhausted, pastDue, Terminal
    <3>2. sub'[s] = IF s = t THEN exhausted(sub[s]) ELSE sub[s]
      BY <1>2, <2>2 DEF TypeOK
    <3>3. QED
      BY <3>1, <3>2
  <2>3. CASE sub' = [sub EXCEPT ![t] = [sub[t] EXCEPT !.status = pastDue(sub[t].status), !.retryWaits = TRUE]]
    BY <1>2, <2>3 DEF TypeOK, SubscriptionRow, pastDue, Terminal
  <2>4. QED
    BY <2>1, <2>2, <2>3
<1>7. QED
  BY <1>3, <1>4, <1>5, <1>6 DEF Handle, GiveUp, QueryBeforeRetry, CollectStored,
     CollectFromProvider, CommitCollection

\* An ended subscription stays ended and in its period, and no collection of it
\* is prepared.
THEOREM Endings == Spec => EndedStaysEnded
<1>1. ASSUME IInv, [Next]_vars, NEW s \in Subs
      PROVE  EndedStays(s)
  <2>1. TypeOK
    BY <1>1 DEF IInv
  <2>2. CASE UNCHANGED <<sub, handler>>
    BY <2>2 DEF EndedStays
  <2>3. CASE UNCHANGED vars
    BY <2>2, <2>3 DEF vars
  <2>4. CASE CreateCustomer \/ UpdateCustomer \/ CreateProduct \/ CreatePrice \/ Tick
    BY <2>2, <2>4 DEF CreateCustomer, UpdateCustomer, CreateProduct, CreatePrice, Tick, collection
  <2>5. ASSUME NEW t \in Subs, NEW h \in Handlers, Prepare(h, t)
        PROVE  EndedStays(s)
    <3>1. /\ UNCHANGED sub /\ due(t)
          /\ moves(h, [pc |-> "prepared", key |-> <<t, sub[t].period, invoice[t][sub[t].period].count + 1>>,
                       answer |-> "none"])
      BY <2>5 DEF Prepare
    <3>2. sub[s].status \in Terminal => s # t
      BY <3>1, EndedFacts
    <3>3. handler'[h].key[1] = t /\ \A g \in Handlers \ {h} : handler'[g] = handler[g]
      BY <2>1, <3>1 DEF TypeOK, moves
    <3>4. QED
      BY <3>1, <3>2, <3>3 DEF EndedStays
  <2>6. ASSUME NEW t \in Subs,
               \/ \E trial, atPeriodEnd \in BOOLEAN : CreateSubscription(t, trial, atPeriodEnd)
               \/ Pause(t) \/ Resume(t)
               \/ \E atPeriodEnd \in BOOLEAN : Cancel(t, atPeriodEnd)
               \/ \E p \in Periods : CollectInvoiceNow(t, p)
               \/ ScanTerminal(t) \/ ApplyTerminal(t)
               \/ RetryComes(t) \/ GracePasses(t)
        PROVE  EndedStays(s)
    BY <2>1, <2>6, EndedByMerchant
  <2>7. ASSUME NEW h \in Handlers, Handle(h) \/ GiveUp(h)
        PROVE  EndedStays(s)
    BY <1>1, <2>7, EndedByHandler DEF IInv
  <2>8. QED
    BY <1>1, <2>3, <2>4, <2>5, <2>6, <2>7 DEF Next
<1> DEFINE Stays == \A s \in Subs : sub[s].status \in Terminal =>
             /\ sub'[s].status = sub[s].status
             /\ sub'[s].period = sub[s].period
             /\ \A h \in Handlers : handler[h].pc = "idle" => handler'[h].pc = "idle"
                                    \/ handler'[h].key[1] # s
<1>2. IInv /\ [Next]_vars => [Stays]_vars
  BY <1>1 DEF EndedStays
<1> HIDE DEF Stays
<1>3. Spec => [][Stays]_vars
  BY <1>2, Invariance, PTL DEF Spec
<1>4. QED
  BY <1>3 DEF EndedStaysEnded, Stays

-----------------------------------------------------------------------------
(***************************************************************************)
(* The promise of a collection.                                            *)
(***************************************************************************)
taken == {k \in Keys : charge[k] = "TAKEN"}

LEMMA PromiseKeys == Promise!Keys = Keys
<1>1. ASSUME NEW k \in Keys PROVE k \in Promise!Keys
  <2>1. <<k[1], k[2]>> \in Subs \X Periods /\ k[3] \in 1..3 /\ k = <<k[1], k[2], k[3]>>
    BY KeyFacts, AttemptNumbers
  <2> DEFINE i == <<k[1], k[2]>>
  <2>2. k = <<i[1], i[2], k[3]>>
    BY <2>1
  <2>3. QED
    BY <2>1, <2>2 DEF Promise!Keys, Promise!Attempts
<1>2. ASSUME NEW k \in Promise!Keys PROVE k \in Keys
  <2>1. PICK i \in Subs \X Periods, n \in Attempts : k = <<i[1], i[2], n>>
    BY AttemptNumbers DEF Promise!Keys, Promise!Attempts
  <2>2. i[1] \in Subs /\ i[2] \in Periods
    OBVIOUS
  <2>3. QED
    BY <2>1, <2>2, KeyFacts
<1>3. QED
  BY <1>1, <1>2

LEMMA PromiseInit == Init => Promise!Init
  BY PromiseKeys DEF Init, Promise!Init

\* What a handler knows of the earlier attempts is what the promise asks.
LEMMA EarlierAnswered ==
  ASSUME TypeOK, NEW h \in Handlers, HandlerInv(h), handler[h].pc # "idle"
  PROVE  handler[h].key \in Keys /\ Promise!earlierAnswered(handler[h].key)
<1>1. PICK s \in Subs, p \in Periods, n \in 1..3 :
        /\ handler[h].key = <<s, p, n>> /\ <<s, p, n>> \in Keys
        /\ Answered(s, p, n)
  BY HeldAnswered
<1>2. QED
  BY <1>1, AttemptNumbers
     DEF Answered, Unsuccessful, Promise!earlierAnswered, Promise!Attempts, Promise!Open

LEMMA ChargePromised ==
  ASSUME IInv, NEW h \in Handlers, CollectFromProvider(h)
  PROVE  [Promise!Next]_(Promise!vars)
<1>1. TypeOK /\ HandlerInv(h) /\ handler[h].pc # "idle"
  BY DEF IInv, CollectFromProvider, mayCollect
<1>2. PICK key \in Keys : key = handler[h].key /\ Promise!earlierAnswered(key)
  BY <1>1, EarlierAnswered
<1>3. PICK decision \in {"TAKEN", "REFUSED"} :
        /\ charge[key] \in {"none", decision}
        /\ charge' = [charge EXCEPT ![key] = decision]
        /\ providerTx[key] = "none"
        /\ UNCHANGED providerTx
  BY <1>2 DEF CollectFromProvider
<1>4. charge'[key] = decision /\ \A k \in Keys \ {key} : charge'[k] = charge[k]
  BY <1>1, <1>3 DEF TypeOK
<1>5. CASE decision = "TAKEN"
  <2>1. taken' = taken \cup {key}
    BY <1>4, <1>5 DEF taken
  <2>2. Promise!Charge(key)
    BY <1>2, <1>3, <2>1 DEF taken, Promise!Charge
  <2>3. QED
    BY <2>2, PromiseKeys DEF Promise!Next
<1>6. CASE decision = "REFUSED"
  <2>1. taken' = taken
    BY <1>3, <1>4, <1>6 DEF taken
  <2>2. QED
    BY <1>3, <2>1 DEF taken, Promise!vars
<1>7. QED
  BY <1>5, <1>6

LEMMA AnswerPromised ==
  ASSUME IInv, NEW h \in Handlers, CommitCollection(h)
  PROVE  [Promise!Next]_(Promise!vars)
<1>1. TypeOK /\ HandlerInv(h) /\ handler[h].pc = "charging"
  BY DEF IInv, CommitCollection
<1>2. PICK key \in Keys : key = handler[h].key /\ Promise!earlierAnswered(key)
  BY <1>1, EarlierAnswered
<1>3. taken' = taken
  BY DEF CommitCollection, taken
<1>4. CASE UNCHANGED providerTx
  BY <1>3, <1>4 DEF taken, Promise!vars
<1>5. CASE /\ providerTx[key] = "none"
           /\ providerTx' = [providerTx EXCEPT ![key] = handler[h].answer]
  <2>1. handler[h].answer \in Promise!Open \cup {IF key \in taken THEN "SUCCEEDED" ELSE "FAILED"}
    <3>1. /\ handler[h].answer \in Answers
          /\ handler[h].answer = "SUCCEEDED" => charge[key] = "TAKEN"
          /\ handler[h].answer = "FAILED" => charge[key] = "REFUSED"
      BY <1>1, <1>2, LocalFacts DEF HandlerInv
    <3>2. QED
      BY <3>1 DEF Answers, taken, Promise!Open
  <2>2. Promise!Answer(key)
    BY <1>2, <1>3, <1>5, <2>1 DEF Promise!Answer, taken
  <2>3. QED
    BY <2>2, PromiseKeys DEF Promise!Next
<1>6. QED
  BY <1>2, <1>4, <1>5 DEF CommitCollection

LEMMA PromiseStep ==
  ASSUME IInv, [Next]_vars
  PROVE  [Promise!Next]_(Promise!vars)
<1>1. CASE UNCHANGED <<charge, providerTx>>
  BY <1>1 DEF Promise!vars
<1>2. CASE \E h \in Handlers : CollectFromProvider(h) \/ CommitCollection(h)
  BY <1>2, ChargePromised, AnswerPromised
<1>3. CASE UNCHANGED vars
  BY <1>1, <1>3 DEF vars
<1>4. CASE CreateCustomer \/ UpdateCustomer \/ CreateProduct \/ CreatePrice \/ Tick
  BY <1>1, <1>4 DEF CreateCustomer, UpdateCustomer, CreateProduct, CreatePrice, Tick, collection
<1>5. ASSUME NEW s \in Subs,
             \/ \E trial, atPeriodEnd \in BOOLEAN : CreateSubscription(s, trial, atPeriodEnd)
             \/ Pause(s) \/ Resume(s)
             \/ \E atPeriodEnd \in BOOLEAN : Cancel(s, atPeriodEnd)
             \/ \E h \in Handlers : Prepare(h, s)
             \/ \E p \in Periods : CollectInvoiceNow(s, p)
             \/ ScanTerminal(s) \/ ApplyTerminal(s)
             \/ RetryComes(s) \/ GracePasses(s)
      PROVE  UNCHANGED <<charge, providerTx>>
  BY <1>5 DEF CreateSubscription, Pause, Resume, Cancel, Prepare, CollectInvoiceNow,
     ScanTerminal, ApplyTerminal, RetryComes, GracePasses, collection
<1>6. ASSUME NEW h \in Handlers,
             \/ QueryBeforeRetry(h) \/ CollectStored(h)
             \/ RecordSucceeded(h) \/ RecordRecovered(h)
             \/ RecordAmbiguous(h) \/ RecordFailed(h) \/ GiveUp(h)
      PROVE  UNCHANGED <<charge, providerTx>>
  BY <1>6 DEF QueryBeforeRetry, CollectStored, RecordSucceeded, RecordRecovered,
     RecordAmbiguous, RecordFailed, GiveUp
<1>7. QED
  BY <1>1, <1>2, <1>3, <1>4, <1>5, <1>6 DEF Next, Handle

\* The collection attempts of overlapping handlers keep the promise: an attempt
\* is answered once, and charged only after the earlier ones were answered.
THEOREM RenewalKeepsPromise == Spec => KeepsPromise
<1>1. Init => Promise!Init
  BY PromiseInit
<1>2. IInv /\ [Next]_vars => [Promise!Next]_(Promise!vars)
  BY PromiseStep
<1>3. QED
  BY <1>1, <1>2, Invariance, PTL DEF Spec, KeepsPromise, Promise!Spec
=============================================================================
