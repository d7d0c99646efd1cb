------------------------------ MODULE Renewal ------------------------------
(***************************************************************************)
(* Subscription billing: subscriptions and their periods, the invoice of   *)
(* each period, and the renewal handlers that collect it.  A handler       *)
(* prepares an attempt in one transaction, lets go of the row locks, asks  *)
(* the payment provider, and records the answer in another transaction:    *)
(* any number of handlers (the worker of each API process, the merchant's  *)
(* "collect now", the administrator's "run renewals") overlap between      *)
(* those steps, and a process may stop between any two of them.            *)
(*                                                                         *)
(* Period p of a subscription runs from p to p + 1 on the clock "now".     *)
(* Retry delays and the grace period are far shorter than or unrelated to  *)
(* a period: they are flags that the passage of time takes back.           *)
(***************************************************************************)
EXTENDS Integers

CONSTANTS
  Subs,        \* subscriptions of one customer and price
  Handlers,    \* requests and workers that run processOneSubscription
  MaxPeriod,   \* bound: the last period that is prepared for collection
  MaxNow,      \* bound on the clock
  MaxCrashes   \* bound on the handlers that are lost half-way

ASSUME RenewalAssumption ==
  /\ MaxPeriod \in Nat
  /\ MaxNow \in Nat
  /\ MaxCrashes \in Nat

VARIABLES
  catalog,     \* status of the customer, the product and the price
  sub,         \* subscriptions
  invoice,     \* invoices, by subscription and period
  attempt,     \* billing_collection_attempts, by collection key
  providerTx,  \* provider_transactions of the charges, by idempotency key
  statusTx,    \* provider_transactions of the status questions, by key
  charge,      \* what the provider did with the charge of a key
  handler,     \* the local state of a running handler
  candidate,   \* subscriptions a terminal scan has read and not yet locked
  overlapped,  \* history: two handlers have held the subscription at once
  now,
  crashes

vars == <<catalog, sub, invoice, attempt, providerTx, statusTx, charge, handler,
          candidate, overlapped, now, crashes>>

-----------------------------------------------------------------------------
MAX_COLLECTION_ATTEMPTS == 3

canCollectAttempt(count) == count < MAX_COLLECTION_ATTEMPTS

SUBSCRIPTION_TRANSITIONS ==
  {"TRIALING"} \X {"ACTIVE", "PAST_DUE", "PAUSED", "CANCELLED", "EXPIRED"}
  \cup {"ACTIVE"} \X {"PAST_DUE", "PAUSED", "CANCELLED", "EXPIRED"}
  \cup {"PAST_DUE"} \X {"ACTIVE", "UNPAID", "PAUSED", "CANCELLED", "EXPIRED"}
  \cup {"PAUSED"} \X {"ACTIVE", "CANCELLED", "EXPIRED"}
  \cup {"UNPAID"} \X {"ACTIVE", "EXPIRED", "CANCELLED"}

\* Mutant: a cancelled subscription may become active.
canTransition_Cancelled(from, to) ==
  <<from, to>> \in SUBSCRIPTION_TRANSITIONS \cup {<<"CANCELLED", "ACTIVE">>}

canTransition(from, to) == <<from, to>> \in SUBSCRIPTION_TRANSITIONS

RENEWAL_ELIGIBLE_STATUSES == {"TRIALING", "ACTIVE", "PAST_DUE"}
Terminal == {"CANCELLED", "EXPIRED"}
SubscriptionStatuses ==
  {"TRIALING", "ACTIVE", "PAST_DUE", "PAUSED", "UNPAID"} \cup Terminal

Attempts == 1..MAX_COLLECTION_ATTEMPTS
Periods  == 0..MaxPeriod
\* The idempotency key billing-collect:<invoice>:<attempt>.
Keys     == Subs \X Periods \X Attempts
NULL     == -1

Answers  == {"SUCCEEDED", "FAILED", "AMBIGUOUS", "TIMEOUT", "PENDING"}
Outcomes == {"none", "SUCCEEDED", "FAILED", "AMBIGUOUS", "TIMEOUT"}
\* What Payment Core makes of a provider's answer: a timeout is ambiguous and
\* carries no provider reference, an unfinished payment counts as failed.
outcomeOf(answer) == IF answer = "PENDING" THEN "FAILED" ELSE answer
ambiguous(outcome) == outcome \in {"AMBIGUOUS", "TIMEOUT"}

Idle == [pc |-> "idle"]
LocalStates ==
  {Idle} \cup [pc : {"prepared", "cleared", "recovered", "charging", "collected"},
               key : Keys, answer : Answers \cup {"none"}]

NoSubscription == [status |-> "none"]
SubscriptionRow ==
  [status : SubscriptionStatuses, period : Nat, next_billing_at : Nat \cup {NULL},
   retryWaits : BOOLEAN, graceOver : BOOLEAN, cancel_at_period_end : BOOLEAN]
InvoiceRow ==
  [status : {"none", "OPEN", "PAID", "OVERDUE", "UNCOLLECTIBLE"},
   count : 0..MAX_COLLECTION_ATTEMPTS, retryWaits : BOOLEAN]

TypeOK ==
  /\ catalog \in [customer : {"none", "ACTIVE", "DISABLED"},
                  product : {"none", "ACTIVE"}, price : {"none", "ACTIVE"}]
  /\ sub \in [Subs -> {NoSubscription} \cup SubscriptionRow]
  /\ invoice \in [Subs -> [Periods -> InvoiceRow]]
  /\ attempt \in [Keys -> Outcomes]
  /\ providerTx \in [Keys -> Answers \cup {"none"}]
  /\ statusTx \in [Keys -> {"none", "SUCCEEDED", "UNKNOWN"}]
  /\ charge \in [Keys -> {"none", "TAKEN", "REFUSED"}]
  /\ handler \in [Handlers -> LocalStates]
  /\ candidate \in [Subs -> {"none", "expire", "cancel"}]
  /\ overlapped \in [Subs -> BOOLEAN]
  /\ now \in 0..MaxNow
  /\ crashes \in 0..MaxCrashes

Init ==
  /\ catalog = [customer |-> "none", product |-> "none", price |-> "none"]
  /\ sub = [s \in Subs |-> NoSubscription]
  /\ invoice = [s \in Subs |-> [p \in Periods |->
                  [status |-> "none", count |-> 0, retryWaits |-> FALSE]]]
  /\ attempt = [k \in Keys |-> "none"]
  /\ providerTx = [k \in Keys |-> "none"]
  /\ statusTx = [k \in Keys |-> "none"]
  /\ charge = [k \in Keys |-> "none"]
  /\ handler = [h \in Handlers |-> Idle]
  /\ candidate = [s \in Subs |-> "none"]
  /\ overlapped = [s \in Subs |-> FALSE]
  /\ now = 0
  /\ crashes = 0

-----------------------------------------------------------------------------
(* Customers, products and prices.                                         *)
collection == <<invoice, attempt, providerTx, statusTx, charge, handler,
                candidate, overlapped, now, crashes>>

CreateCustomer ==
  /\ catalog.customer = "none"
  /\ catalog' = [catalog EXCEPT !.customer = "ACTIVE"]
  /\ UNCHANGED <<sub, collection>>

UpdateCustomer ==
  /\ catalog.customer # "none"
  /\ \E s \in Subs : sub[s].status = "none"    \* bound: later nothing reads it
  /\ \E status \in {"ACTIVE", "DISABLED"} :
       catalog' = [catalog EXCEPT !.customer = status]
  /\ UNCHANGED <<sub, collection>>

CreateProduct ==
  /\ catalog.product = "none"
  /\ catalog' = [catalog EXCEPT !.product = "ACTIVE"]
  /\ UNCHANGED <<sub, collection>>

CreatePrice ==
  /\ catalog.product = "ACTIVE"
  /\ catalog.price = "none"
  /\ catalog' = [catalog EXCEPT !.price = "ACTIVE"]
  /\ UNCHANGED <<sub, collection>>

-----------------------------------------------------------------------------
(* What a merchant does with a subscription.  A trial's days are period 0, *)
(* and every period is billed at its end.                                  *)
CreateSubscription(s, trial, atPeriodEnd) ==
  /\ sub[s].status = "none"
  /\ catalog.customer = "ACTIVE" /\ catalog.price = "ACTIVE"
  /\ sub' = [sub EXCEPT ![s] =
       [status |-> IF trial THEN "TRIALING" ELSE "ACTIVE", period |-> 0,
        next_billing_at |-> 1, retryWaits |-> FALSE, graceOver |-> FALSE,
        cancel_at_period_end |-> atPeriodEnd]]
  /\ now = 0            \* bound: every subscription starts with the clock
  /\ UNCHANGED <<catalog, collection>>

Pause(s) ==
  /\ canTransition(sub[s].status, "PAUSED")
  /\ sub' = [sub EXCEPT ![s].status = "PAUSED"]
  /\ UNCHANGED <<catalog, collection>>

Resume(s) ==
  /\ sub[s].status = "PAUSED"
  /\ sub' = [sub EXCEPT ![s].status = "ACTIVE"]
  /\ UNCHANGED <<catalog, collection>>

Cancelled(r) == [r EXCEPT !.status = "CANCELLED", !.next_billing_at = NULL,
                          !.cancel_at_period_end = FALSE]

\* The first request only marks the subscription, unless it asks for now.
Cancel(s, atPeriodEnd) ==
  /\ sub[s].status \notin Terminal \cup {"none"}
  /\ \/ /\ atPeriodEnd /\ ~sub[s].cancel_at_period_end
        /\ sub' = [sub EXCEPT ![s].cancel_at_period_end = TRUE]
     \/ /\ ~atPeriodEnd \/ sub[s].cancel_at_period_end
        /\ sub' = [sub EXCEPT ![s] = Cancelled(@)]
  /\ UNCHANGED <<catalog, collection>>

-----------------------------------------------------------------------------
(* A renewal handler.                                                      *)
moves(h, local) == handler' = [handler EXCEPT ![h] = local]

holds(h, s) == handler[h].pc # "idle" /\ handler[h].key[1] = s

due(s) ==
  /\ sub[s].status \in RENEWAL_ELIGIBLE_STATUSES
  /\ ~sub[s].cancel_at_period_end
  /\ sub[s].next_billing_at # NULL /\ sub[s].next_billing_at <= now
  /\ ~sub[s].retryWaits

ensureInvoiceForPeriod(i) == IF i.status = "none" THEN [i EXCEPT !.status = "OPEN"] ELSE i

\* Phase 1, one transaction: nothing but the invoice is written, and the lock
\* on the subscription ends with it.
Prepare(h, s) ==
  LET p == sub[s].period
      i == invoice[s][p]
  IN /\ handler[h] = Idle
     /\ sub[s].status # "none" /\ due(s)
     /\ p <= MaxPeriod
     /\ i.status # "PAID" /\ canCollectAttempt(i.count) /\ ~i.retryWaits
     /\ invoice' = [invoice EXCEPT ![s][p] = ensureInvoiceForPeriod(@)]
     /\ moves(h, [pc |-> "prepared", key |-> <<s, p, i.count + 1>>, answer |-> "none"])
     /\ overlapped' = [overlapped EXCEPT ![s] = @ \/ \E g \in Handlers : holds(g, s)]
     /\ UNCHANGED <<catalog, sub, attempt, providerTx, statusTx, charge,
                    candidate, now, crashes>>

priorKey(key) == <<key[1], key[2], key[3] - 1>>

\* Only an ambiguous answer that named the provider's payment can be queried.
canQueryPrior(key) == key[3] > 1 /\ attempt[priorKey(key)] = "AMBIGUOUS"

\* The answer to a status question is kept under a key of its own, and the
\* same question is never put to the provider again.
QueryBeforeRetry(h) ==
  LET prior == priorKey(handler[h].key)
      \* A failed question leaves the payment unknown.
      says(answer) == \/ answer = "UNKNOWN"
                      \/ answer = "SUCCEEDED" /\ charge[prior] = "TAKEN"
  IN /\ handler[h].pc = "prepared"
     /\ canQueryPrior(handler[h].key)
     /\ \E answer \in {"SUCCEEDED", "UNKNOWN"} :
          /\ IF statusTx[prior] = "none" THEN says(answer) ELSE answer = statusTx[prior]
          /\ statusTx' = [statusTx EXCEPT ![prior] = answer]
          /\ moves(h, [handler[h] EXCEPT !.pc =
                         IF answer = "SUCCEEDED" THEN "recovered" ELSE "cleared"])
     /\ UNCHANGED <<catalog, sub, invoice, attempt, providerTx, charge,
                    candidate, overlapped, now, crashes>>

mayCollect(h) ==
  \/ handler[h].pc = "cleared"
  \/ handler[h].pc = "prepared" /\ ~canQueryPrior(handler[h].key)

\* The router finds the key's answer from an earlier run and returns it.
CollectStored(h) ==
  LET key == handler[h].key
  IN /\ mayCollect(h)
     /\ providerTx[key] # "none"
     /\ moves(h, [handler[h] EXCEPT !.pc = "collected", !.answer = providerTx[key]])
     /\ UNCHANGED <<catalog, sub, invoice, attempt, providerTx, statusTx, charge,
                    candidate, overlapped, now, crashes>>

\* The provider is asked inside the open transaction of Payment Core.  It
\* takes a key's money once, however often the key arrives.
CollectFromProvider(h) ==
  LET key == handler[h].key
      reported(decision) ==
        {"AMBIGUOUS", "TIMEOUT", "PENDING"}
        \cup (IF decision = "TAKEN" THEN {"SUCCEEDED"} ELSE {"FAILED"})
  IN /\ mayCollect(h)
     /\ providerTx[key] = "none"
     /\ \E decision \in {"TAKEN", "REFUSED"} :
          /\ charge[key] \in {"none", decision}
          /\ charge' = [charge EXCEPT ![key] = decision]
          /\ \E answer \in reported(decision) :
               moves(h, [handler[h] EXCEPT !.pc = "charging", !.answer = answer])
     /\ UNCHANGED <<catalog, sub, invoice, attempt, providerTx, statusTx,
                    candidate, overlapped, now, crashes>>

\* Mutant: there is no unique index.
CommitCollection_Overwrites(h) ==
  /\ handler[h].pc = "charging"
  /\ providerTx' = [providerTx EXCEPT ![handler[h].key] = handler[h].answer]
  /\ moves(h, [handler[h] EXCEPT !.pc = "collected"])
  /\ UNCHANGED <<catalog, sub, invoice, attempt, statusTx, charge,
                 candidate, overlapped, now, crashes>>

\* The transaction of Payment Core commits, unless another one has put the
\* same key in first: the unique index then rolls it back and the handler
\* ends with the error.
CommitCollection(h) ==
  LET key == handler[h].key
  IN /\ handler[h].pc = "charging"
     /\ \/ /\ providerTx[key] = "none"
           /\ providerTx' = [providerTx EXCEPT ![key] = handler[h].answer]
           /\ moves(h, [handler[h] EXCEPT !.pc = "collected"])
        \/ /\ providerTx[key] # "none"
           /\ moves(h, Idle)
           /\ UNCHANGED providerTx
     /\ UNCHANGED <<catalog, sub, invoice, attempt, statusTx, charge,
                    candidate, overlapped, now, crashes>>

-----------------------------------------------------------------------------
(* Phase 3, one transaction.  The rows are locked again, and nothing that  *)
(* phase 1 had checked is checked again.                                   *)
recordAttempt(key, outcome) ==
  attempt' = [attempt EXCEPT ![key] = IF @ = "none" THEN outcome ELSE @]

\* The period is advanced from the one the row has now.
advanceSubscriptionPeriod(r) ==
  [r EXCEPT !.status = "ACTIVE", !.period = @ + 1, !.next_billing_at = r.period + 2,
            !.retryWaits = FALSE, !.graceOver = FALSE]

mayBecomeActive(s) == sub[s].status = "ACTIVE" \/ canTransition(sub[s].status, "ACTIVE")

RecordSucceeded(h) ==
  LET key == handler[h].key
      s == key[1]
  IN /\ handler[h].pc = "collected" /\ outcomeOf(handler[h].answer) = "SUCCEEDED"
     /\ \/ /\ mayBecomeActive(s)
           /\ recordAttempt(key, "SUCCEEDED")
           /\ invoice' = [invoice EXCEPT ![s][key[2]] =
                            [status |-> "PAID", count |-> key[3], retryWaits |-> FALSE]]
           /\ sub' = [sub EXCEPT ![s] = advanceSubscriptionPeriod(@)]
        \/ \* An ended subscription refuses to be activated: all is rolled back.
           /\ ~mayBecomeActive(s)
           /\ UNCHANGED <<attempt, invoice, sub>>
     /\ moves(h, Idle)
     /\ UNCHANGED <<catalog, providerTx, statusTx, charge, candidate, overlapped, now, crashes>>

\* markInvoicePaidAndAdvance, after a status question.
RecordRecovered(h) ==
  LET key == handler[h].key
      s == key[1]
  IN /\ handler[h].pc = "recovered"
     /\ \/ /\ mayBecomeActive(s)
           /\ invoice' = [invoice EXCEPT ![s][key[2]] =
                            [@ EXCEPT !.status = "PAID", !.retryWaits = FALSE]]
           /\ sub' = [sub EXCEPT ![s] = advanceSubscriptionPeriod(@)]
        \/ /\ ~mayBecomeActive(s)
           /\ UNCHANGED <<invoice, sub>>
     /\ moves(h, Idle)
     /\ UNCHANGED <<catalog, attempt, providerTx, statusTx, charge, candidate,
                    overlapped, now, crashes>>

\* Mutant: the last attempt is not made.
retryFollows_OffByOne(n) == n + 1 < MAX_COLLECTION_ATTEMPTS

\* retryDelaySecondsAfterAttempt: there is a next attempt to wait for.
retryFollows(n) == n < MAX_COLLECTION_ATTEMPTS

pastDue(status) == IF status \in {"ACTIVE", "TRIALING"} THEN "PAST_DUE" ELSE status

\* After an ambiguous answer the subscription is PAST_DUE, whatever the count.
RecordAmbiguous(h) ==
  LET key == handler[h].key
      s == key[1]
      n == key[3]
  IN /\ handler[h].pc = "collected" /\ ambiguous(handler[h].answer)
     /\ recordAttempt(key, handler[h].answer)
     /\ invoice' = [invoice EXCEPT ![s][key[2]] =
          [status |-> IF retryFollows(n) THEN "OPEN" ELSE "OVERDUE",
           count |-> n, retryWaits |-> retryFollows(n)]]
     /\ sub' = [sub EXCEPT ![s] =
          [sub[s] EXCEPT !.status = pastDue(sub[s].status), !.retryWaits = retryFollows(n)]]
     /\ moves(h, Idle)
     /\ UNCHANGED <<catalog, providerTx, statusTx, charge, candidate, overlapped, now, crashes>>

\* Mutant: what could not be collected is left behind like a paid period.
exhausted_Advances(r) == IF pastDue(r.status) = "PAST_DUE" THEN advanceSubscriptionPeriod(r) ELSE r

\* The last failure starts the grace period of a subscription that can become
\* UNPAID, by way of PAST_DUE; a paused or an ended one cannot.
exhausted(r) ==
  IF pastDue(r.status) = "PAST_DUE"
  THEN [r EXCEPT !.status = "UNPAID", !.retryWaits = FALSE, !.graceOver = FALSE,
                 !.next_billing_at = NULL]
  ELSE r

RecordFailed(h) ==
  LET key == handler[h].key
      s == key[1]
      n == key[3]
  IN /\ handler[h].pc = "collected" /\ outcomeOf(handler[h].answer) = "FAILED"
     /\ recordAttempt(key, "FAILED")
     /\ invoice' = [invoice EXCEPT ![s][key[2]] =
          [status |-> IF retryFollows(n) THEN "OPEN" ELSE "UNCOLLECTIBLE",
           count |-> n, retryWaits |-> retryFollows(n)]]
     /\ sub' = [sub EXCEPT ![s] =
          IF retryFollows(n)
          THEN [sub[s] EXCEPT !.status = pastDue(sub[s].status), !.retryWaits = TRUE]
          ELSE exhausted(sub[s])]
     /\ moves(h, Idle)
     /\ UNCHANGED <<catalog, providerTx, statusTx, charge, candidate, overlapped, now, crashes>>

\* A provider error that is rethrown, a failed statement, or a process that
\* stops: what is committed stays, the handler is gone.
GiveUp(h) ==
  /\ handler[h].pc # "idle"
  /\ crashes < MaxCrashes
  /\ crashes' = crashes + 1
  /\ moves(h, Idle)
  /\ UNCHANGED <<catalog, sub, invoice, attempt, providerTx, statusTx, charge,
                 candidate, overlapped, now>>

\* collectInvoiceNow makes the subscription due at once, for any of its
\* invoices, before it runs the handler: LEAST ignores a NULL.
CollectInvoiceNow(s, p) ==
  /\ invoice[s][p].status # "none"
  /\ invoice' = [invoice EXCEPT ![s][p].retryWaits = FALSE]
  /\ sub' = [sub EXCEPT ![s].retryWaits = FALSE,
       ![s].next_billing_at = IF @ = NULL \/ @ > now THEN now ELSE @]
  /\ UNCHANGED <<catalog, attempt, providerTx, statusTx, charge, handler, candidate,
                 overlapped, now, crashes>>

-----------------------------------------------------------------------------
(* processTerminalTransitions reads its candidates without a lock, and     *)
(* takes each one in a transaction of its own.                             *)
graceExpired(s) == sub[s].status = "UNPAID" /\ sub[s].graceOver

\* Mutant: a paused subscription is not cancelled.
cancelDue_NotPaused(s) ==
  /\ sub[s].status \in {"ACTIVE", "TRIALING", "PAST_DUE"}
  /\ sub[s].cancel_at_period_end /\ sub[s].period + 1 <= now

cancelDue(s) ==
  /\ sub[s].status \in {"ACTIVE", "TRIALING", "PAST_DUE", "PAUSED"}
  /\ sub[s].cancel_at_period_end /\ sub[s].period + 1 <= now

ScanTerminal(s) ==
  /\ candidate[s] = "none"
  /\ \/ /\ graceExpired(s)
        /\ candidate' = [candidate EXCEPT ![s] = "expire"]
     \/ /\ cancelDue(s)
        /\ candidate' = [candidate EXCEPT ![s] = "cancel"]
  /\ UNCHANGED <<catalog, sub, invoice, attempt, providerTx, statusTx, charge, handler,
                 overlapped, now, crashes>>

ApplyTerminal(s) ==
  /\ candidate[s] # "none"
  /\ candidate' = [candidate EXCEPT ![s] = "none"]
  /\ sub' = [sub EXCEPT ![s] =
       IF candidate[s] = "expire" /\ @.status = "UNPAID"
         THEN [@ EXCEPT !.status = "EXPIRED", !.next_billing_at = NULL]
       ELSE IF candidate[s] = "cancel" /\ @.cancel_at_period_end /\ @.status \notin Terminal
         THEN Cancelled(@)
       ELSE @]
  /\ UNCHANGED <<catalog, invoice, attempt, providerTx, statusTx, charge, handler,
                 overlapped, now, crashes>>

-----------------------------------------------------------------------------
(* Time.                                                                   *)
Tick ==
  /\ now < MaxNow
  /\ now' = now + 1
  /\ UNCHANGED <<catalog, sub, invoice, attempt, providerTx, statusTx, charge, handler,
                 candidate, overlapped, crashes>>

\* next_retry_at of the subscription, and of the invoice, passes.
RetryComes(s) ==
  /\ sub[s].status # "none"
  /\ \/ /\ sub[s].retryWaits
        /\ sub' = [sub EXCEPT ![s].retryWaits = FALSE]
        /\ UNCHANGED invoice
     \/ /\ \E p \in Periods : /\ invoice[s][p].retryWaits
                              /\ invoice' = [invoice EXCEPT ![s][p].retryWaits = FALSE]
        /\ UNCHANGED sub
  /\ UNCHANGED <<catalog, attempt, providerTx, statusTx, charge, handler, candidate,
                 overlapped, now, crashes>>

GracePasses(s) ==
  /\ sub[s].status = "UNPAID" /\ ~sub[s].graceOver
  /\ sub' = [sub EXCEPT ![s].graceOver = TRUE]
  /\ UNCHANGED <<catalog, collection>>

-----------------------------------------------------------------------------
Handle(h) ==
  \/ QueryBeforeRetry(h)
  \/ CollectStored(h)
  \/ CollectFromProvider(h)
  \/ CommitCollection(h)
  \/ RecordSucceeded(h)
  \/ RecordRecovered(h)
  \/ RecordAmbiguous(h)
  \/ RecordFailed(h)

Next ==
  \/ CreateCustomer \/ UpdateCustomer \/ CreateProduct \/ CreatePrice
  \/ \E s \in Subs :
       \/ \E trial, atPeriodEnd \in BOOLEAN : CreateSubscription(s, trial, atPeriodEnd)
       \/ Pause(s) \/ Resume(s)
       \/ \E atPeriodEnd \in BOOLEAN : Cancel(s, atPeriodEnd)
       \/ \E h \in Handlers : Prepare(h, s)
       \/ \E p \in Periods : CollectInvoiceNow(s, p)
       \/ ScanTerminal(s) \/ ApplyTerminal(s)
       \/ RetryComes(s) \/ GracePasses(s)
  \/ \E h \in Handlers : Handle(h) \/ GiveUp(h)
  \/ Tick

Spec == Init /\ [][Next]_vars

\* The worker's interval starts a cycle again and again: its terminal scan,
\* the candidates it found, and the handlers it started go on, and time
\* passes.  Nothing makes a merchant act.
Fairness ==
  /\ WF_vars(Tick)
  /\ \A s \in Subs : /\ WF_vars(ScanTerminal(s))
                     /\ WF_vars(ApplyTerminal(s))
                     /\ WF_vars(RetryComes(s))
                     /\ WF_vars(GracePasses(s))
                     /\ SF_vars(\E h \in Handlers : Prepare(h, s))
  /\ \A h \in Handlers : WF_vars(Handle(h))

FairSpec == Spec /\ Fairness

-----------------------------------------------------------------------------
(* Properties.                                                             *)

\* An invoice is PAID only if the provider did take the money of one of its
\* collection attempts.
PaidInvoiceWasCharged ==
  \A s \in Subs, p \in Periods :
    invoice[s][p].status = "PAID" =>
      \E n \in Attempts : charge[<<s, p, n>>] = "TAKEN"

\* As long as no two handlers have held a subscription at once, it has left
\* behind exactly the periods that were paid, whatever the merchant does
\* meanwhile and wherever a handler stops.
NoPeriodLostAlone ==
  \A s \in Subs :
    sub[s].status # "none" /\ ~overlapped[s] =>
      {p \in Periods : invoice[s][p].status = "PAID"} = 0..sub[s].period - 1

\* The provider takes an invoice's money a second time only if it had left the
\* answer to the earlier attempt open: overlapping handlers, crashes and the
\* idempotency keys alone never charge twice.
SecondChargeNeedsOpenAnswer ==
  \A s \in Subs, p \in Periods, m, n \in Attempts :
    m < n /\ charge[<<s, p, m>>] = "TAKEN" /\ charge[<<s, p, n>>] = "TAKEN" =>
      providerTx[<<s, p, m>>] \in {"AMBIGUOUS", "TIMEOUT", "PENDING"}

\* What subscriptions, invoices and the provider say of one another: the
\* three together.
CollectionsAgree == PaidInvoiceWasCharged /\ NoPeriodLostAlone /\ SecondChargeNeedsOpenAnswer

\* A subscription is UNPAID, and then EXPIRED, only after three recorded
\* attempts at one invoice of which none succeeded and the last was refused.
UnpaidAfterThreeAttempts ==
  \A s \in Subs :
    sub[s].status \in {"UNPAID", "EXPIRED"} =>
      \E p \in Periods :
        /\ \A n \in Attempts : attempt[<<s, p, n>>] \notin {"none", "SUCCEEDED"}
        /\ attempt[<<s, p, MAX_COLLECTION_ATTEMPTS>>] = "FAILED"

\* An ended subscription stays ended and in its period, no new collection of
\* it is prepared, although handlers that had read it before still answer.
EndedStaysEnded ==
  [][\A s \in Subs : sub[s].status \in Terminal =>
       /\ sub'[s].status = sub[s].status
       /\ sub'[s].period = sub[s].period
       /\ \A h \in Handlers : handler[h].pc = "idle" => handler'[h].pc = "idle"
                              \/ handler'[h].key[1] # s]_vars

\* The collection attempts keep the promise of the abstract specification.
Promise == INSTANCE CollectionPromise WITH
  Invoices <- Subs \X Periods,
  taken <- {k \in Keys : charge[k] = "TAKEN"},
  answer <- providerTx
KeepsPromise == Promise!Spec

\* A subscription comes to the end it was sent to: an UNPAID one does not stay
\* UNPAID after its grace period, and one that is to be cancelled at its
\* period's end is cancelled or expires.
TerminalsHappen ==
  \A s \in Subs :
    /\ sub[s].status = "UNPAID" ~> sub[s].status # "UNPAID"
    /\ sub[s].status # "none" /\ sub[s].cancel_at_period_end ~> sub[s].status \in Terminal

-----------------------------------------------------------------------------
(* What the documents say and the code does not do.                        *)

\* "Ambiguous: query-before-retry; no blind second charge": once an attempt is
\* recorded as ambiguous, the provider is asked about it before it takes the
\* invoice's money again.
NoBlindSecondCharge ==
  \A s \in Subs, p \in Periods, m, n \in Attempts :
    m < n /\ ambiguous(attempt[<<s, p, m>>])
      /\ charge[<<s, p, m>>] = "TAKEN" /\ charge[<<s, p, n>>] = "TAKEN"
    => statusTx[<<s, p, m>>] # "none"

\* "Max retries exhausted -> UNPAID": a subscription whose attempts are used up
\* does not stay PAST_DUE.
ExhaustedRetriesEndPastDue ==
  \A s \in Subs :
    sub[s].status = "PAST_DUE" /\ sub[s].period \in Periods
      /\ invoice[s][sub[s].period].count = MAX_COLLECTION_ATTEMPTS
    ~> sub[s].status # "PAST_DUE"
=============================================================================
