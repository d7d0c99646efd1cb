------------------------------ MODULE Checkout ------------------------------
(***************************************************************************)
(* Public checkout of payment links: sessions, payment intents, attempts,  *)
(* transactions and the events of the outbox, as the customer, the         *)
(* merchant and the payment provider change them                           *)
(* (payments/payment-core-service.ts, payments/finalize-checkout-          *)
(* artifacts.ts, providers/webhook-state-apply.ts,                         *)
(* finance/fee-accrual-service.ts, all under apps/api/src).                *)
(*                                                                         *)
(* Every handler is one transaction that locks the rows it decides on      *)
(* (FOR UPDATE on the link, the session and the intent) before it writes,  *)
(* so each is one action; a handler that throws is rolled back and is no   *)
(* action, but for what it has asked of the provider before.  What         *)
(* interleaves are the handlers: customers with several sessions on one    *)
(* link, the merchant, the clock, and a provider whose reports arrive      *)
(* late, repeatedly and in any order.                                      *)
(*                                                                         *)
(* createCheckoutSession inserts one order, one intent and one session     *)
(* together, so the three are indexed by the intent.                       *)
(***************************************************************************)
EXTENDS PaymentLinks, Sequences, FiniteSets

CONSTANTS Intents,   \* payment_intents rows
          LinkOf,    \* the link each intent is created from
          MaxLost    \* bound on the submissions of a payment that are undone

ASSUME LinkOfAssumption == LinkOf \in [Intents -> Links]
ASSUME MaxLostAssumption == MaxLost \in Nat

VARIABLES intent,          \* payment_intents.status
          session,         \* payment_sessions.status
          lapsedSessions,  \* sessions whose expires_at is in the past
          order,           \* payment_orders.status
          attempts,        \* payment_attempts.status, by attempt_number
          txns,            \* number of payment_transactions of each status
          accrued,         \* fees_accrued_at set and capture journal posted
          outbox,          \* number of outbox events of each type
          steepFees,       \* payments whose fees exceed their amount by the
                           \* fee schedule that is active
          asked            \* authorize calls the provider has received

paymentVars == <<intent, session, lapsedSessions, order, attempts, txns,
                 accrued, outbox>>
vars == <<linkVars, paymentVars, steepFees, asked>>

IntentStatus == {"CREATED", "REQUIRES_PAYMENT", "PROCESSING", "SUCCEEDED",
                 "FAILED", "CANCELLED", "EXPIRED"}

PAYMENT_INTENT_TRANSITIONS ==
  [CREATED          |-> {"REQUIRES_PAYMENT", "CANCELLED", "EXPIRED"},
   REQUIRES_PAYMENT |-> {"PROCESSING", "CANCELLED", "EXPIRED"},
   PROCESSING       |-> {"SUCCEEDED", "FAILED"},
   SUCCEEDED        |-> {},
   FAILED           |-> {},
   CANCELLED        |-> {},
   EXPIRED          |-> {}]

SessionStatus == {"OPEN", "COMPLETED", "CANCELLED", "EXPIRED"}
AttemptStatus == {"PROCESSING", "SUCCEEDED", "FAILED"}
TxnStatus     == {"SUCCEEDED", "FAILED"}
EventType     == {"payment.created", "payment.processing", "payment.succeeded",
                  "payment.failed", "payment.cancelled", "payment.expired"}

TypeOK ==
  /\ LinkTypeOK
  /\ intent \in [Intents -> IntentStatus \union {"ABSENT"}]
  /\ session \in [Intents -> SessionStatus \union {"ABSENT"}]
  /\ lapsedSessions \subseteq Intents
  /\ order \in [Intents -> {"ABSENT", "OPEN", "PAID"}]
  /\ attempts \in [Intents -> Seq(AttemptStatus)]
  /\ txns \in [Intents -> [TxnStatus -> Nat]]
  /\ accrued \subseteq Intents
  /\ outbox \in [Intents -> [EventType -> Nat]]
  /\ steepFees \subseteq Intents
  /\ asked \in [Intents -> Nat]

Init ==
  /\ LinkInit
  /\ intent = [i \in Intents |-> "ABSENT"]
  /\ session = [i \in Intents |-> "ABSENT"]
  /\ lapsedSessions = {}
  /\ order = [i \in Intents |-> "ABSENT"]
  /\ attempts = [i \in Intents |-> <<>>]
  /\ txns = [i \in Intents |-> [s \in TxnStatus |-> 0]]
  /\ accrued = {}
  /\ outbox = [i \in Intents |-> [e \in EventType |-> 0]]
  /\ steepFees \in SUBSET Intents
  /\ asked = [i \in Intents |-> 0]

-----------------------------------------------------------------------------
Emitted(i, e)    == outbox[i][e]
CanMove(i, to)   == /\ intent[i] # "ABSENT"
                    /\ to \in PAYMENT_INTENT_TRANSITIONS[intent[i]]
Set(f, i, v)     == [f EXCEPT ![i] = v]
Bump(f, i, k)    == [f EXCEPT ![i][k] = @ + 1]
InFlight(i)      == \E n \in DOMAIN attempts[i] : attempts[i][n] = "PROCESSING"
Asked(i)         == asked' = [asked EXCEPT ![i] = @ + 1]
SessionExpired(i) == session[i] = "OPEN" /\ i \in lapsedSessions

\* Mutant: counts the uses of limited links only.
UseLink_Limited(i) ==
  IF link[LinkOf[i]].maxUses = NoLimit THEN UNCHANGED link
  ELSE link' = Set(link, LinkOf[i], RecordSuccessfulUse(link[LinkOf[i]]))

UseLink(i) == link' = Set(link, LinkOf[i], RecordSuccessfulUse(link[LinkOf[i]]))

\* An earlier success on the link closes a one-time or single-use link.
AlreadyPaid(l) == /\ link[l].oneTime \/ link[l].maxUses = 1
                  /\ \E j \in Intents : LinkOf[j] = l /\ intent[j] = "SUCCEEDED"

-----------------------------------------------------------------------------
\* createCheckoutSession: CREATED -> REQUIRES_PAYMENT within the transaction, in
\* which the adapter authorises the payment a first time.  Whatever it answers
\* the session is opened (a throw undoes it, and the payment at the provider is
\* nobody's).  The handler's own expiry and already-used updates precede a throw
\* and never commit.
CreateCheckoutSession(i) ==
  LET l == LinkOf[i] IN
  /\ intent[i] = "ABSENT"
  /\ EffectiveStatus(l) = "ACTIVE"
  /\ ~LimitReached(link[l])
  /\ ~AlreadyPaid(l)
  /\ intent' = Set(intent, i, "REQUIRES_PAYMENT")
  /\ session' = Set(session, i, "OPEN")
  /\ order' = Set(order, i, "OPEN")
  /\ outbox' = Bump(outbox, i, "payment.created")
  /\ Asked(i)
  /\ UNCHANGED <<linkVars, lapsedSessions, attempts, txns, accrued, steepFees>>

\* Mutant: expires the intent whatever has been submitted.
GetCheckoutSession_AnyIntent(i) ==
  /\ SessionExpired(i)
  /\ session' = Set(session, i, "EXPIRED")
  /\ intent' = Set(intent, i, "EXPIRED")
  /\ outbox' = Bump(outbox, i, "payment.expired")
  /\ UNCHANGED <<linkVars, lapsedSessions, order, attempts, txns, accrued,
                 steepFees, asked>>

\* getCheckoutSession: reading a lapsed session expires it, and its intent
\* with it unless a payment has been submitted.
GetCheckoutSession(i) ==
  /\ SessionExpired(i)
  /\ session' = Set(session, i, "EXPIRED")
  /\ IF intent[i] \in {"CREATED", "REQUIRES_PAYMENT"}
     THEN /\ intent' = Set(intent, i, "EXPIRED")
          /\ outbox' = Bump(outbox, i, "payment.expired")
     ELSE UNCHANGED <<intent, outbox>>
  /\ UNCHANGED <<linkVars, lapsedSessions, order, attempts, txns, accrued,
                 steepFees, asked>>

\* Mutant: forgets the session.
CancelPayment_KeepSession(i) ==
  /\ CanMove(i, "CANCELLED")
  /\ intent' = Set(intent, i, "CANCELLED")
  /\ outbox' = Bump(outbox, i, "payment.cancelled")
  /\ UNCHANGED <<linkVars, session, lapsedSessions, order, attempts, txns,
                 accrued, steepFees, asked>>

\* cancelPayment, by the merchant.
CancelPayment(i) ==
  /\ CanMove(i, "CANCELLED")
  /\ intent' = Set(intent, i, "CANCELLED")
  /\ session' = IF session[i] = "OPEN" THEN Set(session, i, "CANCELLED")
                                       ELSE session
  /\ outbox' = Bump(outbox, i, "payment.cancelled")
  /\ UNCHANGED <<linkVars, lapsedSessions, order, attempts, txns, accrued,
                 steepFees, asked>>

-----------------------------------------------------------------------------
\* Mutant: a declined payment can be confirmed again on its open session.
CanConfirm_Retry(i) ==
  /\ link[LinkOf[i]].status = "ACTIVE"
  /\ session[i] = "OPEN" /\ ~SessionExpired(i)
  /\ intent[i] \in {"REQUIRES_PAYMENT", "FAILED"}
  /\ ~InFlight(i)

\* Mutant: the link's status is checked when the session is created only.
CanConfirm_AnyLink(i) ==
  /\ session[i] = "OPEN" /\ ~SessionExpired(i)
  /\ intent[i] = "REQUIRES_PAYMENT"
  /\ ~InFlight(i)

\* confirmCheckoutPayment.  The link's expires_at is not looked at again, only
\* its status; a lapsed session throws, which also undoes its expiry.  The
\* unique index allows one attempt in flight.
CanConfirm(i) ==
  /\ link[LinkOf[i]].status = "ACTIVE"
  /\ session[i] = "OPEN" /\ ~SessionExpired(i)
  /\ intent[i] = "REQUIRES_PAYMENT"
  /\ ~InFlight(i)

\* Mutant: the adapter's status is stored as it comes.
Attempted_Raw(i, status) ==
  attempts' = Set(attempts, i, Append(attempts[i], IF status = "PROCESSING"
                                                   THEN "PENDING" ELSE status))

\* The new attempt ends as the provider's answer says.
Attempted(i, status) == attempts' = Set(attempts, i, Append(attempts[i], status))

Announced(i, e) == outbox' = Bump(Bump(outbox, i, "payment.processing"), i, e)

\* The provider captured the money: everything about the payment is settled in
\* this transaction, unless the accrual throws FEES_EXCEED_GROSS.
ConfirmSucceeded(i) ==
  /\ CanConfirm(i)
  /\ i \notin steepFees
  /\ Asked(i)
  /\ Attempted(i, "SUCCEEDED")
  /\ intent' = Set(intent, i, "SUCCEEDED")
  /\ txns' = Bump(txns, i, "SUCCEEDED")
  /\ session' = Set(session, i, "COMPLETED")
  /\ order' = Set(order, i, "PAID")
  /\ UseLink(i)
  /\ accrued' = accrued \union {i}
  /\ Announced(i, "payment.succeeded")
  /\ UNCHANGED <<lapsedLinks, lapsedSessions, steepFees>>

\* AMBIGUOUS, a timeout included: the attempt and the intent fail, without a
\* transaction; the session stays OPEN.
ConfirmAmbiguous(i) ==
  /\ CanConfirm(i)
  /\ Asked(i)
  /\ Attempted(i, "FAILED")
  /\ intent' = Set(intent, i, "FAILED")
  /\ Announced(i, "payment.failed")
  /\ UNCHANGED <<linkVars, session, lapsedSessions, order, txns, accrued,
                 steepFees>>

\* REQUIRES_ACTION or PENDING: the outcome will come from the provider.
ConfirmPending(i) ==
  /\ CanConfirm(i)
  /\ Asked(i)
  /\ Attempted(i, "PROCESSING")
  /\ intent' = Set(intent, i, "PROCESSING")
  /\ outbox' = Bump(outbox, i, "payment.processing")
  /\ UNCHANGED <<linkVars, session, lapsedSessions, order, txns, accrued,
                 steepFees>>

\* FAILED: also leaves the session OPEN.
ConfirmFailed(i) ==
  /\ CanConfirm(i)
  /\ Asked(i)
  /\ Attempted(i, "FAILED")
  /\ intent' = Set(intent, i, "FAILED")
  /\ txns' = Bump(txns, i, "FAILED")
  /\ Announced(i, "payment.failed")
  /\ UNCHANGED <<linkVars, session, lapsedSessions, order, accrued, steepFees>>

\* The adapter has been asked, and then the transaction is undone: by a lost
\* process or connection, or because the accrual throws.  The record of the call
\* is undone with it, so the next submission asks again, under a new key; the
\* provider may have captured the money, and reports it when it likes.
ConfirmLost(i) ==
  /\ CanConfirm(i)
  /\ asked[i] <= MaxLost
  /\ Asked(i)
  /\ UNCHANGED <<linkVars, paymentVars, steepFees>>

-----------------------------------------------------------------------------
\* applyProviderWebhookToPaymentIntent, reached from a verified webhook or from
\* the return page's poll (syncStripeCheckoutPayment).
\*
\* The provider (external): each authorisation it was asked for is a payment of
\* its own there, which can be paid on its page whatever the state here, may be
\* declined and tried again, or be cancelled; it reports them all as this one,
\* repeatedly and late.  So any of the three events may arrive at any time, in
\* any order and any number of times, as soon as there is a session.

\* Mutant: a FAILED intent is not terminal.
Applicable_Failed(i) == intent[i] \in {"REQUIRES_PAYMENT", "PROCESSING", "FAILED"}

\* Terminal intents ignore every event.
Applicable(i) == intent[i] \in {"REQUIRES_PAYMENT", "PROCESSING"}

\* finalizeCheckoutArtifacts, first time: the latest attempt succeeds, or one is
\* made up; the session completes in whatever status it was.
FinalizeFresh(i) ==
  /\ attempts' = Set(attempts, i,
                     IF attempts[i] = <<>> THEN <<"SUCCEEDED">>
                     ELSE [attempts[i] EXCEPT ![Len(attempts[i])] = "SUCCEEDED"])
  /\ txns' = Bump(txns, i, "SUCCEEDED")
  /\ session' = Set(session, i, "COMPLETED")
  /\ order' = Set(order, i, "PAID")
  /\ UseLink(i)

\* finalizeCheckoutArtifacts of an intent that has its transaction: an ACTIVE
\* limited link is used once more, "if a prior path skipped it".
Reconcile(i) ==
  /\ LET row == link[LinkOf[i]] IN
     IF /\ row.status = "ACTIVE"
        /\ row.oneTime \/ (row.maxUses # NoLimit /\ row.useCount < row.maxUses)
     THEN UseLink(i)
     ELSE UNCHANGED link
  /\ session' = IF session[i] = "OPEN" THEN Set(session, i, "COMPLETED")
                                       ELSE session
  /\ order' = Set(order, i, "PAID")
  /\ UNCHANGED <<attempts, txns>>

FinalizeCheckoutArtifacts(i) ==
  IF txns[i]["SUCCEEDED"] > 0 THEN Reconcile(i) ELSE FinalizeFresh(i)

\* Mutant: fees and journal are left to the confirmation.
SettleByEvent_NoAccrual(i) ==
  /\ Applicable(i)
  /\ i \notin steepFees
  /\ intent' = Set(intent, i, "SUCCEEDED")
  /\ FinalizeCheckoutArtifacts(i)
  /\ outbox' = Bump(outbox, i, "payment.succeeded")
  /\ UNCHANGED <<lapsedLinks, lapsedSessions, accrued, steepFees, asked>>

\* A success of an open or submitted payment settles it, through PROCESSING; the
\* accrual may throw FEES_EXCEED_GROSS here too, and the payment stays as it was.
SettleByEvent(i) ==
  /\ Applicable(i)
  /\ i \notin steepFees
  /\ intent' = Set(intent, i, "SUCCEEDED")
  /\ accrued' = accrued \union {i}
  /\ FinalizeCheckoutArtifacts(i)
  /\ outbox' = Bump(outbox, i, "payment.succeeded")
  /\ UNCHANGED <<lapsedLinks, lapsedSessions, steepFees, asked>>

\* A further success of a paid payment (the provider's next event about it, or
\* another poll of the return page) reconciles its artifacts.
ReconcileByEvent(i) ==
  /\ intent[i] = "SUCCEEDED"
  /\ FinalizeCheckoutArtifacts(i)
  /\ UNCHANGED <<lapsedLinks, intent, lapsedSessions, accrued, outbox, steepFees,
                 asked>>

\* A decline: the attempt and the session are left as they are.
FailByEvent(i) ==
  /\ txns[i]["SUCCEEDED"] = 0
  /\ Applicable(i)
  /\ intent' = Set(intent, i, "FAILED")
  /\ outbox' = Bump(outbox, i, "payment.failed")
  /\ UNCHANGED <<linkVars, session, lapsedSessions, order, attempts, txns,
                 accrued, steepFees, asked>>

\* A cancellation: an open intent goes to PROCESSING, from where no transition
\* leads to CANCELLED (no_applicable_transition).
CancelByEvent(i) ==
  /\ txns[i]["SUCCEEDED"] = 0
  /\ intent[i] = "REQUIRES_PAYMENT"
  /\ intent' = Set(intent, i, "PROCESSING")
  /\ UNCHANGED <<linkVars, session, lapsedSessions, order, attempts, txns,
                 accrued, outbox, steepFees, asked>>

-----------------------------------------------------------------------------
\* Another fee schedule becomes active (resolveActivePlatformFee reads it when
\* the fees are accrued, not when the session is created).
FeesChange ==
  /\ steepFees' \in SUBSET Intents
  /\ UNCHANGED <<linkVars, paymentVars, asked>>

\* The clock passes the session's expires_at.
SessionLapses(i) ==
  /\ session[i] = "OPEN"
  /\ i \notin lapsedSessions
  /\ lapsedSessions' = lapsedSessions \union {i}
  /\ UNCHANGED <<linkVars, intent, session, order, attempts, txns, accrued,
                 outbox, steepFees, asked>>

Next ==
  \/ LinkNext /\ UNCHANGED <<paymentVars, steepFees, asked>>
  \/ FeesChange
  \/ \E i \in Intents :
       \/ CreateCheckoutSession(i)
       \/ GetCheckoutSession(i)
       \/ CancelPayment(i)
       \/ ConfirmSucceeded(i)
       \/ ConfirmAmbiguous(i)
       \/ ConfirmPending(i)
       \/ ConfirmFailed(i)
       \/ ConfirmLost(i)
       \/ SettleByEvent(i)
       \/ ReconcileByEvent(i)
       \/ FailByEvent(i)
       \/ CancelByEvent(i)
       \/ SessionLapses(i)

Spec == Init /\ [][Next]_vars

-----------------------------------------------------------------------------
Paid(i)     == intent[i] = "SUCCEEDED"
PaidOn(l)   == {i \in Intents : LinkOf[i] = l /\ Paid(i)}
OneIf(cond) == IF cond THEN 1 ELSE 0

\* A session and its intent are locked and written by different handlers in
\* different orders; whatever the interleaving, they tell the same story: the
\* session completes exactly with the payment, is cancelled exactly with it,
\* and an expired session leaves no intent that could still be confirmed.
SessionAndIntentAgree ==
  \A i \in Intents :
    /\ session[i] = "ABSENT" <=> intent[i] = "ABSENT"
    /\ session[i] = "COMPLETED" <=> Paid(i)
    /\ session[i] = "CANCELLED" <=> intent[i] = "CANCELLED"
    /\ session[i] = "OPEN" => intent[i] \in {"REQUIRES_PAYMENT", "PROCESSING",
                                            "FAILED"}
    /\ session[i] = "EXPIRED" => intent[i] \in {"EXPIRED", "PROCESSING", "FAILED"}

\* The synchronous confirmation and the provider's event are two code paths to
\* SUCCEEDED, and reconciliation a third that runs after it; between them a
\* payment has one successful transaction, its fees and journal once, a paid
\* order and a successful attempt exactly when it is SUCCEEDED.
PaidMeansSettledOnce ==
  \A i \in Intents :
    /\ txns[i]["SUCCEEDED"] = OneIf(Paid(i))
    /\ i \in accrued <=> Paid(i)
    /\ order[i] = "PAID" <=> Paid(i)
    /\ (\E n \in DOMAIN attempts[i] : attempts[i][n] = "SUCCEEDED") <=> Paid(i)

\* The outbox says once how a payment ended, and nothing else: the idempotency
\* keys of the two success paths differ, so only the order of the handlers'
\* checks keeps a merchant from hearing twice, or two endings.
EndingAnnouncedOnce ==
  \A i \in Intents :
    /\ Emitted(i, "payment.succeeded") = OneIf(intent[i] = "SUCCEEDED")
    /\ Emitted(i, "payment.failed")    = OneIf(intent[i] = "FAILED")
    /\ Emitted(i, "payment.cancelled") = OneIf(intent[i] = "CANCELLED")
    /\ Emitted(i, "payment.expired")   = OneIf(intent[i] = "EXPIRED")

\* A one-time link that has been paid is EXPIRED, also if it was cancelled,
\* deactivated or given other limits while the payment was in flight.
PaidOneTimeLinkClosed ==
  \A l \in Links : link[l].oneTime /\ PaidOn(l) # {} => link[l].status = "EXPIRED"

\* Every successful payment has consumed a use of its link, by whichever path
\* it succeeded.
EveryPaymentUsesLink ==
  \A l \in Links : Cardinality(PaidOn(l)) <= link[l].useCount

\* Once a one-time link has been paid, nobody opens a session on it and no
\* open session on it is submitted any more.
PaidOneTimeLinkTakesNoMoney ==
  [][\A i \in Intents :
       \/ intent[i] = "ABSENT" /\ intent'[i] # "ABSENT"
       \/ outbox'[i]["payment.processing"] > outbox[i]["payment.processing"]
       => ~(link[LinkOf[i]].oneTime /\ PaidOn(LinkOf[i]) # {})]_vars

\* The provider is asked for a payment when its session is opened, at its
\* submission, and once more for every submission that was undone; never again
\* when a submission has been answered (declined or unclear too, although the
\* session stays OPEN), nor when an event, the merchant or a reader of the
\* session has ended the payment meanwhile.
NoChargeAfterOutcome ==
  [][\A i \in Intents : asked'[i] > asked[i] =>
       /\ attempts[i] = <<>>
       /\ \A s \in TxnStatus : txns[i][s] = 0
       /\ \A e \in EventType \ {"payment.created"} : outbox[i][e] = 0]_vars

-----------------------------------------------------------------------------
\* Checkout keeps the promise of PaymentPromise: the statuses of the intent are
\* its phases, and paying settles every table in one step.
Phase == [ABSENT |-> "absent", CREATED |-> "open", REQUIRES_PAYMENT |-> "open",
          PROCESSING |-> "submitted", SUCCEEDED |-> "paid", FAILED |-> "failed",
          CANCELLED |-> "void", EXPIRED |-> "void"]

Promise == INSTANCE PaymentPromise WITH
             phase     <- [i \in Intents |-> Phase[intent[i]]],
             recorded  <- [i \in Intents |-> txns[i]["SUCCEEDED"]],
             booked    <- accrued,
             announced <- [i \in Intents |-> Emitted(i, "payment.succeeded")]

\* No interleaving of customers, merchant, clock and provider makes a payment
\* end twice, pays it in part, or announces what did not happen.
KeepsPromise == Promise!Spec

-----------------------------------------------------------------------------
(* What the documentation says of the program and the code does not do. *)

\* docs/webhooks/WEBHOOK_STATE_APPLY.md: an event takes an open intent "via
\* PROCESSING first, then terminal", so PROCESSING means a submitted attempt.
ProcessingHasAttempt ==
  \A i \in Intents : intent[i] = "PROCESSING" => InFlight(i)

\* docs/implementation/PAYMENT_LINKS.md: a cancelled link is terminal.
CancelledLinkIsTerminal ==
  [][\A l \in Links : link[l].status = "CANCELLED" => link'[l].status = "CANCELLED"]_vars

\* PAYMENT_LINKS.md: a successful payment increments use_count, and
\* finalizeCheckoutArtifacts calls itself idempotent.
UseCountIsPayments ==
  \A l \in Links : link[l].useCount <= Cardinality(PaidOn(l))

\* providers/router.ts: "callers must query-before-retry - never blind
\* re-charge": a submission is made again only if the one before was recorded.
NeverBlindRecharge ==
  [][\A i \in Intents : asked'[i] > asked[i] => asked[i] <= 1]_vars

\* createCheckoutSession: "One-time / exhausted: refuse if a successful payment
\* already exists for this link."
OneTimeLinkPaidOnce ==
  \A l \in Links : link[l].oneTime => Cardinality(PaidOn(l)) <= 1
=============================================================================
