# IMKAN payment platform: a TLA+ verification project

TLA+ models of the server of this repository (`apps/api/src`), the TLC runs that
check them on small instances, and TLAPS proofs of what matters most for every
size of the system. Paths below are relative to `src/apps/api/src` unless they
say otherwise.

## 1. Inventory of the system

The server is a Fastify API over one PostgreSQL database, plus a worker process
(`worker.ts`) that drains the outbox and renews subscriptions; each API process
may run the same workers. Almost every component is a set of tables and the
handlers that change them, each handler one transaction (`withPgTransaction`,
READ COMMITTED) that locks with `SELECT ... FOR UPDATE` the rows it decides on,
or forgets to. A handler that throws rolls its transaction back. What is not in
the database: the rate limiter's counters (memory or Redis), the documents'
objects (disk or S3), and the money, mails and webhooks that have left.

| Component | State | Operations | Talks to | What is hard |
|---|---|---|---|---|
| Payment links (`payments/payment-links-service.ts`) | `payment_links`: status, limits, `use_count`, `expires_at` | create, update, activate, deactivate, cancel, expire, reuse, public read, `recordSuccessfulUse` | called by checkout on success | a link that changes while a payment on it is in flight; expiry that is rolled back by the throw after it |
| Checkout (`payments/payment-core-service.ts`, `payment-state-machine.ts`, `finalize-checkout-artifacts.ts`) | orders, intents, sessions, attempts, transactions | create session, read session (expires it), confirm, cancel, poll the provider, charge without a customer (`collectForBilling`) | adapters, links, fees, ledger, outbox | two paths to SUCCEEDED; the provider asked once when a session is created and again at every confirmation; ambiguous answers; several sessions on one link |
| Provider webhook inbox (`providers/webhook-service.ts`, `webhook-secrets.ts`) | `provider_webhook_events`, nonces | verify, deduplicate, correlate, apply | checkout, refunds, disputes | late, repeated, overlapping deliveries; refusals that leave a row |
| Provider events (`providers/webhook-state-apply.ts`, `stripe/aux-apply.ts`) | the rows of payments, refunds, disputes | map an event to a status, apply it | called by the inbox | events in any order |
| Fee accrual and ledger (`finance/fee-accrual-service.ts`, `ledger/ledger-service.ts`, `finance/balances.ts`, `financial-model.ts`) | journals, entries, fee columns of the intent | post capture, refund, settlement fees, payout; balances | everything that moves money | one journal per source; the same fee recognised twice |
| Refunds (`refunds/refunds-service.ts`) | `refunds` | merchant refund, provider refund event | adapters, ledger | the provider is called inside the transaction; its event comes back under another key |
| Settlements and payouts (`finance/settlement-payout-recon.ts`, `payout-rail/`) | settlements, lines, payouts | draft, finalise, cancel; create, submit, approve, mark paid, fail, cancel payout | ledger, refunds | frozen lines against later refunds; write skew between two payouts |
| Subscriptions and renewal (`billing/`) | subscriptions, invoices, collection attempts | create, pause, resume, cancel, collect now; worker: prepare, charge, record, end | `collectForBilling` | the charge lies between two transactions; retries after an unknown outcome |
| Outbox worker (`foundation/outbox-worker.ts`, `audit.ts`) and e-mail (`platform/email-*.ts`) | `outbox_events` | claim a batch, handle, mark | e-mail, merchant webhooks | effects before the commit; one failing row aborts the batch; a call without a timer |
| Merchant webhooks (`webhooks/merchant-outbound-webhooks.ts`) | endpoints, deliveries | create, update, enqueue, deliver, retry | outbox, merchants' servers | deliveries are not claimed: overlapping runs and late answers |
| Routes and hooks (`interfaces/http/apiV1/`, `foundation/authz.ts`, `session-cookies.ts`) | step-up tokens | authenticate, check, confirm, limit, take a key, handle | every service | the order of the hooks |
| API idempotency (`foundation/idempotency.ts`) | `idempotency_keys` | start, complete, fail | every route with a key | look-up and insert are two statements; a failed key |
| Rate limiting (`foundation/rate-limit*.ts`) | counters per address, organization, user | bump, expire | memory or Redis | a process lost between two commands |
| Identity (`foundation/identity-*.ts`, `mfa-*.ts`) | users, sessions, challenges, requests | register, log in, second factor, reset, log out | e-mail | nothing read is locked |
| Members, roles, keys (`identity-phase2.ts`, `custom-roles-service.ts`, `api-keys.ts`, `platform-users-service.ts`) | memberships, invitations, roles, API keys | invite, accept, assign, disable, remove, restore | identity | a decision that is stale when it is written |
| Onboarding (`merchant/`): KYB, bank accounts, documents | cases, profiles, persons, accounts, documents, objects | edit, submit, review, decide; verify, activate, set default; upload, review | payment gate, outbox | edits against reviews; an object outside the transaction |
| Provider routing and administration (`providers/router.ts`, `provider-admin-service.ts`, `bootstrap-stripe-routes.ts`) and readiness (`payments/merchant-readiness-service.ts`) | accounts, routes, branding | resolve; add account, replace route | every charge | replaced routes that overlap; routes for a currency or a payment method; a page that looks at neither |
| Adapters (`providers/stripe/`, `paytabs/`, `sandbox-adapter.ts`, `bop/`) | a client with its keys | authorize, status, void, refund | HTTP | calls lost on the way there or back; two authorizations of one payment; deployments that simulate |
| Statements, dashboards, platform administration, observability, web app | rows others only display | | | |

## 2. Modules

One module per component; a component with an abstract promise has a module for
that, and proofs are in modules of their own.

| Module | What it is |
|---|---|
| `PaymentLinks` | the links table and the merchant's operations on it |
| `Checkout` | extends `PaymentLinks` with sessions, intents, attempts, transactions, fee accrual and outbox; customers, merchant, clock and provider interleave |
| `PaymentPromise` | the abstract specification of one payment: opened once, ends once, paid in one indivisible step |
| `Sums`, `FinancialModel`, `Ledger` | SQL's `SUM` as a recursive function; fee rounding, settlement equation, balances; account balances and the postings |
| `Settlements`, `Payouts` | captures, refund rows, schedules, drafts, finalisation; payouts with their overlapping transactions |
| `SettlementPromise` | the abstract specification of a batch: closed once, paid out in parts, settled when they reach what is due |
| `Renewal` | subscriptions, invoices, collection attempts; handlers that overlap between their phases and may stop there |
| `CollectionPromise` | the abstract specification of an invoice's collection: three attempts, each answered once, no success without money |
| `Outbox` | domain events, the worker's claim, mails, merchants' endpoints and deliveries |
| `Routes`, `Requests` | every route with its hooks in order; calls of one operation passing them, with key, token and limit |
| `RateLimit` | the fixed-window counters in memory and in Redis, command by command |
| `Accounts`, `Members` | a user's passwords, logins, sessions; invitations, memberships, roles, keys |
| `PayoutAccounts`, `Documents`, `Kyb` | bank accounts; documents and their objects; the case, the merchant's data, the requirements over all three |
| `Providers`, `Readiness` | accounts, routes and the router; readiness over `Kyb` and `Providers` |
| `Inbox` | deliveries of provider events: verification, look-up, writes |
| `Adapters`, `Refunds` | what adapters answer against what happened at the provider; a payment's refunds through them |
| `MCCheckout`, `MCPayouts`, `MCRenewal`, `MCMessaging`, `MCAccess`, `MCMerchants` | small instances for TLC |
| `CheckoutProofs`, `PayoutProofs`, `LedgerProofs`, `RenewalProofs`, `OutboxProofs` | theorems about the module of that name (`LedgerProofs`: about `Payouts` and its ledger) |
| `AccessProofs` | theorems about `RateLimit`, `Accounts`, `Members`, `Requests` |
| `MerchantProofs` | theorems about `Inbox`, `PayoutAccounts`, `Documents`, `Providers`, `Kyb`, `Readiness`, `Adapters`, `Refunds` |
| `SumsProofs` | the laws of sums these rest on |

What composes what: `Checkout` on `PaymentLinks`; `Payouts` on `Settlements` on
`Ledger`; `Requests` on `Routes`; `Readiness` on `Kyb` (on `PayoutAccounts` and
`Documents`) and `Providers`; `Refunds` on `Adapters`. `MCAccess` and
`MCMerchants` put components that share no state side by side: a variable
`focus`, chosen once, says which of them a behaviour is about, the others stand
still. That is one run for several questions, not a composition.

Two constructions recur. A handler whose locks cover what it reads is one
action. A handler that decides on something it has not locked, or that waits for
somebody outside the database, is taken apart where that happens, with an open
call or transaction in between (`tx`, `handler`, `delivering`, `edit`, `call`),
and a lost connection or process (`Rollback`, `GiveUp`, `Abort...`, `Lose...`)
may end it there.

### `PaymentLinks` and `Checkout`

* A throw is no action: this matters, because several handlers write an expiry
  and then throw (`payment-core-service.ts:311`), which the database undoes.
  `getByPublicToken` and `getCheckoutSession` are the only reads whose expiry
  commits, and the only ones that are actions.
* `createCheckoutSession` inserts order, intent and session together; the three
  are indexed by the intent. `LinkOf` says which link an intent will be made on.
  It asks the provider for a page already (`payment-core-service.ts:440`), and `asked` counts how often
  the provider was asked about a payment, whoever asked.
* `confirmCheckoutPayment` is five actions, one for each thing the adapter can
  answer (captured, failed, pending or requiring action, ambiguous, into which
  the router turns a timeout) and `ConfirmLost`, a submission that is undone
  after the provider was asked (a lost process or connection, `MaxLost` of them).
* `applyProviderWebhookToPaymentIntent` is reached from webhooks and from the
  return page's poll. An event of any kind may come at any moment once there is
  an intent, any number of times: that is redelivery, reordering and duplication
  at once, and it owes nothing to what the confirmation was told, because the
  page of the session's creation can be paid without one. What the inbox lets
  through is `Inbox`; here it lets everything through.
* `steepFees` are the payments whose fees would exceed their amount under the
  fee schedule of the moment: a success of theirs throws and is undone.
* Time is two sets, `lapsedLinks` and `lapsedSessions`, that grow.
* Left out: amounts, currency and display fields, audit rows, the tenant checks.

### `Settlements` and `Payouts`

* One organisation, environment and currency: every query of these services
  filters on the three. Rows are numbered; a row's id is the next unused number.
* An operation whose locks cover its reads until its commit is one step:
  refunds (the payment's row), drafts and finalisations (advisory and row lock),
  cancellation, and `submit`, `approve`, `fail`, `cancel` of a payout.
  `payoutService.create` and `markPaid` are two steps with an open transaction
  `tx[p]` between. `RowFree` is the settlement's row lock, which `markPaid`
  needs only when it writes the settlement.
* `CreateRefund` is both ways a refund row is inserted, one step because only
  its effect on settlements matters here; the provider's side, the keys and the
  steps of the request, with the sum that is read before the insert, are `Refunds`.
* A draft takes the first `PageSize` payments of its period and drops those
  already refunded in full afterwards, as the query and the loop do.
* A journal is what it adds to each account; `journals` is the set of sources, so
  a second posting of a source changes nothing. `merchant_payable` is a credit
  account: its debits less credits are negative.

### `Renewal`

* A handler is `processOneSubscription`, whoever runs it: `Prepare` (one
  transaction, whose locks it lets go), the status question about an ambiguous
  attempt, `CollectStored` or `CollectFromProvider` (the router finds the
  key's row or charges), `CommitCollection`, and one action per outcome that
  records it. The key of a charge is invoice and attempt number, as in the code.
* `charge` is what the provider did, `providerTx` what the system knows of it.
* `ScanTerminal` and `ApplyTerminal` are the terminal scan, whose candidates are
  read without a lock. `overlapped` remembers which subscriptions two handlers
  held at once: a history variable, as are `unclear`, `owed`, `stray`,
  `crossed`, `promoted` and their like elsewhere. No guard reads one.

### `Outbox`

* A tick is `Claim` (with `SKIP LOCKED`: rows another tick holds are passed
  over), one step per event, `CommitClaim` or `AbortClaim`, and then a run over
  the due deliveries, which also a merchant's retry starts. Mails leave at the
  step, deliveries are inserted with the commit.
* A call that never ends keeps its thread: Brevo's, which has no timer, with the
  claim's locks (`HangInMail`), and a merchant's server that sends headers and no
  end of the body, whose timer is cleared by then (`HangInPost`). Both count as faults.
* Which transport is used, and whether it can send at all, is a set of
  environments (`EmailSettings`).

### `Routes`, `Requests`, `RateLimit`, `Accounts`, `Members`

* `Routes` lists the routes file by file; a handler's body is one step of
  `Requests` that either has its effect or throws. TLC gets one route for every
  sequence of kinds of hooks, chosen from the list.
* A bump of a Redis counter is `INCR`, `PEXPIRE` and `PTTL`, three steps.
* `Accounts` is one account, with several overlapping logins; passwords are
  numbered by the resets. `Members` is one organization and the platform.

### Onboarding, providers, inbox, refunds

* An edit of merchant data is what it reads under `assertKybEditable`, with the
  lock it then holds or not, and what it commits. A second person's edit, a
  submission and a decision come in between where the lock lets them.
* `evaluateRequirements` asks the requirement rows (data) of profiles, persons,
  documents and bank accounts. The payment gate `assertMerchantPaymentsAllowed`
  stands in `Readiness`, with `kybRequired` (an environment switch) beside it.
* A route is for an environment, any or one currency and any or one payment
  method; `upsertRoute` replaces only the one that is for any of both, the router
  prefers the others, and the readiness page does not look at them.
* A provider event carries whom it was signed for (`signer`); a signature is
  whether the secret the code tries is that one. `Posts` are fresh or old, of
  either plane. `effective` is what the mapping makes of an event type:
  PayTabs tells of a refund under an id of its own, which is never correlated.
* In `Adapters`, `Wires` are the ways a request may end (lost on the way there,
  on the way back, an HTTP error, an answer), and `remote` is the payment at the
  provider, external and only as fine as the adapters can tell. A payment has two
  `Authorizations`, the session's and the submission's, each with its own page.
  `resolveStripeMode` and `resolvePayTabsMode` tell whether a client simulates:
  the mode is fixed for a deployment, the keys may change under it.
* `createRefund` is taken apart before the row lock, before the call and before
  the writes. `SandboxEvents` are what a tester may send to the sandbox.

## 3. Runs

| Run | Question | Answer |
|---|---|---|
| `Checkout` | Do session, intent, attempt, transaction, order, ledger, link and outbox agree in every interleaving? Is an ending announced once, and is the provider never asked again once an outcome is recorded? Does a paid one-time link take no more money? Does it implement `PaymentPromise`? | yes |
| `Settlements` | Are settlements the sum of their lines whatever is drafted, cancelled and finalised, amounts never negative? | yes |
| `Payouts` | Do overlapping payouts stay within the net, is PAID really paid, approved, and the ledger equal to the tables? Do finalised amounts stay, and does it implement `SettlementPromise`? | yes |
| `Renewal` | With a handler lost anywhere: is a subscription given up only after three attempts, and does an unpaid or cancelled one come to its end? | yes |
| `RenewalOverlap` | With two handlers and a merchant who pauses, resumes, cancels and collects: was a PAID invoice charged, is no period lost, is a second charge made only after an open answer, does an ended subscription stay ended? Does it implement `CollectionPromise`? | yes |
| `Messaging` | Does a mail leave once unless a commit was lost, do the rows tell the truth, is DELIVERED taken back only by an overlapping run, does what is pending end although threads hang, as long as one does not? | yes |
| `Access` | Does a confirmed or keyed call have its effect once, is a stored reply kept, does production's limit hold across processes, do resets and removals end what they should, does nothing stay shut? | yes, each with the exceptions its definition names |
| `Merchants` | Is what was approved what the data says; do bank accounts, documents and objects agree; does a payment stay in its tenant, plane and service, and go where the merchant is shown; is an event applied once; are refunds within the capture and adapters' answers true? | yes, each with the exceptions its definition names |
| `Checkout_one_time` | Is a one-time link paid once? | no: two sessions opened before the first payment can both be paid |
| `Payouts_double_fee` | `docs/REQUIREMENTS_SOURCE_2.md`: is a payout within the available balance? | no: the fee taken at capture is taken again at finalisation |
| `Renewal_double_charge` | `docs/implementation/RENEWAL_WORKER.md`: is there no blind second charge? | no: a timeout leaves no reference to ask about |
| `Inbox_lost_event` | `webhook-service.ts:108`: is deduplication by event id safe? | no: a refused or early delivery takes the id of the good one |

Properties that name exceptions say exactly which interleaving the code leaves
open: they fail when any other step breaks them, and each exception was found by
TLC as a behaviour of the code. What they do not do is catch the excepted race
itself. These races are in the code, and nothing here speaks against them: a
login that crosses a reset (`underway`), a challenge read twice (`twice`), a
count written over another (`stale`), an assignment or a login that crosses a
removal (`crossed`), an owner made after the look-up (`promoted`), a call let in
again on a FAILED key (`reopened`), an edit begun without a case (`stray`),
uploads of one document that overlap, deliveries two runs hold (`overlap`),
two route replacements at once (`met`), handlers that hold one subscription
(`overlapped`).

**Bounds.** *Checkout*: one link and two payments on it, limits up to two uses.
Links do not share state, so a second link only multiplies; two payments are the
least that race, and `MaxUsesBound = 2` makes a link with a limit of one, with a
limit one payment does not reach, and without. One submission is undone
(`MaxLost`). Attempts and events are not bounded: that they stay finite is what
the properties show.
*Settlements*: three payments, a page of two and two settlements: the least in
which the page cuts a draft short and overlapping periods, cancellation and
redrafting compete for lines; refunds of 50 meet payments of 100 and 50.
*Payouts*: three payouts, one more than the pair that races, and two
settlements. 2.5% of 100 has to be rounded, the fixed fee of 1 makes a small
net, adjustments of -60 make a net that is refused, 0 as the asked amount means
all that remains. The break-glass switch is off, so that approval matters.
*Renewal*: one subscription, since none reads another's rows; one period that
can be advanced by every handler that had prepared it; three attempts (the
code's constant); two handlers where they race, one with a crash where liveness
is asked.
*Messaging*: one event of any type and completeness, one endpoint, two threads,
two attempts before giving up, one fault (a lost thread, an aborted claim, an
unclear answer or a call that hangs): two ticks are the least that overlap, and
a second event only shares the transaction, whose abort `MaxFaults` has.
672,558 states, two minutes.
*Access*: two calls of one key with two payloads; two processes with one request
left in the window; three calls of one account, two wrong passwords to lock; two
people, one invitation, two overlapping transactions.
*Merchants*: two editors, two persons of 60 and 50 percent, which together are
too much; three bank accounts of which two are one; two uploads of one document,
one of them too large; five provider accounts, of the platform, of the merchant
and of another tenant, routes of the one merchant for any or one currency and
any or one method, two of them, two overlapping route requests and one outage; with the gate
switched off, which only shows in what readiness says; for each provider two or
three events that share an id, a nonce or a payment, in two overlapping
deliveries and three postings; both authorizations of one payment through each
adapter in each mode, with one change of keys; two refund requests under one key
and without one, a capture of 2 in amounts of 1 and 2, beside two refunds at the
provider and one event (a second passes the same guard; the theorem has any
number). Of whatever there are two of (requests, calls, edits, uploads,
deliveries) both do the same, so they are one symmetric pair of model values;
the two authorizations differ and are not. 626,330 states, three minutes, of
which routing has 206,000, PayTabs' events, refunds, the case and the adapters
about 100,000 each.

**Deadlock** is not checked in any run: each of these systems may rest, when
every payment has ended, every call was answered, or the rows of the bound are
used up. Deadlocks between row locks are PostgreSQL's to break, and a broken
one is a transaction that was rolled back.

**Fairness.** Safety is that of `[Next]_vars`, where nobody has to do anything.
*Checkout* has none: that a captured payment ends is nowhere checked, because
the code does not make it so. The inbox answers 2xx for events it has not
applied (`Inbox_lost_event`), polling ends with the customer's page, and a
success whose fees exceed the amount is undone each time. *Renewal*: of the
handler's and the terminal scan's steps, which `BillingRenewalWorker` runs on a
timer, and of time; strong for taking a due subscription up, since every cycle
looks at all of them again and other passes only hold it for a while; none of
the provider's kindness, the merchant or the customer. *Messaging*: of the ticks
and of the delays, since `OutboxWorker.start` sets an interval, as long as a
tick does not hang (`running` stays set then and the process does nothing more);
none of the transport's success, nor of any call's end. *Access*: of calls that
are not lost, of clients that call again, of Redis' expiry. `Payouts` and
`Merchants` have none: operators, reviewers and merchants may stop anywhere.

### Where code and documents disagree

Besides the four runs that TLC refutes, these definitions are in the modules and
are refuted when added to the named configuration as `INVARIANT` or `PROPERTY`.

| Definition (module) | Configuration | What the documents say, and what the code does |
|---|---|---|
| `NeverBlindRecharge` (Checkout) | `Checkout.cfg` | `providers/router.ts:198` "callers must query-before-retry — never blind re-charge". A submission that is undone after the provider was asked (`payment-core-service.ts:640`) leaves no attempt, and the customer's next one asks again under another key. |
| `ProcessingHasAttempt` (Checkout) | `Checkout.cfg` | `docs/webhooks/WEBHOOK_STATE_APPLY.md:33` "CREATED / REQUIRES_PAYMENT → transition via PROCESSING first, then terminal". A cancellation event moves an open intent to PROCESSING (`webhook-state-apply.ts:127`), finds no transition to CANCELLED and returns with the move committed. |
| `CancelledLinkIsTerminal` (Checkout) | `Checkout.cfg` | `docs/implementation/PAYMENT_LINKS.md:18` "Cancel \| → CANCELLED (terminal)". `recordSuccessfulUse` writes EXPIRED over any status (`payment-links-service.ts:393`). |
| `UseCountIsPayments` (Checkout) | `Checkout.cfg` | `finalize-checkout-artifacts.ts:3` "Idempotent.". Each further success event of a payment uses an ACTIVE limited link again (:44). |
| `FullyPaidBecomesPaid` (Payouts) | `Payouts.cfg`, one settlement, two payouts | `docs/implementation/P15_1E_PAYOUT.md:19` "When SUM(PAID payouts) ≥ settlement net → settlement **PAID**". Two `markPaid` that overlap each miss the other's payout (`settlement-payout-recon.ts:877`). |
| `FinalizedEligible` (Payouts) | `Payouts.cfg` with one refund | Invariant I9 of `P15_1_FINANCIAL_INVARIANTS.md:18`. A refund between draft and finalisation stays in the net (`settlement-payout-recon.ts:336`). |
| `PendingRisesOnlyByCapture` (Payouts) | `Payouts.cfg` | `finance/balances.ts:22` "Captured funds not yet in a FINALIZED settlement". The gross is pending again when the settlement turns PAID (`ledger-service.ts:571`). |
| `ExhaustedRetriesEndPastDue` (Renewal) | `Renewal.cfg` | `docs/implementation/SUBSCRIPTION_STATE_MACHINE.md:10` "Max retries exhausted → `UNPAID`". A third attempt that is AMBIGUOUS leaves PAST_DUE for ever (`renewal-service.ts:490`). |
| `InProgressIsTrue` (Requests) | `Access.cfg` | `idempotency.ts:53` "A request with this Idempotency-Key is still in progress.". A call limited after it took the key leaves it STARTED (`phase7-financial-routes.ts:69`); so do the link actions of `phase4-routes.ts`. |
| `RemovedMembersReturn` (Members) | `Access.cfg` with `MemberSpec`, two invitations, `Elsewhere = {}`, one call | `identity-phase2.ts:469` "Closed memberships cannot be restored here — send a new invitation". The invited person must sign in and cannot (`ACCOUNT_EXISTS`, `MEMBERSHIP_CLOSED`). |
| `AcceptedHasContent` (Documents) | `Merchants.cfg` | `documents-service.ts:274` "Cannot review a document without uploaded content". The review looks at `storage_key` (:273), which an upload intent has set already. |
| `OnePrimaryPerPlane` (Providers) | `Merchants.cfg` | `provider-admin-service.ts:80` "one primary provider per plane". Two replacements that overlap each delete what they see and insert theirs. |
| `ShownIsUsed` (Readiness) | `Merchants.cfg` | `merchant-readiness-service.ts:67` "SANDBOX → ${providerCode}". The router prefers routes for the payment's currency or method (`router.ts:112`), which the page does not look at, and passes over accounts out of service. |
| `PreparedWhereSubmitted` (Providers) | `Merchants.cfg` | No document says so. A session is prepared without a payment method (`payment-core-service.ts:434`) and submitted with one (:589), possibly to another provider. |
| `LiveKeyIsUsed` (Adapters) | `Merchants.cfg` | `providers/stripe/credentials.ts:40` "Live keys: STRIPE_LIVE_SECRET_KEY (preferred)". With it alone the mode is simulate (:45), and the simulated client answers that payments succeeded. |
| `FailedPaymentStaysUnpaid` (Adapters) | `Merchants.cfg` | No document says so. A failure is told of one authorization; the page of the payment's other one can still be paid. |

## 4. Proofs

Every invariant and every action property of the passing runs, and the three
refinements, are theorems: for any number of links, payments, settlements,
subscriptions, handlers, calls, people, accounts and events, any amounts, limits
and times. Each module of proofs states an inductive invariant, with one lemma per action
(or group of actions) that the step keeps it; TLC checked each before it was
proved. What has to be added to a property to make it inductive is what the code
relies on without saying so, and is told here.

**`CheckoutProofs`**: `TypeCorrect`, `Invariance`, `SessionsFollowIntents`,
`SettledOnce`, `AnnouncedOnce`, `NeverAskedAfterOutcome`, `OneTimeLinkCloses`,
`ClosedLinkTakesNoMoney`, `PaymentsUseLinks`, `CheckoutKeepsPromise`.
`IInv` adds: an intent that is open has no finished attempt and no ending
announced, so the next handler finds room for exactly one; a one-time link stays
one-time. `UsesInv` adds, for `EveryPaymentUsesLink`, that the paid payments of a
link are finitely many and no more than its count: nothing says that there are
finitely many payments, but each of them was counted. `FreshInv` adds, for
`NeverAskedAfterOutcome`, that of a payment that is still open for the customer
no outcome is recorded anywhere. The refinement maps initial
states to initial states, every action to a step of `PaymentPromise` or a stutter.

**`SumsProofs`**: what the financial invariants need of sums: that they are
integers, or amounts; what writing one row, or adding or removing one, changes;
that larger rows make a larger sum. They are proved by induction on the number of
rows (`Total`) or on the subsets of a finite set (`SumOver`), from first-order
forms of both principles (`NatInd`, `SubsetInd`), because the library's take an
operator as a parameter.

**`PayoutProofs`**: `HalfUpIsNearest` (the quotient-and-remainder rounding of
fees is the nearest minor unit, half a unit up), `TypeCorrect`,
`PayoutsStayWithinNet`, `PaidIsPaidOut`, `PaidIsApproved`,
`FinalizedStaysFrozen`, `PayoutsKeepPromise`. The invariant adds what open
transactions have read: `OpenCreateHolds` says that what `create` found unpaid is
still unpaid, which only the settlement's lock makes true
(`OneCreatePerSettlement`); `OpenMarkPaidHolds` that what `markPaid` found paid
is still paid, which holds without a lock because a PAID payout never leaves
that status. That is why the unlocked sum can delay PAID (`FullyPaidBecomesPaid`)
and yet never grant it too early. `SettlementsKept` is all the proof needs of the
steps of `Settlements`: types, and that the rows payouts read are frozen.
**`LedgerProofs`**: `GrossIsSumOfLines` (with: a line
belongs to a settlement that has not been cancelled), `LedgerAgreesWithTables`
(with: a journal's source is a row that has been written, hence no operation
finds its journal posted already).

**`RenewalProofs`**: `Agreement`, `ThreeAttempts`, `Endings`,
`RenewalKeepsPromise`. Handlers overlap and read rows they have not locked, so
the invariant is about what can only grow. `KeyInv`: the answer kept under a key
is what the provider decided, and a key is charged only after the earlier
attempts were answered without success. `HandlerInv`: what a handler carries from
phase to phase (a key whose predecessors are answered and recorded, the
provider's answer) stays true however long it sleeps, because answers are never
taken back to a success. `InvoiceInv`: the count is that of recorded attempts.
`AloneInv`: only as long as no two handlers held the subscription at once is the
period it is in exactly the number of its paid invoices.

**`AccessProofs`**. `ProductionLimit`: with Redis, what was let through is at
most the one shared counter. `Logins` (but for the logins under way at a reset,
challenges read twice and counts overwritten) rests on four parts: a session or an open
challenge is of the newest password (`RecentInv`), a challenge has one holder,
first the call that has read it and then the session (`HolderInv`), wrong
passwords are at most the row's count until a count is written over an unread
one (`CountInv`). `Leavers`, `Owners`: nothing is under way for somebody
who has gone (`GoneInv`), and whose leaving is under way is no owner
(`LeavingInv`), but for the exceptions the properties name; an assignment may
still replace the last owner's role. `RequestsOnce`,
`RepliesStay`: whoever inserted the key's row is alone with it until it says
FAILED, and from then on nobody is (`AloneWithKey`); everybody past the key's
hook has the key (`PastKey`), which uses that hooks run in the order in which
`Routes` lists them; a stored reply is of a call that had its effect
(`RepliesTrue`).

**`OutboxProofs`**: `MailsOnce`, `TrueRecords`, `DeliveredStays`. A claim's row
locks are what makes mails unique: events held are pending and held by one
(`LocksHold`), so a mail that left is recorded, or held by the one claim that
will record it, or among the lost records (`MailsCount`). `EventsTrue` says
of the rows a claim is about to commit what it says of those committed.
Deliveries have no lock: `RunsNoticed` says that of two runs with one delivery
in hand the second was noticed.

**`MerchantProofs`**, component by component:

* `EventsOnce`: an event that was applied has a row that is its own alone and
  was announced (`AppliedAlone`); a row that was let in without effect came before
  its payment (`LetIn`).
* `AccountsAgree`: whoever chooses a default holds the lock of an ACTIVE account
  (`ChosenIsActive`), and an account's status tells its verification's
  (`VerifiedAlike`).
* `DocumentsTrue`: an upload that met no other has its document to itself, whose
  hash is still to come (`UploadsAlone`).
* `RoutesHold`: also the routes being inserted lead to an account of the
  organization or the platform (`RoutesOfTenant`), and no two were made at one time
  (`RoutesInOrder`), so that the router's order (currency, method, priority, age)
  has a first: the least of a set of naturals, at each of its levels. `PrimaryKept`:
  where no two calls about a plane met, it has at most one route for anything, or
  one call that is about to replace it.
* `ApprovalsStand`, `RecordsAgree`: an edit under way holds the lock of a case
  that stays editable (`LocksEditable`), announced keys are of earlier versions
  (`KeysAreOld`), an owner under way has room and is the only one (`OwnersWithin`).
* `AnswersStayTrue`, of each authorization by itself: what was told of it fits the
  state of the payment at the provider, the reference held and the page shown
  (`Sound`, `AuthorizationInv`), and a client has the key of its plane or simulates
  (`ClientFits`). It says nothing of a payment whose other authorization is paid,
  nor of what a simulating deployment tells.
* `RefundsStand`: whoever is between the payment's lock and the commit is alone
  (`LockAlone`) and finds room for what was asked until it is recorded
  (`RoomLeft`); what goes on to be recorded was taken on (`TakenOn`).
  `RefundsAndAnswers` joins the last two.

The theorems of `AccessProofs` and `MerchantProofs` are about the components' own
specifications (`KybSpec`, `BankSpec`, ...), which say nothing of the others'
variables: what a case reads of bank accounts and documents may be anything at
any moment. `MCAccess` and `MCMerchants` run each beside the others, the rest
standing still; that a joint behaviour is one of each component is not proved.

**Assumptions.** All are named `ASSUME`s that TLC evaluates in the passing runs,
and none bounds a set of rows or processes unless the code does:
`LinkOf` maps each payment to a link; bounds on counts, clocks and faults are
naturals; attempts before giving up, login attempts and the window's limit are at
least 1 (literals and environment defaults of the code); captured and refunded
amounts are positive, fees, asked amounts and percentages naturals, adjustments
integers; a route's priority is within the 1..10000 of the table's CHECK; an
account has an owner and an environment; the placeholders for "none" are no
member of the sets they stand beside; the persons of one KYB case are finitely
many; hooks are a list, in which those that only look at the session come first
(`SessionHooksComeFirst`: a fact about the routes the code registers).

**Only model-checked**: the liveness properties `TerminalsHappen`, `OutboxDrains`
and `NothingStaysShut`, which need fairness and ENABLED and are beyond the prover;
and the refutations.

## 5. Plan

Every component with a protocol of its own is modelled, and every safety
property of the runs is proved. What is left, in this order:

1. Composition: `MCAccess` and `MCMerchants` run components side by side; that
   the specification of each is implied by the joint one, for any choice of `focus`.
2. Abstract specifications for `Outbox` (an event is owed until it has left) and
   for `Refunds` (captured money is paid back in parts), with refinements.
3. The exceptions: that each named one (`overlapped`, `crossed`, `twice`, ...)
   can only come about by the interleaving its comment tells, as action properties.

One question is left open because it needs more than a model of a component: the
order of row locks across services (`payment-core-service.ts:571`). Money that
stays at the provider after its transaction rolled back
(`payment-core-service.ts:640`) is in `Checkout` as `ConfirmLost`; the code does
not detect it anywhere, so there is no property that it is found.

## 6. What is not modelled, and why

* `reconciliationService.run` compares two counts and writes a report.
* Statements, dashboards, listings, exports, platform administration,
  observability: read-only, or single-row settings nobody decides on.
  `updateOrganizationStatus` writes a status that no other operation reads.
* Hashes, signatures, TOTP and encryption: whether they fit is a choice or a
  comparison of model values. The catalogs of permissions and of sensitive
  operations enter as the codes of `Routes`; the latter is documentation only.
* The lists of `merchant/master-data.ts`, `merchant/verification-providers.ts`,
  `risk/risk-disputes-service.ts`, `books/`: rows that are written once and that
  nobody acts on.
* Bodies, their parsing, the error handler, CORS, wording of mails and notices.
* The in-memory layer under `application/`, `domain/`, `infrastructure/`:
  superseded by the services modelled here.
* Refunds of a simulating Stripe (`http-client.ts`): `Refunds` is about deployments
  that reach a provider.
* The web application, contracts, migrations, scripts: no server state of their own.
