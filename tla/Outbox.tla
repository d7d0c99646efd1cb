------------------------------- MODULE Outbox -------------------------------
(***************************************************************************)
(* Domain events and what leaves the system because of them: e-mails and   *)
(* the merchants' webhooks.  The worker of every API process claims the    *)
(* pending events in one transaction and handles them there: an e-mail     *)
(* goes out before the commit, a webhook becomes a delivery row.  After    *)
(* the commit the same worker posts the due deliveries, which no row lock  *)
(* and no claim keeps from the other processes, nor from the run a         *)
(* merchant's retry starts.                                                *)
(***************************************************************************)
EXTENDS Integers, FiniteSets

CONSTANTS
  Events,            \* domain events, one for each idempotency key
  Endpoints,         \* the webhook endpoints of the event's organization
  Threads,           \* ticks of the API processes and runs started by a retry
  EventAttempts,     \* attempts of an event before it fails (8)
  DeliveryAttempts,  \* attempts of a delivery before it fails (10)
  EmailSettings,     \* environments of the e-mail transport
  MaxFaults,         \* bound on lost or hung threads, aborted claims, unclear answers
  MaxRequests        \* bound on the merchants' changes and retries

ASSUME OutboxAssumption ==
  /\ EventAttempts \in Nat \ {0}
  /\ DeliveryAttempts \in Nat \ {0}
  /\ MaxFaults \in Nat
  /\ MaxRequests \in Nat

VARIABLES
  outbox,     \* outbox_events
  endpoint,   \* merchant_webhook_endpoints
  delivery,   \* merchant_webhook_deliveries, by endpoint and event
  thread,     \* the local state of a tick or of a delivery run
  mailer,     \* the environment the transport was made from
  sent,       \* the mails that left, by event
  accepted,   \* deliveries the merchant's server has answered with 2xx
  hung,       \* threads that wait for an answer that never ends
  unclear,    \* history: events whose mail left without a committed record
  overlap,    \* history: deliveries two threads have read at once
  owed,       \* history: endpoints that have wanted an event ever since it was emitted
  faults,
  requests

outboxVars == <<outbox, endpoint, delivery, thread, mailer, sent, accepted,
                hung, unclear, overlap, owed, faults, requests>>

-----------------------------------------------------------------------------
(* The e-mail transport.                                                   *)

normalizeTransportMode(raw) ==
  CASE raw \in {"brevo", "brevo-api", "sendinblue"} -> "brevo"
    [] raw \in {"stub", "smtp"} -> raw
    [] OTHER -> "none"

transportMode(env) ==
  IF normalizeTransportMode(env.setting) # "none"
  THEN normalizeTransportMode(env.setting)
  ELSE IF env.production THEN "brevo" ELSE "stub"

\* send does not throw before it calls anyone: the stub refuses production,
\* Brevo wants its key and the sender, SMTP is commented out.
canSend(env) ==
  CASE transportMode(env) = "stub"  -> ~env.production
    [] transportMode(env) = "brevo" -> env.key /\ env.from
    [] transportMode(env) = "smtp"  -> FALSE

-----------------------------------------------------------------------------
(* Events.                                                                 *)

MERCHANT_WEBHOOK_EVENT_TYPES == {"payment.succeeded", "refund.succeeded"}

\* Two of the mails that must have a recipient and one of the notices that
\* are dropped without one; payment_link.created stands for the events that
\* are kept and sent nowhere.
EmailTypes == {"invitation.created", "kyb.case.decided"}
EventTypes == EmailTypes \cup MERCHANT_WEBHOOK_EVENT_TYPES \cup {"payment_link.created"}

isDeliverableEmailEvent(type) == type \in EmailTypes
isMerchantDeliverableEvent(type) == type \in MERCHANT_WEBHOOK_EVENT_TYPES

\* handleEmailOutboxEvent: an incomplete payload throws, an incomplete notice
\* is dropped.
emailOutcome(type, complete) ==
  CASE complete -> "send"
    [] ~complete /\ type = "kyb.case.decided" -> "drop"
    [] OTHER -> "throw"

subscribes(p, type) == "*" \in endpoint[p].events \/ type \in endpoint[p].events

wants(p, type) ==
  /\ isMerchantDeliverableEvent(type)
  /\ endpoint[p].status = "ACTIVE"
  /\ subscribes(p, type)

eventStatusAfterError(attempts) ==
  IF attempts >= EventAttempts THEN "FAILED" ELSE "PENDING"

deliveryStatus(answer, attempt) ==
  CASE answer = "ok" -> "DELIVERED"
    [] answer # "ok" /\ attempt >= DeliveryAttempts -> "FAILED"
    [] OTHER -> "RETRYING"

-----------------------------------------------------------------------------
Keys == Endpoints \X Events
Idle == [pc |-> "idle"]
NoDelivery == [status |-> "none", attempt |-> 0, due |-> FALSE]
Settled == {"DELIVERED", "FAILED"}

OutboxTypeOK ==
  /\ \A e \in Events : outbox[e] \in
       [status : {"none", "PENDING", "PROCESSED", "FAILED"}, type : EventTypes,
        complete : BOOLEAN, attempts : 0..EventAttempts, available : BOOLEAN]
  /\ \A p \in Endpoints : endpoint[p] \in
       [status : {"none", "ACTIVE", "DISABLED"}, readable : BOOLEAN,
        events : SUBSET (MERCHANT_WEBHOOK_EVENT_TYPES \cup {"*"})]
  /\ \A k \in Keys : delivery[k] \in
       [status : {"none", "PENDING", "RETRYING", "DELIVERED", "FAILED"},
        attempt : 0..DeliveryAttempts, due : BOOLEAN]
  /\ \A t \in Threads : thread[t].pc \in {"idle", "claim", "deliver", "record"}
  /\ sent \in [Events -> Nat]
  /\ accepted \in SUBSET Keys
  /\ hung \in SUBSET Threads
  /\ unclear \in SUBSET Events

OutboxInit ==
  /\ outbox = [e \in Events |-> [status |-> "none", type |-> "payment_link.created",
                 complete |-> TRUE, attempts |-> 0, available |-> FALSE]]
  /\ endpoint = [p \in Endpoints |-> [status |-> "none", events |-> {}, readable |-> TRUE]]
  /\ delivery = [k \in Keys |-> NoDelivery]
  /\ thread = [t \in Threads |-> Idle]
  /\ mailer \in EmailSettings
  /\ sent = [e \in Events |-> 0]
  /\ accepted = {}
  /\ hung = {}
  /\ unclear = {}
  /\ overlap = {}
  /\ owed = [e \in Events |-> {}]
  /\ faults = 0
  /\ requests = 0

-----------------------------------------------------------------------------
(* Requests.                                                               *)

\* A service inserts an event in its own transaction; a second insert with
\* the same idempotency key does nothing.
emitOutboxEvent(e, type, complete) ==
  /\ outbox[e].status = "none"
  /\ outbox' = [outbox EXCEPT ![e] = [status |-> "PENDING", type |-> type,
                  complete |-> complete, attempts |-> 0, available |-> TRUE]]
  /\ owed' = [owed EXCEPT ![e] = {p \in Endpoints : wants(p, type)}]
  /\ UNCHANGED <<endpoint, delivery, thread, mailer, sent, accepted, unclear,
                 overlap, hung, faults, requests>>

\* What normalizeEvents leaves of a list: never nothing, all by default.
Subscriptions == SUBSET (MERCHANT_WEBHOOK_EVENT_TYPES \cup {"*"}) \ {{}}

createEndpoint(p, events) ==
  /\ requests < MaxRequests
  /\ endpoint[p].status = "none"
  /\ events \in Subscriptions
  /\ endpoint' = [endpoint EXCEPT ![p] =
                    [status |-> "ACTIVE", events |-> events, readable |-> TRUE]]
  /\ requests' = requests + 1
  /\ UNCHANGED <<outbox, delivery, thread, mailer, sent, accepted, unclear,
                 overlap, hung, owed, faults>>

updateEndpoint(p, events, status) ==
  /\ requests < MaxRequests
  /\ endpoint[p].status # "none"
  /\ events \in Subscriptions
  /\ endpoint' = [endpoint EXCEPT ![p].status = status, ![p].events = events]
  /\ owed' = [e \in Events |->
               {q \in owed[e] : q # p \/ (status = "ACTIVE"
                                          /\ events \cap {"*", outbox[e].type} # {})}]
  /\ requests' = requests + 1
  /\ UNCHANGED <<outbox, delivery, thread, mailer, sent, accepted, unclear,
                 overlap, hung, faults>>

\* The key that encrypts the secrets was replaced: decryptSecret throws.
RotateEncryptionKey(p) ==
  /\ requests < MaxRequests
  /\ endpoint[p].status # "none"
  /\ endpoint[p].readable
  /\ endpoint' = [endpoint EXCEPT ![p].readable = FALSE]
  /\ requests' = requests + 1
  /\ UNCHANGED <<outbox, delivery, thread, mailer, sent, accepted, unclear,
                 overlap, hung, owed, faults>>

\* Mutant: a delivered delivery may be sent again.
retryable_Any(status) == status # "none"

retryable(status) == status \in {"FAILED", "RETRYING"}

Requeued(ks) == [k \in Keys |-> IF k \in ks THEN
                   [delivery[k] EXCEPT !.status = "PENDING", !.due = TRUE] ELSE delivery[k]]

\* One delivery, or every failed one: back to PENDING with its attempts, and
\* a delivery run is started without waiting for it.
retryDelivery(t, k) ==
  /\ requests < MaxRequests
  /\ retryable(delivery[k].status)
  /\ thread[t] = Idle
  /\ delivery' = Requeued({k})
  /\ thread' = [thread EXCEPT ![t] = [pc |-> "deliver", rows |-> {}, read |-> FALSE]]
  /\ requests' = requests + 1
  /\ UNCHANGED <<outbox, endpoint, mailer, sent, accepted, unclear, overlap, hung, owed, faults>>

retryFailedDeliveries(t) ==
  LET failed == {k \in Keys : delivery[k].status = "FAILED"} IN
  /\ requests < MaxRequests
  /\ failed # {}
  /\ thread[t] = Idle
  /\ delivery' = Requeued(failed)
  /\ thread' = [thread EXCEPT ![t] = [pc |-> "deliver", rows |-> {}, read |-> FALSE]]
  /\ requests' = requests + 1
  /\ UNCHANGED <<outbox, endpoint, mailer, sent, accepted, unclear, overlap, hung, owed, faults>>

-----------------------------------------------------------------------------
(* A tick: the claim transaction, then a delivery run.                     *)

\* Rows locked by the claim of another thread.
lockedBy(t) == IF thread[t].pc = "claim" THEN thread[t].batch ELSE {}

\* Mutant: the rows are read without their locks.
claimable_Unlocked(e) == outbox[e].status = "PENDING" /\ outbox[e].available

\* Mutant: an event that failed once is not read again.
claimable_FirstAttempt(e) == claimable_Unlocked(e) /\ outbox[e].attempts = 0
                             /\ \A t \in Threads : e \notin lockedBy(t)

claimable(e) ==
  /\ outbox[e].status = "PENDING"
  /\ outbox[e].available
  /\ \A t \in Threads : e \notin lockedBy(t)

\* SELECT ... FOR UPDATE SKIP LOCKED; the batch of 20 holds every event here.
Claim(t) ==
  LET batch == {e \in Events : claimable(e)} IN
  /\ thread[t] = Idle
  /\ thread' = [thread EXCEPT ![t] = IF batch = {}
                  THEN [pc |-> "deliver", rows |-> {}, read |-> FALSE]
                  ELSE [pc |-> "claim", batch |-> batch, left |-> batch,
                        row |-> [e \in batch |-> outbox[e]], queued |-> {}, mailed |-> {}]]
  /\ batch # {} \/ \E k \in Keys : delivery[k].due
  /\ UNCHANGED <<outbox, endpoint, delivery, mailer, sent, accepted, unclear,
                 overlap, hung, owed, faults, requests>>

Processed(row) == [row EXCEPT !.attempts = @ + 1, !.status = "PROCESSED"]
AfterError(row) ==
  [row EXCEPT !.attempts = @ + 1, !.status = eventStatusAfterError(row.attempts + 1),
              !.available = FALSE]

Handled(t, e, row, queued, mailed) ==
  LET c == thread[t] IN
  thread' = [thread EXCEPT ![t] =
    [pc |-> "claim", batch |-> c.batch, left |-> c.left \ {e}, row |-> [c.row EXCEPT ![e] = row],
     queued |-> c.queued \cup queued, mailed |-> c.mailed \cup mailed]]

\* Mutant: an error of the transport is logged and forgotten.
HandleEmail_Swallows(t, e) ==
  LET row == thread[t].row[e] IN
  /\ isDeliverableEmailEvent(row.type)
  /\ Handled(t, e, Processed(row), {}, {})
  /\ UNCHANGED <<sent, unclear, faults>>

\* The mail leaves, is refused, or is taken by a server whose answer is lost.
HandleEmail(t, e) ==
  LET row == thread[t].row[e]
      outcome == emailOutcome(row.type, row.complete)
      send == outcome = "send" /\ canSend(mailer)
  IN /\ isDeliverableEmailEvent(row.type)
     /\ \/ /\ outcome = "drop"
           /\ Handled(t, e, Processed(row), {}, {})
           /\ UNCHANGED <<sent, unclear, faults>>
        \/ /\ outcome # "drop"          \* refused, or never sent
           /\ Handled(t, e, AfterError(row), {}, {})
           /\ UNCHANGED <<sent, unclear, faults>>
        \/ /\ send
           /\ sent' = [sent EXCEPT ![e] = @ + 1]
           /\ Handled(t, e, Processed(row), {}, {e})
           /\ UNCHANGED <<unclear, faults>>
        \/ /\ send                      \* the answer is lost
           /\ faults < MaxFaults
           /\ sent' = [sent EXCEPT ![e] = @ + 1]
           /\ unclear' = unclear \cup {e}
           /\ Handled(t, e, AfterError(row), {}, {})
           /\ faults' = faults + 1

enqueueFromOutbox(t, e) ==
  LET row == thread[t].row[e] IN
  /\ isMerchantDeliverableEvent(row.type)
  /\ Handled(t, e, Processed(row), {p \in Endpoints : wants(p, row.type)} \X {e}, {})
  /\ UNCHANGED <<sent, unclear, faults>>

\* Domain events retained; no external consumer yet.
Retain(t, e) ==
  LET row == thread[t].row[e] IN
  /\ ~isDeliverableEmailEvent(row.type)
  /\ ~isMerchantDeliverableEvent(row.type)
  /\ Handled(t, e, Processed(row), {}, {})
  /\ UNCHANGED <<sent, unclear, faults>>

Handle(t) ==
  /\ thread[t].pc = "claim"
  /\ \E e \in thread[t].left : HandleEmail(t, e) \/ enqueueFromOutbox(t, e) \/ Retain(t, e)
  /\ UNCHANGED <<outbox, endpoint, delivery, mailer, accepted, overlap, hung, owed, requests>>

\* The deliveries are inserted unless they exist already.
CommitClaim(t) ==
  /\ thread[t].pc = "claim"
  /\ thread[t].left = {}
  /\ outbox' = [e \in Events |-> IF e \in thread[t].batch THEN thread[t].row[e] ELSE outbox[e]]
  /\ delivery' = [k \in Keys |-> IF k \in thread[t].queued /\ delivery[k].status = "none"
                    THEN [status |-> "PENDING", attempt |-> 0, due |-> TRUE] ELSE delivery[k]]
  /\ thread' = [thread EXCEPT ![t] = [pc |-> "deliver", rows |-> {}, read |-> FALSE]]
  /\ UNCHANGED <<endpoint, mailer, sent, accepted, unclear, overlap, hung, owed, faults, requests>>

\* A fault, or the restart of a process that hangs.
Lost(t) ==
  /\ hung' = hung \ {t}
  /\ \/ t \in hung /\ faults' = faults
     \/ t \notin hung /\ faults < MaxFaults /\ faults' = faults + 1

\* A database error spoils the transaction, and the error handler's own
\* update fails in it, or the process is lost: every row is as before, the
\* mails are gone.
AbortClaim(t) ==
  /\ thread[t].pc = "claim"
  /\ Lost(t)
  /\ thread' = [thread EXCEPT ![t] = Idle]
  /\ unclear' = unclear \cup thread[t].mailed
  /\ UNCHANGED <<outbox, endpoint, delivery, mailer, sent, accepted, overlap, owed, requests>>

\* Brevo is called without a timeout inside the claim: when the answer never
\* ends, the rows stay locked and `running` stays set.
HangInMail(t) ==
  /\ thread[t].pc = "claim"
  /\ t \notin hung
  /\ faults < MaxFaults
  /\ transportMode(mailer) = "brevo"
  /\ canSend(mailer)
  /\ \E e \in thread[t].left :
       LET row == thread[t].row[e] IN
       /\ isDeliverableEmailEvent(row.type)
       /\ emailOutcome(row.type, row.complete) = "send"
       /\ \/ /\ sent' = [sent EXCEPT ![e] = @ + 1]
             /\ unclear' = unclear \cup {e}
          \/ UNCHANGED <<sent, unclear>>
  /\ hung' = hung \cup {t}
  /\ faults' = faults + 1
  /\ UNCHANGED <<outbox, endpoint, delivery, thread, mailer, accepted, overlap, owed, requests>>

-----------------------------------------------------------------------------
(* A delivery run.                                                         *)

dueDelivery(k) ==
  /\ delivery[k].status \in {"PENDING", "RETRYING"}
  /\ endpoint[k[1]].status = "ACTIVE"
  /\ delivery[k].due

heldBy(t) ==
  CASE thread[t].pc = "deliver" -> {r.key : r \in thread[t].rows}
    [] thread[t].pc = "record"  -> {thread[t].row.key} \cup {r.key : r \in thread[t].rows}
    [] OTHER -> {}

\* The rows are read, with their attempts, and not claimed.
deliverPending(t) ==
  LET due == {k \in Keys : dueDelivery(k)} IN
  /\ thread[t].pc = "deliver"
  /\ ~thread[t].read
  /\ thread' = [thread EXCEPT ![t] =
       [pc |-> "deliver", read |-> TRUE,
        rows |-> {[key |-> k, attempt |-> delivery[k].attempt] : k \in due}]]
  /\ overlap' = overlap \cup {k \in due : \E u \in Threads \ {t} : k \in heldBy(u)}
  /\ UNCHANGED <<outbox, endpoint, delivery, mailer, sent, accepted, unclear, hung, owed,
                 faults, requests>>

Undecryptable(t, r) ==
  /\ thread' = [thread EXCEPT ![t] =
       [pc |-> "deliver", rows |-> thread[t].rows \ {r}, read |-> TRUE]]
  /\ delivery' = [delivery EXCEPT ![r.key] =
       [status |-> "FAILED", due |-> delivery[r.key].due,
        attempt |-> IF delivery[r.key].attempt < DeliveryAttempts
                    THEN delivery[r.key].attempt + 1 ELSE delivery[r.key].attempt]]
  /\ UNCHANGED accepted

\* The post: accepted, answered with an error, or no answer in ten seconds,
\* which may hide that it was accepted.  HangInPost is the post that never ends.
Post(t, r) ==
  \E answer \in {"ok", "rejected", "error"} :
    /\ thread' = [thread EXCEPT ![t] = [pc |-> "record", rows |-> thread[t].rows \ {r},
                                        row |-> r, answer |-> answer, read |-> TRUE]]
    /\ \/ accepted' = IF answer = "ok" THEN accepted \cup {r.key} ELSE accepted
       \/ answer = "error" /\ accepted' = accepted \cup {r.key}
    /\ UNCHANGED delivery

deliverOne(t) ==
  /\ thread[t].pc = "deliver"
  /\ \E r \in thread[t].rows :
       IF endpoint[r.key[1]].readable THEN Post(t, r) ELSE Undecryptable(t, r)
  /\ UNCHANGED <<outbox, endpoint, mailer, sent, unclear, overlap, hung, owed, faults, requests>>

\* The ten seconds end with the answer's headers: a body that never ends is
\* awaited for ever, and what the run has read is of no use any more.
HangInPost(t) ==
  /\ thread[t].pc = "deliver"
  /\ t \notin hung
  /\ faults < MaxFaults
  /\ \E r \in thread[t].rows :
       /\ endpoint[r.key[1]].readable
       /\ accepted' \in {accepted, accepted \cup {r.key}}
  /\ thread' = [thread EXCEPT ![t] = [pc |-> "deliver", rows |-> {}, read |-> TRUE]]
  /\ hung' = hung \cup {t}
  /\ faults' = faults + 1
  /\ UNCHANGED <<outbox, endpoint, delivery, mailer, sent, unclear, overlap, owed, requests>>

\* The result is written over whatever the row holds by now.
RecordDelivery(t) ==
  LET k == thread[t].row.key
      attempt == IF thread[t].row.attempt < DeliveryAttempts
                 THEN thread[t].row.attempt + 1 ELSE DeliveryAttempts
  IN /\ thread[t].pc = "record"
     /\ delivery' = [delivery EXCEPT ![k] =
          [status |-> deliveryStatus(thread[t].answer, attempt), attempt |-> attempt, due |-> FALSE]]
     /\ thread' = [thread EXCEPT ![t] =
                     [pc |-> "deliver", rows |-> thread[t].rows, read |-> TRUE]]
     /\ UNCHANGED <<outbox, endpoint, mailer, sent, accepted, unclear, overlap, hung, owed,
                    faults, requests>>

Finish(t) ==
  /\ thread[t].pc = "deliver"
  /\ thread[t].read
  /\ thread[t].rows = {}
  /\ thread' = [thread EXCEPT ![t] = Idle]
  /\ UNCHANGED <<outbox, endpoint, delivery, mailer, sent, accepted, unclear, overlap, hung,
                 owed, faults, requests>>

\* The process is lost in a delivery run, a post without its record included.
LoseThread(t) ==
  /\ thread[t].pc \in {"deliver", "record"}
  /\ Lost(t)
  /\ thread' = [thread EXCEPT ![t] = Idle]
  /\ UNCHANGED <<outbox, endpoint, delivery, mailer, sent, accepted, unclear, overlap,
                 owed, requests>>

\* The delays of min(60, 2 * attempts) minutes and min(3600, 5 * 2^(n-1))
\* seconds have passed.
EventDelayPasses(e) ==
  /\ outbox[e].status = "PENDING"
  /\ ~outbox[e].available
  /\ outbox' = [outbox EXCEPT ![e].available = TRUE]
  /\ UNCHANGED <<endpoint, delivery, thread, mailer, sent, accepted, unclear, overlap, hung,
                 owed, faults, requests>>

DeliveryDelayPasses(k) ==
  /\ delivery[k].status = "RETRYING"
  /\ ~delivery[k].due
  /\ delivery' = [delivery EXCEPT ![k].due = TRUE]
  /\ UNCHANGED <<outbox, endpoint, thread, mailer, sent, accepted, unclear, overlap, hung,
                 owed, faults, requests>>

-----------------------------------------------------------------------------
Request ==
  \/ \E e \in Events, type \in EventTypes, complete \in BOOLEAN :
       emitOutboxEvent(e, type, complete)
  \/ \E p \in Endpoints, events \in Subscriptions :
       createEndpoint(p, events) \/ \E s \in {"ACTIVE", "DISABLED"} : updateEndpoint(p, events, s)
  \/ \E p \in Endpoints : RotateEncryptionKey(p)
  \/ \E t \in Threads : retryFailedDeliveries(t) \/ \E k \in Keys : retryDelivery(t, k)

Work(t) ==
  /\ t \notin hung
  /\ \/ Claim(t) \/ Handle(t) \/ CommitClaim(t)
     \/ deliverPending(t) \/ deliverOne(t) \/ RecordDelivery(t) \/ Finish(t)

Delays ==
  \/ \E e \in Events : EventDelayPasses(e)
  \/ \E k \in Keys : DeliveryDelayPasses(k)

OutboxNext ==
  \/ Request
  \/ Delays
  \/ \E t \in Threads :
       Work(t) \/ HangInMail(t) \/ HangInPost(t) \/ AbortClaim(t) \/ LoseThread(t)

OutboxSpec == OutboxInit /\ [][OutboxNext]_outboxVars

\* The interval timer of a process calls tick again and again, a step of a
\* running tick that does not hang is not put off for ever, and time passes.
OutboxFairness ==
  /\ \A t \in Threads : WF_outboxVars(Work(t))
  /\ \A e \in Events : WF_outboxVars(EventDelayPasses(e))
  /\ \A k \in Keys : WF_outboxVars(DeliveryDelayPasses(k))

-----------------------------------------------------------------------------
(* Properties.                                                             *)

\* However many processes tick at once, a mail leaves once, unless the record
\* of an earlier sending was lost.
OneMailPerEvent == \A e \in Events : sent[e] > 1 => e \in unclear

\* What the rows say has happened: a complete mail event called PROCESSED has
\* left as a mail, an endpoint that has wanted a PROCESSED event since it was
\* emitted has a delivery of it, and what is called DELIVERED was accepted.
RecordsAreTrue ==
  /\ \A e \in Events : outbox[e].status = "PROCESSED" =>
       /\ isDeliverableEmailEvent(outbox[e].type) /\ outbox[e].complete => sent[e] > 0
       /\ \A p \in owed[e] : delivery[<<p, e>>].status # "none"
  /\ \A k \in Keys : delivery[k].status = "DELIVERED" => k \in accepted

\* Only a second run that read the delivery before the first recorded its
\* answer takes DELIVERED back.
DeliveredStaysAlone ==
  [][\A k \in Keys : delivery[k].status = "DELIVERED" /\ delivery'[k].status # "DELIVERED"
       => k \in overlap]_outboxVars

\* Whoever hangs, an event is processed or given up unless a hung claim keeps
\* its row, and a delivery whose endpoint stays active is delivered or given
\* up, as long as one thread is not hung itself (OutboxWorker.tick, deliverOne).
AllHang == hung = Threads
Kept(e) == \E t \in hung : e \in lockedBy(t)

OutboxDrains ==
  /\ \A e \in Events :
       \/ outbox[e].status = "PENDING" ~> outbox[e].status \in {"PROCESSED", "FAILED"}
       \/ <>[](AllHang \/ Kept(e))
  /\ \A k \in Keys :
       \/ delivery[k].status \in {"PENDING", "RETRYING"} ~> delivery[k].status \in Settled
       \/ []<>(endpoint[k[1]].status # "ACTIVE")
       \/ <>[]AllHang
=============================================================================
