-------------------------------- MODULE Inbox --------------------------------
(***************************************************************************)
(* The inbox of provider events.  A delivery is verified, looked up by its *)
(* event id, and applied to its payment in one transaction; one that       *)
(* cannot be verified leaves a row under its id, too.  The transaction is  *)
(* taken apart into the lookup and the writes, for deliveries of one event *)
(* overlap; what the event does to the payment is the matter of Checkout   *)
(* and of Refunds.  Providers deliver until they are answered, and again.  *)
(***************************************************************************)
EXTENDS Integers, FiniteSets

CONSTANTS
  Events,        \* [provider, number, payment, named, kind, nonce, signer]
  Payments,      \* payments the events are about
  Deliveries,    \* requests that may be under way at once
  MaxSent        \* bound: deliveries of one event

VARIABLES
  latest,        \* whose webhook secret was stored last: none, account, other
  intent,        \* the payment: not there, there, its attempt's provider reference stored
  eventRow,      \* provider_webhook_events by event id
  nonces,        \* provider_webhook_nonces
  delivering,    \* the deliveries past their lookup
  sent,          \* deliveries of each event so far
  answered,      \* events answered with 2xx
  duplicates,    \* events answered as DUPLICATE
  applied,       \* history: how often each event was applied
  notices,       \* outbox keys of provider.webhook.received
  dispute        \* the status of each payment's dispute

inboxVars == <<latest, intent, eventRow, nonces, delivering, sent, answered, duplicates, applied,
               notices, dispute>>

\* A PayTabs callback of a refund is of a transaction of its own.
refundCallback(e) == e.provider = "paytabs" /\ e.kind = "refund"

\* PayTabs has one reference for all callbacks of a transaction.
providerEventId(e) ==
  IF e.provider = "paytabs" /\ ~refundCallback(e) THEN <<"tran_ref", e.payment>>
  ELSE <<e.provider, e.number>>

\* A delivery's timestamp may be outside the window, and its event of the
\* other plane: this deployment takes the test plane's.
Posts == [fresh : BOOLEAN, plane : {"test", "live"}]

\* The secret stored last of any organization's account, not the one of the
\* event's account; and, where it does not fit, that of the platform.
resolveMerchantWebhookSecret == latest
signed(e) == e.signer \in {resolveMerchantWebhookSecret, "platform"}

verifyStripeSignature(e, post) == signed(e) /\ post.fresh
verifyStripeWebhook(e, post) == verifyStripeSignature(e, post) /\ post.plane = "test"

\* No timestamp and no plane is looked at.
verifyPayTabsCallbackSignature(e) == signed(e)
verifyPayTabsWebhook(e) == verifyPayTabsCallbackSignature(e)

verifySandboxWebhook(e, post) == signed(e) /\ post.fresh

verifyWebhook(e, post) ==
  CASE e.provider = "stripe" -> verifyStripeWebhook(e, post)
    [] e.provider = "paytabs" -> verifyPayTabsWebhook(e)
    [] OTHER -> verifySandboxWebhook(e, post)

\* The id a refused delivery is filed under; Stripe's is not read before its
\* signature is.
refusedIds(e, post) ==
  IF e.provider = "stripe" /\ ~verifyStripeSignature(e, post) THEN {} ELSE {providerEventId(e)}

\* What the provider sends along as nonce, or the event id in its place.
nonceOf(e) == IF e.provider = "sandbox" THEN <<"nonce", e.nonce>> ELSE providerEventId(e)

Ids == {providerEventId(e) : e \in Events}
NoRowYet == [status |-> "none"]
Idle == [step |-> "none"]

\* What kind of event it is, and whether it names the intent; PayTabs' names
\* none, and one that is neither approved, declined nor given up is that of a
\* refund or an update.
normalizeStripeEvent(e) == [type |-> e.kind, names |-> e.named]
normalizePayTabsWebhookEvent(e) ==
  [type |-> CASE e.kind = "A" -> "succeeded" [] e.kind \in {"D", "E"} -> "failed"
              [] e.kind \in {"C", "X"} -> "cancelled" [] e.kind = "refund" -> "refund"
              [] OTHER -> "updated",
   names |-> FALSE]
normalized(e) ==
  IF e.provider = "paytabs" THEN normalizePayTabsWebhookEvent(e) ELSE normalizeStripeEvent(e)

\* The event of a dispute is known by the dispute's status here.
isDispute(e) ==
  normalized(e).type \in {"needs_response", "under_review", "won", "lost", "warning_closed",
                          "prevented", "charge_refunded"}
isStripeAuxiliaryEvent(e) == isDispute(e) \/ normalized(e).type \in {"radar", "payout"}

mapDisputeStatus(status) ==
  CASE status = "won" -> "WON" [] status = "lost" -> "LOST"
    [] status \in {"warning_closed", "prevented", "charge_refunded"} -> "CANCELLED"
    [] status = "needs_response" -> "EVIDENCE_REQUIRED" [] OTHER -> "OPEN"

tellsOfRefund(e) == normalized(e).type = "refund"

mapEventToStatus(e) ==
  CASE normalized(e).type = "succeeded" -> "SUCCEEDED" [] normalized(e).type = "failed" -> "FAILED"
    [] normalized(e).type = "cancelled" -> "CANCELLED" [] OTHER -> "none"

\* The events that may change something where they find their payment: a
\* dispute or a warning, a refund, an outcome.
effective(e) == isStripeAuxiliaryEvent(e) \/ tellsOfRefund(e) \/ mapEventToStatus(e) # "none"

InboxTypeOK ==
  /\ latest \in {"none", "account", "other"}
  /\ intent \in [Payments -> {"none", "created", "referenced"}]
  /\ \A i \in Ids : eventRow[i].status \in {"none", "REJECTED", "PROCESSED", "DUPLICATE"}
  /\ \A d \in Deliveries : delivering[d].step \in {"none", "looked up"}
  /\ answered \cup duplicates \subseteq Events
  /\ \A e \in Events : sent[e] \in 0..MaxSent /\ applied[e] \in 0..sent[e]
  /\ notices \subseteq Ids

InboxInit ==
  /\ latest \in {"none", "account", "other"}
  /\ intent = [p \in Payments |-> "none"]
  /\ eventRow = [i \in Ids |-> NoRowYet]
  /\ nonces = {}
  /\ delivering = [d \in Deliveries |-> Idle]
  /\ sent = [e \in Events |-> 0]
  /\ answered = {}
  /\ duplicates = {}
  /\ applied = [e \in Events |-> 0]
  /\ notices = {}
  /\ dispute = [p \in Payments |-> "none"]

-----------------------------------------------------------------------------
\* Some organization stores or renews the secret of its account.
StoreSecret ==
  /\ latest' \in {"account", "other"}
  /\ latest' # latest
  /\ UNCHANGED <<intent, eventRow, nonces, delivering, sent, answered, duplicates, applied, notices, dispute>>

\* The checkout commits the intent, and later the provider's reference; the
\* provider may speak of the payment before either.
OpenIntent(p) ==
  /\ intent[p] = "none"
  /\ intent' = [intent EXCEPT ![p] = "created"]
  /\ UNCHANGED <<latest, eventRow, nonces, delivering, sent, answered, duplicates, applied, notices, dispute>>

StoreReference(p) ==
  /\ intent[p] = "created"
  /\ intent' = [intent EXCEPT ![p] = "referenced"]
  /\ UNCHANGED <<latest, eventRow, nonces, delivering, sent, answered, duplicates, applied, notices, dispute>>

Send(e) ==
  /\ sent[e] < MaxSent
  /\ sent' = [sent EXCEPT ![e] = @ + 1]

\* 401, and the refusal is filed unless there is a row under the id.
RefuseDelivery(e, post) ==
  /\ Send(e)
  /\ ~verifyWebhook(e, post)
  /\ eventRow' = [i \in Ids |-> IF i \in refusedIds(e, post) /\ eventRow[i] = NoRowYet
                                THEN [status |-> "REJECTED", by |-> {}] ELSE eventRow[i]]
  /\ UNCHANGED <<latest, intent, nonces, delivering, answered, duplicates, applied, notices, dispute>>

Answer(e) == answered' = answered \cup {e}

\* A row under the id, whatever became of it: the delivery is a duplicate.
DuplicateDelivery(e, post) ==
  LET i == providerEventId(e) IN
  /\ Send(e)
  /\ verifyWebhook(e, post)
  /\ eventRow[i] # NoRowYet
  /\ eventRow' = [eventRow EXCEPT ![i].status = "DUPLICATE"]
  /\ Answer(e)
  /\ duplicates' = duplicates \cup {e}
  /\ UNCHANGED <<latest, intent, nonces, delivering, applied, notices, dispute>>

LookUp(d, e, post) ==
  /\ Send(e)
  /\ verifyWebhook(e, post)
  /\ delivering[d] = Idle
  /\ eventRow[providerEventId(e)] = NoRowYet
  /\ delivering' = [delivering EXCEPT ![d] = [step |-> "looked up", event |-> e,
                                              replayed |-> nonceOf(e) \in nonces]]
  /\ UNCHANGED <<latest, intent, eventRow, nonces, answered, duplicates, applied, notices, dispute>>

\* Mutant: no unique index on the event id and on the nonce.
insertable_Always(d) == TRUE

\* The unique indexes refuse the second of two overlapping deliveries.
insertable(d) ==
  LET e == delivering[d].event IN
  /\ eventRow[providerEventId(e)] = NoRowYet
  /\ delivering[d].replayed \/ nonceOf(e) \notin nonces

\* The payment an event is about: by the id in its metadata, or by the
\* provider's reference of an attempt; that of a PayTabs refund is no attempt's.
correlated(e) ==
  IF normalized(e).names THEN intent[e.payment] # "none"
  ELSE intent[e.payment] = "referenced" /\ ~refundCallback(e)

\* Disputes, fraud warnings and payout notices; the last dispute event that
\* comes in decides.
applyStripeAuxiliaryWebhook(e) ==
  dispute' = IF isDispute(e) /\ correlated(e) THEN [dispute EXCEPT ![e.payment] = mapDisputeStatus(e.kind)] ELSE dispute

\* Of an outcome and of a refund, that it reaches its payment.
applyProviderWebhookToPaymentIntent(e) ==
  /\ applied' = [applied EXCEPT ![e] = IF correlated(e) /\ effective(e) THEN @ + 1 ELSE @]
  /\ IF isStripeAuxiliaryEvent(e) THEN applyStripeAuxiliaryWebhook(e) ELSE dispute' = dispute

\* The writes.  A nonce of another event makes the event a duplicate; an
\* event that names an intent that is not there is filed as rejected, and
\* answered; every other one is processed, its payment known or not.
CommitDelivery(d) ==
  LET e == delivering[d].event
      i == providerEventId(e)
      file(status) == eventRow' = [eventRow EXCEPT ![i] =
                        [status |-> status, by |-> {e}, found |-> correlated(e)]]
  IN
  /\ delivering[d].step = "looked up" /\ insertable(d)
  /\ delivering' = [delivering EXCEPT ![d] = Idle]
  /\ Answer(e)
  /\ IF delivering[d].replayed
     THEN /\ eventRow' = [eventRow EXCEPT ![i] = [status |-> "DUPLICATE", by |-> {}]]
          /\ duplicates' = duplicates \cup {e}
          /\ UNCHANGED <<nonces, applied, notices, dispute>>
     ELSE /\ nonces' = nonces \cup {nonceOf(e)}
          /\ duplicates' = duplicates
          /\ IF normalized(e).names /\ ~correlated(e)
             THEN file("REJECTED") /\ UNCHANGED <<applied, notices, dispute>>
             ELSE /\ file("PROCESSED")
                  /\ applyProviderWebhookToPaymentIntent(e)
                  /\ notices' = notices \cup {i}
  /\ UNCHANGED <<latest, intent, sent>>

\* Refused by an index, or the process or its connection was lost: nothing
\* stays, and the provider is answered 500 or not at all.
AbortDelivery(d) ==
  /\ delivering[d] # Idle
  /\ delivering' = [delivering EXCEPT ![d] = Idle]
  /\ UNCHANGED <<latest, intent, eventRow, nonces, sent, answered, duplicates, applied, notices, dispute>>

InboxNext(coming) ==
  \/ \E p \in Payments : OpenIntent(p) \/ StoreReference(p)
  \/ \E e \in coming, post \in Posts :
       \/ RefuseDelivery(e, post) \/ DuplicateDelivery(e, post)
       \/ \E d \in Deliveries : LookUp(d, e, post)
  \/ StoreSecret
  \/ \E d \in Deliveries : CommitDelivery(d) \/ AbortDelivery(d)

-----------------------------------------------------------------------------
(* Properties.                                                             *)

\* However deliveries overlap and are repeated: no event id is applied
\* twice; an event that was answered and not applied came behind a refusal
\* or another event under its id or nonce, or before its payment was known;
\* and what is announced is what was let in.
EventsHold ==
  /\ \A i \in Ids :
       LET of == {e \in Events : providerEventId(e) = i} IN
       /\ \A e \in of : applied[e] <= 1
       /\ Cardinality({e \in of : applied[e] = 1}) <= 1
  /\ \A e \in answered :
       LET row == eventRow[providerEventId(e)] IN
       /\ row # NoRowYet
       /\ effective(e) /\ applied[e] = 0 /\ e \in row.by => ~row.found
  /\ \A i \in notices : eventRow[i].by # {}
  /\ \A e \in Events : applied[e] = 1 => providerEventId(e) \in notices

\* "Deduplicate by provider_event_id first (safe under replay of identical
\* deliveries)": an event that is answered as a duplicate had its effect.
DuplicatesWereApplied == \A e \in duplicates : effective(e) => applied[e] = 1
=============================================================================
