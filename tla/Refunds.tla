-------------------------------- MODULE Refunds --------------------------------
(***************************************************************************)
(* The refunds of one captured payment: those the merchant asks for and    *)
(* those the provider tells of.  createRefund is one transaction in the    *)
(* source; it is taken apart here where it waits: before the intent's row  *)
(* lock, before the call of the provider's adapter, and before the writes. *)
(* A transaction that is lost gives its lock back and writes nothing, but  *)
(* the provider may have paid by then.                                     *)
(***************************************************************************)
EXTENDS Adapters, Sequences, Sums

CONSTANTS
  Calls,         \* requests of the merchant that may be under way
  RefundKeys,    \* idempotency keys; NoKey is a request without one
  NoKey,
  Captured,      \* amount of the payment
  Amounts,       \* amounts asked for
  MaxRefunds,    \* bound: refunds at the provider
  MaxEvents,     \* bound: events of them that come in
  Rails          \* providers the payment may have been captured by

ASSUME RefundsAssumption == Captured \in Nat /\ Amounts \subseteq Nat /\ NoKey \notin RefundKeys

VARIABLES
  rail,          \* the provider of the payment's transaction
  request,       \* the requests under way
  holder,        \* who holds the intent's row lock
  refunds,       \* rows of the refunds table
  atProvider,    \* refunds at the provider: a sequence of [key, amount, status, first, by]
  events         \* ids of the provider's events applied so far

refundVars == <<rail, request, holder, refunds, atProvider, events>>

NoRequest == [step |-> "none"]
Free == [holds |-> {}]

Recorded == SumOver([r \in refunds |-> r.amount], refunds)
Standing == {n \in DOMAIN atProvider : atProvider[n].status # "failed"}
PaidBack == SumOver([n \in DOMAIN atProvider |-> atProvider[n].amount], Standing)

RefundsTypeOK ==
  /\ rail \in Rails
  /\ \A c \in Calls : request[c].step \in {"none", "asked", "locked", "accepted"}
  /\ holder.holds \subseteq Calls
  /\ \A r \in refunds : r.amount \in 1..Captured
  /\ Len(atProvider) <= MaxRefunds

RefundsInit ==
  /\ rail \in Rails
  /\ request = [c \in Calls |-> NoRequest]
  /\ holder = Free
  /\ refunds = {}
  /\ atProvider = <<>>
  /\ events = {}

-----------------------------------------------------------------------------
(* The merchant's refunds.                                                 *)

\* Which provider is asked: that of the captured transaction.  Anything but
\* these three is refused before it is called.
resolvePaymentProviderForRefund == rail
refundable(provider) == provider \in {"sandbox", "paytabs", "stripe"}

\* A refund of the key is the answer, whatever was asked for this time.
Ask(c, key, amount) ==
  /\ request[c] = NoRequest
  /\ key = NoKey \/ \A r \in refunds : r.key # <<"api", key>>
  /\ request' = [request EXCEPT ![c] = [step |-> "asked", key |-> key, amount |-> amount]]
  /\ UNCHANGED <<rail, holder, refunds, atProvider, events>>

\* Mutant: the lock is not waited for.
lockable_Always(c) == TRUE

lockable(c) == holder = Free

\* The lock is waited for, and held to the end of the transaction; a sum
\* above what was captured is refused.
Lock(c) ==
  /\ request[c].step = "asked" /\ lockable(c)
  /\ IF Recorded + request[c].amount > Captured \/ ~refundable(resolvePaymentProviderForRefund)
     THEN request' = [request EXCEPT ![c] = NoRequest] /\ UNCHANGED holder
     ELSE /\ request' = [request EXCEPT ![c].step = "locked"]
          /\ holder' = [holds |-> {c}]
  /\ UNCHANGED <<rail, refunds, atProvider, events>>

\* Stripe answers a key it knows with what it answered first; no other
\* provider is given one.
known(provider, key) ==
  IF provider = "stripe" /\ key # NoKey
  THEN {n \in DOMAIN atProvider : atProvider[n].by = "api" /\ atProvider[n].key = key}
  ELSE {}

\* A provider pays back no more than it took.
payable(amount) == PaidBack + amount <= Captured

\* What the adapter tells of the provider's status.
refundAnswer(provider, wire, status) ==
  CASE provider = "sandbox" -> "SUCCEEDED"
    [] provider = "stripe" -> IF stripeRequest(wire) = "none" THEN mapRefund(status) ELSE "FAILED"
    [] OTHER ->
         LET body  == CASE status = "succeeded" -> "A" [] status = "pending" -> "P" [] OTHER -> "D"
             class == postJson(wire, body)
         IN CASE class = "none" -> mapPayTabsPaymentResponse("refund", FALSE, body)
              [] class = "TIMEOUT" -> "throws"
              [] OTHER -> mapHttpErrorToProviderResult(wire)

\* Only a failure and an exception end the request; every other answer, one
\* that is pending or ambiguous, too, goes on to be recorded as succeeded.
goesOn(answer) == answer \notin {"FAILED", "throws"}

TakeAnswer(c, answer) ==
  IF goesOn(answer) THEN request' = [request EXCEPT ![c].step = "accepted"] /\ UNCHANGED holder
  ELSE request' = [request EXCEPT ![c] = NoRequest] /\ holder' = Free

\* The provider is asked while the lock is held.  It may have paid although
\* no answer, or no good one, came back.
CallProvider(c, wire) ==
  LET key      == request[c].key
      amount   == request[c].amount
      provider == resolvePaymentProviderForRefund
      old      == known(provider, key)
  IN
  /\ request[c].step = "locked"
  /\ \E acted \in IF provider = "sandbox" THEN {FALSE} ELSE Acted(wire) :
       IF acted /\ old = {} /\ payable(amount)
       THEN /\ Len(atProvider) < MaxRefunds
            /\ \E status \in {"succeeded", "pending"} :
                 /\ atProvider' = Append(atProvider, [key |-> key, amount |-> amount, by |-> "api",
                                                      status |-> status, first |-> status])
                 /\ TakeAnswer(c, refundAnswer(provider, wire, status))
       ELSE /\ atProvider' = atProvider
            /\ TakeAnswer(c, refundAnswer(provider, wire,
                           IF \E n \in old : atProvider[n].amount = amount
                           THEN atProvider[CHOOSE n \in old : TRUE].first ELSE "failed"))
  /\ UNCHANGED <<rail, refunds, events>>

\* The row with its journal and its notices; the index on the key refuses a
\* second one, and the transaction with it.
CommitRefund(c) ==
  LET id == IF request[c].key = NoKey THEN <<"row", Cardinality(refunds)>> ELSE <<"api", request[c].key>>
      taken == \E r \in refunds : r.key = id
  IN
  /\ request[c].step = "accepted"
  /\ refunds' = IF taken THEN refunds
                ELSE refunds \cup {[key |-> id, amount |-> request[c].amount]}
  /\ request' = [request EXCEPT ![c] = NoRequest]
  /\ holder' = Free
  /\ UNCHANGED <<rail, atProvider, events>>

\* The process or its connection is lost, wherever the request is.
LoseRequest(c) ==
  /\ request[c] # NoRequest
  /\ request' = [request EXCEPT ![c] = NoRequest]
  /\ holder' = [holder EXCEPT !.holds = @ \ {c}]
  /\ UNCHANGED <<rail, refunds, atProvider, events>>

createRefund(c) ==
  \/ \E key \in RefundKeys \cup {NoKey}, amount \in Amounts : Ask(c, key, amount)
  \/ Lock(c) \/ CommitRefund(c) \/ LoseRequest(c)
  \/ \E wire \in Wires : CallProvider(c, wire)

-----------------------------------------------------------------------------
(* The provider's refunds and its events.                                  *)

\* Somebody refunds in the provider's dashboard.
RefundInDashboard(amount) ==
  /\ rail # "sandbox" /\ Len(atProvider) < MaxRefunds /\ payable(amount)
  /\ atProvider' = Append(atProvider, [key |-> NoKey, amount |-> amount, by |-> "dashboard",
                                       status |-> "succeeded", first |-> "succeeded"])
  /\ UNCHANGED <<rail, request, holder, refunds, events>>

Settle(n) ==
  /\ atProvider[n].status = "pending"
  /\ \E status \in {"succeeded", "failed"} : atProvider' = [atProvider EXCEPT ![n].status = status]
  /\ UNCHANGED <<rail, request, holder, refunds, events>>

\* Whatever has refund in its name is the event of a refund, a failed one's
\* as well.  PayTabs' callback of a refund has a reference no payment is
\* found by, and the sandbox sends what its tester likes.
isRefundEvent(e) == e.name # "callback"

\* A charge carries the charge's amount before the refunded one.
amountMinorOf(name, n) == IF name = "charge.refunded" THEN Captured ELSE atProvider[n].amount

EventsOf(n) ==
  LET event(name) == [name |-> name, refund |-> n, amount |-> amountMinorOf(name, n)] IN
  IF rail = "paytabs" THEN {event("callback")}
  ELSE {event("charge.refunded"), event("refund.created")}
         \cup IF atProvider[n].status = "failed" THEN {event("refund.failed")} ELSE {}

SandboxEvents == [name : {"sandbox.refund"}, refund : {0}, amount : Amounts]

\* Under the same lock; what is too much is left out, and the event is done
\* with either way.
applyProviderRefundEvent(e) ==
  /\ isRefundEvent(e) /\ e \notin events /\ holder = Free
  /\ Cardinality(events) < MaxEvents
  /\ refunds' = IF Recorded + e.amount > Captured THEN refunds
                ELSE refunds \cup {[key |-> <<"webhook-refund", e>>, amount |-> e.amount]}
  /\ events' = events \cup {e}
  /\ UNCHANGED <<rail, request, holder, atProvider>>

RefundsNext ==
  \/ \E c \in Calls : createRefund(c)
  \/ \E amount \in Amounts : RefundInDashboard(amount)
  \/ \E n \in DOMAIN atProvider : Settle(n) \/ \E e \in EventsOf(n) : applyProviderRefundEvent(e)
  \/ rail = "sandbox" /\ \E e \in SandboxEvents : applyProviderRefundEvent(e)

-----------------------------------------------------------------------------
(* Properties.                                                             *)

\* Merchant's requests, retries and losses and the provider's events in any
\* order: never more is recorded as refunded than was captured; Stripe pays
\* a key back once however often it is retried; and each of the merchant's
\* rows stands for a refund the provider was really asked for and took on.
RefundsAgree ==
  LET byKey(k) == {n \in DOMAIN atProvider : atProvider[n].by = "api" /\ atProvider[n].key = k}
  IN
  /\ Recorded <= Captured
  /\ rail = "stripe" => \A k \in RefundKeys : Cardinality(byKey(k)) <= 1
  /\ rail # "sandbox" => \A r \in refunds : \A k \in RefundKeys :
       r.key = <<"api", k>> => \E n \in byKey(k) : atProvider[n].amount = r.amount

\* The refunds recorded, the refunds the provider made and the answers its
\* adapter gave agree.
RefundsHold == RefundsAgree /\ AnswersAreTrue
=============================================================================
