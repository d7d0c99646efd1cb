------------------------------- MODULE Adapters -------------------------------
(***************************************************************************)
(* What the payment core is told by a provider's adapter, against what     *)
(* happened at the provider.  A call may be lost on the way there or on    *)
(* the way back; each adapter turns what it sees into one of the statuses  *)
(* of ProviderOperationResult or throws a timeout on.  A payment is        *)
(* authorized when its session is made and again when it is submitted:     *)
(* each time a page or an intent of its own.  The provider's side of them  *)
(* is modelled as far as the adapters can tell its states apart.           *)
(***************************************************************************)
EXTENDS Integers, FiniteSets

CONSTANTS
  AdapterCodes,    \* the providers whose adapter is followed
  Authorizations,  \* those followed, of "session" and "submission"
  MaxChanges       \* bound: changes of the configured secrets

VARIABLES
  setup,     \* the environment: provider, plane, live allowed, checkout UI, adapter mode,
             \* and whether a secret has one of the names that make the mode http
  keys,      \* the secret key there is now: none, test, live or invalid
  client,    \* the adapter's cached client: none, missing, simulated, or the plane of its key
  asked,     \* authorizations asked for
  remote,    \* what each of them is at the provider
  held,      \* the reference IMKAN has of it: none, or what kind
  page,      \* the customer was given its payment page or its secret
  told,      \* history: the verdicts told of it, as <<operation, status>>
  changes    \* changes of keys so far

adapterVars == <<setup, keys, client, asked, remote, held, page, told, changes>>

ProviderOpStatus ==
  {"SUCCEEDED", "PENDING", "REQUIRES_ACTION", "FAILED", "AMBIGUOUS", "NOT_AVAILABLE"}
Answers == ProviderOpStatus \cup {"throws"}

\* The answers that say how a payment ended.
Verdicts ==
  {<<op, "SUCCEEDED">> : op \in {"authorize", "getStatus", "recover"}}
    \cup {<<op, "FAILED">> : op \in {"authorize", "getStatus"}}

\* How a request may end: a body, no answer in time, no connection, no JSON,
\* an HTTP error: 403 is taken as 401 is, and 504 as 500.
HttpErrors == {"400", "401", "408", "429", "500"}
Wires == {"ok", "timeout", "network", "malformed"} \cup HttpErrors

\* Whether the provider acted on it.
Acted(wire) ==
  IF wire = "ok" THEN {TRUE}
  ELSE IF wire \in {"400", "401", "403", "429"} THEN {FALSE} ELSE BOOLEAN

AdaptersTypeOK ==
  /\ keys \in {"none", "test", "live", "invalid"}
  /\ client \in {"none", "missing", "simulated", "test", "live"}
  /\ asked \subseteq Authorizations
  /\ remote \in [Authorizations ->
        {"none", "open", "processing", "paid", "declined", "canceled", "expired"}]
  /\ held \in [Authorizations -> {"none", "attempt", "intent", "session", "tran_ref"}]
  /\ page \in [Authorizations -> BOOLEAN]
  /\ told \in [Authorizations -> SUBSET Verdicts]
  /\ changes \in 0..MaxChanges

\* Tests run in mode simulate.
AdaptersInit ==
  /\ setup \in [code : AdapterCodes, plane : {"test", "live"}, allowLive : BOOLEAN,
                ui : {"hosted", "elements"}, mode : {"simulate", "http", "unset"}, named : BOOLEAN]
  /\ setup.code # "stripe" => setup.ui = "hosted"
  /\ setup.code # "stripe" \/ setup.mode # "unset" => setup.named
  /\ keys \in {"none", "test", "live", "invalid"}
  /\ client = "none"
  /\ asked = {}
  /\ remote = [i \in Authorizations |-> "none"]
  /\ held = [i \in Authorizations |-> "none"]
  /\ page = [i \in Authorizations |-> FALSE]
  /\ told = [i \in Authorizations |-> {}]
  /\ changes = 0

-----------------------------------------------------------------------------
(* Secrets and clients.                                                    *)

resolveStripeRequestedPlane == setup.plane
isStripeLiveAllowed == setup.allowLive
classifyStripeSecretKey(key) == key

\* A key of the other plane is refused, and a live one unless live is allowed.
assertStripePlaneAllowed(key, requested) ==
  /\ classifyStripeSecretKey(key) = requested
  /\ requested = "live" => isStripeLiveAllowed

\* With no mode given, a key under the live name alone does not make it http.
resolveStripeMode ==
  CASE setup.mode # "unset" -> setup.mode
    [] setup.named -> "http"
    [] OTHER -> "simulate"

loadStripeCredentials ==
  IF resolveStripeMode = "simulate" THEN "simulated"
  ELSE IF keys # "none" /\ assertStripePlaneAllowed(keys, resolveStripeRequestedPlane) THEN keys
  ELSE "missing"

resolvePayTabsEnv == setup.plane
assertPayTabsSandboxOnly == resolvePayTabsEnv = "live" => setup.allowLive
resolvePayTabsMode ==
  IF resolvePayTabsEnv = "test" /\ setup.mode = "simulate" THEN "simulate" ELSE "http"

\* PayTabs' keys do not say their plane: whatever is configured is used.
loadPayTabsSandboxCredentials ==
  IF resolvePayTabsMode = "simulate" THEN "simulated"
  ELSE IF keys # "none" /\ assertPayTabsSandboxOnly THEN resolvePayTabsEnv
  ELSE "missing"

loadCredentials ==
  CASE setup.code = "stripe" -> loadStripeCredentials
    [] setup.code = "paytabs" -> loadPayTabsSandboxCredentials
    [] OTHER -> "missing"

\* The client is made once, of the secrets of that moment; that there were
\* none is remembered just the same.
clientOr(creds) == IF client = "none" THEN creds ELSE client

-----------------------------------------------------------------------------
(* What an adapter makes of a request's end: "none", or an error class.    *)

stripeRequest(wire) ==
  CASE wire \in {"401", "403"} -> "AUTHENTICATION"
    [] wire = "429" -> "RATE_LIMITED"
    [] wire \in {"500", "504", "network"} -> "RETRYABLE"
    [] wire = "timeout" -> "TIMEOUT"
    [] wire = "ok" -> "none"
    [] OTHER -> "NON_RETRYABLE"

\* 504 is above 500 before it is a timeout.
classifyHttpStatus(wire) ==
  CASE wire \in {"401", "403"} -> "AUTHENTICATION"
    [] wire = "429" -> "RATE_LIMITED"
    [] wire \in {"500", "504"} -> "RETRYABLE"
    [] wire = "408" -> "TIMEOUT"
    [] OTHER -> "NON_RETRYABLE"

\* An E in the body is an error, too.
postJson(wire, body) ==
  CASE wire = "timeout" -> "TIMEOUT"
    [] wire = "network" -> "AMBIGUOUS"
    [] wire = "malformed" -> "NON_RETRYABLE"
    [] wire \in HttpErrors -> classifyHttpStatus(wire)
    [] OTHER -> IF body = "E" THEN "NON_RETRYABLE" ELSE "none"

\* Only the code PAYTABS_TIMEOUT is ambiguous; 408 is a TIMEOUT of another code.
mapHttpErrorToProviderResult(wire) == IF wire = "timeout" THEN "AMBIGUOUS" ELSE "FAILED"

mapStripePaymentIntentStatus(status) ==
  CASE status = "succeeded" -> "SUCCEEDED"
    [] status = "canceled" -> "FAILED"
    [] status = "requires_payment_method" -> "REQUIRES_ACTION"
    [] OTHER -> "PENDING"

mapPaymentIntent(status) == mapStripePaymentIntentStatus(status)
mapPaymentIntentEmbedded(secret) == IF secret THEN "REQUIRES_ACTION" ELSE "FAILED"

\* An open session has its url; one that is complete need not be paid.
mapCheckoutSession(session) ==
  CASE session = "open" -> "REQUIRES_ACTION"
    [] session = "complete" -> "SUCCEEDED"
    [] OTHER -> "PENDING"

mapRefund(status) ==
  CASE status = "succeeded" -> "SUCCEEDED" [] status = "pending" -> "PENDING" [] OTHER -> "FAILED"

mapPayTabsResponseStatus(s) ==
  CASE s = "A" -> "SUCCEEDED" [] s \in {"D", "E", "C", "X"} -> "FAILED" [] OTHER -> "PENDING"

\* A sale with a page to go to is not yet answered.
mapPayTabsPaymentResponse(tranType, redirect, body) ==
  IF tranType = "sale" /\ redirect THEN "REQUIRES_ACTION" ELSE mapPayTabsResponseStatus(body)

mapPayTabsQueryResponse(body) == mapPayTabsResponseStatus(body)

-----------------------------------------------------------------------------
(* The operations.                                                         *)

\* A simulated client asks nobody, and is never at a loss for an answer.
ending(made, wire) == IF made = "simulated" THEN "ok" ELSE wire

stripeAuthorize(made, wire) ==
  IF made = "missing" THEN "FAILED"
  ELSE LET class == stripeRequest(ending(made, wire)) IN
       CASE class = "none" -> IF setup.ui = "elements" THEN mapPaymentIntentEmbedded(TRUE)
                              ELSE mapCheckoutSession("open")
         [] class = "TIMEOUT" -> "throws"
         [] OTHER -> "FAILED"

paytabsAuthorize(made, wire) ==
  IF made = "missing" THEN "FAILED"
  ELSE LET class == postJson(ending(made, wire), "") IN
       CASE class = "none" -> mapPayTabsPaymentResponse("sale", TRUE, "")
         [] class = "TIMEOUT" -> "throws"
         [] OTHER -> mapHttpErrorToProviderResult(wire)

\* The sandbox is steered by its token.
sandboxAuthorize(token) ==
  CASE token = "TIMEOUT" -> "throws"
    [] token = "AMBIGUOUS" -> "AMBIGUOUS"
    [] token = "FAIL" -> "FAILED"
    [] token = "none" -> "PENDING"
    [] OTHER -> "SUCCEEDED"

\* Every reference of an attempt has succeeded, that of a failed one, too.
sandboxGetStatus(reference) == IF reference = "attempt" THEN "SUCCEEDED" ELSE "PENDING"

bopUnavailable == "NOT_AVAILABLE"

Answered(i, operation, answer) ==
  told' = [told EXCEPT ![i] = @ \cup ({<<operation, answer>>} \cap Verdicts)]

\* The session's authorization comes first.
Asks(i) ==
  /\ i \notin asked
  /\ i = "submission" /\ "session" \in Authorizations => "session" \in asked
  /\ asked' = asked \cup {i}

\* A token that asks for a decline gets one before the provider is asked; the
\* session has no token yet.
Decline(i, token) ==
  /\ setup.code \in {"stripe", "paytabs"} /\ token = "FAIL" /\ i = "submission"
  /\ Asks(i)
  /\ Answered(i, "authorize", "FAILED")
  /\ UNCHANGED <<setup, keys, client, remote, held, page, changes>>

AuthorizeLocally(i, token) ==
  /\ setup.code \in {"sandbox", "bop"}
  /\ i = "session" => token = "none"
  /\ Asks(i)
  /\ LET answer == IF setup.code = "bop" THEN bopUnavailable ELSE sandboxAuthorize(token) IN
     /\ Answered(i, "authorize", answer)
     /\ held' = [held EXCEPT ![i] =
          IF answer \in {"AMBIGUOUS", "FAILED", "SUCCEEDED"} THEN "attempt"
          ELSE IF answer = "PENDING" THEN "intent" ELSE @]
  /\ UNCHANGED <<setup, keys, client, remote, page, changes>>

\* What a reference is of: a session that has an intent is known by it.
references(made) ==
  CASE setup.code = "paytabs" -> {"tran_ref"}
    [] setup.ui = "elements" \/ made = "simulated" -> {"intent"}
    [] OTHER -> {"intent", "session"}

\* A page or an intent is made at the provider; what became of it is known
\* if the answer comes back.  Of the one made with the session the customer
\* gets the secret only.
Authorize(i, wire) ==
  LET creds == loadCredentials
      made  == IF creds = "missing" THEN client ELSE clientOr(creds)
      able  == creds # "missing" /\ made # "missing"
  IN
  /\ setup.code \in {"stripe", "paytabs"}
  /\ Asks(i)
  /\ client' = made
  /\ \E acted \in Acted(wire) :
       remote' = [remote EXCEPT ![i] = IF able /\ made # "simulated" /\ acted THEN "open" ELSE @]
  /\ LET answer == IF ~able THEN "FAILED"
                   ELSE IF setup.code = "stripe" THEN stripeAuthorize(made, wire)
                   ELSE paytabsAuthorize(made, wire)
     IN
     /\ Answered(i, "authorize", answer)
     /\ page' = [page EXCEPT ![i] =
          answer = "REQUIRES_ACTION" /\ (i = "submission" \/ setup.ui = "elements")]
     /\ \E reference \in references(made) :
          held' = IF answer = "REQUIRES_ACTION" THEN [held EXCEPT ![i] = reference] ELSE held
  /\ UNCHANGED <<setup, keys, changes>>

\* What Stripe and PayTabs say of the payment when they are asked.
intentStatus(i) ==
  CASE remote[i] \in {"open", "declined"} -> "requires_payment_method"
    [] remote[i] = "processing" -> "processing"
    [] remote[i] = "paid" -> "succeeded"
    [] OTHER -> "canceled"
sessionStatus(i) ==
  CASE remote[i] \in {"processing", "paid"} -> "complete"
    [] remote[i] \in {"open", "declined"} -> "open"
    [] OTHER -> "expired"
payTabsStatus(i) ==
  CASE remote[i] = "paid" -> "A" [] remote[i] = "declined" -> "D" [] remote[i] = "processing" -> "H"
    [] remote[i] = "canceled" -> "C" [] remote[i] = "expired" -> "X" [] OTHER -> "P"

\* Stripe's failures of a query are ambiguous; simulated, every intent has
\* succeeded.
stripeGetStatus(i, made, wire) ==
  IF made = "missing" \/ stripeRequest(ending(made, wire)) # "none" THEN "AMBIGUOUS"
  ELSE IF made = "simulated" THEN mapPaymentIntent("succeeded")
  ELSE IF held[i] = "session" THEN mapCheckoutSession(sessionStatus(i))
  ELSE mapPaymentIntent(intentStatus(i))

\* Simulated, a sale is authorized while the client remembers it.
payTabsBodies(i, made) == IF made = "simulated" THEN {"A", "P"} ELSE {payTabsStatus(i)}

\* PayTabs' are failures, but for the timeout.
paytabsGetStatus(made, wire, body) ==
  IF made = "missing" THEN "FAILED"
  ELSE IF postJson(ending(made, wire), body) = "none" THEN mapPayTabsQueryResponse(body)
  ELSE mapHttpErrorToProviderResult(wire)

GetStatus(i, wire) ==
  LET creds == loadCredentials
      made  == IF setup.code = "paytabs" /\ creds = "missing" THEN client ELSE clientOr(creds)
      used  == IF creds = "missing" THEN creds ELSE made
  IN
  /\ held[i] # "none"
  /\ CASE setup.code = "sandbox" -> Answered(i, "getStatus", sandboxGetStatus(held[i])) /\ client' = client
       [] setup.code = "stripe" -> Answered(i, "getStatus", stripeGetStatus(i, made, wire)) /\ client' = made
       [] OTHER -> /\ \E body \in payTabsBodies(i, used) :
                        Answered(i, "getStatus", paytabsGetStatus(used, wire, body))
                   /\ client' = made
  /\ UNCHANGED <<setup, keys, asked, remote, held, page, changes>>

\* PayTabs is asked what became of a call; what it does not know stays
\* ambiguous, and an error of the query is thrown on.
resolveUnknownPayTabsOutcome(i, wire, body) ==
  IF held[i] = "none" THEN "AMBIGUOUS"
  ELSE IF postJson(ending(client, wire), body) # "none" THEN "throws"
  ELSE CASE body = "A" -> "SUCCEEDED"
         [] body = "D" -> "FAILED"
         [] body \in {"P", "H"} -> "PENDING"
         [] OTHER -> "AMBIGUOUS"

Recover(i, wire) ==
  /\ setup.code = "paytabs" /\ client \in {"test", "live", "simulated"}
  /\ \E body \in payTabsBodies(i, client) :
       Answered(i, "recover", resolveUnknownPayTabsOutcome(i, wire, body))
  /\ UNCHANGED <<setup, keys, client, asked, remote, held, page, changes>>

\* Only Stripe's intents can be canceled; that one is canceled is told as a
\* failure, as is that it could not be.
VoidPayment(i, wire) ==
  /\ setup.code = "stripe" /\ held[i] # "none"
  /\ LET made == clientOr(loadStripeCredentials)
         able == held[i] = "intent" /\ made # "missing"
     IN
     /\ client' = made
     /\ \E acted \in Acted(wire) : remote' =
          [remote EXCEPT ![i] = IF able /\ acted /\ @ \in {"open", "declined"} THEN "canceled" ELSE @]
     /\ Answered(i, "void",
          CASE held[i] = "session" /\ made # "missing" -> "NOT_AVAILABLE"
            [] able /\ wire = "ok" /\ remote'[i] = "canceled" -> mapPaymentIntent("canceled")
            [] OTHER -> "FAILED")
  /\ UNCHANGED <<setup, keys, asked, held, page, changes>>

-----------------------------------------------------------------------------
(* The customer, the provider and the operator.                            *)

CustomerActs(i) ==
  /\ page[i] /\ remote[i] \in {"open", "declined"}
  /\ \E outcome \in {"paid", "processing", "declined"} : remote' = [remote EXCEPT ![i] = outcome]
  /\ UNCHANGED <<setup, keys, client, asked, held, page, told, changes>>

ProviderActs(i) ==
  /\ \/ /\ remote[i] = "processing"
        /\ \E outcome \in {"paid", "declined"} : remote' = [remote EXCEPT ![i] = outcome]
     \/ /\ remote[i] \in {"open", "declined"}
        /\ \E outcome \in {"expired", "canceled"} : remote' = [remote EXCEPT ![i] = outcome]
  /\ UNCHANGED <<setup, keys, client, asked, held, page, told, changes>>

ChangeSecrets(key) ==
  /\ changes < MaxChanges
  /\ key # keys
  /\ keys' = key
  /\ changes' = changes + 1
  /\ UNCHANGED <<setup, client, asked, remote, held, page, told>>

\* The process starts again, with no client.
RestartAdapter ==
  /\ client # "none"
  /\ client' = "none"
  /\ UNCHANGED <<setup, keys, asked, remote, held, page, told, changes>>

AdaptersNext ==
  \/ \E i \in Authorizations :
       \/ \E token \in {"none", "card", "FAIL", "TIMEOUT", "AMBIGUOUS"} :
            Decline(i, token) \/ AuthorizeLocally(i, token)
       \/ \E wire \in Wires :
            Authorize(i, wire) \/ GetStatus(i, wire) \/ Recover(i, wire) \/ VoidPayment(i, wire)
       \/ CustomerActs(i) \/ ProviderActs(i)
  \/ RestartAdapter
  \/ \E key \in {"none", "test", "live"} : ChangeSecrets(key)

-----------------------------------------------------------------------------
(* Properties.                                                             *)

\* The deployments whose clients reach no provider.
Simulating ==
  \/ setup.code = "stripe" /\ resolveStripeMode = "simulate"
  \/ setup.code = "paytabs" /\ resolvePayTabsMode = "simulate"

\* Whatever call was lost on whichever way, and whenever it is asked: of each
\* authorization a success is told only when the customer made the payment,
\* or has completed a session (which Stripe may have yet to collect for),
\* unless the deployment simulates; one that was told to have failed can
\* never be paid afterwards; a query of Stripe tells a failure only when it
\* is over for good; and no client holds a key of a plane that was not asked
\* for (authorize, getStatus, resolveUnknownPayTabsOutcome, client()).
AnswersAreTrue ==
  /\ setup.code \in {"stripe", "paytabs"} => \A i \in Authorizations :
       /\ \A op \in {"authorize", "getStatus", "recover"} : <<op, "SUCCEEDED">> \in told[i] =>
            \/ Simulating
            \/ remote[i] = "paid"
            \/ held[i] = "session" /\ page[i] /\ remote[i] # "open"
       /\ <<"authorize", "FAILED">> \in told[i] => remote[i] \notin {"processing", "paid"}
       /\ setup.code = "stripe" /\ <<"getStatus", "FAILED">> \in told[i] => remote[i] \in {"canceled", "expired"}
  /\ client \in {"test", "live"} => client = setup.plane /\ (client = "live" => setup.allowLive)

-----------------------------------------------------------------------------
(* What the comments say or a caller may expect, and the code does not keep. *)

\* "Live keys: STRIPE_LIVE_SECRET_KEY (preferred)" (loadStripeCredentials):
\* with that one alone the adapter simulates.
LiveKeyIsUsed ==
  /\ setup.code = "stripe" /\ setup.plane = "live" /\ setup.allowLive /\ keys = "live"
  /\ setup.mode = "unset"
  => client # "simulated"

\* A failure is told of one authorization, not of the payment: the page of
\* another one may still be paid (createCheckoutSession, confirmCheckoutPayment).
FailedPaymentStaysUnpaid ==
  \A i, j \in Authorizations : <<"authorize", "FAILED">> \in told[i] => remote[j] # "paid"
=============================================================================
