------------------------------ MODULE Requests ------------------------------
(***************************************************************************)
(* Calls of one operation of /api/v1 under one Idempotency-Key, from the   *)
(* hooks to the reply.  Each hook is a step of its own and awaits the      *)
(* database or Redis, so the calls interleave between any two of them: the *)
(* step-up token is consumed in a locked transaction, the key is looked up *)
(* and inserted in two statements, the handler's transaction and the row   *)
(* of the key are updated one after the other.                             *)
(***************************************************************************)
EXTENDS Routes, Integers, FiniteSets

CONSTANTS
  Requests,    \* the calls: a client, its retries, a second client
  Payloads,    \* what method, path and body hash to
  Served,      \* the routes whose calls are followed
  Callers,     \* credentials and what they resolve to
  Transport,   \* SESSION_TRANSPORT: "bearer", "cookie" or "dual"
  Tokens,      \* step-up tokens of the caller
  Purposes,    \* what beginStepUp may have stored with a token
  RequestFaults \* bound on lost processes and on errors after the effect

ASSUME RequestsAssumption ==
  /\ RequestFaults \in Nat
  /\ Served \subseteq AllRoutes
  /\ Transport \in {"bearer", "cookie", "dual"}

VARIABLES
  route,      \* the operation all calls are for
  req,        \* the calls
  keyRow,     \* the row of idempotency_keys
  token,      \* step_up_tokens
  effects,    \* calls whose service transaction committed
  admitted,   \* history: the calls each token has admitted
  reopened,   \* history: calls that passed the hook on a FAILED row
  stranded,   \* history: calls that left the key behind: lost, or limited after it
  reqFaults

requestVars == <<route, req, keyRow, token, effects, admitted, reopened, stranded, reqFaults>>

-----------------------------------------------------------------------------
(* Who is calling.                                                         *)

PLATFORM_ADMIN == "platform.admin"

isPublicPath(path) ==
  path \in {"/health", "/health/ready", "/metrics", "/auth/register", "/auth/login",
            "/auth/mfa/verify", "/auth/verify-email", "/auth/resend-verification",
            "/auth/password/forgot", "/auth/password/reset", "/invitations/accept",
            "/platform/runtime",
            "/checkout/stripe/sync", "/checkout/:token", "/checkout/:token/session",
            "/checkout/:token/payment", "/webhooks/providers/:providerCode"}

\* Only a session read from the cookie needs the double-submitted token.
requiresCsrf(c) ==
  /\ route.method # "GET"
  /\ Transport # "bearer"
  /\ c.credential = "cookie"

authenticated(c) ==
  isPublicPath(route.path) \/ (c.credential # "none" /\ (requiresCsrf(c) => c.csrf))

\* Nobody is known behind a public path, the optional session aside.
auth(c) ==
  IF ~isPublicPath(route.path) \/ \E k \in DOMAIN route.hooks : route.hooks[k] = OptionalAuth
  THEN c ELSE [c EXCEPT !.organization = FALSE, !.codes = {}, !.roles = {}]

authHasPermission(granted, required) ==
  PLATFORM_ADMIN \in granted \/ granted \cap required # {}

\* The hooks that only look at the session.
passes(c, h) ==
  CASE h.need = "organization" -> c.organization
    [] h.need = "permission" -> authHasPermission(c.codes, h.codes)
    [] h.need = "owner" ->
         c.roles \cap {"MERCHANT_OWNER", "PLATFORM_OWNER"} # {} \/ PLATFORM_ADMIN \in c.codes
    [] h.need = "platform owner" -> "PLATFORM_OWNER" \in c.roles \/ PLATFORM_ADMIN \in c.codes
    [] OTHER -> TRUE

looksOnly(h) == h.need \notin {"step-up", "limit", "key"}

\* They come first in every route, so nothing can happen between them.
ASSUME SessionHooksComeFirst ==
  \A r \in AllRoutes : \A j, k \in DOMAIN r.hooks :
    looksOnly(r.hooks[k]) /\ j < k => looksOnly(r.hooks[j])

\* The hooks of a route are a list.
ASSUME HooksAreListed ==
  \A r \in AllRoutes : Len(r.hooks) \in Nat /\ DOMAIN r.hooks = 1..Len(r.hooks)

permitted(c) == authenticated(c) /\ \A k \in DOMAIN route.hooks : passes(auth(c), route.hooks[k])

-----------------------------------------------------------------------------
NoRow == [status |-> "none"]
Idle == [pc |-> "idle"]
InFlight == {"hooks", "insert", "handler", "complete", "fail"}

hook(r) == route.hooks[req[r].at]
has(need) == \E k \in DOMAIN route.hooks : route.hooks[k].need = need
keyed == has("key")

RequestsTypeOK ==
  /\ \A r \in Requests : req[r].pc \in InFlight \cup {"idle", "replied", "refused", "lost"}
  /\ keyRow.status \in {"none", "STARTED", "COMPLETED", "FAILED"}
  /\ keyRow.status # "none" => keyRow.payload \in Payloads
  /\ \A t \in Tokens : token[t].state \in {"live", "consumed"} /\ admitted[t] \subseteq Requests
  /\ reopened \cup stranded \subseteq Requests
  /\ effects \subseteq [call : Requests, payload : Payloads]
  /\ reqFaults \in 0..RequestFaults

RequestsInit ==
  /\ route \in Served
  /\ req = [r \in Requests |-> Idle]
  /\ keyRow = NoRow
  /\ token \in [Tokens -> [purpose : Purposes, state : {"live"}]]
  /\ effects = {}
  /\ admitted = [t \in Tokens |-> {}]
  /\ reopened = {}
  /\ stranded = {}
  /\ reqFaults = 0

-----------------------------------------------------------------------------
(* The hooks.                                                              *)

Goto(r, pc) == req' = [req EXCEPT ![r].pc = pc]
End(r, pc) == req' = [req EXCEPT ![r] = [pc |-> pc]]
NextHook(r) == req' = [req EXCEPT ![r].at = @ + 1]

apiV1AuthHook(r, c, p, ts) ==
  /\ req[r] = Idle
  /\ IF permitted(c)
     THEN req' = [req EXCEPT ![r] =
            [pc |-> "hooks", payload |-> p, tokens |-> ts, meta |-> FALSE,
             apiKey |-> c.credential = "api_key",
             at |-> 1 + Cardinality({k \in DOMAIN route.hooks : looksOnly(route.hooks[k])})]]
     ELSE End(r, "refused")
  /\ UNCHANGED <<route, keyRow, token, effects, admitted, reopened, stranded, reqFaults>>

AtHook(r, need) ==
  /\ req[r].pc = "hooks"
  /\ req[r].at <= Len(route.hooks)
  /\ hook(r).need = need

consumed(t) == [token EXCEPT ![t].state = "consumed"]

purposeFits(t, needed) == token[t].purpose \in {needed, "SENSITIVE"}

requireStepUp(r) ==
  /\ AtHook(r, "step-up")
  /\ \/ /\ ~req[r].apiKey
        /\ \E t \in req[r].tokens :
             /\ token[t].state = "live"
             /\ purposeFits(t, hook(r).purpose)
             /\ token' = consumed(t)
             /\ admitted' = [admitted EXCEPT ![t] = @ \cup {r}]
        /\ NextHook(r)
     \/ /\ \/ req[r].apiKey
           \/ \A t \in req[r].tokens :
                token[t].state # "live" \/ ~purposeFits(t, hook(r).purpose)
        /\ End(r, "refused")
        /\ UNCHANGED <<token, admitted>>
  /\ UNCHANGED <<route, keyRow, effects, reopened, stranded, reqFaults>>

\* A counter of the bucket is full or it is not (RateLimit).
rateLimit(r) ==
  /\ AtHook(r, "limit")
  /\ \/ NextHook(r) /\ UNCHANGED stranded
     \/ /\ End(r, "refused")
        /\ stranded' = IF req[r].meta THEN stranded \cup {r} ELSE stranded
  /\ UNCHANGED <<route, keyRow, token, effects, admitted, reopened, reqFaults>>

\* Mutant: a key that is in use is taken as free to use.
lookup_Started(status) == IF status \in {"STARTED", "FAILED"} THEN "proceed" ELSE "insert"

lookup(status) ==
  CASE status = "none"      -> "insert"
    [] status = "STARTED"   -> "refuse"
    [] status = "COMPLETED" -> "cached"
    [] status = "FAILED"    -> "proceed"

\* Mutant: the hash of the payload is not compared.
reused_Never(r) == FALSE

reused(r) == keyRow.status # "none" /\ keyRow.payload # req[r].payload

\* A FAILED row is left as it is: whoever looks next may proceed as well.
idempotencyPreHandler(r) ==
  /\ AtHook(r, "key")
  /\ IF reused(r) THEN End(r, "refused") /\ UNCHANGED reopened
     ELSE CASE lookup(keyRow.status) = "insert"  -> Goto(r, "insert") /\ UNCHANGED reopened
            [] lookup(keyRow.status) = "refuse"  -> End(r, "refused") /\ UNCHANGED reopened
            [] lookup(keyRow.status) = "cached"  -> End(r, "replied") /\ UNCHANGED reopened
            [] lookup(keyRow.status) = "proceed" ->
                 /\ req' = [req EXCEPT ![r].at = @ + 1, ![r].meta = TRUE]
                 /\ reopened' = reopened \cup {r}
  /\ UNCHANGED <<route, keyRow, token, effects, admitted, stranded, reqFaults>>

startedRow(r) == [status |-> "STARTED", payload |-> req[r].payload]

\* The unique index refuses the second of two rows.
InsertKey(r) ==
  /\ req[r].pc = "insert"
  /\ IF keyRow = NoRow
     THEN /\ keyRow' = startedRow(r)
          /\ req' = [req EXCEPT ![r].pc = "hooks", ![r].at = @ + 1, ![r].meta = TRUE]
     ELSE End(r, "refused") /\ UNCHANGED keyRow
  /\ UNCHANGED <<route, token, effects, admitted, reopened, stranded, reqFaults>>

-----------------------------------------------------------------------------
(* The handler.                                                            *)

Begin(r) ==
  /\ req[r].pc = "hooks"
  /\ req[r].at > Len(route.hooks)
  /\ Goto(r, "handler")
  /\ UNCHANGED <<route, keyRow, token, effects, admitted, reopened, stranded, reqFaults>>

\* The service's transaction commits, is refused, or commits and something
\* after it throws.
Execute(r) ==
  /\ req[r].pc = "handler"
  /\ \/ effects' = effects \cup {[call |-> r, payload |-> req[r].payload]} /\ Goto(r, "complete") /\ UNCHANGED reqFaults
     \/ Goto(r, "fail") /\ UNCHANGED <<effects, reqFaults>>
     \/ /\ reqFaults < RequestFaults
        /\ effects' = effects \cup {[call |-> r, payload |-> req[r].payload]}
        /\ Goto(r, "fail")
        /\ reqFaults' = reqFaults + 1
  /\ UNCHANGED <<route, keyRow, token, admitted, reopened, stranded>>

\* The handlers that have a key complete it, but for those of KeyOnly.
settles == keyed /\ KeyOnly \notin {route.hooks[k] : k \in DOMAIN route.hooks}

completedRow(r) == [status |-> "COMPLETED", payload |-> req[r].payload, reply |-> {r}]

completeIdempotency(r) ==
  /\ req[r].pc = "complete"
  /\ End(r, "replied")
  /\ keyRow' = IF settles THEN completedRow(r) ELSE keyRow
  /\ UNCHANGED <<route, token, effects, admitted, reopened, stranded, reqFaults>>

\* completeIdempotency throws after the effect: the handler's catch fails the key.
CompleteThrows(r) ==
  /\ req[r].pc = "complete"
  /\ settles
  /\ reqFaults < RequestFaults
  /\ Goto(r, "fail")
  /\ reqFaults' = reqFaults + 1
  /\ UNCHANGED <<route, keyRow, token, effects, admitted, reopened, stranded>>

failable == keyRow.status = "STARTED"

failIdempotency(r) ==
  /\ req[r].pc = "fail"
  /\ End(r, "refused")
  /\ keyRow' = IF settles /\ failable
               THEN [status |-> "FAILED", payload |-> keyRow.payload] ELSE keyRow
  /\ UNCHANGED <<route, token, effects, admitted, reopened, stranded, reqFaults>>

\* The process is lost, or its connection to the database.
LoseRequest(r) ==
  /\ req[r].pc \in InFlight
  /\ reqFaults < RequestFaults
  /\ End(r, "lost")
  /\ stranded' = IF req[r].meta THEN stranded \cup {r} ELSE stranded
  /\ reqFaults' = reqFaults + 1
  /\ UNCHANGED <<route, keyRow, token, effects, admitted, reopened>>

Progress(r) ==
  \/ requireStepUp(r) \/ rateLimit(r)
  \/ idempotencyPreHandler(r) \/ InsertKey(r)
  \/ Begin(r) \/ Execute(r) \/ completeIdempotency(r) \/ failIdempotency(r)

RequestsNext ==
  \E r \in Requests :
    \/ \E c \in Callers, p \in Payloads : \E ts \in IF has("step-up") THEN SUBSET Tokens ELSE {{}} :
         apiV1AuthHook(r, c, p, ts)
    \/ Progress(r)
    \/ CompleteThrows(r)
    \/ LoseRequest(r)

-----------------------------------------------------------------------------
(* Properties.                                                             *)

\* Calls under one key have one payload and their effect once, unless one of
\* them came in again after a failure was recorded; a stored reply belongs to a
\* call that did what it says.
OneEffectPerKey ==
  keyed =>
    /\ Cardinality(effects) > 1 => \E e \in effects : e.call \in reopened
    /\ \A d, e \in effects : d.payload = e.payload
    /\ keyRow.status = "COMPLETED" => \E e \in effects : keyRow.reply = {e.call}

\* A reply, once stored, is replaced only by a call that had passed the key
\* when it said FAILED, and never taken back.
StoredReplyStays ==
  [][keyRow.status = "COMPLETED" =>
       /\ keyRow'.status = "COMPLETED"
       /\ keyRow'.reply # keyRow.reply => keyRow'.reply \subseteq reopened]_requestVars

\* A step-up token admits one call.
TokenAdmitsOnce == \A t \in Tokens : Cardinality(admitted[t]) <= 1

\* What a caller confirmed or named once happens once.
EffectsHappenOnce == OneEffectPerKey /\ TokenAdmitsOnce

\* A key does not stay in progress, unless a call was lost with it or
\* limited after it, or its handler never settles it.
KeysSettle ==
  settles /\ keyRow.status = "STARTED" ~> keyRow.status # "STARTED" \/ stranded # {}

\* "A request with this Idempotency-Key is still in progress."
InProgressIsTrue ==
  keyRow.status = "STARTED" => \E r \in Requests : req[r].pc \in InFlight
=============================================================================
