------------------------------ MODULE Providers ------------------------------
(***************************************************************************)
(* Which payment provider a merchant's payment goes to: the accounts at    *)
(* providers, the routes to them, and the router that reads both.          *)
(*                                                                         *)
(* Adding a route reads the account and deletes the wildcard routes its    *)
(* statement sees, and inserts when it commits: two requests do not see    *)
(* each other's row.  So do two processes that start, each of which looks  *)
(* for a route of an organization before it inserts one.                   *)
(***************************************************************************)
EXTENDS Integers, Sequences, FiniteSets

CONSTANTS
  Orgs,           \* the organizations looked at
  Accounts,       \* the accounts that may exist: [owner, provider, env]
  Currencies,     \* currencies a route is for or a payment is in
  Methods,        \* payment methods a route is for or a customer pays with
  SupportedPlanes,\* pairs of a provider and an environment it supports
  Evidence,       \* triples of a provider, an environment and the capabilities it is known for
  Capabilities,
  CredentialPlanes, \* pairs of an account and the environment of an active credential
  Priorities,
  RouteCalls,     \* requests and starting processes that may be under way at once
  MaxRoutes,      \* bound: routes ever inserted
  MaxOut          \* bound: accounts and providers out of service at once

ASSUME ProvidersAssumption ==
  /\ \A a \in Accounts : a.env \in {"SANDBOX", "LIVE"}
  /\ Priorities \subseteq 1..10000

VARIABLES
  accountStatus,  \* status of each provider_accounts row
  defaultAccounts,\* rows with is_default
  providersDown,  \* providers whose status is not ACTIVE
  routes,         \* provider_routes
  inserted,       \* routes ever inserted: the order of created_at
  routeCall,      \* the calls under way
  met             \* history: pairs of organization and environment of overlapping calls

providerVars ==
  <<accountStatus, defaultAccounts, providersDown, routes, inserted, routeCall, met>>

Environments == {"SANDBOX", "LIVE"}
Any == "any"   \* NULL: a route's for any, a payment's for none named
NoCall == [step |-> "none"]

\* The adapters that are registered.
getProviderAdapter(code) == code \in {"sandbox", "paytabs", "stripe", "bop"}

\* Regional preference by currency.
preferredProviderCodes(currency) ==
  CASE currency = "ILS" -> <<"bop", "jawwalpay", "palpay", "paytabs", "stripe">>
    [] currency \in {"SAR", "AED", "KWD", "QAR", "BHD", "OMR"} -> <<"paytabs", "stripe">>
    [] currency \in {"USD", "EUR", "GBP"} -> <<"stripe", "paytabs">>
    [] OTHER -> <<"stripe", "paytabs", "sandbox">>

ProvidersTypeOK ==
  /\ accountStatus \in [Accounts -> {"none", "ACTIVE", "DISABLED"}]
  /\ defaultAccounts \subseteq {a \in Accounts : a.owner # "shared"}
  /\ providersDown \subseteq {a.provider : a \in Accounts}
  /\ inserted \in 0..MaxRoutes
  /\ \A r \in routes : r.created \in 1..inserted /\ r.account \in Accounts
  /\ \A c \in RouteCalls : routeCall[c].step \in {"none", "route", "bootstrap"}
  /\ met \subseteq Orgs \X Environments

\* The accounts of the platform are there from the start.
ProvidersInit ==
  /\ accountStatus = [a \in Accounts |-> IF a.owner = "shared" THEN "ACTIVE" ELSE "none"]
  /\ defaultAccounts = {}
  /\ providersDown = {}
  /\ routes = {}
  /\ inserted = 0
  /\ routeCall = [c \in RouteCalls |-> NoCall]
  /\ met = {}

-----------------------------------------------------------------------------
(* The router.                                                             *)

\* A LIVE deployment asks for LIVE, every other one for SANDBOX.
Deployments == {"production", "sandbox"}
resolvePaymentEnvironment(deployment) ==
  IF deployment \in {"production", "live"} THEN "LIVE" ELSE "SANDBOX"

up(a) == accountStatus[a] = "ACTIVE" /\ a.provider \notin providersDown

assertCapability(provider, capability, env) == <<provider, env, capability>> \in Evidence

\* What every account that is chosen still has to pass: the account, or none.
finalizeResolve(chosen, env, capability) ==
  {a \in chosen :
    /\ a.env = env
    /\ up(a)
    /\ <<a.provider, env>> \in SupportedPlanes
    /\ \A plane \in Environments : <<a, plane>> \in CredentialPlanes => plane = env
    /\ assertCapability(a.provider, capability, env)
    /\ getProviderAdapter(a.provider)}

routesFor(org, env, currency, method) ==
  {r \in routes : /\ r.org = org /\ r.env = env /\ up(r.account)
                  /\ r.currency \in {Any, currency} /\ r.method \in {Any, method}}

\* For a currency before for any; then for a method before for any; the
\* lower priority; the earlier one.
precedes(r, s) ==
  LET last(code) == IF code = Any THEN 1 ELSE 0
      rank(x) == <<last(x.currency), last(x.method), x.priority, x.created>>
      before(p, q) == \E i \in 1..4 : p[i] < q[i] /\ \A j \in 1..(i - 1) : p[j] = q[j]
  IN before(rank(r), rank(s))

firstRoute(candidates) == CHOOSE r \in candidates : \A s \in candidates \ {r} : precedes(r, s)

defaultOf(org, env) == {a \in defaultAccounts : a.owner = org /\ a.env = env /\ up(a)}

ofProvider(owner, code, env) ==
  {a \in {[owner |-> owner, provider |-> code, env |-> env]} : a \in Accounts /\ up(a)}

\* The organization's own account at the provider, else the platform's.
regionalAccount(org, code, env) ==
  IF ofProvider(org, code, env) # {} THEN ofProvider(org, code, env)
  ELSE ofProvider("shared", code, env)

\* The account at the first preferred provider whose account passes;
\* refusals are swallowed.
resolveRegional(org, env, currency, capability) ==
  LET usable(code) == finalizeResolve(regionalAccount(org, code, env), env, capability)
      codes == SelectSeq(preferredProviderCodes(currency), LAMBDA code : usable(code) # {})
  IN IF codes = <<>> THEN {} ELSE usable(Head(codes))

\* The account a payment goes through, or none: by route, else the default,
\* else regional, else the platform's sandbox.
resolve(org, env, currency, method, capability) ==
  LET candidates == routesFor(org, env, currency, method)
      regional == resolveRegional(org, env, currency, capability)
  IN IF candidates # {} THEN finalizeResolve({firstRoute(candidates).account}, env, capability)
     ELSE IF defaultOf(org, env) # {} THEN finalizeResolve(defaultOf(org, env), env, capability)
     ELSE IF regional # {} \/ env = "LIVE" THEN regional
     ELSE finalizeResolve(ofProvider("shared", "sandbox", "SANDBOX"), env, capability)

\* With an account the caller names.
resolveExplicit(org, a, env, capability) ==
  finalizeResolve({b \in {a} : b.owner \in {org, "shared"}}, env, capability)

-----------------------------------------------------------------------------
(* Administration.                                                         *)

\* Without setDefault the account is made the default, too, but the other is
\* not cleared: the index of one default per plane refuses it.
createOrgAccount(a, setDefault) ==
  LET samePlane == {b \in defaultAccounts : b.owner = a.owner /\ b.env = a.env} IN
  /\ a.owner # "shared" /\ a.provider \notin providersDown
  /\ setDefault = "absent" => samePlane \subseteq {a}
  /\ accountStatus' = [accountStatus EXCEPT ![a] = "ACTIVE"]
  /\ defaultAccounts' = CASE setDefault = "true"   -> (defaultAccounts \ samePlane) \cup {a}
                          [] setDefault = "absent" -> defaultAccounts \cup {a}
                          [] setDefault = "false"  -> defaultAccounts \ {a}
  /\ UNCHANGED <<providersDown, routes, inserted, routeCall, met>>

wildcards(org, env) ==
  {r \in routes : r.org = org /\ r.env = env /\ r.currency = Any /\ r.method = Any}

\* What a call under way is about, and what is noticed when one more begins.
planeOf(call) ==
  IF call.step = "route" THEN <<call.route.org, call.route.env>> ELSE <<call.org, "SANDBOX">>
noticed(org, env) ==
  met' = IF \E d \in RouteCalls : routeCall[d] # NoCall /\ planeOf(routeCall[d]) = <<org, env>>
         THEN met \cup {<<org, env>>} ELSE met

\* Mutant: an account of any organization.
mayRouteTo_Any(org, a, env) == accountStatus[a] = "ACTIVE" /\ a.env = env

mayRouteTo(org, a, env) ==
  accountStatus[a] = "ACTIVE" /\ a.owner \in {org, "shared"} /\ a.env = env

\* The wildcard routes are deleted for a route of one currency or method, too.
upsertRoute(c, org, env, a, currency, method, priority) ==
  /\ routeCall[c] = NoCall
  /\ mayRouteTo(org, a, env)
  /\ inserted < MaxRoutes
  /\ inserted' = inserted + 1
  /\ routeCall' = [routeCall EXCEPT ![c] =
       [step |-> "route", seen |-> wildcards(org, env),
        route |-> [org |-> org, env |-> env, currency |-> currency, method |-> method,
                   account |-> a, priority |-> priority, created |-> inserted + 1]]]
  /\ noticed(org, env)
  /\ UNCHANGED <<accountStatus, defaultAccounts, providersDown, routes>>

\* At the start of a process that is no production one: a route to the
\* platform's Stripe account for each organization without any.
stripeSandbox == [owner |-> "shared", provider |-> "stripe", env |-> "SANDBOX"]

bootstrapStripeRoutesDev(c, org) ==
  /\ routeCall[c] = NoCall
  /\ stripeSandbox \in Accounts /\ up(stripeSandbox)
  /\ ~\E r \in routes : r.org = org /\ r.env = "SANDBOX"
  /\ routeCall' = [routeCall EXCEPT ![c] = [step |-> "bootstrap", org |-> org]]
  /\ noticed(org, "SANDBOX")
  /\ UNCHANGED <<accountStatus, defaultAccounts, providersDown, routes, inserted>>

InsertBootstrapRoute(c) ==
  /\ routeCall[c].step = "bootstrap"
  /\ inserted < MaxRoutes
  /\ inserted' = inserted + 1
  /\ routes' = routes \cup
       {[org |-> routeCall[c].org, env |-> "SANDBOX", currency |-> Any, method |-> Any,
         account |-> stripeSandbox, priority |-> 10, created |-> inserted + 1]}
  /\ routeCall' = [routeCall EXCEPT ![c] = NoCall]
  /\ UNCHANGED <<accountStatus, defaultAccounts, providersDown, met>>

CommitRoute(c) ==
  /\ routeCall[c].step = "route"
  /\ routes' = (routes \ routeCall[c].seen) \cup {routeCall[c].route}
  /\ routeCall' = [routeCall EXCEPT ![c] = NoCall]
  /\ UNCHANGED <<accountStatus, defaultAccounts, providersDown, inserted, met>>

LoseRouteCall(c) ==
  /\ routeCall[c] # NoCall
  /\ routeCall' = [routeCall EXCEPT ![c] = NoCall]
  /\ UNCHANGED <<accountStatus, defaultAccounts, providersDown, routes, inserted, met>>

outOfService == Cardinality(providersDown) + Cardinality({a \in Accounts : accountStatus[a] = "DISABLED"})

\* Nothing in the program takes an account or a provider out of service;
\* whoever runs it does, in the database.
TakeOut(a) ==
  /\ accountStatus[a] = "ACTIVE" /\ outOfService < MaxOut
  /\ accountStatus' = [accountStatus EXCEPT ![a] = "DISABLED"]
  /\ UNCHANGED <<defaultAccounts, providersDown, routes, inserted, routeCall, met>>

SwitchProvider(code) ==
  /\ code \in providersDown \/ outOfService < MaxOut
  /\ providersDown' = IF code \in providersDown THEN providersDown \ {code} ELSE providersDown \cup {code}
  /\ UNCHANGED <<accountStatus, defaultAccounts, routes, inserted, routeCall, met>>

\* What the administration shows.
listAccounts(org) == {a \in Accounts : accountStatus[a] # "none" /\ a.owner \in {org, "shared"}}
listRoutes(org) == {r \in routes : r.org = org}

ProvidersNext ==
  \/ \E a \in Accounts :
       \/ TakeOut(a)
       \/ \E setDefault \in {"true", "false", "absent"} : createOrgAccount(a, setDefault)
  \/ \E code \in {a.provider : a \in Accounts} : SwitchProvider(code)
  \/ \E c \in RouteCalls :
       \/ CommitRoute(c) \/ InsertBootstrapRoute(c) \/ LoseRouteCall(c)
       \/ \E org \in Orgs : bootstrapStripeRoutesDev(c, org)
       \/ \E org \in Orgs, a \in Accounts, priority \in Priorities,
             currency \in Currencies \cup {Any}, method \in Methods \cup {Any} :
            upsertRoute(c, org, a.env, a, currency, method, priority)

-----------------------------------------------------------------------------
(* Properties.                                                             *)

\* Whatever requests and processes meet, and whatever is out of service, a
\* payment goes through an account of its own organization or of the
\* platform, of its own environment, that is up and able to take it; no
\* organization has two default accounts in an environment.
ResolvesWithinTenant ==
  /\ \A org \in Orgs, deployment \in Deployments, currency \in Currencies,
        method \in Methods \cup {Any}, capability \in Capabilities :
       LET env == resolvePaymentEnvironment(deployment) IN
       \A a \in resolve(org, env, currency, method, capability)
               \cup UNION {resolveExplicit(org, b, env, capability) : b \in Accounts} :
         /\ a \in listAccounts(org) /\ a.env = env /\ up(a)
         /\ <<a.provider, env, capability>> \in Evidence
  /\ \A a, b \in defaultAccounts : a.owner = b.owner /\ a.env = b.env => a = b

\* A new primary route replaces the one before it, whoever inserts it
\* (upsertRoute, bootstrapStripeRoutesDev): an organization has two for an
\* environment only where two calls about it were under way at once.
PrimaryIsReplaced ==
  \A org \in Orgs, env \in Environments :
    <<org, env>> \in met \/ \A r, s \in wildcards(org, env) : r = s

-----------------------------------------------------------------------------
(* What the comments say or a caller may expect, and the code does not keep. *)

\* "one primary provider per plane" (upsertRoute): two overlapping requests,
\* or one and a process that starts, leave two.
OnePrimaryPerPlane ==
  \A org \in Orgs, env \in Environments : \A r, s \in wildcards(org, env) : r = s

\* A payment is prepared when its session is created, without a method, and
\* submitted with the customer's: by one provider (createCheckoutSession,
\* confirmCheckoutPayment).
PreparedWhereSubmitted ==
  \A org \in Orgs, env \in Environments, currency \in Currencies, method \in Methods,
     capability \in Capabilities :
    resolve(org, env, currency, Any, capability) = resolve(org, env, currency, method, capability)
=============================================================================
