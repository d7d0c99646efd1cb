------------------------------ MODULE Readiness ------------------------------
(***************************************************************************)
(* Whether a merchant is shown ready for checkout: the KYB gate, the       *)
(* wildcard route of the sandbox, and the name on the checkout page.  The  *)
(* page asks for each with a query of its own; the router is never asked.  *)
(***************************************************************************)
EXTENDS Kyb, Providers

CONSTANTS Merchant      \* the organization Kyb is about

VARIABLES
  kybRequired,  \* the deployment asks for a case: in production, and where it is told to
  profileRow,   \* merchant_profiles has the organization's row
  branding      \* its merchant_payment_config: none, without a name, with one

readinessVars == <<kybRequired, profileRow, branding>>

ReadinessTypeOK ==
  /\ kybRequired \in BOOLEAN /\ profileRow \in BOOLEAN
  /\ branding \in {"none", "unnamed", "named"}

ReadinessInit == kybRequired \in BOOLEAN /\ profileRow = FALSE /\ branding = "none"

ensureMerchantProfile == profileRow' = TRUE /\ kybRequired' = kybRequired

\* Reading the configuration creates it, under the merchant's or the
\* organization's name.
getPaymentConfig ==
  /\ ensureMerchantProfile
  /\ branding' = IF branding = "none" THEN "named" ELSE branding

\* What the request leaves out stays as it is.
upsertPaymentConfig(named) ==
  /\ ensureMerchantProfile
  /\ branding' = IF named \/ branding = "named" THEN "named" ELSE "unnamed"

getPublicBranding == branding

ReadinessNext == getPaymentConfig \/ \E named \in BOOLEAN : upsertPaymentConfig(named)

-----------------------------------------------------------------------------
\* The gate of payment links and checkouts: by the latest case, if one is
\* required at all.
assertMerchantPaymentsAllowed ==
  kybRequired => kase.status \in {"SUBMITTED", "UNDER_REVIEW", "APPROVED"}

moneyProviders == {"stripe", "paytabs", "bop"}

\* The provider shown for an environment: of the first wildcard route by
\* priority, in service or not; of two that are equal, either.
shown(env) ==
  LET all == wildcards(Merchant, env)
  IN {r.account.provider : r \in {r \in all : \A s \in all : r.priority <= s.priority}}

\* An item the merchant must not be blocked on.
blocked(provider) ==
  ~assertMerchantPaymentsAllowed \/ provider \notin moneyProviders \cup {"sandbox"}

readyForSandbox(provider) ==
  /\ ~blocked(provider)
  /\ assertMerchantPaymentsAllowed
  /\ provider \in moneyProviders
  /\ getPublicBranding = "named"

readyForLive(provider, liveProvider) == readyForSandbox(provider) /\ liveProvider \in moneyProviders

-----------------------------------------------------------------------------
readyFor(env) ==
  \E provider \in shown("SANDBOX") :
    IF env = "SANDBOX" THEN readyForSandbox(provider)
    ELSE \E l \in shown("LIVE") : readyForLive(provider, l)

\* The routes the page leaves out: for a currency or a method.
special(env) == {r \in listRoutes(Merchant) : r.env = env} \ wildcards(Merchant, env)

\* Where a merchant is shown ready, the page shows one provider, and the router
\* takes every payment it takes to that one, whatever routes were replaced
\* (getPaymentsReadiness, providerRouter.resolve); but for what the page does
\* not look at: routes for a currency or a method, an account out of service,
\* and replacements that overlapped.
ReadyGoesWhereShown ==
  \A env \in Environments, currency \in Currencies, method \in Methods, capability \in Capabilities :
    /\ readyFor(env)
    /\ <<Merchant, env>> \notin met
    /\ special(env) = {}
    /\ \A r \in wildcards(Merchant, env) : up(r.account)
    => \E code \in shown(env) :
         /\ shown(env) = {code}
         /\ \A a \in resolve(Merchant, env, currency, method, capability) : a.provider = code

\* A payment never leaves its tenant, its environment or what is in service,
\* a primary route is replaced, and what the page shows is then used.
RoutingHolds == ResolvesWithinTenant /\ PrimaryIsReplaced /\ ReadyGoesWhereShown

-----------------------------------------------------------------------------
\* What the page says without exceptions ("SANDBOX -> provider"), and the
\* router does not keep: it also takes routes for a currency or a method, and
\* passes over accounts out of service.
ShownIsUsed ==
  \A env \in Environments, currency \in Currencies, method \in Methods, capability \in Capabilities :
    readyFor(env) =>
      \A a \in resolve(Merchant, env, currency, method, capability) : a.provider \in shown(env)
=============================================================================
