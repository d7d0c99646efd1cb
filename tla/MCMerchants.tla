----------------------------- MODULE MCMerchants -----------------------------
(* Small instances of Kyb with its PayoutAccounts and Documents, of         *)
(* Readiness with Providers, of Inbox and of Refunds with Adapters for TLC. *)
(* focus says which of them a behaviour is about.                           *)
EXTENDS Readiness, Inbox, Refunds

LOCAL Library == INSTANCE TLC

CONSTANTS a1, a2, a3, f1, f2, d1, x1, x2, p1, p2, t1, t2, o1, o2, m1, k1, k2

VARIABLE focus

merchantVars == <<bankVars, documentVars, kybVars, providerVars, readinessVars>>
vars == <<focus, merchantVars, inboxVars, adapterVars, refundVars>>

MCFingerprint == [a \in {a1, a2, a3} |-> IF a = a2 THEN f2 ELSE f1]

OnOwnData ==
  {[type |-> t, risk |-> "all"] : t \in {"LEGAL_PROFILE", "BUSINESS_PROFILE"}}
    \cup {[type |-> "PERSON_MIN", risk |-> "HIGH"]}
One(type) == {[type |-> type, risk |-> "all"]}

Account(owner, provider, env) == [owner |-> owner, provider |-> provider, env |-> env]
MCAccounts ==
  {Account("shared", "sandbox", "SANDBOX"), Account("shared", "stripe", "SANDBOX"),
   Account("shared", "stripe", "LIVE"), Account(o1, "paytabs", "SANDBOX"),
   Account(o2, "stripe", "SANDBOX")}
MCPlanes == {<<"sandbox", "SANDBOX">>, <<"stripe", "SANDBOX">>, <<"stripe", "LIVE">>,
             <<"paytabs", "SANDBOX">>}
MCEvidence == {<<"sandbox", "SANDBOX", "authorize">>, <<"stripe", "SANDBOX", "authorize">>,
               <<"paytabs", "SANDBOX", "authorize">>, <<"stripe", "LIVE", "authorize">>}
MCCredentials == {<<a, a.env>> : a \in {a \in MCAccounts : a.owner = "shared"}}

Event(provider, number, named, kind, nonce, signer) ==
  [provider |-> provider, number |-> number, payment |-> m1, named |-> named, kind |-> kind,
   nonce |-> nonce, signer |-> signer]
MCEvents ==
  {Event("stripe", 1, TRUE, "succeeded", 0, "account"), Event("stripe", 2, FALSE, "needs_response", 0, "account"),
   Event("paytabs", 1, FALSE, "P", 0, "account"), Event("paytabs", 2, FALSE, "A", 0, "account"),
   Event("paytabs", 3, FALSE, "refund", 0, "account"),
   Event("sandbox", 1, TRUE, "succeeded", 1, "platform"), Event("sandbox", 2, TRUE, "refund", 1, "platform")}

\* t1 and t2 are the two of whatever there are two of, and do the same.
CallSymmetry == Library!Permutations(Calls)

Senders == {e.provider : e \in MCEvents}

Required(f) ==
  CASE f = "case" -> OnOwnData [] f = "owners" -> One("OWNERSHIP_TOTAL_MAX")
    [] f = "documents" -> One("DOCUMENT_TYPE") [] f = "banks" -> One("BANK_ACCOUNT")
    [] OTHER -> {}

\* Stripe's mode by the names of its keys, PayTabs' as it is given; the others
\* look at none of it.
OneOfEachMode ==
  CASE setup.code = "stripe" -> setup.mode = "unset"
    [] setup.code = "paytabs" -> setup.mode # "unset"
    [] OTHER -> setup.mode = "unset" /\ setup.plane = "test" /\ ~setup.allowLive /\ keys = "none"

Init ==
  /\ focus \in {"case", "owners", "documents", "banks", "routing", "adapters", "refunds"} \cup Senders
  /\ BankInit /\ DocumentsInit /\ KybInit(Required(focus)) /\ ProvidersInit /\ ReadinessInit
  /\ InboxInit /\ AdaptersInit /\ RefundsInit
  /\ focus # "documents" => fileRequired = TRUE
  /\ focus # "adapters" => setup.code = "sandbox" /\ setup.plane = "test" /\ ~setup.allowLive
                           /\ setup.mode = "unset" /\ keys = "none"
  /\ focus = "adapters" => OneOfEachMode
  /\ focus # "refunds" => rail = "sandbox"
  /\ focus \notin Senders => latest = "none"
  /\ focus # "routing" => kybRequired

Submit == submit /\ UNCHANGED bankVars

KybPart ==
  \/ focus = "case" /\ (ProfileNext \/ CaseNext) /\ UNCHANGED <<bankVars, documentVars>>
  \/ focus = "owners" /\ (PeopleNext \/ getCaseOverview) /\ UNCHANGED <<bankVars, documentVars>>
  \/ focus = "documents" /\ DocumentsNext /\ UNCHANGED <<bankVars, kybVars>>
  \/ focus = "banks" /\ BankNext /\ UNCHANGED <<documentVars, kybVars>>
  \/ focus # "owners" /\ kybRequired /\ Submit

MerchantPart ==
  \/ KybPart /\ UNCHANGED <<providerVars, readinessVars>>
  \/ /\ focus = "routing" /\ UNCHANGED <<bankVars, documentVars, kybVars>>
     /\ \/ branding = "named" /\ (IF kybRequired THEN live ELSE inserted = 0) /\ ProvidersNext /\ UNCHANGED readinessVars
        \/ inserted = 0 /\ ReadinessNext /\ UNCHANGED providerVars

Next ==
  /\ UNCHANGED focus
  /\ \/ MerchantPart /\ UNCHANGED <<inboxVars, adapterVars, refundVars>>
     \/ /\ focus \in Senders /\ InboxNext({e \in Events : e.provider = focus})
        /\ UNCHANGED <<merchantVars, adapterVars, refundVars>>
     \/ focus = "adapters" /\ AdaptersNext /\ UNCHANGED <<merchantVars, inboxVars, refundVars>>
     \/ focus = "refunds" /\ RefundsNext /\ UNCHANGED <<merchantVars, inboxVars, adapterVars>>

Spec == Init /\ [][Next]_vars

TypeOK ==
  /\ BankTypeOK /\ DocumentsTypeOK /\ KybTypeOK /\ ProvidersTypeOK /\ ReadinessTypeOK
  /\ InboxTypeOK /\ AdaptersTypeOK /\ RefundsTypeOK
=============================================================================
