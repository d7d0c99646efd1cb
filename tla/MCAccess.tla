----------------------------- MODULE MCAccess -----------------------------
(* Small instances of Requests, RateLimit, Accounts and Members for TLC.    *)
(* They share no state; focus says which of them, and which part of Members,*)
(* a behaviour is about, the others stand still.                            *)
EXTENDS Requests, RateLimit, Accounts, Members

CONSTANTS r1, r2, s1, a1, a2, c1, c2, c3, owner, staff, i1, i2, t1, t2

VARIABLE focus

vars == <<focus, requestVars, limitVars, accountVars, memberVars>>

\* One route for every sequence of kinds of hooks that changes something; the
\* codes, purposes and buckets of a route make no difference to its calls'
\* interleavings.
Shape(r) == [k \in DOMAIN r.hooks |->
               IF r.hooks[k] = KeyOnly THEN "key only" ELSE r.hooks[k].need]
MCServed == {CHOOSE r \in AllRoutes : Shape(r) = s : s \in {Shape(r) : r \in AllRoutes}}

Codes == UNION {UNION {r.hooks[k].codes : k \in {k \in DOMAIN r.hooks : r.hooks[k].need = "permission"}} : r \in AllRoutes}
MerchantCodes == Codes \ {"platform.admin", "platform.support", "platform.finance"}
Session(credential, csrf) ==
  [credential |-> credential, csrf |-> csrf, organization |-> TRUE,
   codes |-> MerchantCodes, roles |-> {"MERCHANT_OWNER"}]

MCCallers ==
  {Session("cookie", TRUE), Session("cookie", FALSE),
   [Session("api_key", FALSE) EXCEPT !.roles = {"API_KEY"}],
   [credential |-> "bearer", csrf |-> FALSE, organization |-> FALSE,
    codes |-> {"platform.admin"}, roles |-> {"PLATFORM_OWNER"}]}

MCPurposes == {"SENSITIVE", "payments.refund"}

MCStoreSettings ==
  {[store |-> "", production |-> TRUE], [store |-> "", production |-> FALSE],
   [store |-> "memory", production |-> TRUE]}

Init ==
  /\ focus \in {"requests", "limit", "account", "members", "roles", "keys", "platform"}
  /\ RequestsInit
  /\ \/ focus = "requests" /\ has("step-up")
     \/ \A t \in Tokens : token[t].purpose = "SENSITIVE"
  /\ focus # "requests" => route = CHOOSE r \in Served : r.hooks = <<>>
  /\ RateLimitInit
  /\ focus # "limit" => setting = [store |-> "", production |-> TRUE]
  /\ AccountsInit
  /\ MembersInit

MembersPart(t) ==
  CASE focus = "members"  -> MembershipNext(t)
    [] focus = "roles"    -> CustomRoleNext(t)
    [] focus = "keys"     -> KeyNext(t)
    [] focus = "platform" -> PlatformNext(t)

Next ==
  /\ UNCHANGED focus
  /\ \/ focus = "requests" /\ RequestsNext /\ UNCHANGED <<limitVars, accountVars, memberVars>>
     \/ focus = "limit" /\ RateLimitNext /\ UNCHANGED <<requestVars, accountVars, memberVars>>
     \/ focus = "account" /\ AccountsNext /\ UNCHANGED <<requestVars, limitVars, memberVars>>
     \/ focus \in {"members", "roles", "keys", "platform"}
        /\ \E t \in MemberCalls : MembersPart(t)
        /\ UNCHANGED <<requestVars, limitVars, accountVars>>

\* A process that is not lost goes on with its call; clients call again, a
\* bump that was begun goes on, and windows end.
Fairness ==
  /\ \A r \in Requests : WF_requestVars(focus = "requests" /\ Progress(r))
  /\ \A p \in Processes :
       /\ WF_limitVars(focus = "limit" /\ ArriveAtLimit(p, {"org", "user"}))
       /\ WF_limitVars(focus = "limit" /\ Bump(p))
  /\ \A s \in Stores, u \in Subjects : WF_limitVars(focus = "limit" /\ Expire(s, u))

TypeOK == RequestsTypeOK /\ RateLimitTypeOK /\ AccountsTypeOK /\ MembersTypeOK

\* A key in progress settles, and a full counter empties.
NothingStaysShut == KeysSettle /\ FullCountersEmpty

Spec == Init /\ [][Next]_vars /\ Fairness

\* Members alone, where everyone invited tries to sign in and to accept.
MemberSpec ==
  /\ Init /\ focus = "members" /\ [][Next]_vars
  /\ \A t \in MemberCalls :
       /\ WF_memberVars(\E i \in Invitations : acceptInvitation(t, i))
       /\ WF_memberVars(\E u \in People : issueMemberSession(t, u))
       /\ WF_memberVars(CommitSession(t) \/ CommitAcceptance(t))
=============================================================================
