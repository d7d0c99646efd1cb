------------------------------- MODULE Members -------------------------------
(***************************************************************************)
(* An organization's members: invitations, memberships, roles, custom      *)
(* roles, API keys, and the platform's own members.  Every call is a       *)
(* transaction that reads, decides, and writes, under READ COMMITTED and   *)
(* without locking what it has read: here the decision is one step and the *)
(* writes are another, with other transactions in between.                 *)
(***************************************************************************)
EXTENDS Integers, FiniteSets

CONSTANTS
  People,       \* e-mail addresses and the users registered under them
  Invitations,  \* rows of organization_invitations
  MemberCalls,  \* transactions that may be under way at once
  Founder,      \* the owner the organization was registered by
  Elsewhere     \* people who are members of another organization too

ASSUME MembersAssumption == Founder \in People /\ Elsewhere \subseteq People

VARIABLES
  account,      \* who has an account
  member,       \* organization_users: the status of each membership
  role,         \* user_roles of the organization
  customRole,   \* the permissions of the organization's custom role
  invitation,   \* organization_invitations
  memberSession,\* who has a session of the organization that was not revoked
  apiKey,       \* api_keys: one key
  platform,     \* platform users and the one platform invitation
  txn,          \* the transactions under way
  crossed,      \* history: people a login or an assignment of whom was under way when they left
  promoted      \* history: people made owner while their leaving was under way

memberVars == <<account, member, role, customRole, invitation, memberSession, apiKey,
                platform, txn, crossed, promoted>>

-----------------------------------------------------------------------------
(* Roles and permissions.  Two permissions of a merchant, one of the       *)
(* platform; a support agent holds the first.                              *)

MERCHANT_SYSTEM_ROLES == {"MERCHANT_OWNER", "MERCHANT_SUPPORT"}
PLATFORM_SYSTEM_ROLES == {"PLATFORM_OWNER", "PLATFORM_SUPPORT"}
Permissions == {"payments.read", "users.manage", "kyb.review"}

Custom == "custom"
Assignable == MERCHANT_SYSTEM_ROLES \cup {Custom}

rolePermissionCodes(r) ==
  CASE r = "MERCHANT_OWNER"   -> {"payments.read", "users.manage"}
    [] r = "MERCHANT_SUPPORT" -> {"payments.read"}
    [] r = Custom             -> customRole.permissions

loadPermissions(u) == UNION {rolePermissionCodes(r) : r \in role[u]}

isPermissionSubset(granted, requested) == requested \subseteq granted

merchantAssignable(codes) == "kyb.review" \notin codes

\* resolveSession: the session stands and its membership is active.
signedIn(u) == u \in memberSession /\ member[u] = "ACTIVE"

\* Whoever calls the members' routes: signed in, with the permission.
manages(a) == signedIn(a) /\ "users.manage" \in loadPermissions(a)

isOwner(u) == "MERCHANT_OWNER" \in role[u]

\* scopesToPermissions: a manage scope brings its read scope.
scopesToPermissions(scopes) ==
  scopes \cup (IF scopes \cap {"payments.manage"} # {} THEN {"payments.read"} ELSE {})

-----------------------------------------------------------------------------
NoTxn == [op |-> "none"]

MembersTypeOK ==
  /\ account \subseteq People
  /\ member \in [People -> {"none", "ACTIVE", "DISABLED", "REMOVED"}]
  /\ role \in [People -> SUBSET Assignable]
  /\ customRole \in [exists : BOOLEAN, permissions : SUBSET Permissions]
  /\ \A i \in Invitations :
       invitation[i].status \in {"none", "PENDING", "ACCEPTED", "REVOKED", "EXPIRED"}
  /\ memberSession \subseteq People
  /\ platform.user \in {"none", "ACTIVE", "DISABLED"}
  /\ apiKey \in [status : {"none", "ACTIVE", "REVOKED", "EXPIRED"}, late : BOOLEAN]

MembersInit ==
  /\ account = {Founder}
  /\ member = [u \in People |-> IF u = Founder THEN "ACTIVE" ELSE "none"]
  /\ role = [u \in People |-> IF u = Founder THEN {"MERCHANT_OWNER"} ELSE {}]
  /\ customRole = [exists |-> FALSE, permissions |-> {}]
  /\ invitation = [i \in Invitations |-> [status |-> "none"]]
  /\ memberSession = {}
  /\ apiKey = [status |-> "none", late |-> FALSE]
  /\ platform = [user |-> "none", invitation |-> "none"]
  /\ txn = [t \in MemberCalls |-> NoTxn]
  /\ crossed = {}
  /\ promoted = {}

-----------------------------------------------------------------------------
Under(op, u) == \E t \in MemberCalls : txn[t].op = op /\ txn[t].of = u

Start(t, op) == txn[t] = NoTxn /\ txn' = [txn EXCEPT ![t] = op]
Running(t, op) == txn[t].op = op /\ txn' = [txn EXCEPT ![t] = NoTxn]

Reads(t, op) ==
  /\ Start(t, op)
  /\ UNCHANGED <<account, member, role, customRole, invitation, memberSession,
                 apiKey, platform, crossed, promoted>>

-----------------------------------------------------------------------------
(* Sessions of the organization.                                           *)

\* issueSession: the membership is read, the session is inserted.
issueMemberSession(t, u) ==
  /\ member[u] = "ACTIVE"
  /\ Reads(t, [op |-> "login", of |-> u])

CommitSession(t) ==
  /\ Running(t, "login")
  /\ memberSession' = memberSession \cup {txn[t].of}
  /\ UNCHANGED <<account, member, role, customRole, invitation, apiKey, platform,
                 crossed, promoted>>

-----------------------------------------------------------------------------
(* Invitations.                                                            *)

\* Nobody who is an active member is invited.
createInvitation(t, a, i, u, r) ==
  /\ manages(a)
  /\ invitation[i].status = "none"
  /\ member[u] # "ACTIVE"
  /\ r = Custom => customRole.exists
  /\ Reads(t, [op |-> "invite", of |-> u, row |-> i, role |-> r])

\* The older invitations of the address are revoked.
CommitInvitation(t) ==
  LET u == txn[t].of IN
  /\ Running(t, "invite")
  /\ invitation[txn[t].row].status = "none"
  /\ invitation' = [i \in Invitations |->
       CASE i = txn[t].row -> [status |-> "PENDING", of |-> u, role |-> txn[t].role]
         [] i # txn[t].row /\ invitation[i].status = "PENDING" /\ invitation[i].of = u
              -> [invitation[i] EXCEPT !.status = "REVOKED"]
         [] OTHER -> invitation[i]]
  /\ UNCHANGED <<account, member, role, customRole, memberSession, apiKey,
                 platform, crossed, promoted>>

revokeInvitation(t, a, i) ==
  /\ manages(a)
  /\ invitation[i].status = "PENDING"
  /\ Reads(t, [op |-> "revoke", of |-> invitation[i].of, row |-> i])

CommitRevocation(t) ==
  /\ Running(t, "revoke")
  /\ invitation' = [invitation EXCEPT ![txn[t].row].status = "REVOKED"]
  /\ UNCHANGED <<account, member, role, customRole, memberSession, apiKey,
                 platform, crossed, promoted>>

\* Whose session optionalAuth finds behind the public route.
accepter(u) == signedIn(u) \/ u \in Elsewhere

\* The invited person comes with a session, or registers by accepting.
acceptInvitation(t, i) ==
  /\ invitation[i].status = "PENDING"
  /\ invitation[i].of \in account => accepter(invitation[i].of)
  /\ Reads(t, [op |-> "accept", of |-> invitation[i].of, row |-> i,
               role |-> invitation[i].role, registers |-> invitation[i].of \notin account])

Promotes(u, r) ==
  promoted' = IF r = "MERCHANT_OWNER" /\ (Under("remove", u) \/ Under("deactivate", u))
              THEN promoted \cup {u} ELSE promoted

\* The address taken meanwhile, or the role gone, undoes it all.
CommitAcceptance(t) ==
  LET u == txn[t].of
      r == txn[t].role
  IN /\ Running(t, "accept")
     /\ IF (txn[t].registers /\ u \in account) \/ (r = Custom /\ ~customRole.exists)
        THEN UNCHANGED <<account, member, role, invitation, promoted>>
        ELSE /\ account' = account \cup {u}
             /\ member' = [member EXCEPT ![u] = "ACTIVE"]
             /\ role' = [role EXCEPT ![u] = @ \cup {r}]
             /\ invitation' = [invitation EXCEPT ![txn[t].row].status = "ACCEPTED"]
             /\ Promotes(u, r)
     /\ UNCHANGED <<customRole, memberSession, apiKey, platform, crossed>>

InvitationExpires(i) ==
  /\ invitation[i].status = "PENDING"
  /\ invitation' = [invitation EXCEPT ![i].status = "EXPIRED"]
  /\ UNCHANGED <<account, member, role, customRole, memberSession, apiKey,
                 platform, txn, crossed, promoted>>

-----------------------------------------------------------------------------
(* Memberships.                                                            *)

\* Mutant: the owner is not looked for.
mayLeave_Owner(a, u) == a # u /\ member[u] \in {"ACTIVE", "DISABLED"}

\* Nobody deactivates or removes themselves or an owner.
mayLeave(a, u) ==
  /\ a # u
  /\ member[u] \in {"ACTIVE", "DISABLED"}
  /\ ~isOwner(u)

deactivateUser(t, a, u) ==
  /\ manages(a)
  /\ mayLeave(a, u)
  /\ member[u] = "ACTIVE"
  /\ Reads(t, [op |-> "deactivate", of |-> u])

removeMember(t, a, u) ==
  /\ manages(a)
  /\ mayLeave(a, u)
  /\ Reads(t, [op |-> "remove", of |-> u])

Leaves(u) ==
  /\ memberSession' = memberSession \ {u}
  /\ crossed' = IF Under("login", u) \/ Under("assign", u) THEN crossed \cup {u} ELSE crossed

CommitDeactivation(t) ==
  /\ Running(t, "deactivate")
  /\ member' = [member EXCEPT ![txn[t].of] = "DISABLED"]
  /\ Leaves(txn[t].of)
  /\ UNCHANGED <<account, role, customRole, invitation, apiKey, platform, promoted>>

\* Mutant: the roles of the member are kept.
CommitRemoval_KeepsRoles(t) ==
  /\ Running(t, "remove")
  /\ member' = [member EXCEPT ![txn[t].of] = "REMOVED"]
  /\ Leaves(txn[t].of)
  /\ UNCHANGED <<account, role, customRole, invitation, apiKey, platform, promoted>>

CommitRemoval(t) ==
  /\ Running(t, "remove")
  /\ member' = [member EXCEPT ![txn[t].of] = "REMOVED"]
  /\ role' = [role EXCEPT ![txn[t].of] = {}]
  /\ Leaves(txn[t].of)
  /\ UNCHANGED <<account, customRole, invitation, apiKey, platform, promoted>>

reactivateUser(t, a, u) ==
  /\ manages(a)
  /\ a # u
  /\ member[u] = "DISABLED"
  /\ ~isOwner(u)
  /\ Reads(t, [op |-> "reactivate", of |-> u])

\* The status is written over whatever it has become.
CommitReactivation(t) ==
  /\ Running(t, "reactivate")
  /\ member' = [member EXCEPT ![txn[t].of] = "ACTIVE"]
  /\ UNCHANGED <<account, role, customRole, invitation, memberSession, apiKey,
                 platform, crossed, promoted>>

-----------------------------------------------------------------------------
(* Roles.                                                                  *)

\* An active member is given one role, of permissions the caller holds; only
\* an owner makes an owner.
assignUserRole(t, a, u, r) ==
  /\ manages(a)
  /\ member[u] = "ACTIVE"
  /\ r = "MERCHANT_OWNER" => isOwner(a)
  /\ r = Custom => customRole.exists
  /\ isPermissionSubset(loadPermissions(a), rolePermissionCodes(r))
  /\ Reads(t, [op |-> "assign", of |-> u, role |-> r])

\* The member's merchant roles are deleted, the last owner's too.
CommitAssignment(t) ==
  LET u == txn[t].of
      r == txn[t].role
  IN /\ Running(t, "assign")
     /\ IF r = Custom /\ ~customRole.exists
        THEN UNCHANGED <<role, promoted>>
        ELSE role' = [role EXCEPT ![u] = {r}] /\ Promotes(u, r)
     /\ UNCHANGED <<account, member, customRole, invitation, memberSession, apiKey,
                    platform, crossed>>

createCustomRole(a, codes) ==
  /\ manages(a)
  /\ ~customRole.exists
  /\ codes # {}
  /\ isPermissionSubset(loadPermissions(a), codes)
  /\ merchantAssignable(codes)
  /\ customRole' = [exists |-> TRUE, permissions |-> codes]
  /\ UNCHANGED <<account, member, role, invitation, memberSession, apiKey,
                 platform, txn, crossed, promoted>>

updatePermissions(a, codes) ==
  /\ manages(a)
  /\ customRole.exists
  /\ isPermissionSubset(loadPermissions(a), codes)
  /\ merchantAssignable(codes)
  /\ customRole' = [customRole EXCEPT !.permissions = codes]
  /\ UNCHANGED <<account, member, role, invitation, memberSession, apiKey,
                 platform, txn, crossed, promoted>>

removeCustomRole(t, a) ==
  /\ manages(a)
  /\ customRole.exists
  /\ \A u \in People : Custom \notin role[u]
  /\ Reads(t, [op |-> "drop role", of |-> Founder])

\* The rows of user_roles go with the role.
CommitRoleRemoval(t) ==
  /\ Running(t, "drop role")
  /\ customRole' = [exists |-> FALSE, permissions |-> {}]
  /\ role' = [u \in People |-> role[u] \ {Custom}]
  /\ UNCHANGED <<account, member, invitation, memberSession, apiKey, platform,
                 crossed, promoted>>

-----------------------------------------------------------------------------
(* API keys.                                                               *)

createApiKey(a) ==
  /\ manages(a)
  /\ apiKey.status = "none"
  /\ apiKey' = [apiKey EXCEPT !.status = "ACTIVE"]
  /\ UNCHANGED <<account, member, role, customRole, invitation, memberSession,
                 platform, txn, crossed, promoted>>

revokeApiKey(a) ==
  /\ manages(a)
  /\ apiKey.status = "ACTIVE"
  /\ apiKey' = [apiKey EXCEPT !.status = "REVOKED"]
  /\ UNCHANGED <<account, member, role, customRole, invitation, memberSession,
                 platform, txn, crossed, promoted>>

ApiKeyTimePasses ==
  /\ apiKey.status = "ACTIVE"
  /\ apiKey' = [apiKey EXCEPT !.late = TRUE]
  /\ UNCHANGED <<account, member, role, customRole, invitation, memberSession,
                 platform, txn, crossed, promoted>>

\* A key whose time has passed is marked by the first call that brings it,
\* over a revocation of the meantime.
resolveSecret(t) ==
  /\ apiKey.status = "ACTIVE"
  /\ apiKey.late
  /\ Reads(t, [op |-> "expire key", of |-> Founder])

CommitExpiry(t) ==
  /\ Running(t, "expire key")
  /\ apiKey' = [apiKey EXCEPT !.status = "EXPIRED"]
  /\ UNCHANGED <<account, member, role, customRole, invitation, memberSession,
                 platform, crossed, promoted>>

-----------------------------------------------------------------------------
(* The platform's members: one of them, and one invitation.                *)

createPlatformInvitation ==
  /\ platform.user = "none"
  /\ platform' = [platform EXCEPT !.invitation = "PENDING"]
  /\ UNCHANGED <<account, member, role, customRole, invitation, memberSession,
                 apiKey, txn, crossed, promoted>>

acceptPlatformInvitation(t) ==
  /\ platform.invitation = "PENDING"
  /\ Reads(t, [op |-> "platform accept", of |-> Founder])

CommitPlatformAcceptance(t) ==
  /\ Running(t, "platform accept")
  /\ platform' = [user |-> IF platform.user = "none" THEN "ACTIVE" ELSE platform.user,
                  invitation |-> "ACCEPTED"]
  /\ UNCHANGED <<account, member, role, customRole, invitation, memberSession,
                 apiKey, crossed, promoted>>

revokePlatformInvitation(t) ==
  /\ platform.invitation = "PENDING"
  /\ Reads(t, [op |-> "platform revoke", of |-> Founder])

CommitPlatformRevocation(t) ==
  /\ Running(t, "platform revoke")
  /\ platform' = [platform EXCEPT !.invitation = "REVOKED"]
  /\ UNCHANGED <<account, member, role, customRole, invitation, memberSession,
                 apiKey, crossed, promoted>>

disablePlatformUser ==
  /\ platform.user = "ACTIVE"
  /\ platform' = [platform EXCEPT !.user = "DISABLED"]
  /\ UNCHANGED <<account, member, role, customRole, invitation, memberSession,
                 apiKey, txn, crossed, promoted>>

-----------------------------------------------------------------------------
\* Another transaction has won a conflict, or the connection was lost.
Rollback(t) ==
  /\ txn[t] # NoTxn
  /\ txn' = [txn EXCEPT ![t] = NoTxn]
  /\ UNCHANGED <<account, member, role, customRole, invitation, memberSession, apiKey,
                 platform, crossed, promoted>>

SessionNext(t) ==
  (\E u \in People : issueMemberSession(t, u)) \/ CommitSession(t) \/ Rollback(t)

AssignmentNext(t) ==
  \/ \E a, u \in People, r \in Assignable : assignUserRole(t, a, u, r)
  \/ CommitAssignment(t)

MembershipNext(t) ==
  \/ SessionNext(t) \/ AssignmentNext(t)
  \/ \E a, u \in People :
       \/ \E i \in Invitations, r \in Assignable : createInvitation(t, a, i, u, r)
       \/ deactivateUser(t, a, u) \/ removeMember(t, a, u) \/ reactivateUser(t, a, u)
  \/ \E i \in Invitations :
       \/ InvitationExpires(i) \/ acceptInvitation(t, i)
       \/ \E a \in People : revokeInvitation(t, a, i)
  \/ CommitInvitation(t) \/ CommitRevocation(t) \/ CommitAcceptance(t)
  \/ CommitDeactivation(t) \/ CommitRemoval(t) \/ CommitReactivation(t)

CustomRoleNext(t) ==
  \/ SessionNext(t) \/ AssignmentNext(t)
  \/ \E a \in People :
       \/ removeCustomRole(t, a)
       \/ \E codes \in SUBSET Permissions : createCustomRole(a, codes) \/ updatePermissions(a, codes)
  \/ CommitRoleRemoval(t)

KeyNext(t) ==
  \/ SessionNext(t)
  \/ \E a \in People : createApiKey(a) \/ revokeApiKey(a)
  \/ ApiKeyTimePasses \/ resolveSecret(t) \/ CommitExpiry(t)

PlatformNext(t) ==
  \/ createPlatformInvitation \/ disablePlatformUser \/ Rollback(t)
  \/ acceptPlatformInvitation(t) \/ CommitPlatformAcceptance(t)
  \/ revokePlatformInvitation(t) \/ CommitPlatformRevocation(t)

MembersNext ==
  \E t \in MemberCalls :
    MembershipNext(t) \/ CustomRoleNext(t) \/ KeyNext(t) \/ PlatformNext(t)

-----------------------------------------------------------------------------
(* Properties.                                                             *)

\* Who was removed holds no role, and who was removed or disabled no session,
\* unless a login or an assignment of theirs was under way when they left.
LeaversKeepNothing ==
  \A u \in People \ crossed :
    /\ member[u] = "REMOVED" => role[u] = {}
    /\ member[u] \in {"REMOVED", "DISABLED"} => u \notin memberSession

\* No membership of an owner is disabled or removed, unless they became owner
\* after it had been looked up whether they are.
OwnersStay ==
  [][\A u \in People :
       isOwner(u) /\ member[u] = "ACTIVE" /\ member'[u] \in {"DISABLED", "REMOVED"}
       => u \in promoted]_memberVars

\* "Closed memberships cannot be restored here -- send a new invitation": the
\* invitation of somebody who was removed comes to an end, or they return.
RemovedMembersReturn ==
  \A i \in Invitations :
    invitation[i].status = "PENDING" /\ member[invitation[i].of] = "REMOVED"
    ~> invitation[i].status # "PENDING" \/ member[invitation[i].of] # "REMOVED"
=============================================================================
