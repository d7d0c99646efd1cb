------------------------------ MODULE Accounts ------------------------------
(***************************************************************************)
(* One user account: registration, the verification of its address, login  *)
(* with a password and a second factor, sessions, password changes, and    *)
(* requests for a new second factor.  A login reads the row of the user    *)
(* once and acts on it in later transactions; no call locks what it reads. *)
(***************************************************************************)
EXTENDS Integers, FiniteSets

CONSTANTS
  Calls,             \* calls of the identity services, each made once
  LoginMaxAttempts,  \* LOGIN_MAX_ATTEMPTS (8)
  RequireVerification, \* requireEmailVerification
  MaxPassword        \* bound on the passwords the account has had

ASSUME AccountsAssumption ==
  /\ LoginMaxAttempts \in Nat \ {0}
  /\ MaxPassword \in Nat
  /\ RequireVerification \in BOOLEAN

VARIABLES
  user,       \* the row of users
  enters,     \* the user has an active membership or a platform role
  mailToken,  \* the last e-mail verification and password reset token
  totpRequest,\* mfa_totp_requests of the user: how many are PENDING
  call,       \* the calls under way
  challenge,  \* mfa_challenges, by the login that made them
  session,    \* sessions, by the call that was given one
  resets,     \* history: password resets
  shown,      \* history: the resets there had been when a login showed its password
  underway,   \* history: logins past the password check when a reset committed
  wrong,      \* history: wrong passwords since the count was last zero
  stale,      \* history: a count was written over one it had not read
  twice       \* history: challenges two calls have read at once

accountVars == <<user, enters, mailToken, totpRequest, call, challenge, session,
                 resets, shown, underway, wrong, stale, twice>>

-----------------------------------------------------------------------------
Fresh == [pc |-> "idle"]
Ended == [pc |-> "ended"]
NoAccount == [status |-> "none", verified |-> FALSE, password |-> 0, mfa |-> FALSE,
              failed |-> 0, locked |-> FALSE]
NoSession == [state |-> "none", login |-> "none"]

AccountsTypeOK ==
  /\ user \in [status : {"none", "ACTIVE", "DISABLED"}, verified : BOOLEAN,
               password : 0..MaxPassword, mfa : BOOLEAN,
               failed : 0..LoginMaxAttempts, locked : BOOLEAN]
  /\ mailToken \in [verify : {"none", "live", "consumed"}, reset : {"none", "live", "consumed"}]
  /\ \A c \in Calls : session[c].state \in {"none", "live", "revoked"}
  /\ challenge \in [Calls -> {"none", "live", "consumed"}]
  /\ underway \in SUBSET Calls
  /\ totpRequest \in 0..Cardinality(Calls)

AccountsInit ==
  /\ user = NoAccount
  /\ enters = FALSE
  /\ mailToken = [verify |-> "none", reset |-> "none"]
  /\ totpRequest = 0
  /\ call = [c \in Calls |-> Fresh]
  /\ challenge = [c \in Calls |-> "none"]
  /\ session = [c \in Calls |-> NoSession]
  /\ resets = 0
  /\ shown = [c \in Calls |-> 0]
  /\ underway = {}
  /\ wrong = 0
  /\ stale = FALSE
  /\ twice = {}

\* resolveSession: neither revoked nor expired, of an active user who is
\* still a member.
resolves(s) == session[s].state = "live" /\ user.status = "ACTIVE" /\ enters

Move(c, state) == call' = [call EXCEPT ![c] = state]

-----------------------------------------------------------------------------
(* The account.                                                            *)

\* provisionMfaAndEmail: a new account has a second factor from the start.
NewUser(verified) ==
  [NoAccount EXCEPT !.status = "ACTIVE", !.verified = verified, !.password = 1, !.mfa = TRUE]

register ==
  /\ user.status = "none"
  /\ user' = NewUser(FALSE)
  /\ enters' = TRUE
  /\ mailToken' = [mailToken EXCEPT !.verify = "live"]
  /\ UNCHANGED <<totpRequest, call, challenge, session, resets, shown, underway,
                 wrong, stale, twice>>

\* ensurePlatformOwner creates a verified account without a second factor.
ensurePlatformOwner ==
  /\ user' = IF user.status = "none" THEN [NewUser(TRUE) EXCEPT !.mfa = FALSE] ELSE user
  /\ enters' = TRUE
  /\ UNCHANGED <<mailToken, totpRequest, call, challenge, session, resets, shown,
                 underway, wrong, stale, twice>>

verifyEmail ==
  /\ mailToken.verify = "live"
  /\ mailToken' = [mailToken EXCEPT !.verify = "consumed"]
  /\ user' = [user EXCEPT !.verified = TRUE]
  /\ UNCHANGED <<enters, totpRequest, call, challenge, session, resets, shown,
                 underway, wrong, stale, twice>>

\* The older tokens are consumed, one takes their place.
resendVerification ==
  /\ user.status # "none"
  /\ ~user.verified
  /\ mailToken' = [mailToken EXCEPT !.verify = "live"]
  /\ UNCHANGED <<user, enters, totpRequest, call, challenge, session, resets,
                 shown, underway, wrong, stale, twice>>

requestPasswordReset ==
  /\ user.status = "ACTIVE"
  /\ mailToken' = [mailToken EXCEPT !.reset = "live"]
  /\ UNCHANGED <<user, enters, totpRequest, call, challenge, session, resets,
                 shown, underway, wrong, stale, twice>>

\* Logins that have shown their password and may still be given a session.
PastPassword ==
  {c \in Calls : challenge[c] = "live"}
  \cup {call[c].login : c \in {d \in Calls : call[d].pc \in {"challenge", "zero", "consume", "issue"}}}

\* Mutant: the sessions are left as they are.
revokeAll_None == session

revokeAll ==
  [c \in Calls |-> IF session[c].state = "live" THEN [session[c] EXCEPT !.state = "revoked"]
                   ELSE session[c]]

\* The token is read without a lock: two calls may both find it.
resetPassword(c) ==
  /\ call[c] = Fresh
  /\ mailToken.reset = "live"
  /\ Move(c, [pc |-> "reset"])
  /\ UNCHANGED <<user, enters, mailToken, totpRequest, challenge, session, resets,
                 shown, underway, wrong, stale, twice>>

CommitReset(c) ==
  /\ call[c].pc = "reset"
  /\ user.password < MaxPassword
  /\ mailToken' = [mailToken EXCEPT !.reset = "consumed"]
  /\ user' = [user EXCEPT !.password = @ + 1, !.failed = 0, !.locked = FALSE]
  /\ session' = revokeAll
  /\ resets' = resets + 1
  /\ underway' = underway \cup PastPassword
  /\ wrong' = 0
  /\ stale' = FALSE
  /\ Move(c, Ended)
  /\ UNCHANGED <<enters, totpRequest, challenge, shown, twice>>

\* With a session and the old password; the other sessions stay.
changePassword ==
  /\ user.password < MaxPassword
  /\ user.status = "ACTIVE"
  /\ \E s \in Calls : resolves(s)
  /\ user' = [user EXCEPT !.password = @ + 1]
  /\ UNCHANGED <<enters, mailToken, totpRequest, call, challenge, session,
                 resets, shown, underway, wrong, stale, twice>>

-----------------------------------------------------------------------------
(* Login.                                                                  *)

assertEmailVerifiedForLogin == RequireVerification => user.verified

\* The row is read outside every transaction; the password is compared with
\* what was read.
login(c, right) ==
  /\ call[c] = Fresh
  /\ user.status # "none"
  /\ Move(c, IF ~assertEmailVerifiedForLogin \/ user.status # "ACTIVE" \/ user.locked THEN Ended
             ELSE IF ~right THEN [pc |-> "wrong", failed |-> user.failed]
             ELSE [pc |-> IF user.mfa THEN "challenge" ELSE "zero", login |-> c])
  /\ shown' = [shown EXCEPT ![c] = resets]
  /\ UNCHANGED <<user, enters, mailToken, totpRequest, challenge, session,
                 resets, underway, wrong, stale, twice>>

locks(fails) == fails >= LoginMaxAttempts

\* The count is the one that was read, plus one.
WrongPassword(c) ==
  LET fails == call[c].failed + 1 IN
  /\ call[c].pc = "wrong"
  /\ user' = [user EXCEPT !.failed = IF locks(fails) THEN LoginMaxAttempts ELSE fails,
                          !.locked = locks(fails)]
  /\ wrong' = wrong + 1
  /\ stale' = (stale \/ user.failed # call[c].failed)
  /\ Move(c, Ended)
  /\ UNCHANGED <<enters, mailToken, totpRequest, challenge, session, resets,
                 shown, underway, twice>>

IssueChallenge(c) ==
  /\ call[c].pc = "challenge"
  /\ user' = [user EXCEPT !.failed = 0, !.locked = FALSE]
  /\ challenge' = [challenge EXCEPT ![c] = "live"]
  /\ wrong' = 0
  /\ stale' = FALSE
  /\ Move(c, Ended)
  /\ UNCHANGED <<enters, mailToken, totpRequest, session, resets, shown,
                 underway, twice>>

ResetFailures(c) ==
  /\ call[c].pc = "zero"
  /\ user' = [user EXCEPT !.failed = 0, !.locked = FALSE]
  /\ wrong' = 0
  /\ stale' = FALSE
  /\ Move(c, [pc |-> "issue", login |-> c])
  /\ UNCHANGED <<enters, mailToken, totpRequest, challenge, session, resets,
                 shown, underway, twice>>

answerable(l) == challenge[l] = "live"

\* The challenge and the user are read, the code is compared; a user whose
\* row is no longer ACTIVE, or a wrong code, ends it.
verifyMfaLogin(c, l, right) ==
  /\ call[c] = Fresh
  /\ c # l
  /\ answerable(l)
  /\ IF user.status = "ACTIVE" /\ right THEN Move(c, [pc |-> "consume", login |-> l])
                               ELSE Move(c, Ended)
  /\ twice' = IF \E d \in Calls : call[d].pc = "consume" /\ call[d].login = l
              THEN twice \cup {l} ELSE twice
  /\ UNCHANGED <<user, enters, mailToken, totpRequest, challenge, session,
                 resets, shown, underway, wrong, stale>>

\* The update does not look at how many rows it has changed.
ConsumeChallenge(c) ==
  /\ call[c].pc = "consume"
  /\ challenge' = [challenge EXCEPT ![call[c].login] = "consumed"]
  /\ Move(c, [pc |-> "issue", login |-> call[c].login])
  /\ UNCHANGED <<user, enters, mailToken, totpRequest, session, resets, shown,
                 underway, wrong, stale, twice>>

\* A session in an organization the user is an active member of, or a
\* platform session without one.
issueSession(c) ==
  /\ call[c].pc = "issue"
  /\ session' = IF enters THEN [session EXCEPT ![c] =
                    [state |-> "live", login |-> call[c].login]]
                ELSE session
  /\ Move(c, Ended)
  /\ UNCHANGED <<user, enters, mailToken, totpRequest, challenge, resets, shown,
                 underway, wrong, stale, twice>>

ChallengeExpires(l) ==
  /\ challenge[l] = "live"
  /\ challenge' = [challenge EXCEPT ![l] = "consumed"]
  /\ UNCHANGED <<user, enters, mailToken, totpRequest, call, session, resets,
                 shown, underway, wrong, stale, twice>>

\* The lock ends after its minutes; the count stays.
LockEnds ==
  /\ user.locked
  /\ user' = [user EXCEPT !.locked = FALSE]
  /\ wrong' = 0
  /\ stale' = FALSE
  /\ UNCHANGED <<enters, mailToken, totpRequest, call, challenge, session,
                 resets, shown, underway, twice>>

-----------------------------------------------------------------------------
(* Sessions and the second factor.                                         *)

logout(s) ==
  /\ session[s].state = "live"
  /\ session' = [session EXCEPT ![s].state = "revoked"]
  /\ UNCHANGED <<user, enters, mailToken, totpRequest, call, challenge, resets, shown,
                 underway, wrong, stale, twice>>

enableMfa ==
  /\ \E s \in Calls : resolves(s)
  /\ user' = [user EXCEPT !.mfa = TRUE]
  /\ UNCHANGED <<enters, mailToken, totpRequest, call, challenge, session, resets, shown,
                 underway, wrong, stale, twice>>

\* The request that is pending is looked for before the transaction.
createRequest(c) ==
  /\ call[c] = Fresh
  /\ \E s \in Calls : resolves(s)
  /\ totpRequest = 0
  /\ Move(c, [pc |-> "request"])
  /\ UNCHANGED <<user, enters, mailToken, totpRequest, challenge, session, resets, shown,
                 underway, wrong, stale, twice>>

InsertRequest(c) ==
  /\ call[c].pc = "request"
  /\ totpRequest' = totpRequest + 1
  /\ Move(c, Ended)
  /\ UNCHANGED <<user, enters, mailToken, challenge, session, resets, shown, underway,
                 wrong, stale, twice>>

approve ==
  /\ totpRequest > 0
  /\ totpRequest' = totpRequest - 1
  /\ user' = [user EXCEPT !.mfa = TRUE]
  /\ UNCHANGED <<enters, mailToken, call, challenge, session, resets, shown, underway,
                 wrong, stale, twice>>

deny ==
  /\ totpRequest > 0
  /\ totpRequest' = totpRequest - 1
  /\ UNCHANGED <<user, enters, mailToken, call, challenge, session, resets, shown,
                 underway, wrong, stale, twice>>

deactivatePlatformUser ==
  /\ user.status = "ACTIVE"
  /\ user' = [user EXCEPT !.status = "DISABLED"]
  /\ session' = revokeAll
  /\ UNCHANGED <<enters, mailToken, totpRequest, call, challenge, resets, shown, underway,
                 wrong, stale, twice>>

\* The last membership of the user ends or begins (Members).
MembershipChanges ==
  /\ user.status # "none"
  /\ enters' = ~enters
  /\ UNCHANGED <<user, mailToken, totpRequest, call, challenge, session, resets, shown,
                 underway, wrong, stale, twice>>

-----------------------------------------------------------------------------
Login(c) ==
  \/ \E right \in BOOLEAN : login(c, right) \/ \E l \in Calls : verifyMfaLogin(c, l, right)
  \/ WrongPassword(c) \/ IssueChallenge(c) \/ ResetFailures(c)
  \/ ConsumeChallenge(c) \/ issueSession(c)

AccountsNext ==
  \/ register \/ ensurePlatformOwner \/ verifyEmail \/ resendVerification
  \/ requestPasswordReset \/ changePassword
  \/ \E c \in Calls :
       \/ Login(c) \/ resetPassword(c) \/ CommitReset(c)
       \/ createRequest(c) \/ InsertRequest(c) \/ ChallengeExpires(c) \/ logout(c)
  \/ LockEnds \/ enableMfa \/ approve \/ deny
  \/ deactivatePlatformUser \/ MembershipChanges

-----------------------------------------------------------------------------
(* Properties.                                                             *)

\* A password reset ends every session opened with an older password, but for
\* the logins that were past the password check when it committed.
ResetEndsSessions ==
  \A s \in Calls : session[s].state = "live" =>
    LET l == session[s].login IN shown[l] = resets \/ l \in underway

\* A login gives one session, unless two calls had read its challenge before
\* either consumed it.
OneSessionPerLogin ==
  \A s, t \in Calls :
    session[s].state # "none" /\ session[t].state # "none" /\ session[s].login = session[t].login
    => s = t \/ session[s].login \in twice

\* So many wrong passwords in a row lock the account, unless one of them wrote
\* a count over another it had not read.
WrongPasswordsLock == wrong >= LoginMaxAttempts /\ ~stale => user.locked

LoginsHold == ResetEndsSessions /\ OneSessionPerLogin /\ WrongPasswordsLock
=============================================================================
