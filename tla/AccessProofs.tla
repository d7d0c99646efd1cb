---------------------------- MODULE AccessProofs ----------------------------
(***************************************************************************)
(* Theorems about the limiter, one account, an organization's members and  *)
(* the calls of an operation, for any number of processes, calls, people,  *)
(* transactions, keys and tokens.                                          *)
(***************************************************************************)
EXTENDS Requests, RateLimit, Accounts, Members, FiniteSetTheorems, TLAPS

-----------------------------------------------------------------------------
(***************************************************************************)
(* The limiter.                                                            *)
(***************************************************************************)

Counters == [count : 0..(WindowLimit + 1), expires : BOOLEAN]

LEMMA LimitIsNatural == WindowLimit \in Nat
<1>1. WindowLimit \in Nat \ {0}
  BY RateLimitAssumption, Zenon
<1>2. QED
  BY <1>1

LEMMA NoProcessIsShared == "shared" \notin Processes
  BY RateLimitAssumption, Zenon

LEMMA NoCounterIsCounter == NoCounter \in Counters /\ NoCounter.count = 0
<1>1. 0 \in 0..(WindowLimit + 1)
  BY LimitIsNatural
<1>2. QED
  BY <1>1 DEF NoCounter, Counters

LEMMA CountIsNatural == ASSUME NEW c \in Counters PROVE c.count \in Nat
<1>1. c.count \in 0..(WindowLimit + 1)
  BY DEF Counters
<1>2. QED
  BY <1>1, LimitIsNatural

\* A bump counts one more, up to the first count above the limit.
LEMMA BumpCounts ==
  ASSUME NEW c \in Counters
  PROVE  /\ Bumped(c) \in Counters
         /\ Bumped(c).count >= c.count
         /\ allowed(Bumped(c).count) => Bumped(c).count = c.count + 1
<1> DEFINE n == IF c.count > WindowLimit THEN c.count ELSE c.count + 1
<1>1. c.count \in 0..(WindowLimit + 1)
  BY DEF Counters
<1>2. /\ n \in 0..(WindowLimit + 1)
      /\ n >= c.count
      /\ n <= WindowLimit => n = c.count + 1
  BY <1>1, LimitIsNatural
<1>3. Bumped(c) = [c EXCEPT !.count = n]
  BY DEF Bumped
<1> HIDE DEF n
<1>4. [c EXCEPT !.count = n] \in Counters /\ [c EXCEPT !.count = n].count = n
  BY <1>2 DEF Counters
<1>5. QED
  BY <1>2, <1>3, <1>4 DEF allowed

\* Where Redis counts, what was let through was counted there and was within
\* the limit.
LimitInv ==
  /\ setting \in StoreSettings
  /\ backend # "refused"
  /\ counter \in [Stores -> [Subjects -> Counters]]
  /\ passed \in [Subjects -> Nat]
  /\ backend = "redis" =>
       \A u \in Subjects : passed[u] <= counter["shared"][u].count /\ passed[u] <= WindowLimit

LEMMA LimitInit == RateLimitInit => LimitInv
<1> SUFFICES ASSUME RateLimitInit PROVE LimitInv
  OBVIOUS
<1>1. NoCounter \in Counters /\ NoCounter.count = 0 /\ WindowLimit \in Nat
  BY NoCounterIsCounter, LimitIsNatural
<1>2. "shared" \in Stores
  BY DEF Stores
<1>3. QED
  BY <1>1, <1>2 DEF RateLimitInit, LimitInv, backend

LEMMA PassedStaysTyped ==
  ASSUME NEW u, NEW n, passed \in [Subjects -> Nat],
         passed' = IF allowed(n) THEN [passed EXCEPT ![u] = @ + 1] ELSE passed
  PROVE  passed' \in [Subjects -> Nat]
<1>1. [passed EXCEPT ![u] = @ + 1] \in [Subjects -> Nat]
  <2> DEFINE more == passed[u] + 1
  <2>1. u \in Subjects => more \in Nat
    OBVIOUS
  <2>2. [passed EXCEPT ![u] = @ + 1] = [passed EXCEPT ![u] = more]
    BY Zenon
  <2> HIDE DEF more
  <2>3. QED
    BY <2>1, <2>2
<1>2. QED
  BY <1>1, Zenon

LEMMA LimitStep ==
  ASSUME LimitInv, [RateLimitNext]_limitVars
  PROVE  LimitInv'
<1>1. "shared" \in Stores /\ \A p \in Processes : p \in Stores /\ p # "shared"
  BY NoProcessIsShared DEF Stores
<1>2. \A c \in Counters : /\ Bumped(c) \in Counters
                          /\ Bumped(c).count >= c.count
                          /\ allowed(Bumped(c).count) => Bumped(c).count = c.count + 1
  BY BumpCounts
<1>3. NoCounter \in Counters /\ NoCounter.count = 0
  BY NoCounterIsCounter
<1>4. CASE UNCHANGED limitVars
  BY <1>4 DEF limitVars, LimitInv, backend
<1>5. ASSUME UNCHANGED <<setting, counter, passed>> PROVE LimitInv'
  BY <1>5 DEF LimitInv, backend
<1>6. ASSUME NEW p \in Processes,
             (\E known \in SUBSET {"org", "user"} : ArriveAtLimit(p, known)) \/ Answer(p)
      PROVE  LimitInv'
  BY <1>5, <1>6 DEF ArriveAtLimit, Answer
<1>7. ASSUME NEW p \in Processes, BumpMemory(p) PROVE LimitInv'
  <2> DEFINE u == Head(proc[p].checks)
             c == Bumped(counter[p][u])
             d == [count |-> c.count, expires |-> TRUE]
  <2>1. /\ backend = "memory" /\ UNCHANGED setting
        /\ counter' = [counter EXCEPT ![p][u] = d]
        /\ passed' = IF allowed(c.count) THEN [passed EXCEPT ![u] = @ + 1] ELSE passed
    BY <1>7 DEF BumpMemory, Answered
  <2>2. u \in Subjects => d \in Counters
    <3> SUFFICES ASSUME u \in Subjects PROVE d \in Counters
      OBVIOUS
    <3>1. counter[p][u] \in Counters
      BY <1>1 DEF LimitInv
    <3>2. c \in Counters
      BY <1>2, <3>1
    <3> HIDE DEF c
    <3>3. QED
      BY <3>2 DEF Counters
  <2> HIDE DEF u, d
  <2>3. counter' \in [Stores -> [Subjects -> Counters]]
    BY <1>1, <2>1, <2>2 DEF LimitInv
  <2>4. passed' \in [Subjects -> Nat]
    BY <2>1, PassedStaysTyped DEF LimitInv
  <2>5. QED
    BY <2>1, <2>3, <2>4 DEF LimitInv, backend
<1>8. ASSUME NEW p \in Processes, Incr(p) PROVE LimitInv'
  <2> DEFINE u == Head(proc[p].checks)
             c == Bumped(counter["shared"][u])
  <2>1. /\ UNCHANGED setting
        /\ counter' = [counter EXCEPT !["shared"][u] = c]
        /\ passed' = IF allowed(c.count) THEN [passed EXCEPT ![u] = @ + 1] ELSE passed
    BY <1>8 DEF Incr, Answered
  <2>2. ASSUME u \in Subjects
        PROVE  /\ c \in Counters
               /\ c.count >= counter["shared"][u].count
               /\ allowed(c.count) => c.count = counter["shared"][u].count + 1
    BY <1>1, <1>2, <2>2 DEF LimitInv
  <2> HIDE DEF u, c
  <2>3. counter' \in [Stores -> [Subjects -> Counters]]
    BY <1>1, <2>1, <2>2 DEF LimitInv
  <2>4. passed' \in [Subjects -> Nat]
    BY <2>1, PassedStaysTyped DEF LimitInv
  <2>5. ASSUME backend = "redis", NEW v \in Subjects
        PROVE  passed'[v] <= counter'["shared"][v].count /\ passed'[v] <= WindowLimit
    <3>1. passed[v] <= counter["shared"][v].count /\ passed[v] <= WindowLimit
      BY <2>5 DEF LimitInv
    <3>2. counter["shared"][v] \in Counters /\ passed[v] \in Nat
      BY <1>1 DEF LimitInv
    <3>3. counter'["shared"][v] = IF u = v THEN c ELSE counter["shared"][v]
      BY <1>1, <2>1 DEF LimitInv
    <3>4. passed'[v] = IF u = v /\ allowed(c.count) THEN passed[v] + 1 ELSE passed[v]
      BY <2>1 DEF LimitInv
    <3>5. counter["shared"][v].count \in Nat /\ WindowLimit \in Nat
      BY <3>2, CountIsNatural, LimitIsNatural
    <3>6. CASE u = v
      <4>1. c \in Counters /\ c.count \in Nat
        BY <2>2, <3>6, CountIsNatural
      <4>2. /\ c.count >= counter["shared"][v].count
            /\ c.count <= WindowLimit => c.count = counter["shared"][v].count + 1
        BY <2>2, <3>6 DEF allowed
      <4>3. /\ counter'["shared"][v].count = c.count
            /\ passed'[v] = IF c.count <= WindowLimit THEN passed[v] + 1 ELSE passed[v]
        BY <3>3, <3>4, <3>6 DEF allowed
      <4>4. QED
        BY <3>1, <3>2, <3>5, <4>1, <4>2, <4>3
    <3>7. CASE u # v
      BY <3>1, <3>3, <3>4, <3>7
    <3>8. QED
      BY <3>6, <3>7
  <2>6. QED
    BY <2>1, <2>3, <2>4, <2>5 DEF LimitInv, backend
<1>9. ASSUME NEW p \in Processes, PExpire(p) \/ PTtl(p) PROVE LimitInv'
  <2>1. /\ UNCHANGED <<setting, passed>>
        /\ Expiring(Head(proc[p].checks)) \/ UNCHANGED counter
    BY <1>9 DEF PExpire, PTtl
  <2>2. CASE UNCHANGED counter
    BY <1>5, <2>1, <2>2
  <2>3. CASE Expiring(Head(proc[p].checks))
    <3> DEFINE u == Head(proc[p].checks)
               e == counter["shared"][u].count > 0
    <3>1. counter' = [counter EXCEPT !["shared"][u].expires = e]
      BY <2>3 DEF Expiring
    <3>2. e \in BOOLEAN
      OBVIOUS
    <3> HIDE DEF u, e
    <3>3. counter' \in [Stores -> [Subjects -> Counters]]
      <4>1. ASSUME u \in Subjects
            PROVE  [counter["shared"][u] EXCEPT !.expires = e] \in Counters
        <5>1. counter["shared"][u] \in Counters
          BY <1>1, <4>1 DEF LimitInv
        <5>2. QED
          BY <3>2, <5>1 DEF Counters
      <4>2. QED
        BY <1>1, <3>1, <4>1 DEF LimitInv
    <3>4. \A v \in Subjects : counter'["shared"][v].count = counter["shared"][v].count
      BY <1>1, <3>1 DEF LimitInv
    <3>5. QED
      BY <2>1, <3>3, <3>4 DEF LimitInv, backend
  <2>4. QED
    BY <2>1, <2>2, <2>3
<1>10. ASSUME NEW s \in Stores, NEW u \in Subjects, Expire(s, u) PROVE LimitInv'
  <2>1. /\ UNCHANGED setting
        /\ counter' = [counter EXCEPT ![s][u] = NoCounter]
        /\ passed' = [passed EXCEPT ![u] = 0]
    BY <1>10 DEF Expire
  <2>2. counter' \in [Stores -> [Subjects -> Counters]] /\ passed' \in [Subjects -> Nat]
    BY <1>3, <2>1 DEF LimitInv
  <2>3. \A v \in Subjects :
          /\ passed'[v] = IF v = u THEN 0 ELSE passed[v]
          /\ v # u => counter'["shared"][v] = counter["shared"][v]
    BY <1>1, <2>1 DEF LimitInv
  <2>4. counter'["shared"][u].count \in Nat /\ WindowLimit \in Nat
    BY <1>1, <2>2, CountIsNatural, LimitIsNatural
  <2>5. ASSUME backend = "redis", NEW v \in Subjects
        PROVE  passed'[v] <= counter'["shared"][v].count /\ passed'[v] <= WindowLimit
    BY <2>3, <2>4, <2>5 DEF LimitInv
  <2>6. QED
    BY <2>1, <2>2, <2>5 DEF LimitInv, backend
<1>11. ASSUME NEW p \in Processes, LoseProcess(p) PROVE LimitInv'
  <2>1. /\ UNCHANGED <<setting, passed>>
        /\ counter' = [counter EXCEPT ![p] = [u \in Subjects |-> NoCounter]]
    BY <1>11 DEF LoseProcess
  <2>2. counter' \in [Stores -> [Subjects -> Counters]]
    BY <1>3, <2>1 DEF LimitInv
  <2>3. counter'["shared"] = counter["shared"]
    BY <1>1, <2>1 DEF LimitInv
  <2>4. QED
    BY <2>1, <2>2, <2>3 DEF LimitInv, backend
<1>12. QED
  BY <1>4, <1>6, <1>7, <1>8, <1>9, <1>10, <1>11 DEF RateLimitNext, Bump

\* In production every process counts in the one Redis, and what all of them
\* together let through in a window stays within the limit, also when processes
\* are lost between two commands and windows end at any moment.
THEOREM ProductionLimit ==
  RateLimitInit /\ [][RateLimitNext]_limitVars => []ProductionLimitHolds
<1>1. LimitInv => ProductionLimitHolds
  <2> SUFFICES ASSUME LimitInv, setting.production, NEW u \in Subjects
               PROVE  passed[u] <= WindowLimit
    BY DEF ProductionLimitHolds
  <2>1. backend = "redis"
    BY RateLimitAssumption DEF LimitInv, backend, resolveRateLimitBackend
  <2>2. QED
    BY <2>1 DEF LimitInv
<1>2. QED
  BY <1>1, LimitInit, LimitStep, PTL

-----------------------------------------------------------------------------
(***************************************************************************)
(* One account.                                                            *)
(***************************************************************************)

UserRows ==
  [status : {"none", "ACTIVE", "DISABLED"}, verified : BOOLEAN, password : Nat,
   mfa : BOOLEAN, failed : 0..LoginMaxAttempts, locked : BOOLEAN]

\* The calls that hold the password of a login of the account.
Past == {"challenge", "zero", "consume", "issue"}

CallStates ==
  {Fresh, Ended, [pc |-> "reset"], [pc |-> "request"]}
  \cup [pc : {"wrong"}, failed : 0..LoginMaxAttempts]
  \cup [pc : Past, login : Calls]

SessionRows == [state : {"none", "live", "revoked"}, login : Calls \cup {"none"}]

AccountTypes ==
  /\ user \in UserRows
  /\ call \in [Calls -> CallStates]
  /\ \A c \in Calls : call[c].pc \in {"challenge", "zero"} => call[c].login = c
  /\ challenge \in [Calls -> {"none", "live", "consumed"}]
  /\ session \in [Calls -> SessionRows]
  /\ \A s \in Calls : session[s].state # "none" => session[s].login \in Calls
  /\ shown \in [Calls -> Nat]
  /\ resets \in Nat
  /\ wrong \in Nat

\* Whoever holds the password of a login, a call, a challenge or a session
\* that is live, has it from a login that showed the present password, or was
\* past that check when it was reset.
Recent(l) == shown[l] = resets \/ l \in underway

RecentInv ==
  /\ \A l \in Calls : challenge[l] = "live" => Recent(l)
  /\ \A c \in Calls : call[c].pc \in Past => Recent(call[c].login)
  /\ \A s \in Calls : session[s].state = "live" => Recent(session[s].login)

\* A challenge is read before a session comes of it: until then the call that
\* has read it holds the login, from then on the session does.
Issuing(c, l) == call[c].pc = "issue" /\ call[c].login = l
Consuming(c, l) == call[c].pc = "consume" /\ call[c].login = l
Opened(c, l) == session[c].state # "none" /\ session[c].login = l
Holds(c, l) == Issuing(c, l) \/ Consuming(c, l) \/ Opened(c, l)

HolderInv ==
  \A l \in Calls :
    /\ l \notin twice => \A c, d \in Calls : Holds(c, l) /\ Holds(d, l) => c = d
    /\ l \notin twice /\ challenge[l] = "live" =>
         \A c \in Calls : ~Issuing(c, l) /\ ~Opened(c, l)
    /\ call[l].pc \in {"idle", "challenge", "zero"} =>
         challenge[l] = "none" /\ \A c \in Calls : ~Holds(c, l)

\* The count the row has is at least that of the wrong passwords, as long as no
\* call has written over what it had not read.
CountInv ==
  /\ user.locked => user.failed = LoginMaxAttempts
  /\ ~stale /\ ~user.locked => wrong <= user.failed /\ wrong < LoginMaxAttempts
  /\ user.status = "none" => wrong = 0

WrongInv == user.status = "none" => \A c \in Calls : call[c].pc # "wrong"

AccountInv == AccountTypes /\ RecentInv /\ HolderInv /\ CountInv /\ WrongInv

LEMMA StateFields ==
  ASSUME NEW k \in CallStates
  PROVE  /\ k.pc \in Past => k.login \in Calls
         /\ k.pc = "wrong" => k.failed \in 0..LoginMaxAttempts
  BY DEF CallStates, Fresh, Ended, Past

LEMMA StateShapes ==
  /\ Fresh.pc = "idle"
  /\ Ended \in CallStates /\ Ended.pc = "ended"
  /\ [pc |-> "reset"] \in CallStates /\ [pc |-> "request"] \in CallStates
  /\ \A n \in 0..LoginMaxAttempts : [pc |-> "wrong", failed |-> n] \in CallStates
  /\ \A p \in Past, l \in Calls : [pc |-> p, login |-> l] \in CallStates
<1>1. \A n \in 0..LoginMaxAttempts :
        [pc |-> "wrong", failed |-> n] \in [pc : {"wrong"}, failed : 0..LoginMaxAttempts]
  OBVIOUS
<1>2. \A p \in Past, l \in Calls : [pc |-> p, login |-> l] \in [pc : Past, login : Calls]
  OBVIOUS
<1>3. QED
  BY <1>1, <1>2, Zenon DEF CallStates, Fresh, Ended

\* Where a call moves, the other calls stand still.
LEMMA Moves ==
  ASSUME call \in [Calls -> CallStates], NEW c \in Calls, NEW k \in CallStates, Move(c, k)
  PROVE  /\ call' \in [Calls -> CallStates]
         /\ \A d \in Calls : call'[d] = IF d = c THEN k ELSE call[d]
  BY DEF Move

LEMMA AttemptsAreCounted == LoginMaxAttempts \in Nat /\ LoginMaxAttempts > 0
<1>1. LoginMaxAttempts \in Nat \ {0}
  BY AccountsAssumption, Zenon
<1>2. QED
  BY <1>1

LEMMA NewRows ==
  /\ NoAccount \in UserRows
  /\ \A v \in BOOLEAN : NewUser(v) \in UserRows
  /\ \A v \in BOOLEAN : [NewUser(v) EXCEPT !.mfa = FALSE] \in UserRows
<1>1. 0 \in 0..LoginMaxAttempts
  BY AttemptsAreCounted
<1>2. NoAccount \in UserRows
  BY <1>1, Zenon DEF NoAccount, UserRows
<1>3. ASSUME NEW v \in BOOLEAN PROVE NewUser(v) \in UserRows
  BY <1>2 DEF NewUser, UserRows
<1>4. ASSUME NEW v \in BOOLEAN PROVE [NewUser(v) EXCEPT !.mfa = FALSE] \in UserRows
  BY <1>3 DEF UserRows
<1>5. QED
  BY <1>2, <1>3, <1>4

\* The rows that the writes of the account leave.
LEMMA RowsKept ==
  ASSUME NEW row \in UserRows
  PROVE  /\ [row EXCEPT !.verified = TRUE] \in UserRows
         /\ [row EXCEPT !.mfa = TRUE] \in UserRows
         /\ [row EXCEPT !.locked = FALSE] \in UserRows
         /\ [row EXCEPT !.status = "DISABLED"] \in UserRows
         /\ [row EXCEPT !.password = @ + 1] \in UserRows
         /\ [row EXCEPT !.failed = 0, !.locked = FALSE] \in UserRows
         /\ [row EXCEPT !.password = @ + 1, !.failed = 0, !.locked = FALSE] \in UserRows
         /\ \A n \in 0..LoginMaxAttempts, b \in BOOLEAN :
              [row EXCEPT !.failed = n, !.locked = b] \in UserRows
<1>1. 0 \in 0..LoginMaxAttempts /\ row.password + 1 \in Nat
  BY AttemptsAreCounted DEF UserRows
<1>2. /\ [row EXCEPT !.verified = TRUE] \in UserRows
      /\ [row EXCEPT !.mfa = TRUE] \in UserRows
      /\ [row EXCEPT !.locked = FALSE] \in UserRows
      /\ [row EXCEPT !.status = "DISABLED"] \in UserRows
  BY DEF UserRows
<1>3. [row EXCEPT !.password = @ + 1] \in UserRows
  BY <1>1 DEF UserRows
<1>4. [row EXCEPT !.failed = 0, !.locked = FALSE] \in UserRows
  BY <1>1 DEF UserRows
<1>5. [row EXCEPT !.password = @ + 1, !.failed = 0, !.locked = FALSE] \in UserRows
  BY <1>1 DEF UserRows
<1>6. ASSUME NEW n \in 0..LoginMaxAttempts, NEW b \in BOOLEAN
      PROVE  [row EXCEPT !.failed = n, !.locked = b] \in UserRows
  BY DEF UserRows
<1>7. QED
  BY <1>2, <1>3, <1>4, <1>5, <1>6

\* The actions that neither move a call nor touch a challenge or a session.
RowOnly ==
  \/ register \/ ensurePlatformOwner \/ verifyEmail \/ resendVerification
  \/ requestPasswordReset \/ changePassword \/ LockEnds \/ enableMfa
  \/ approve \/ deny \/ MembershipChanges

LEMMA RowOnlyLeaves ==
  ASSUME RowOnly
  PROVE  UNCHANGED <<call, challenge, session, resets, shown, underway, twice>>
  BY DEF RowOnly, register, ensurePlatformOwner, verifyEmail, resendVerification,
         requestPasswordReset, changePassword, LockEnds, enableMfa, approve, deny,
         MembershipChanges

\* The calls that hold no login's password go from one state to another.
OtherMoves(c) == resetPassword(c) \/ createRequest(c) \/ InsertRequest(c) \/ WrongPassword(c)

LEMMA OtherMovesMove ==
  ASSUME NEW c \in Calls, OtherMoves(c)
  PROVE  /\ \E k \in {Ended, [pc |-> "reset"], [pc |-> "request"]} : Move(c, k)
         /\ UNCHANGED <<challenge, session, resets, shown, underway, twice>>
  BY DEF OtherMoves, resetPassword, createRequest, InsertRequest, WrongPassword

\* A step of the account is one of these.
LEMMA AccountSteps ==
  ASSUME AccountsNext
  PROVE  \/ RowOnly
         \/ deactivatePlatformUser
         \/ \E c \in Calls :
              \/ OtherMoves(c) \/ CommitReset(c) \/ IssueChallenge(c) \/ ResetFailures(c)
              \/ ConsumeChallenge(c) \/ issueSession(c) \/ ChallengeExpires(c) \/ logout(c)
              \/ \E right \in BOOLEAN : login(c, right)
              \/ \E l \in Calls, right \in BOOLEAN : verifyMfaLogin(c, l, right)
  BY Zenon DEF AccountsNext, Login, RowOnly, OtherMoves

\* The state a login goes to.
LEMMA LoginMoves ==
  ASSUME AccountTypes, NEW c \in Calls, NEW right \in BOOLEAN, login(c, right)
  PROVE  \E k \in CallStates :
           /\ Move(c, k)
           /\ \/ k.pc = "ended"
              \/ k.pc = "wrong" /\ k.failed = user.failed /\ user.status = "ACTIVE" /\ ~user.locked
              \/ k.pc \in {"challenge", "zero"} /\ k.login = c
<1>1. user.failed \in 0..LoginMaxAttempts
  BY DEF AccountTypes, UserRows
<1>2. \/ Move(c, Ended)
      \/ Move(c, [pc |-> "wrong", failed |-> user.failed]) /\ user.status = "ACTIVE" /\ ~user.locked
      \/ Move(c, [pc |-> "challenge", login |-> c])
      \/ Move(c, [pc |-> "zero", login |-> c])
  <2> DEFINE k ==
        IF ~assertEmailVerifiedForLogin \/ user.status # "ACTIVE" \/ user.locked THEN Ended
        ELSE IF ~right THEN [pc |-> "wrong", failed |-> user.failed]
        ELSE [pc |-> IF user.mfa THEN "challenge" ELSE "zero", login |-> c]
  <2>1. Move(c, k)
    BY DEF login
  <2>2. \/ k = Ended
        \/ k = [pc |-> "wrong", failed |-> user.failed] /\ user.status = "ACTIVE" /\ ~user.locked
        \/ k = [pc |-> "challenge", login |-> c]
        \/ k = [pc |-> "zero", login |-> c]
    OBVIOUS
  <2>3. QED
    BY <2>1, <2>2, Zenon
<1>3. \A p \in {"challenge", "zero"} : [pc |-> p, login |-> c] \in CallStates
  BY StateShapes DEF Past
<1>4. QED
  BY <1>1, <1>2, <1>3, StateShapes

\* The sessions after all of them have been revoked.
LEMMA Revoked ==
  ASSUME session \in [Calls -> SessionRows]
  PROVE  /\ revokeAll \in [Calls -> SessionRows]
         /\ \A s \in Calls : /\ revokeAll[s].state # "live"
                             /\ revokeAll[s].login = session[s].login
                             /\ revokeAll[s].state = "none" <=> session[s].state = "none"
<1>1. ASSUME NEW s \in Calls
      PROVE  /\ revokeAll[s] \in SessionRows
             /\ revokeAll[s].state # "live"
             /\ revokeAll[s].login = session[s].login
             /\ revokeAll[s].state = "none" <=> session[s].state = "none"
  <2>1. session[s] \in SessionRows
    OBVIOUS
  <2>2. revokeAll[s] = IF session[s].state = "live" THEN [session[s] EXCEPT !.state = "revoked"]
                       ELSE session[s]
    BY DEF revokeAll
  <2>3. QED
    BY <2>1, <2>2 DEF SessionRows
<1>2. revokeAll = [s \in Calls |-> revokeAll[s]]
  BY DEF revokeAll
<1>3. QED
  BY <1>1, <1>2, Zenon

LEMMA UserStaysTyped ==
  ASSUME AccountTypes, AccountsNext
  PROVE  user' \in UserRows
<1>1. user \in UserRows
  BY DEF AccountTypes
<1>2. CASE RowOnly
  <2>1. CASE register \/ ensurePlatformOwner
    BY <1>1, <2>1, NewRows DEF register, ensurePlatformOwner
  <2>2. CASE verifyEmail \/ changePassword \/ LockEnds \/ enableMfa \/ approve
    BY <1>1, <2>2, RowsKept DEF verifyEmail, changePassword, LockEnds, enableMfa, approve
  <2>3. CASE resendVerification \/ requestPasswordReset \/ deny \/ MembershipChanges
    BY <1>1, <2>3 DEF resendVerification, requestPasswordReset, deny, MembershipChanges
  <2>4. QED
    BY <1>2, <2>1, <2>2, <2>3 DEF RowOnly
<1>3. CASE deactivatePlatformUser
  BY <1>1, <1>3, RowsKept DEF deactivatePlatformUser
<1>4. ASSUME NEW c \in Calls, CommitReset(c) \/ IssueChallenge(c) \/ ResetFailures(c)
      PROVE  user' \in UserRows
  BY <1>1, <1>4, RowsKept DEF CommitReset, IssueChallenge, ResetFailures
<1>5. ASSUME NEW c \in Calls, WrongPassword(c)
      PROVE  user' \in UserRows
  <2> DEFINE fails == call[c].failed + 1
             n == IF locks(fails) THEN LoginMaxAttempts ELSE fails
             b == locks(fails)
  <2>1. user' = [user EXCEPT !.failed = n, !.locked = b]
    BY <1>5 DEF WrongPassword
  <2>2. call[c].failed \in 0..LoginMaxAttempts
    BY <1>5, StateFields DEF AccountTypes, WrongPassword
  <2>3. n \in 0..LoginMaxAttempts /\ b \in BOOLEAN
    BY <2>2, AttemptsAreCounted DEF locks
  <2> HIDE DEF n, b
  <2>4. QED
    BY <1>1, <2>1, <2>3, RowsKept
<1>6. ASSUME NEW c \in Calls, resetPassword(c) \/ createRequest(c) \/ InsertRequest(c)
      PROVE  user' \in UserRows
  BY <1>1, <1>6 DEF resetPassword, createRequest, InsertRequest
<1>7. ASSUME NEW c \in Calls, ConsumeChallenge(c) \/ issueSession(c) \/ ChallengeExpires(c) \/ logout(c)
      PROVE  user' \in UserRows
  BY <1>1, <1>7 DEF ConsumeChallenge, issueSession, ChallengeExpires, logout
<1>8. ASSUME NEW c \in Calls, NEW l \in Calls, NEW right \in BOOLEAN,
             login(c, right) \/ verifyMfaLogin(c, l, right)
      PROVE  user' \in UserRows
  BY <1>1, <1>8 DEF login, verifyMfaLogin
<1>9. QED
  BY <1>2, <1>3, <1>4, <1>5, <1>6, <1>7, <1>8, AccountSteps, Zenon DEF OtherMoves

\* The states that the moves of a login go to.
LEMMA LoginPhases ==
  ASSUME AccountTypes, NEW c \in Calls
  PROVE  /\ ResetFailures(c) => /\ Move(c, [pc |-> "issue", login |-> c])
                                /\ [pc |-> "issue", login |-> c] \in CallStates
         /\ ConsumeChallenge(c) => /\ call[c].login \in Calls
                                   /\ [pc |-> "issue", login |-> call[c].login] \in CallStates
         /\ issueSession(c) => call[c].login \in Calls
         /\ \A l \in Calls : [pc |-> "consume", login |-> l] \in CallStates
<1>1. /\ call[c] \in CallStates
      /\ call[c].pc \in {"challenge", "zero"} => call[c].login = c
  BY DEF AccountTypes
<1>2. call[c].pc \in Past => call[c].login \in Calls
  BY <1>1, StateFields
<1>3. \A p \in {"issue", "consume"}, l \in Calls : [pc |-> p, login |-> l] \in CallStates
  BY StateShapes DEF Past
<1>4. ResetFailures(c) => Move(c, [pc |-> "issue", login |-> c])
  BY Zenon DEF ResetFailures
<1>5. /\ ConsumeChallenge(c) => call[c].pc = "consume"
      /\ issueSession(c) => call[c].pc = "issue"
  BY DEF ConsumeChallenge, issueSession
<1>6. QED
  BY <1>2, <1>3, <1>4, <1>5 DEF Past

LEMMA AccountTypesStep ==
  ASSUME AccountTypes, [AccountsNext]_accountVars
  PROVE  AccountTypes'
<1> DEFINE CallsTyped == /\ call \in [Calls -> CallStates]
                         /\ \A c \in Calls : call[c].pc \in {"challenge", "zero"} => call[c].login = c
           SessionsTyped == /\ session \in [Calls -> SessionRows]
                            /\ \A s \in Calls : session[s].state # "none" => session[s].login \in Calls
<1>0. CallsTyped /\ SessionsTyped
  BY DEF AccountTypes
<1>1. CASE UNCHANGED accountVars
  BY <1>1 DEF AccountTypes, accountVars
<1>2. CASE AccountsNext
  <2>1. user' \in UserRows
    BY <1>2, UserStaysTyped
  <2>2. CallsTyped'
    <3>1. ASSUME UNCHANGED call PROVE CallsTyped'
      BY <1>0, <3>1
    <3>2. CASE RowOnly
      BY <3>1, <3>2, RowOnlyLeaves
    <3>3. ASSUME NEW c \in Calls, NEW k \in CallStates, Move(c, k),
                 k.pc \in {"challenge", "zero"} => k.login = c
          PROVE  CallsTyped'
      BY <1>0, <3>3, Moves
    <3>4. ASSUME NEW c \in Calls, OtherMoves(c) PROVE CallsTyped'
      <4>1. PICK k \in {Ended, [pc |-> "reset"], [pc |-> "request"]} : Move(c, k)
        BY <3>4, OtherMovesMove
      <4>2. k \in CallStates /\ k.pc \notin {"challenge", "zero"}
        BY StateShapes
      <4>3. QED
        BY <3>3, <4>1, <4>2
    <3>5. ASSUME NEW c \in Calls, CommitReset(c) \/ IssueChallenge(c) \/ issueSession(c)
          PROVE  CallsTyped'
      <4>1. Move(c, Ended)
        BY <3>5 DEF CommitReset, IssueChallenge, issueSession
      <4>2. QED
        BY <3>3, <4>1, StateShapes
    <3>6. ASSUME NEW c \in Calls, ResetFailures(c) PROVE CallsTyped'
      <4>1. [pc |-> "issue", login |-> c].pc = "issue"
        OBVIOUS
      <4>2. QED
        BY <3>3, <3>6, <4>1, LoginPhases
    <3>7. ASSUME NEW c \in Calls, ConsumeChallenge(c) PROVE CallsTyped'
      <4>1. Move(c, [pc |-> "issue", login |-> call[c].login])
        BY <3>7 DEF ConsumeChallenge
      <4>2. [pc |-> "issue", login |-> call[c].login].pc = "issue"
        OBVIOUS
      <4>3. QED
        BY <3>3, <3>7, <4>1, <4>2, LoginPhases
    <3>8. ASSUME NEW c \in Calls, NEW right \in BOOLEAN, login(c, right) PROVE CallsTyped'
      BY <3>3, <3>8, LoginMoves
    <3>9. ASSUME NEW c \in Calls, NEW l \in Calls, NEW right \in BOOLEAN, verifyMfaLogin(c, l, right)
          PROVE  CallsTyped'
      <4>1. Move(c, [pc |-> "consume", login |-> l]) \/ Move(c, Ended)
        BY <3>9 DEF verifyMfaLogin
      <4>2. [pc |-> "consume", login |-> l].pc = "consume"
        OBVIOUS
      <4>3. QED
        BY <3>3, <4>1, <4>2, LoginPhases, StateShapes
    <3>10. ASSUME NEW c \in Calls, ChallengeExpires(c) \/ logout(c) PROVE CallsTyped'
      BY <3>1, <3>10 DEF ChallengeExpires, logout
    <3>11. CASE deactivatePlatformUser
      BY <3>1, <3>11 DEF deactivatePlatformUser
    <3> HIDE DEF CallsTyped
    <3>12. QED
      BY <1>2, <3>2, <3>4, <3>5, <3>6, <3>7, <3>8, <3>9, <3>10, <3>11, AccountSteps, Zenon
  <2>3. SessionsTyped'
    <3>1. ASSUME UNCHANGED session PROVE SessionsTyped'
      BY <1>0, <3>1
    <3>2. CASE RowOnly
      BY <3>1, <3>2, RowOnlyLeaves
    <3>3. ASSUME NEW c \in Calls, OtherMoves(c) PROVE SessionsTyped'
      BY <3>1, <3>3, OtherMovesMove
    <3>4. ASSUME session' = revokeAll PROVE SessionsTyped'
      BY <1>0, <3>4, Revoked
    <3>5. ASSUME NEW c \in Calls, CommitReset(c) PROVE SessionsTyped'
      BY <3>4, <3>5 DEF CommitReset
    <3>6. CASE deactivatePlatformUser
      BY <3>4, <3>6 DEF deactivatePlatformUser
    <3>7. ASSUME NEW c \in Calls, IssueChallenge(c) \/ ResetFailures(c) \/ ConsumeChallenge(c) \/ ChallengeExpires(c)
          PROVE  SessionsTyped'
      BY <3>1, <3>7 DEF IssueChallenge, ResetFailures, ConsumeChallenge, ChallengeExpires
    <3>8. ASSUME NEW c \in Calls, NEW l \in Calls, NEW right \in BOOLEAN,
                 login(c, right) \/ verifyMfaLogin(c, l, right)
          PROVE  SessionsTyped'
      BY <3>1, <3>8 DEF login, verifyMfaLogin
    <3>9. ASSUME NEW c \in Calls, issueSession(c) PROVE SessionsTyped'
      <4> DEFINE l == call[c].login
                 row == [state |-> "live", login |-> l]
      <4>1. session' = [session EXCEPT ![c] = row] \/ UNCHANGED session
        BY <3>9 DEF issueSession
      <4>2. l \in Calls
        BY <3>9, LoginPhases
      <4> HIDE DEF l
      <4>3. row \in SessionRows /\ row.login \in Calls
        BY <4>2 DEF SessionRows
      <4> HIDE DEF row
      <4>4. CASE session' = [session EXCEPT ![c] = row]
        BY <1>0, <4>3, <4>4
      <4>5. QED
        BY <3>1, <4>1, <4>4
    <3>10. ASSUME NEW s \in Calls, logout(s) PROVE SessionsTyped'
      <4>1. session' = [session EXCEPT ![s].state = "revoked"] /\ session[s].state = "live"
        BY <3>10 DEF logout
      <4>2. [session[s] EXCEPT !.state = "revoked"] \in SessionRows
        BY <1>0 DEF SessionRows
      <4>3. [session[s] EXCEPT !.state = "revoked"].login = session[s].login
        BY <1>0 DEF SessionRows
      <4>4. session[s].login \in Calls
        BY <1>0, <4>1
      <4> DEFINE row == [session[s] EXCEPT !.state = "revoked"]
      <4>5. session' = [session EXCEPT ![s] = row]
        BY <4>1
      <4> HIDE DEF row
      <4>6. row \in SessionRows /\ row.login \in Calls
        BY <4>2, <4>3, <4>4 DEF row
      <4>7. QED
        BY <1>0, <4>5, <4>6
    <3> HIDE DEF SessionsTyped
    <3>11. QED
      BY <1>2, <3>2, <3>3, <3>5, <3>6, <3>7, <3>8, <3>9, <3>10, AccountSteps, Zenon
  <2>4. challenge' \in [Calls -> {"none", "live", "consumed"}]
    <3>1. \/ UNCHANGED challenge
          \/ \E l \in Calls : challenge' = [challenge EXCEPT ![l] = "live"]
          \/ \E l \in Calls : challenge' = [challenge EXCEPT ![l] = "consumed"]
      <4>1. CASE RowOnly
        BY <4>1, RowOnlyLeaves
      <4>2. ASSUME NEW c \in Calls, OtherMoves(c) PROVE UNCHANGED challenge
        BY <4>2, OtherMovesMove
      <4>3. ASSUME NEW c \in Calls, CommitReset(c) \/ ResetFailures(c) \/ issueSession(c) \/ logout(c)
            PROVE  UNCHANGED challenge
        BY <4>3 DEF CommitReset, ResetFailures, issueSession, logout
      <4>4. ASSUME NEW c \in Calls, NEW l \in Calls, NEW right \in BOOLEAN,
                   login(c, right) \/ verifyMfaLogin(c, l, right)
            PROVE  UNCHANGED challenge
        BY <4>4 DEF login, verifyMfaLogin
      <4>5. ASSUME NEW c \in Calls, IssueChallenge(c)
            PROVE  challenge' = [challenge EXCEPT ![c] = "live"]
        BY <4>5 DEF IssueChallenge
      <4>6. ASSUME NEW c \in Calls, ConsumeChallenge(c)
            PROVE  \E l \in Calls : challenge' = [challenge EXCEPT ![l] = "consumed"]
        BY <4>6, LoginPhases DEF ConsumeChallenge
      <4>7. ASSUME NEW c \in Calls, ChallengeExpires(c)
            PROVE  challenge' = [challenge EXCEPT ![c] = "consumed"]
        BY <4>7 DEF ChallengeExpires
      <4>8. CASE deactivatePlatformUser
        BY <4>8 DEF deactivatePlatformUser
      <4>9. QED
        BY <1>2, <4>1, <4>2, <4>3, <4>4, <4>5, <4>6, <4>7, <4>8, AccountSteps
    <3>2. challenge \in [Calls -> {"none", "live", "consumed"}]
      BY DEF AccountTypes
    <3>3. QED
      BY <3>1, <3>2
  <2>5. /\ shown' \in [Calls -> Nat]
        /\ resets' \in Nat
        /\ wrong' \in Nat
    <3>1. shown \in [Calls -> Nat] /\ resets \in Nat /\ wrong \in Nat
      BY DEF AccountTypes
    <3>2. /\ UNCHANGED shown \/ \E c \in Calls : shown' = [shown EXCEPT ![c] = resets]
          /\ resets' \in {resets, resets + 1}
          /\ wrong' \in {wrong, wrong + 1, 0}
      <4>1. CASE RowOnly
        BY <4>1 DEF RowOnly, register, ensurePlatformOwner, verifyEmail, resendVerification,
                    requestPasswordReset, changePassword, LockEnds, enableMfa, approve, deny,
                    MembershipChanges
      <4>2. ASSUME NEW c \in Calls,
                   OtherMoves(c) \/ CommitReset(c) \/ IssueChallenge(c) \/ ResetFailures(c)
            PROVE  UNCHANGED shown /\ resets' \in {resets, resets + 1} /\ wrong' \in {wrong, wrong + 1, 0}
        BY <4>2 DEF OtherMoves, resetPassword, createRequest, InsertRequest, WrongPassword,
                    CommitReset, IssueChallenge, ResetFailures
      <4>3. ASSUME NEW c \in Calls,
                   ConsumeChallenge(c) \/ issueSession(c) \/ ChallengeExpires(c) \/ logout(c)
            PROVE  UNCHANGED <<shown, resets, wrong>>
        BY <4>3 DEF ConsumeChallenge, issueSession, ChallengeExpires, logout
      <4>4. ASSUME NEW c \in Calls, NEW l \in Calls, NEW right \in BOOLEAN,
                   login(c, right) \/ verifyMfaLogin(c, l, right)
            PROVE  /\ UNCHANGED shown \/ shown' = [shown EXCEPT ![c] = resets]
                   /\ UNCHANGED <<resets, wrong>>
        BY <4>4 DEF login, verifyMfaLogin
      <4>5. CASE deactivatePlatformUser
        BY <4>5 DEF deactivatePlatformUser
      <4>6. QED
        BY <1>2, <4>1, <4>2, <4>3, <4>4, <4>5, AccountSteps
    <3>3. QED
      BY <3>1, <3>2
  <2>6. QED
    BY <2>1, <2>2, <2>3, <2>4, <2>5 DEF AccountTypes
<1>3. QED
  BY <1>1, <1>2

\* Where no reset commits, RecentInv has to be shown of what is new only.
LEMMA RecentKept ==
  ASSUME AccountTypes, RecentInv, UNCHANGED <<resets, underway>>,
         \A l \in Calls : shown'[l] # shown[l] => shown'[l] = resets,
         \A l \in Calls : challenge'[l] = "live" => challenge[l] = "live" \/ Recent(l)',
         \A c \in Calls : call'[c].pc \in Past =>
           \/ call[c].pc \in Past /\ call'[c].login = call[c].login
           \/ Recent(call[c].login)',
         \A s \in Calls : session'[s].state = "live" =>
           \/ session[s].state = "live" /\ session'[s].login = session[s].login
           \/ Recent(session[s].login)'
  PROVE  RecentInv'
<1>1. \A l \in Calls : Recent(l) => Recent(l)'
  BY DEF Recent
<1>2. ASSUME NEW c \in Calls, call[c].pc \in Past PROVE call[c].login \in Calls
  BY <1>2, StateFields DEF AccountTypes
<1>3. ASSUME NEW s \in Calls, session[s].state = "live" PROVE session[s].login \in Calls
  BY <1>3 DEF AccountTypes
<1>4. \A l \in Calls : (challenge[l] = "live" => Recent(l))'
  BY <1>1 DEF RecentInv
<1>5. ASSUME NEW c \in Calls, call'[c].pc \in Past PROVE Recent(call[c].login)'
  <2>1. CASE call[c].pc \in Past /\ call'[c].login = call[c].login
    BY <1>1, <1>2, <2>1 DEF RecentInv, Recent
  <2>2. QED
    BY <1>5, <2>1
<1>6. ASSUME NEW s \in Calls, session'[s].state = "live" PROVE Recent(session[s].login)'
  <2>1. CASE session[s].state = "live" /\ session'[s].login = session[s].login
    BY <1>1, <1>3, <2>1 DEF RecentInv, Recent
  <2>2. QED
    BY <1>6, <2>1
<1>7. QED
  BY <1>4, <1>5, <1>6 DEF RecentInv

LEMMA RecentStep ==
  ASSUME AccountTypes, RecentInv, [AccountsNext]_accountVars
  PROVE  RecentInv'
<1>1. /\ call \in [Calls -> CallStates]
      /\ challenge \in [Calls -> {"none", "live", "consumed"}]
      /\ session \in [Calls -> SessionRows]
      /\ shown \in [Calls -> Nat]
      /\ \A c \in Calls : call[c].pc \in {"challenge", "zero"} => call[c].login = c
  BY DEF AccountTypes
<1>2. CASE UNCHANGED accountVars
  BY <1>2 DEF RecentInv, Recent, accountVars
<1>3. CASE RowOnly
  BY <1>3, RowOnlyLeaves DEF RecentInv, Recent
<1>4. CASE deactivatePlatformUser
  <2>1. session' = revokeAll /\ UNCHANGED <<call, challenge, resets, shown, underway>>
    BY <1>4 DEF deactivatePlatformUser
  <2>2. \A s \in Calls : session'[s].state # "live"
    BY <1>1, <2>1, Revoked
  <2>3. QED
    BY <2>1, <2>2 DEF RecentInv, Recent
\* A move to a state that holds no login's password.
<1>5. ASSUME NEW c \in Calls, NEW k \in CallStates, Move(c, k), k.pc \notin Past,
             UNCHANGED <<challenge, session, resets, underway>>,
             shown' = shown \/ shown' = [shown EXCEPT ![c] = resets]
      PROVE  RecentInv'
  <2>1. \A d \in Calls : call'[d] = IF d = c THEN k ELSE call[d]
    BY <1>1, <1>5, Moves
  <2>2. \A d \in Calls : shown'[d] # shown[d] => shown'[d] = resets
    BY <1>1, <1>5
  <2>3. QED
    BY <1>5, <2>1, <2>2, RecentKept
<1>6. ASSUME NEW c \in Calls, OtherMoves(c) PROVE RecentInv'
  <2>1. PICK k \in {Ended, [pc |-> "reset"], [pc |-> "request"]} : Move(c, k)
    BY <1>6, OtherMovesMove
  <2>2. k \in CallStates /\ k.pc \notin Past
    BY StateShapes DEF Past
  <2>3. UNCHANGED <<challenge, session, resets, shown, underway>>
    BY <1>6, OtherMovesMove
  <2>4. QED
    BY <1>5, <2>1, <2>2, <2>3
<1>7. ASSUME NEW c \in Calls, CommitReset(c) PROVE RecentInv'
  <2>1. /\ session' = revokeAll
        /\ Move(c, Ended)
        /\ underway' = underway \cup PastPassword
        /\ UNCHANGED challenge
    BY <1>7 DEF CommitReset
  <2>2. \A s \in Calls : session'[s].state # "live"
    BY <1>1, <2>1, Revoked
  <2>3. \A d \in Calls : call'[d] = IF d = c THEN Ended ELSE call[d]
    BY <1>1, <2>1, Moves, StateShapes
  <2>4. Ended.pc \notin Past
    BY StateShapes DEF Past
  <2>5. \A l \in Calls : challenge[l] = "live" => l \in underway'
    BY <2>1 DEF PastPassword
  <2>6. \A d \in Calls : call[d].pc \in Past => call[d].login \in underway'
    BY <2>1 DEF PastPassword, Past
  <2>7. QED
    BY <2>1, <2>2, <2>3, <2>4, <2>5, <2>6 DEF RecentInv, Recent
<1>8. ASSUME NEW c \in Calls, IssueChallenge(c) PROVE RecentInv'
  <2>1. /\ Move(c, Ended) /\ call[c].pc = "challenge"
        /\ challenge' = [challenge EXCEPT ![c] = "live"]
        /\ UNCHANGED <<session, resets, shown, underway>>
    BY <1>8 DEF IssueChallenge
  <2>2. \A d \in Calls : call'[d] = IF d = c THEN Ended ELSE call[d]
    BY <1>1, <2>1, Moves, StateShapes
  <2>3. Ended.pc \notin Past
    BY StateShapes DEF Past
  <2>4. Recent(c)'
    BY <1>1, <2>1 DEF RecentInv, Recent, Past
  <2>5. \A l \in Calls : challenge'[l] = "live" => challenge[l] = "live" \/ Recent(l)'
    BY <1>1, <2>1, <2>4
  <2>6. QED
    BY <2>1, <2>2, <2>3, <2>5, RecentKept
<1>9. ASSUME NEW c \in Calls, ResetFailures(c) \/ ConsumeChallenge(c) PROVE RecentInv'
  <2> DEFINE k == [pc |-> "issue", login |-> call[c].login]
  <2>1. /\ Move(c, k) /\ k \in CallStates
        /\ call[c].pc \in Past
    <3>1. CASE ResetFailures(c)
      <4>1. call[c].pc = "zero"
        BY <3>1 DEF ResetFailures
      <4>2. call[c].login = c
        BY <1>1, <4>1
      <4>3. QED
        BY <3>1, <4>1, <4>2, LoginPhases DEF Past
    <3>2. CASE ConsumeChallenge(c)
      BY <3>2, LoginPhases DEF ConsumeChallenge, Past
    <3>3. QED
      BY <1>9, <3>1, <3>2
  <2>2. UNCHANGED <<session, resets, shown, underway>>
    BY <1>9 DEF ResetFailures, ConsumeChallenge
  <2>3. \A l \in Calls : challenge'[l] = "live" => challenge[l] = "live"
    BY <1>1, <1>9, LoginPhases DEF ResetFailures, ConsumeChallenge
  <2>4. k.login = call[c].login
    OBVIOUS
  <2> HIDE DEF k
  <2>5. \A d \in Calls : call'[d] = IF d = c THEN k ELSE call[d]
    BY <1>1, <2>1, Moves
  <2>6. QED
    BY <2>1, <2>2, <2>3, <2>4, <2>5, RecentKept
<1>10. ASSUME NEW c \in Calls, issueSession(c) PROVE RecentInv'
  <2> DEFINE l == call[c].login
             row == [state |-> "live", login |-> l]
  <2>1. /\ Move(c, Ended) /\ call[c].pc = "issue"
        /\ session' = [session EXCEPT ![c] = row] \/ UNCHANGED session
        /\ UNCHANGED <<challenge, resets, shown, underway>>
    BY <1>10 DEF issueSession
  <2>2. \A d \in Calls : call'[d] = IF d = c THEN Ended ELSE call[d]
    BY <1>1, <2>1, Moves, StateShapes
  <2>3. Ended.pc \notin Past
    BY StateShapes DEF Past
  <2>4. Recent(l)
    BY <2>1 DEF RecentInv, Past
  <2>5. row.login = l
    OBVIOUS
  <2> HIDE DEF l, row
  <2>6. \A s \in Calls : session'[s] = session[s] \/ (s = c /\ session'[s].login = l)
    BY <1>1, <2>1, <2>5
  <2>7. ASSUME NEW s \in Calls, session'[s].state = "live"
        PROVE  \/ session[s].state = "live" /\ session'[s].login = session[s].login
               \/ Recent(session[s].login)'
    BY <2>1, <2>4, <2>6, <2>7 DEF Recent
  <2>8. QED
    BY <2>1, <2>2, <2>3, <2>7, RecentKept
<1>11. ASSUME NEW c \in Calls, NEW right \in BOOLEAN, login(c, right) PROVE RecentInv'
  <2>1. /\ shown' = [shown EXCEPT ![c] = resets]
        /\ UNCHANGED <<challenge, session, resets, underway>>
    BY <1>11 DEF login
  <2>2. PICK k \in CallStates : /\ Move(c, k)
                                /\ k.pc \in {"ended", "wrong"} \/ (k.pc \in {"challenge", "zero"} /\ k.login = c)
    BY <1>11, LoginMoves
  <2>3. CASE k.pc \in {"ended", "wrong"}
    BY <1>5, <2>1, <2>2, <2>3 DEF Past
  <2>4. CASE k.login = c
    <3>1. \A d \in Calls : call'[d] = IF d = c THEN k ELSE call[d]
      BY <1>1, <2>2, Moves
    <3>2. Recent(c)'
      BY <1>1, <2>1 DEF Recent
    <3>3. ASSUME NEW d \in Calls, call'[d].pc \in Past
          PROVE  \/ call[d].pc \in Past /\ call'[d].login = call[d].login
                 \/ Recent(call[d].login)'
      BY <2>4, <3>1, <3>2, <3>3 DEF Recent
    <3>4. \A d \in Calls : shown'[d] # shown[d] => shown'[d] = resets
      BY <1>1, <2>1
    <3>5. QED
      BY <2>1, <3>3, <3>4, RecentKept
  <2>5. QED
    BY <2>2, <2>3, <2>4
<1>12. ASSUME NEW c \in Calls, NEW l \in Calls, NEW right \in BOOLEAN, verifyMfaLogin(c, l, right)
       PROVE  RecentInv'
  <2> DEFINE k == [pc |-> "consume", login |-> l]
  <2>1. /\ Move(c, k) \/ Move(c, Ended)
        /\ challenge[l] = "live"
        /\ UNCHANGED <<challenge, session, resets, shown, underway>>
    BY <1>12 DEF verifyMfaLogin, answerable
  <2>2. k \in CallStates /\ k.login = l
    BY LoginPhases
  <2> HIDE DEF k
  <2>3. CASE Move(c, Ended)
    BY <1>5, <2>1, <2>3, StateShapes DEF Past
  <2>4. CASE Move(c, k)
    <3>1. \A d \in Calls : call'[d] = IF d = c THEN k ELSE call[d]
      BY <1>1, <2>2, <2>4, Moves
    <3>2. Recent(l)'
      BY <2>1 DEF RecentInv, Recent
    <3>3. ASSUME NEW d \in Calls, call'[d].pc \in Past
          PROVE  \/ call[d].pc \in Past /\ call'[d].login = call[d].login
                 \/ Recent(call[d].login)'
      BY <2>2, <3>1, <3>2, <3>3 DEF Recent
    <3>4. QED
      BY <2>1, <3>3, RecentKept
  <2>5. QED
    BY <2>1, <2>3, <2>4
<1>13. ASSUME NEW c \in Calls, ChallengeExpires(c) PROVE RecentInv'
  <2>1. /\ challenge' = [challenge EXCEPT ![c] = "consumed"]
        /\ UNCHANGED <<call, session, resets, shown, underway>>
    BY <1>13 DEF ChallengeExpires
  <2>2. QED
    BY <1>1, <2>1 DEF RecentInv, Recent
<1>14. ASSUME NEW s \in Calls, logout(s) PROVE RecentInv'
  <2>1. /\ session' = [session EXCEPT ![s].state = "revoked"]
        /\ UNCHANGED <<call, challenge, resets, shown, underway>>
    BY <1>14 DEF logout
  <2>2. \A t \in Calls : t # s => session'[t] = session[t]
    BY <1>1, <2>1
  <2>3. session'[s].state = "revoked"
    BY <1>1, <2>1 DEF SessionRows
  <2>4. QED
    BY <2>1, <2>2, <2>3 DEF RecentInv, Recent
<1>15. QED
  BY <1>2, <1>3, <1>4, <1>6, <1>7, <1>8, <1>9, <1>10, <1>11, <1>12, <1>13, <1>14,
     AccountSteps, Zenon

\* Where no one begins to hold a login, none of it can be lost.
LEMMA HolderKept ==
  ASSUME HolderInv, UNCHANGED twice,
         \A l, c \in Calls : Issuing(c, l)' \/ Opened(c, l)' => Issuing(c, l) \/ Opened(c, l),
         \A l, c \in Calls : Consuming(c, l)' => Consuming(c, l),
         \A l \in Calls : challenge'[l] = "live" => challenge[l] = "live",
         \A l \in Calls : challenge[l] = "none" => challenge'[l] = "none",
         \A l \in Calls : call'[l].pc \in {"idle", "challenge", "zero"} =>
                            call[l].pc \in {"idle", "challenge", "zero"}
  PROVE  HolderInv'
<1> SUFFICES ASSUME NEW l \in Calls
             PROVE  /\ l \notin twice => \A c, d \in Calls : (Holds(c, l) /\ Holds(d, l))' => c = d
                    /\ l \notin twice /\ challenge'[l] = "live" =>
                         \A c \in Calls : (~Issuing(c, l) /\ ~Opened(c, l))'
                    /\ call'[l].pc \in {"idle", "challenge", "zero"} =>
                         challenge'[l] = "none" /\ \A c \in Calls : ~Holds(c, l)'
  BY DEF HolderInv
<1>1. \A c \in Calls : Holds(c, l)' => Holds(c, l)
  BY DEF Holds
<1>2. QED
  BY <1>1 DEF HolderInv

LEMMA HolderStep ==
  ASSUME AccountTypes, HolderInv, [AccountsNext]_accountVars
  PROVE  HolderInv'
<1>1. /\ call \in [Calls -> CallStates]
      /\ challenge \in [Calls -> {"none", "live", "consumed"}]
      /\ session \in [Calls -> SessionRows]
      /\ \A c \in Calls : call[c].pc \in {"challenge", "zero"} => call[c].login = c
  BY DEF AccountTypes
<1>2. ASSUME UNCHANGED <<call, challenge, session, twice>> PROVE HolderInv'
  BY <1>2 DEF HolderInv, Holds, Issuing, Consuming, Opened
<1>3. CASE UNCHANGED accountVars
  BY <1>2, <1>3 DEF accountVars
<1>4. CASE RowOnly
  BY <1>2, <1>4, RowOnlyLeaves
\* A call that goes where it holds nothing, sessions that keep their logins.
<1>5. ASSUME NEW c \in Calls, NEW k \in CallStates, Move(c, k), k.pc \in {"ended", "wrong", "reset", "request"},
             UNCHANGED <<challenge, twice>>,
             \A s, l \in Calls : Opened(s, l)' => Issuing(s, l) \/ Opened(s, l)
      PROVE  HolderInv'
  <2>1. \A d \in Calls : call'[d] = IF d = c THEN k ELSE call[d]
    BY <1>1, <1>5, Moves
  <2>2. \A l, d \in Calls : /\ Issuing(d, l)' => Issuing(d, l)
                            /\ Consuming(d, l)' => Consuming(d, l)
    BY <1>5, <2>1 DEF Issuing, Consuming
  <2>3. \A l \in Calls : call'[l].pc \in {"idle", "challenge", "zero"} =>
                           call[l].pc \in {"idle", "challenge", "zero"}
    BY <1>5, <2>1
  <2>4. QED
    BY <1>5, <2>2, <2>3, HolderKept
<1>6. ASSUME session' = revokeAll
      PROVE  \A s, l \in Calls : Opened(s, l)' => Opened(s, l)
  BY <1>1, <1>6, Revoked DEF Opened
<1>7. CASE deactivatePlatformUser
  <2>1. session' = revokeAll /\ UNCHANGED <<call, challenge, twice>>
    BY <1>7 DEF deactivatePlatformUser
  <2>2. QED
    BY <1>6, <2>1, HolderKept DEF Issuing, Consuming
<1>8. ASSUME NEW c \in Calls, OtherMoves(c) PROVE HolderInv'
  <2>1. PICK k \in {Ended, [pc |-> "reset"], [pc |-> "request"]} : Move(c, k)
    BY <1>8, OtherMovesMove
  <2>2. k \in CallStates /\ k.pc \in {"ended", "reset", "request"}
    BY StateShapes
  <2>3. UNCHANGED <<challenge, session, twice>>
    BY <1>8, OtherMovesMove
  <2>4. QED
    BY <1>5, <2>1, <2>2, <2>3 DEF Opened
<1>9. ASSUME NEW c \in Calls, CommitReset(c) PROVE HolderInv'
  <2>1. session' = revokeAll /\ Move(c, Ended) /\ UNCHANGED <<challenge, twice>>
    BY <1>9 DEF CommitReset
  <2>2. QED
    BY <1>5, <1>6, <2>1, StateShapes
<1>10. ASSUME NEW c \in Calls, IssueChallenge(c) PROVE HolderInv'
  <2>1. /\ Move(c, Ended) /\ call[c].pc = "challenge"
        /\ challenge' = [challenge EXCEPT ![c] = "live"]
        /\ UNCHANGED <<session, twice>>
    BY <1>10 DEF IssueChallenge
  <2>2. \A d \in Calls : call'[d] = IF d = c THEN Ended ELSE call[d]
    BY <1>1, <2>1, Moves, StateShapes
  <2>3. Ended.pc = "ended"
    BY StateShapes
  <2>4. \A l, d \in Calls : /\ Issuing(d, l)' => Issuing(d, l)
                            /\ Consuming(d, l)' => Consuming(d, l)
                            /\ Opened(d, l)' <=> Opened(d, l)
    BY <2>1, <2>2, <2>3 DEF Issuing, Consuming, Opened
  <2>5. \A d \in Calls : ~Holds(d, c)
    BY <2>1 DEF HolderInv
  <2>6. \A l \in Calls : l # c => challenge'[l] = challenge[l]
    BY <1>1, <2>1
  <2>7. call'[c].pc = "ended" /\ \A l \in Calls : l # c => call'[l] = call[l]
    BY <2>2, <2>3
  <2>8. ASSUME NEW l \in Calls
        PROVE  /\ l \notin twice => \A d, e \in Calls : (Holds(d, l) /\ Holds(e, l))' => d = e
               /\ l \notin twice /\ challenge'[l] = "live" =>
                    \A d \in Calls : (~Issuing(d, l) /\ ~Opened(d, l))'
               /\ call'[l].pc \in {"idle", "challenge", "zero"} =>
                    challenge'[l] = "none" /\ \A d \in Calls : ~Holds(d, l)'
    <3>1. \A d \in Calls : Holds(d, l)' => Holds(d, l)
      BY <2>4 DEF Holds
    <3>2. CASE l = c
      BY <2>4, <2>5, <2>7, <3>1, <3>2 DEF Holds
    <3>3. CASE l # c
      BY <2>4, <2>6, <2>7, <3>1, <3>3 DEF HolderInv
    <3>4. QED
      BY <3>2, <3>3
  <2>9. QED
    BY <2>1, <2>8 DEF HolderInv
<1>11. ASSUME NEW c \in Calls, ResetFailures(c) PROVE HolderInv'
  <2> DEFINE k == [pc |-> "issue", login |-> c]
  <2>1. call[c].pc = "zero" /\ UNCHANGED <<challenge, session, twice>>
    BY <1>11 DEF ResetFailures
  <2>2. Move(c, k) /\ k \in CallStates
    BY <1>11, LoginPhases
  <2>3. k.pc = "issue" /\ k.login = c
    OBVIOUS
  <2> HIDE DEF k
  <2>4. \A d \in Calls : call'[d] = IF d = c THEN k ELSE call[d]
    BY <1>1, <2>2, Moves
  <2>5. challenge[c] = "none" /\ \A d \in Calls : ~Holds(d, c)
    BY <2>1 DEF HolderInv
  <2>6. \A l, d \in Calls : /\ Issuing(d, l)' => Issuing(d, l) \/ (d = c /\ l = c)
                            /\ Consuming(d, l)' => Consuming(d, l)
                            /\ Opened(d, l)' <=> Opened(d, l)
    BY <2>1, <2>3, <2>4 DEF Issuing, Consuming, Opened
  <2>7. call'[c].pc = "issue" /\ \A l \in Calls : l # c => call'[l] = call[l]
    BY <2>3, <2>4
  <2>8. ASSUME NEW l \in Calls
        PROVE  /\ l \notin twice => \A d, e \in Calls : (Holds(d, l) /\ Holds(e, l))' => d = e
               /\ l \notin twice /\ challenge'[l] = "live" =>
                    \A d \in Calls : (~Issuing(d, l) /\ ~Opened(d, l))'
               /\ call'[l].pc \in {"idle", "challenge", "zero"} =>
                    challenge'[l] = "none" /\ \A d \in Calls : ~Holds(d, l)'
    <3>1. \A d \in Calls : Holds(d, l)' => Holds(d, l) \/ (d = c /\ l = c)
      BY <2>6 DEF Holds
    <3>2. CASE l = c
      BY <2>1, <2>5, <2>7, <3>1, <3>2
    <3>3. CASE l # c
      BY <2>1, <2>6, <2>7, <3>1, <3>3 DEF HolderInv
    <3>4. QED
      BY <3>2, <3>3
  <2>9. QED
    BY <2>1, <2>8 DEF HolderInv
<1>12. ASSUME NEW c \in Calls, ConsumeChallenge(c) PROVE HolderInv'
  <2> DEFINE m == call[c].login
             k == [pc |-> "issue", login |-> m]
  <2>1. /\ call[c].pc = "consume"
        /\ Move(c, k)
        /\ challenge' = [challenge EXCEPT ![m] = "consumed"]
        /\ UNCHANGED <<session, twice>>
    BY <1>12 DEF ConsumeChallenge
  <2>2. m \in Calls /\ k \in CallStates
    BY <1>12, LoginPhases
  <2>3. k.pc = "issue" /\ k.login = m
    OBVIOUS
  <2>4. Holds(c, m) /\ Consuming(c, m)
    BY <2>1 DEF Holds, Consuming
  <2> HIDE DEF k, m
  <2>5. \A d \in Calls : call'[d] = IF d = c THEN k ELSE call[d]
    BY <1>1, <2>1, <2>2, Moves
  <2>6. \A l, d \in Calls : /\ Issuing(d, l)' => Issuing(d, l) \/ (d = c /\ l = m)
                            /\ Consuming(d, l)' => Consuming(d, l)
                            /\ Opened(d, l)' <=> Opened(d, l)
    BY <2>1, <2>3, <2>5 DEF Issuing, Consuming, Opened
  <2>7. call'[c].pc = "issue" /\ \A l \in Calls : l # c => call'[l] = call[l]
    BY <2>3, <2>5
  <2>8. call[m].pc \notin {"idle", "challenge", "zero"} /\ call'[m].pc \notin {"idle", "challenge", "zero"}
    BY <2>2, <2>4, <2>7 DEF HolderInv
  <2>9. challenge'[m] = "consumed" /\ \A l \in Calls : l # m => challenge'[l] = challenge[l]
    BY <1>1, <2>1, <2>2
  <2>10. ASSUME NEW l \in Calls
         PROVE  /\ l \notin twice => \A d, e \in Calls : (Holds(d, l) /\ Holds(e, l))' => d = e
                /\ l \notin twice /\ challenge'[l] = "live" =>
                     \A d \in Calls : (~Issuing(d, l) /\ ~Opened(d, l))'
                /\ call'[l].pc \in {"idle", "challenge", "zero"} =>
                     challenge'[l] = "none" /\ \A d \in Calls : ~Holds(d, l)'
    <3>1. \A d \in Calls : Holds(d, l)' => Holds(d, l)
      BY <2>4, <2>6 DEF Holds
    <3>2. l \notin twice => \A d, e \in Calls : (Holds(d, l) /\ Holds(e, l))' => d = e
      BY <3>1 DEF HolderInv
    <3>3. CASE l = m
      BY <2>8, <2>9, <3>2, <3>3
    <3>4. CASE l # m
      <4>1. challenge'[l] = challenge[l]
        BY <2>9, <3>4
      <4>2. call'[l].pc \in {"idle", "challenge", "zero"} => call[l].pc \in {"idle", "challenge", "zero"}
        BY <2>7
      <4>3. \A d \in Calls : (Issuing(d, l) \/ Opened(d, l))' => Issuing(d, l) \/ Opened(d, l)
        BY <2>6, <3>4
      <4>4. QED
        BY <3>1, <3>2, <4>1, <4>2, <4>3 DEF HolderInv
    <3>5. QED
      BY <3>3, <3>4
  <2>11. QED
    BY <2>1, <2>10 DEF HolderInv
<1>13. ASSUME NEW c \in Calls, issueSession(c) PROVE HolderInv'
  <2> DEFINE m == call[c].login
             row == [state |-> "live", login |-> m]
  <2>1. /\ Move(c, Ended) /\ Issuing(c, m)
        /\ session' = [session EXCEPT ![c] = row] \/ UNCHANGED session
        /\ UNCHANGED <<challenge, twice>>
    BY <1>13 DEF issueSession, Issuing
  <2>2. row.login = m
    OBVIOUS
  <2> HIDE DEF m, row
  <2>3. \A s, l \in Calls : Opened(s, l)' => Issuing(s, l) \/ Opened(s, l)
    BY <1>1, <2>1, <2>2 DEF Opened
  <2>4. QED
    BY <1>5, <2>1, <2>3, StateShapes
<1>14. ASSUME NEW c \in Calls, NEW right \in BOOLEAN, login(c, right) PROVE HolderInv'
  <2>1. call[c] = Fresh /\ UNCHANGED <<challenge, session, twice>>
    BY <1>14 DEF login
  <2>2. PICK k \in CallStates : Move(c, k) /\ k.pc \in {"ended", "wrong", "challenge", "zero"}
    BY <1>14, LoginMoves
  <2>3. \A d \in Calls : call'[d] = IF d = c THEN k ELSE call[d]
    BY <1>1, <2>2, Moves
  <2>4. call[c].pc = "idle"
    BY <2>1, StateShapes
  <2>5. \A l, d \in Calls : /\ Issuing(d, l)' => Issuing(d, l)
                            /\ Consuming(d, l)' => Consuming(d, l)
                            /\ Opened(d, l)' => Opened(d, l)
    BY <2>1, <2>2, <2>3 DEF Issuing, Consuming, Opened
  <2>6. \A l \in Calls : call'[l].pc \in {"idle", "challenge", "zero"} =>
                           call[l].pc \in {"idle", "challenge", "zero"}
    BY <2>3, <2>4
  <2>7. QED
    BY <2>1, <2>5, <2>6, HolderKept
<1>15. ASSUME NEW c \in Calls, NEW m \in Calls, NEW right \in BOOLEAN, verifyMfaLogin(c, m, right)
       PROVE  HolderInv'
  <2> DEFINE k == [pc |-> "consume", login |-> m]
  <2>1. /\ call[c] = Fresh /\ challenge[m] = "live"
        /\ Move(c, k) \/ Move(c, Ended)
        /\ UNCHANGED <<challenge, session>>
    BY <1>15 DEF verifyMfaLogin, answerable
  <2>2. twice' = IF \E d \in Calls : Consuming(d, m) THEN twice \cup {m} ELSE twice
    BY <1>15 DEF verifyMfaLogin, Consuming
  <2>3. k \in CallStates /\ k.pc = "consume" /\ k.login = m
    BY LoginPhases
  <2> HIDE DEF k
  <2>4. PICK n \in CallStates : Move(c, n) /\ (n.pc = "ended" \/ (n.pc = "consume" /\ n.login = m))
    <3>1. Ended \in CallStates /\ Ended.pc = "ended"
      BY StateShapes
    <3>2. CASE Move(c, k)
      BY <2>3, <3>2
    <3>3. CASE Move(c, Ended)
      BY <3>1, <3>3
    <3>4. QED
      BY <2>1, <3>2, <3>3
  <2>5. \A d \in Calls : call'[d] = IF d = c THEN n ELSE call[d]
    BY <1>1, <2>4, Moves
  <2>6. \A l, d \in Calls : /\ Issuing(d, l)' => Issuing(d, l)
                            /\ Consuming(d, l)' => Consuming(d, l) \/ (d = c /\ l = m)
                            /\ Opened(d, l)' <=> Opened(d, l)
    BY <2>1, <2>4, <2>5 DEF Issuing, Consuming, Opened
  <2>7. /\ call'[c].pc \notin {"idle", "challenge", "zero"}
        /\ \A l \in Calls : l # c => call'[l] = call[l]
    BY <2>4, <2>5
  <2>8. call[m].pc \notin {"idle", "challenge", "zero"}
    BY <2>1 DEF HolderInv
  <2>9. m \notin twice' => \A d \in Calls : ~Holds(d, m)
    BY <2>1, <2>2 DEF HolderInv, Holds
  <2>10. ASSUME NEW l \in Calls
         PROVE  /\ l \notin twice' => \A d, e \in Calls : (Holds(d, l) /\ Holds(e, l))' => d = e
                /\ l \notin twice' /\ challenge'[l] = "live" =>
                     \A d \in Calls : (~Issuing(d, l) /\ ~Opened(d, l))'
                /\ call'[l].pc \in {"idle", "challenge", "zero"} =>
                     challenge'[l] = "none" /\ \A d \in Calls : ~Holds(d, l)'
    <3>1. \A d \in Calls : Holds(d, l)' => Holds(d, l) \/ (d = c /\ l = m)
      BY <2>6 DEF Holds
    <3>2. l \notin twice' => l \notin twice
      BY <2>2
    <3>3. call'[l].pc \in {"idle", "challenge", "zero"} =>
            l # c /\ l # m /\ call[l].pc \in {"idle", "challenge", "zero"}
      BY <2>7, <2>8
    <3>4. l \notin twice' /\ challenge'[l] = "live" =>
            \A d \in Calls : (~Issuing(d, l) /\ ~Opened(d, l))'
      BY <2>1, <2>6, <3>2 DEF HolderInv
    <3>5. l \notin twice' => \A d, e \in Calls : (Holds(d, l) /\ Holds(e, l))' => d = e
      <4>1. CASE l = m
        BY <2>9, <3>1, <4>1
      <4>2. CASE l # m
        BY <3>1, <3>2, <4>2 DEF HolderInv
      <4>3. QED
        BY <4>1, <4>2
    <3>6. QED
      BY <2>1, <3>1, <3>3, <3>4, <3>5 DEF HolderInv
  <2>11. QED
    BY <2>10 DEF HolderInv
<1>16. ASSUME NEW c \in Calls, ChallengeExpires(c) PROVE HolderInv'
  <2>1. /\ challenge[c] = "live"
        /\ challenge' = [challenge EXCEPT ![c] = "consumed"]
        /\ UNCHANGED <<call, session, twice>>
    BY <1>16 DEF ChallengeExpires
  <2>2. \A l, d \in Calls : /\ Issuing(d, l)' <=> Issuing(d, l)
                            /\ Consuming(d, l)' <=> Consuming(d, l)
                            /\ Opened(d, l)' <=> Opened(d, l)
    BY <2>1 DEF Issuing, Consuming, Opened
  <2>3. \A l \in Calls : /\ challenge'[l] = "live" => challenge[l] = "live"
                         /\ challenge[l] = "none" => challenge'[l] = "none"
    BY <1>1, <2>1
  <2>4. QED
    BY <2>1, <2>2, <2>3, HolderKept
<1>17. ASSUME NEW s \in Calls, logout(s) PROVE HolderInv'
  <2>1. /\ session[s].state = "live"
        /\ session' = [session EXCEPT ![s].state = "revoked"]
        /\ UNCHANGED <<call, challenge, twice>>
    BY <1>17 DEF logout
  <2>2. \A t \in Calls : session'[t].login = session[t].login /\ (t # s => session'[t] = session[t])
    BY <1>1, <2>1 DEF SessionRows
  <2>3. \A l, d \in Calls : /\ Issuing(d, l)' <=> Issuing(d, l)
                            /\ Consuming(d, l)' <=> Consuming(d, l)
                            /\ Opened(d, l)' => Opened(d, l)
    BY <2>1, <2>2 DEF Issuing, Consuming, Opened
  <2>4. QED
    BY <2>1, <2>3, HolderKept
<1>18. QED
  BY <1>3, <1>4, <1>7, <1>8, <1>9, <1>10, <1>11, <1>12, <1>13, <1>14, <1>15, <1>16, <1>17,
     AccountSteps, Zenon

\* What a write of the count leaves in the row.
LEMMA RowFields ==
  ASSUME NEW row \in UserRows
  PROVE  /\ row.failed \in Nat /\ row.failed <= LoginMaxAttempts
         /\ \A n \in 0..LoginMaxAttempts, b \in BOOLEAN :
              /\ [row EXCEPT !.failed = n, !.locked = b].failed = n
              /\ [row EXCEPT !.failed = n, !.locked = b].locked = b
              /\ [row EXCEPT !.failed = n, !.locked = b].status = row.status
         /\ [row EXCEPT !.locked = FALSE].locked = FALSE
         /\ [row EXCEPT !.locked = FALSE].failed = row.failed
         /\ [row EXCEPT !.locked = FALSE].status = row.status
<1>1. row.failed \in 0..LoginMaxAttempts
  BY DEF UserRows
<1>2. row.failed \in Nat /\ row.failed <= LoginMaxAttempts
  BY <1>1, AttemptsAreCounted
<1>3. QED
  BY <1>2 DEF UserRows

\* The count stands at zero, and the row with it.
LEMMA CountZero ==
  ASSUME user \in UserRows, wrong' = 0, ~user'.locked, user'.failed \in Nat
  PROVE  CountInv'
  BY AttemptsAreCounted DEF CountInv

\* Before there is an account nobody has tried a password.
LEMMA WrongStep ==
  ASSUME AccountTypes, WrongInv, [AccountsNext]_accountVars
  PROVE  WrongInv'
<1>1. user \in UserRows /\ call \in [Calls -> CallStates]
  BY DEF AccountTypes
<1>2. CASE UNCHANGED accountVars
  BY <1>2 DEF accountVars, WrongInv
<1>3. ASSUME user'.status = "none" => user.status = "none",
             NEW c \in Calls, NEW k \in CallStates, Move(c, k), k.pc = "wrong" => user.status # "none"
      PROVE  WrongInv'
  <2>1. \A d \in Calls : call'[d] = IF d = c THEN k ELSE call[d]
    BY <1>1, <1>3, Moves
  <2>2. QED
    BY <1>3, <2>1 DEF WrongInv
<1>4. ASSUME user'.status = "none" => user.status = "none", UNCHANGED call
      PROVE  WrongInv'
  BY <1>4 DEF WrongInv
<1>5. CASE RowOnly
  <2>1. CASE verifyEmail \/ changePassword \/ enableMfa \/ approve \/ LockEnds
    <3>1. user'.status = user.status
      BY <1>1, <2>1 DEF verifyEmail, changePassword, enableMfa, approve, LockEnds, UserRows
    <3>2. QED
      BY <1>4, <1>5, <3>1, RowOnlyLeaves
  <2>2. CASE resendVerification \/ requestPasswordReset \/ deny \/ MembershipChanges
    BY <1>4, <2>2 DEF resendVerification, requestPasswordReset, deny, MembershipChanges
  <2>3. CASE register \/ ensurePlatformOwner
    <3>1. user'.status = "none" => user.status = "none"
      BY <2>3 DEF register, ensurePlatformOwner, NewUser, NoAccount
    <3>2. QED
      BY <1>4, <1>5, <3>1, RowOnlyLeaves
  <2>4. QED
    BY <1>5, <2>1, <2>2, <2>3 DEF RowOnly
<1>6. CASE deactivatePlatformUser
  <2>1. user'.status = "DISABLED" /\ UNCHANGED call
    BY <1>1, <1>6 DEF deactivatePlatformUser, UserRows
  <2>2. QED
    BY <1>4, <2>1
<1>7. ASSUME NEW c \in Calls, CommitReset(c) \/ IssueChallenge(c) PROVE WrongInv'
  <2>1. user'.status = user.status
    BY <1>1, <1>7 DEF CommitReset, IssueChallenge, UserRows
  <2>2. Move(c, Ended)
    BY <1>7 DEF CommitReset, IssueChallenge
  <2>3. QED
    BY <1>3, <2>1, <2>2, StateShapes
<1>8. ASSUME NEW c \in Calls, ResetFailures(c) PROVE WrongInv'
  <2>1. user'.status = user.status
    BY <1>1, <1>8 DEF ResetFailures, UserRows
  <2>2. [pc |-> "issue", login |-> c].pc = "issue"
    OBVIOUS
  <2>3. QED
    BY <1>3, <1>8, <2>1, <2>2, LoginPhases
<1>9. ASSUME NEW c \in Calls, OtherMoves(c) PROVE WrongInv'
  <2>1. user'.status = user.status
    <3>1. CASE WrongPassword(c)
      BY <1>1, <3>1 DEF WrongPassword, UserRows
    <3>2. QED
      BY <1>9, <3>1 DEF OtherMoves, resetPassword, createRequest, InsertRequest
  <2>2. PICK k \in {Ended, [pc |-> "reset"], [pc |-> "request"]} : Move(c, k)
    BY <1>9, OtherMovesMove
  <2>3. k \in CallStates /\ k.pc # "wrong"
    BY StateShapes
  <2>4. QED
    BY <1>3, <2>1, <2>2, <2>3
<1>10. ASSUME NEW c \in Calls, ConsumeChallenge(c) PROVE WrongInv'
  <2>1. Move(c, [pc |-> "issue", login |-> call[c].login]) /\ UNCHANGED user
    BY <1>10 DEF ConsumeChallenge
  <2>2. [pc |-> "issue", login |-> call[c].login].pc = "issue"
    OBVIOUS
  <2>3. QED
    BY <1>3, <1>10, <2>1, <2>2, LoginPhases
<1>11. ASSUME NEW c \in Calls, issueSession(c) PROVE WrongInv'
  <2>1. Move(c, Ended) /\ UNCHANGED user
    BY <1>11 DEF issueSession
  <2>2. QED
    BY <1>3, <2>1, StateShapes
<1>12. ASSUME NEW c \in Calls, ChallengeExpires(c) \/ logout(c) PROVE WrongInv'
  BY <1>4, <1>12 DEF ChallengeExpires, logout
<1>13. ASSUME NEW c \in Calls, NEW right \in BOOLEAN, login(c, right) PROVE WrongInv'
  <2>1. user.status # "none" /\ UNCHANGED user
    BY <1>13 DEF login
  <2>2. QED
    BY <2>1 DEF WrongInv
<1>14. ASSUME NEW c \in Calls, NEW l \in Calls, NEW right \in BOOLEAN, verifyMfaLogin(c, l, right)
       PROVE  WrongInv'
  <2>1. (Move(c, [pc |-> "consume", login |-> l]) \/ Move(c, Ended)) /\ UNCHANGED user
    BY <1>14 DEF verifyMfaLogin
  <2>2. [pc |-> "consume", login |-> l].pc = "consume"
    OBVIOUS
  <2>3. QED
    BY <1>3, <2>1, <2>2, LoginPhases, StateShapes
<1>15. QED
  BY <1>2, <1>5, <1>6, <1>7, <1>8, <1>9, <1>10, <1>11, <1>12, <1>13, <1>14, AccountSteps, Zenon

LEMMA CountStep ==
  ASSUME AccountTypes, CountInv, WrongInv, [AccountsNext]_accountVars
  PROVE  CountInv'
<1>1. user \in UserRows /\ wrong \in Nat /\ user.failed \in Nat /\ user.failed <= LoginMaxAttempts
  BY RowFields DEF AccountTypes
<1>2. ASSUME user'.failed = user.failed, user'.locked = user.locked,
             user'.status = "none" => user.status = "none",
             UNCHANGED <<wrong, stale>>
      PROVE  CountInv'
  BY <1>2 DEF CountInv
<1>3. CASE UNCHANGED accountVars
  BY <1>2, <1>3 DEF accountVars
<1>4. CASE RowOnly
  <2>1. CASE verifyEmail \/ changePassword \/ enableMfa \/ approve
    <3>1. /\ user'.failed = user.failed /\ user'.locked = user.locked /\ user'.status = user.status
          /\ UNCHANGED <<wrong, stale>>
      BY <1>1, <2>1 DEF verifyEmail, changePassword, enableMfa, approve, UserRows
    <3>2. QED
      BY <1>2, <3>1
  <2>2. CASE resendVerification \/ requestPasswordReset \/ deny \/ MembershipChanges
    BY <1>2, <2>2 DEF resendVerification, requestPasswordReset, deny, MembershipChanges
  <2>3. CASE register \/ ensurePlatformOwner
    <3>1. \/ UNCHANGED user
          \/ /\ user.status = "none"
             /\ \E v \in BOOLEAN : user' = NewUser(v) \/ user' = [NewUser(v) EXCEPT !.mfa = FALSE]
      BY <2>3 DEF register, ensurePlatformOwner
    <3>2. UNCHANGED <<wrong, stale>>
      BY <2>3 DEF register, ensurePlatformOwner
    <3>3. ASSUME NEW v \in BOOLEAN, user' = NewUser(v) \/ user' = [NewUser(v) EXCEPT !.mfa = FALSE]
          PROVE  ~user'.locked /\ user'.failed = 0
      BY <3>3 DEF NewUser, NoAccount
    <3>4. QED
      BY <1>1, <1>2, <3>1, <3>2, <3>3, CountZero DEF CountInv
  <2>4. CASE LockEnds
    <3>1. user' = [user EXCEPT !.locked = FALSE] /\ wrong' = 0
      BY <2>4 DEF LockEnds
    <3>2. ~user'.locked /\ user'.failed \in Nat
      BY <1>1, <3>1, RowFields
    <3>3. QED
      BY <1>1, <3>1, <3>2, CountZero
  <2>5. QED
    BY <1>4, <2>1, <2>2, <2>3, <2>4 DEF RowOnly
<1>5. CASE deactivatePlatformUser
  <2>1. /\ user'.failed = user.failed /\ user'.locked = user.locked /\ user'.status = "DISABLED"
        /\ UNCHANGED <<wrong, stale>>
    BY <1>1, <1>5 DEF deactivatePlatformUser, UserRows
  <2>2. QED
    BY <1>2, <2>1
<1>6. ASSUME NEW c \in Calls, CommitReset(c) \/ IssueChallenge(c) \/ ResetFailures(c)
      PROVE  CountInv'
  <2>1. /\ \/ user' = [user EXCEPT !.failed = 0, !.locked = FALSE]
           \/ user' = [user EXCEPT !.password = @ + 1, !.failed = 0, !.locked = FALSE]
        /\ wrong' = 0
    BY <1>6 DEF CommitReset, IssueChallenge, ResetFailures
  <2>2. ~user'.locked /\ user'.failed = 0
    BY <1>1, <2>1 DEF UserRows
  <2>3. QED
    BY <1>1, <2>1, <2>2, CountZero
<1>7. ASSUME NEW c \in Calls, WrongPassword(c) PROVE CountInv'
  <2> DEFINE read == call[c].failed
             fails == read + 1
             full == fails >= LoginMaxAttempts
             n == IF full THEN LoginMaxAttempts ELSE fails
  <2>1. /\ user' = [user EXCEPT !.failed = n, !.locked = full]
        /\ wrong' = wrong + 1
        /\ stale' = (stale \/ user.failed # read)
    BY <1>7 DEF WrongPassword, locks
  <2>2. read \in 0..LoginMaxAttempts
    BY <1>7, StateFields DEF AccountTypes, WrongPassword
  <2> HIDE DEF read
  <2>3. n \in 0..LoginMaxAttempts /\ full \in BOOLEAN
    BY <2>2, AttemptsAreCounted
  <2>4. user'.failed = n /\ user'.locked = full /\ user'.status = user.status
    <3> HIDE DEF n, full
    <3>1. QED
      BY <1>1, <2>1, <2>3, RowFields
  <2>5. user'.locked => user'.failed = LoginMaxAttempts
    BY <2>4
  <2>6. ASSUME ~stale', ~user'.locked
        PROVE  wrong' <= user'.failed /\ wrong' < LoginMaxAttempts
    <3>0. ~full
      <4> HIDE DEF full
      <4>1. QED
        BY <2>4, <2>6
    <3>1. n = read + 1 /\ n < LoginMaxAttempts /\ user.failed = read /\ ~stale
      <4>1. user.failed = read /\ ~stale
        BY <2>1, <2>6
      <4>2. QED
        BY <2>2, <3>0, <4>1, AttemptsAreCounted
    <3>2. ~user.locked
      BY <2>2, <3>1, AttemptsAreCounted DEF CountInv
    <3>3. wrong <= user.failed
      BY <3>1, <3>2 DEF CountInv
    <3>4. QED
      BY <1>1, <2>1, <2>2, <2>4, <3>1, <3>3, AttemptsAreCounted
  <2>7. user.status # "none"
    BY <1>7 DEF WrongPassword, WrongInv
  <2>8. QED
    BY <2>4, <2>5, <2>6, <2>7 DEF CountInv
<1>8. ASSUME NEW c \in Calls, resetPassword(c) \/ createRequest(c) \/ InsertRequest(c)
      PROVE  CountInv'
  BY <1>2, <1>8 DEF resetPassword, createRequest, InsertRequest
<1>9. ASSUME NEW c \in Calls, ConsumeChallenge(c) \/ issueSession(c) \/ ChallengeExpires(c) \/ logout(c)
      PROVE  CountInv'
  BY <1>2, <1>9 DEF ConsumeChallenge, issueSession, ChallengeExpires, logout
<1>10. ASSUME NEW c \in Calls, NEW l \in Calls, NEW right \in BOOLEAN,
              login(c, right) \/ verifyMfaLogin(c, l, right)
       PROVE  CountInv'
  BY <1>2, <1>10 DEF login, verifyMfaLogin
<1>11. QED
  BY <1>3, <1>4, <1>5, <1>6, <1>7, <1>8, <1>9, <1>10, AccountSteps, Zenon DEF OtherMoves

LEMMA AccountInit == AccountsInit => AccountInv
<1> SUFFICES ASSUME AccountsInit PROVE AccountInv
  OBVIOUS
<1>1. Fresh \in CallStates /\ Fresh.pc = "idle"
  BY StateShapes, Zenon DEF CallStates
<1>2. NoAccount \in UserRows
  BY NewRows
<1>3. NoSession \in SessionRows /\ NoSession.state = "none"
  BY DEF NoSession, SessionRows
<1>4. /\ user = NoAccount /\ call = [c \in Calls |-> Fresh] /\ challenge = [c \in Calls |-> "none"]
      /\ session = [c \in Calls |-> NoSession] /\ shown = [c \in Calls |-> 0]
      /\ resets = 0 /\ wrong = 0
  BY DEF AccountsInit
<1>5. /\ \A c \in Calls : call[c].pc = "idle" /\ challenge[c] = "none" /\ session[c].state = "none"
      /\ \A c, l \in Calls : ~Holds(c, l)
  BY <1>1, <1>3, <1>4 DEF Holds, Issuing, Consuming, Opened
<1>6. AccountTypes
  BY <1>1, <1>2, <1>3, <1>4, <1>5 DEF AccountTypes
<1>7. RecentInv /\ HolderInv /\ WrongInv
  BY <1>5 DEF RecentInv, HolderInv, WrongInv, Past
<1>8. ~user.locked /\ user.failed = 0
  BY <1>4 DEF NoAccount
<1>9. CountInv
  BY <1>4, <1>8, AttemptsAreCounted DEF CountInv
<1>10. QED
  BY <1>6, <1>7, <1>9 DEF AccountInv

LEMMA AccountStep ==
  ASSUME AccountInv, [AccountsNext]_accountVars
  PROVE  AccountInv'
  BY AccountTypesStep, RecentStep, HolderStep, CountStep, WrongStep, Zenon DEF AccountInv

\* However the calls for one account interleave: after a reset of the password
\* no session of an older password is left but of the logins then under way, a
\* login gives one session unless its challenge was read twice at once, and so
\* many wrong passwords in a row lock the account unless a count was written
\* over one that had not been read.
THEOREM Logins == AccountsInit /\ [][AccountsNext]_accountVars => []LoginsHold
<1>1. AccountInv => ResetEndsSessions
  BY DEF AccountInv, RecentInv, Recent, ResetEndsSessions
<1>2. AccountInv => OneSessionPerLogin
  BY DEF AccountInv, AccountTypes, HolderInv, Holds, Opened, OneSessionPerLogin
<1>3. AccountInv => WrongPasswordsLock
  <2> SUFFICES ASSUME AccountInv, wrong >= LoginMaxAttempts, ~stale, ~user.locked PROVE FALSE
    BY DEF WrongPasswordsLock
  <2>1. wrong < LoginMaxAttempts /\ wrong \in Nat
    BY DEF AccountInv, CountInv, AccountTypes
  <2>2. QED
    BY <2>1, AttemptsAreCounted
<1>4. QED
  BY <1>1, <1>2, <1>3, AccountInit, AccountStep, PTL DEF LoginsHold

-----------------------------------------------------------------------------
(***************************************************************************)
(* The members of an organization.                                         *)
(***************************************************************************)

MemberTypes ==
  /\ member \in [People -> {"none", "ACTIVE", "DISABLED", "REMOVED"}]
  /\ role = [u \in People |-> role[u]]
  /\ txn = [t \in MemberCalls |-> txn[t]]

Gone(u) == member[u] \in {"DISABLED", "REMOVED"}

\* Who is gone has no session and none under way, and no role under way; who
\* was removed has no role.
GoneInv ==
  \A u \in People \ crossed :
    /\ Gone(u) => u \notin memberSession /\ ~Under("login", u) /\ ~Under("assign", u)
    /\ member[u] = "REMOVED" => role[u] = {}

\* Whose leaving is under way is no owner, or became one meanwhile.
LeavingInv ==
  \A u \in People :
    (Under("remove", u) \/ Under("deactivate", u)) /\ isOwner(u) => u \in promoted

MembershipInv == MemberTypes /\ GoneInv /\ LeavingInv

Watched == {"login", "assign", "remove", "deactivate"}

LEMMA Started ==
  ASSUME MemberTypes, NEW t \in MemberCalls, NEW x, txn' = [txn EXCEPT ![t] = x]
  PROVE  /\ txn' = [s \in MemberCalls |-> txn'[s]]
         /\ \A op \in Watched, u \in People : Under(op, u)' => Under(op, u) \/ (x.op = op /\ x.of = u)
<1>1. \A s \in MemberCalls : txn'[s] = IF s = t THEN x ELSE txn[s]
  BY Zenon DEF MemberTypes
<1>2. txn' = [s \in MemberCalls |-> txn'[s]]
  BY DEF MemberTypes
<1>3. QED
  BY <1>1, <1>2 DEF Under

LEMMA Finished ==
  ASSUME MemberTypes, NEW t \in MemberCalls, txn' = [txn EXCEPT ![t] = NoTxn]
  PROVE  /\ txn' = [s \in MemberCalls |-> txn'[s]]
         /\ \A op \in Watched, u \in People : Under(op, u)' => Under(op, u)
<1>1. NoTxn.op \notin Watched
  BY DEF NoTxn, Watched
<1>2. QED
  BY <1>1, Started

\* The steps that neither start nor commit one of the transactions watched,
\* and write no membership, role or session.
Aside(t) ==
  /\ UNCHANGED <<member, role, memberSession, crossed, promoted>>
  /\ \/ UNCHANGED txn
     \/ \E x : x.op \notin Watched /\ txn' = [txn EXCEPT ![t] = x]

LEMMA MemberSteps ==
  ASSUME NEW t \in MemberCalls,
         MembershipNext(t) \/ CustomRoleNext(t) \/ KeyNext(t) \/ PlatformNext(t)
  PROVE  \/ Aside(t)
         \/ \E u \in People : issueMemberSession(t, u)
         \/ \E a, u \in People, r \in Assignable : assignUserRole(t, a, u, r)
         \/ \E a, u \in People : deactivateUser(t, a, u) \/ removeMember(t, a, u)
         \/ CommitSession(t) \/ CommitAssignment(t) \/ CommitAcceptance(t)
         \/ CommitDeactivation(t) \/ CommitRemoval(t) \/ CommitReactivation(t)
         \/ CommitRoleRemoval(t)
<1>1. ASSUME NEW x, Reads(t, x), x.op \notin Watched PROVE Aside(t)
  BY <1>1 DEF Reads, Start, Aside
<1>2. ASSUME UNCHANGED <<member, role, memberSession, crossed, promoted, txn>> PROVE Aside(t)
  BY <1>2 DEF Aside
<1>3. ASSUME UNCHANGED <<member, role, memberSession, crossed, promoted>>,
             txn' = [txn EXCEPT ![t] = NoTxn]
      PROVE  Aside(t)
  <2>1. NoTxn.op \notin Watched
    BY DEF NoTxn, Watched
  <2>2. QED
    BY <1>3, <2>1 DEF Aside
<1>4. ASSUME NEW a \in People, NEW u \in People,
             \/ \E i \in Invitations, r \in Assignable : createInvitation(t, a, i, u, r)
             \/ reactivateUser(t, a, u)
             \/ \E i \in Invitations : revokeInvitation(t, a, i)
             \/ removeCustomRole(t, a)
      PROVE  Aside(t)
  BY <1>1, <1>4 DEF createInvitation, reactivateUser, revokeInvitation, removeCustomRole, Watched
<1>5. ASSUME \/ \E i \in Invitations : acceptInvitation(t, i)
             \/ resolveSecret(t) \/ acceptPlatformInvitation(t) \/ revokePlatformInvitation(t)
      PROVE  Aside(t)
  BY <1>1, <1>5 DEF acceptInvitation, resolveSecret, acceptPlatformInvitation,
                    revokePlatformInvitation, Watched
<1>6. ASSUME \/ \E i \in Invitations : InvitationExpires(i)
             \/ \E a \in People, codes \in SUBSET Permissions :
                  createCustomRole(a, codes) \/ updatePermissions(a, codes)
             \/ \E a \in People : createApiKey(a) \/ revokeApiKey(a)
             \/ ApiKeyTimePasses \/ createPlatformInvitation \/ disablePlatformUser
      PROVE  Aside(t)
  BY <1>2, <1>6 DEF InvitationExpires, createCustomRole, updatePermissions, createApiKey,
                    revokeApiKey, ApiKeyTimePasses, createPlatformInvitation, disablePlatformUser
<1>7. ASSUME \/ CommitInvitation(t) \/ CommitRevocation(t) \/ CommitExpiry(t)
             \/ CommitPlatformAcceptance(t) \/ CommitPlatformRevocation(t) \/ Rollback(t)
      PROVE  Aside(t)
  BY <1>3, <1>7 DEF CommitInvitation, CommitRevocation, CommitExpiry, CommitPlatformAcceptance,
                    CommitPlatformRevocation, Rollback, Running
<1>8. CASE MembershipNext(t)
  BY <1>4, <1>5, <1>6, <1>7, <1>8, Zenon DEF MembershipNext, SessionNext, AssignmentNext
<1>9. CASE CustomRoleNext(t)
  BY <1>4, <1>6, <1>7, <1>9, Zenon DEF CustomRoleNext, SessionNext, AssignmentNext
<1>10. CASE KeyNext(t)
  BY <1>5, <1>6, <1>7, <1>10, Zenon DEF KeyNext, SessionNext
<1>11. CASE PlatformNext(t)
  BY <1>5, <1>6, <1>7, <1>11, Zenon DEF PlatformNext
<1>12. QED
  BY <1>8, <1>9, <1>10, <1>11, Zenon

\* Where no member's row is written, the invariant has to be shown of the
\* transaction that starts only.
LEMMA StartKept ==
  ASSUME MembershipInv, NEW t \in MemberCalls, NEW x, Reads(t, x),
         x.op \in {"login", "assign"} => member[x.of] = "ACTIVE",
         x.op \in {"remove", "deactivate"} => ~isOwner(x.of)
  PROVE  MembershipInv'
<1>1. /\ txn' = [txn EXCEPT ![t] = x]
      /\ UNCHANGED <<member, role, memberSession, crossed, promoted>>
  BY DEF Reads, Start
<1>2. MemberTypes
  BY DEF MembershipInv
<1>3. /\ txn' = [s \in MemberCalls |-> txn'[s]]
      /\ \A op \in Watched, u \in People : Under(op, u)' => Under(op, u) \/ (x.op = op /\ x.of = u)
  BY <1>1, <1>2, Started
<1>4. MemberTypes'
  BY <1>1, <1>2, <1>3 DEF MemberTypes
<1>5. GoneInv'
  <2> SUFFICES ASSUME NEW u \in People, u \notin crossed
               PROVE  /\ Gone(u) => /\ u \notin memberSession
                                    /\ ~Under("login", u)' /\ ~Under("assign", u)'
                      /\ member[u] = "REMOVED" => role[u] = {}
    BY <1>1 DEF GoneInv, Gone
  <2>1. Gone(u) => ~Under("login", u)' /\ ~Under("assign", u)'
    BY <1>3 DEF MembershipInv, GoneInv, Gone, Watched
  <2>2. QED
    BY <2>1 DEF MembershipInv, GoneInv
<1>6. LeavingInv'
  <2> SUFFICES ASSUME NEW u \in People, Under("remove", u)' \/ Under("deactivate", u)', isOwner(u)
               PROVE  u \in promoted
    BY <1>1 DEF LeavingInv, isOwner
  <2>1. QED
    BY <1>3 DEF MembershipInv, LeavingInv, Watched
<1>7. QED
  BY <1>4, <1>5, <1>6 DEF MembershipInv

LEMMA MembershipStep ==
  ASSUME MembershipInv, [MembersNext]_memberVars
  PROVE  MembershipInv'
<1>1. MemberTypes /\ GoneInv /\ LeavingInv
  BY DEF MembershipInv
<1>2. CASE UNCHANGED memberVars
  BY <1>1, <1>2 DEF MembershipInv, MemberTypes, GoneInv, LeavingInv, Gone, Under, isOwner, memberVars
<1>3. ASSUME NEW t \in MemberCalls, Aside(t) PROVE MembershipInv'
  <2>1. UNCHANGED <<member, role, memberSession, crossed, promoted>>
    BY <1>3 DEF Aside
  <2>2. /\ txn' = [s \in MemberCalls |-> txn'[s]]
        /\ \A op \in Watched, u \in People : Under(op, u)' => Under(op, u)
    <3>1. CASE UNCHANGED txn
      BY <1>1, <3>1 DEF MemberTypes, Under
    <3>2. ASSUME NEW x, x.op \notin Watched, txn' = [txn EXCEPT ![t] = x]
          PROVE  /\ txn' = [s \in MemberCalls |-> txn'[s]]
                 /\ \A op \in Watched, u \in People : Under(op, u)' => Under(op, u)
      BY <1>1, <3>2, Started
    <3>3. QED
      BY <1>3, <3>1, <3>2 DEF Aside
  <2>3. \A op \in {"login", "assign", "remove", "deactivate"}, u \in People : Under(op, u)' => Under(op, u)
    BY <2>2 DEF Watched
  <2>4. MemberTypes'
    BY <1>1, <2>1, <2>2 DEF MemberTypes
  <2>5. GoneInv' /\ LeavingInv'
    BY <1>1, <2>1, <2>3 DEF GoneInv, LeavingInv, Gone, isOwner
  <2>6. QED
    BY <2>4, <2>5 DEF MembershipInv
<1>4. ASSUME NEW t \in MemberCalls, NEW u \in People, issueMemberSession(t, u) PROVE MembershipInv'
  <2> DEFINE x == [op |-> "login", of |-> u]
  <2>1. Reads(t, x) /\ member[u] = "ACTIVE"
    BY <1>4 DEF issueMemberSession
  <2>2. x.op = "login" /\ x.of = u
    OBVIOUS
  <2> HIDE DEF x
  <2>3. QED
    BY <2>1, <2>2, StartKept
<1>5. ASSUME NEW t \in MemberCalls, NEW a \in People, NEW u \in People, NEW r \in Assignable,
             assignUserRole(t, a, u, r)
      PROVE  MembershipInv'
  <2> DEFINE x == [op |-> "assign", of |-> u, role |-> r]
  <2>1. Reads(t, x) /\ member[u] = "ACTIVE"
    BY <1>5 DEF assignUserRole
  <2>2. x.op = "assign" /\ x.of = u
    OBVIOUS
  <2> HIDE DEF x
  <2>3. QED
    BY <2>1, <2>2, StartKept
<1>6. ASSUME NEW t \in MemberCalls, NEW a \in People, NEW u \in People,
             deactivateUser(t, a, u) \/ removeMember(t, a, u)
      PROVE  MembershipInv'
  <2>1. PICK op \in {"deactivate", "remove"} : Reads(t, [op |-> op, of |-> u])
    BY <1>6 DEF deactivateUser, removeMember
  <2>2. ~isOwner(u)
    BY <1>6 DEF deactivateUser, removeMember, mayLeave
  <2> DEFINE x == [op |-> op, of |-> u]
  <2>3. Reads(t, x) /\ x.op \in {"deactivate", "remove"} /\ x.of = u
    BY <2>1
  <2> HIDE DEF x
  <2>4. QED
    BY <2>2, <2>3, StartKept
\* A transaction that commits is no longer under way.
<1>7. ASSUME NEW t \in MemberCalls, NEW op, Running(t, op)
      PROVE  /\ txn[t].op = op
             /\ Under(op, txn[t].of)
             /\ txn' = [s \in MemberCalls |-> txn'[s]]
             /\ \A o \in {"login", "assign", "remove", "deactivate"}, u \in People :
                  Under(o, u)' => Under(o, u)
  <2>1. txn[t].op = op /\ txn' = [txn EXCEPT ![t] = NoTxn]
    BY <1>7 DEF Running
  <2>2. QED
    BY <1>1, <2>1, Finished DEF Under, Watched
<1>8. ASSUME NEW t \in MemberCalls, CommitSession(t) PROVE MembershipInv'
  <2>1. Running(t, "login") /\ UNCHANGED <<member, role, crossed, promoted>>
        /\ memberSession' = memberSession \cup {txn[t].of}
    BY <1>8 DEF CommitSession
  <2>2. MemberTypes'
    BY <1>1, <1>7, <2>1 DEF MemberTypes
  <2>3. GoneInv'
    BY <1>1, <1>7, <2>1 DEF GoneInv, Gone
  <2>4. LeavingInv'
    BY <1>1, <1>7, <2>1 DEF LeavingInv, isOwner
  <2>5. QED
    BY <2>2, <2>3, <2>4 DEF MembershipInv
<1>9. ASSUME NEW t \in MemberCalls, CommitDeactivation(t) \/ CommitRemoval(t) PROVE MembershipInv'
  <2> DEFINE u == txn[t].of
  <2>1. /\ memberSession' = memberSession \ {u}
        /\ crossed' = IF Under("login", u) \/ Under("assign", u) THEN crossed \cup {u} ELSE crossed
        /\ UNCHANGED promoted
    BY <1>9 DEF CommitDeactivation, CommitRemoval, Leaves
  <2>2. \E op : Running(t, op)
    BY <1>9 DEF CommitDeactivation, CommitRemoval
  <2>3. \/ member' = [member EXCEPT ![u] = "DISABLED"] /\ UNCHANGED role
        \/ member' = [member EXCEPT ![u] = "REMOVED"] /\ role' = [role EXCEPT ![u] = {}]
    BY <1>9 DEF CommitDeactivation, CommitRemoval
  <2> HIDE DEF u
  <2>4. /\ txn' = [s \in MemberCalls |-> txn'[s]]
        /\ \A o \in {"login", "assign", "remove", "deactivate"}, v \in People :
             Under(o, v)' => Under(o, v)
    BY <1>7, <2>2
  <2>5. MemberTypes'
    BY <1>1, <2>3, <2>4 DEF MemberTypes
  <2>6. \A v \in People : v # u => member'[v] = member[v] /\ role'[v] = role[v]
    BY <1>1, <2>3 DEF MemberTypes
  <2>7. u \in People => role'[u] \in {role[u], {}} /\ (member'[u] = "REMOVED" => role'[u] = {})
    BY <1>1, <2>3 DEF MemberTypes
  <2>8. GoneInv'
    BY <1>1, <2>1, <2>4, <2>6, <2>7 DEF GoneInv, Gone
  <2>9. \A v \in People : isOwner(v)' => isOwner(v)
    BY <2>6, <2>7 DEF isOwner
  <2>10. LeavingInv'
    BY <1>1, <2>1, <2>4, <2>9 DEF LeavingInv
  <2>11. QED
    BY <2>5, <2>8, <2>10 DEF MembershipInv
<1>10. ASSUME NEW t \in MemberCalls, CommitReactivation(t) PROVE MembershipInv'
  <2>1. /\ Running(t, "reactivate")
        /\ member' = [member EXCEPT ![txn[t].of] = "ACTIVE"]
        /\ UNCHANGED <<role, memberSession, crossed, promoted>>
    BY <1>10 DEF CommitReactivation
  <2>2. \A v \in People : member'[v] = member[v] \/ member'[v] = "ACTIVE"
    BY <1>1, <2>1 DEF MemberTypes
  <2>3. MemberTypes'
    BY <1>1, <1>7, <2>1 DEF MemberTypes
  <2>4. GoneInv'
    BY <1>1, <1>7, <2>1, <2>2 DEF GoneInv, Gone
  <2>5. LeavingInv'
    BY <1>1, <1>7, <2>1 DEF LeavingInv, isOwner
  <2>6. QED
    BY <2>3, <2>4, <2>5 DEF MembershipInv
\* A role that is given reaches nobody who is gone, and an owner made while
\* their leaving is under way is counted as promoted.
<1>11. ASSUME NEW t \in MemberCalls, CommitAssignment(t) PROVE MembershipInv'
  <2> DEFINE u == txn[t].of
             r == txn[t].role
  <2>1. Running(t, "assign") /\ UNCHANGED <<member, memberSession, crossed>>
    BY <1>11 DEF CommitAssignment
  <2>2. \/ UNCHANGED <<role, promoted>>
        \/ role' = [role EXCEPT ![u] = {r}] /\ Promotes(u, r)
    BY <1>11 DEF CommitAssignment
  <2>3. Under("assign", u)
    BY <1>7, <2>1
  <2> HIDE DEF u, r
  <2>4. ASSUME UNCHANGED <<role, promoted>> PROVE MembershipInv'
    <3>1. MemberTypes'
      BY <1>1, <1>7, <2>1, <2>4 DEF MemberTypes
    <3>2. GoneInv'
      BY <1>1, <1>7, <2>1, <2>4 DEF GoneInv, Gone
    <3>3. LeavingInv'
      BY <1>1, <1>7, <2>1, <2>4 DEF LeavingInv, isOwner
    <3>4. QED
      BY <3>1, <3>2, <3>3 DEF MembershipInv
  <2>5. ASSUME role' = [role EXCEPT ![u] = {r}], Promotes(u, r) PROVE MembershipInv'
    <3>1. \A v \in People : role'[v] = IF v = u THEN {r} ELSE role[v]
      BY <1>1, <2>5 DEF MemberTypes
    <3>2. MemberTypes'
      BY <1>1, <1>7, <2>1, <2>5 DEF MemberTypes
    <3>3. GoneInv'
      <4>1. u \in People \ crossed => ~Gone(u)
        BY <1>1, <2>3 DEF GoneInv
      <4>2. QED
        BY <1>1, <1>7, <2>1, <3>1, <4>1 DEF GoneInv, Gone
    <3>4. LeavingInv'
      <4>1. \A v \in People : isOwner(v)' => isOwner(v) \/ (v = u /\ r = "MERCHANT_OWNER")
        BY <3>1 DEF isOwner
      <4>2. QED
        BY <1>1, <1>7, <2>1, <2>5, <4>1 DEF LeavingInv, Promotes
    <3>5. QED
      BY <3>2, <3>3, <3>4 DEF MembershipInv
  <2>6. QED
    BY <2>2, <2>4, <2>5

<1>12. ASSUME NEW t \in MemberCalls, CommitAcceptance(t) PROVE MembershipInv'
  <2> DEFINE u == txn[t].of
             r == txn[t].role
  <2>1. Running(t, "accept") /\ UNCHANGED <<memberSession, crossed>>
    BY <1>12 DEF CommitAcceptance
  <2>2. \/ UNCHANGED <<member, role, promoted>>
        \/ /\ member' = [member EXCEPT ![u] = "ACTIVE"]
           /\ role' = [role EXCEPT ![u] = @ \cup {r}]
           /\ Promotes(u, r)
    BY <1>12 DEF CommitAcceptance
  <2> HIDE DEF u, r
  <2>3. ASSUME UNCHANGED <<member, role, promoted>> PROVE MembershipInv'
    <3>1. MemberTypes'
      BY <1>1, <1>7, <2>1, <2>3 DEF MemberTypes
    <3>2. GoneInv'
      BY <1>1, <1>7, <2>1, <2>3 DEF GoneInv, Gone
    <3>3. LeavingInv'
      BY <1>1, <1>7, <2>1, <2>3 DEF LeavingInv, isOwner
    <3>4. QED
      BY <3>1, <3>2, <3>3 DEF MembershipInv
  <2>4. ASSUME member' = [member EXCEPT ![u] = "ACTIVE"],
               role' = [role EXCEPT ![u] = @ \cup {r}], Promotes(u, r)
        PROVE  MembershipInv'
    <3>1. \A v \in People : /\ role'[v] = IF v = u THEN role[v] \cup {r} ELSE role[v]
                            /\ member'[v] = IF v = u THEN "ACTIVE" ELSE member[v]
      BY <1>1, <2>4 DEF MemberTypes
    <3>2. MemberTypes'
      BY <1>1, <1>7, <2>1, <2>4 DEF MemberTypes
    <3>3. GoneInv'
      BY <1>1, <1>7, <2>1, <3>1 DEF GoneInv, Gone
    <3>4. LeavingInv'
      <4>1. \A v \in People : isOwner(v)' => isOwner(v) \/ (v = u /\ r = "MERCHANT_OWNER")
        BY <3>1 DEF isOwner
      <4>2. QED
        BY <1>1, <1>7, <2>1, <2>4, <4>1 DEF LeavingInv, Promotes
    <3>5. QED
      BY <3>2, <3>3, <3>4 DEF MembershipInv
  <2>5. QED
    BY <2>2, <2>3, <2>4
<1>13. ASSUME NEW t \in MemberCalls, CommitRoleRemoval(t) PROVE MembershipInv'
  <2>1. /\ Running(t, "drop role")
        /\ role' = [u \in People |-> role[u] \ {Custom}]
        /\ UNCHANGED <<member, memberSession, crossed, promoted>>
    BY <1>13 DEF CommitRoleRemoval
  <2>2. MemberTypes'
    BY <1>1, <1>7, <2>1 DEF MemberTypes
  <2>3. \A v \in People : role'[v] \subseteq role[v]
    BY <2>1
  <2>4. GoneInv'
    BY <1>1, <1>7, <2>1, <2>3 DEF GoneInv, Gone
  <2>5. LeavingInv'
    BY <1>1, <1>7, <2>1, <2>3 DEF LeavingInv, isOwner
  <2>6. QED
    BY <2>2, <2>4, <2>5 DEF MembershipInv
<1>14. QED
  BY <1>2, <1>3, <1>4, <1>5, <1>6, <1>8, <1>9, <1>10, <1>11, <1>12, <1>13, MemberSteps
     DEF MembersNext

LEMMA MembershipInit == MembersInit => MembershipInv
<1> SUFFICES ASSUME MembersInit PROVE MembershipInv
  OBVIOUS
<1>1. MemberTypes
  BY DEF MembersInit, MemberTypes
<1>2. \A op \in Watched, u \in People : ~Under(op, u)
  BY DEF MembersInit, Under, NoTxn, Watched
<1>3. \A u \in People : ~Gone(u) /\ member[u] # "REMOVED"
  BY DEF MembersInit, Gone
<1>4. QED
  BY <1>1, <1>2, <1>3 DEF MembershipInv, GoneInv, LeavingInv, Watched

\* Whoever was removed holds no role, and whoever was removed or disabled no
\* session, however many calls of however many members interleave, but for the
\* people of whom a login or an assignment was under way when they left.
THEOREM Leavers == MembersInit /\ [][MembersNext]_memberVars => []LeaversKeepNothing
<1>1. MembershipInv => LeaversKeepNothing
  BY DEF MembershipInv, GoneInv, Gone, LeaversKeepNothing
<1>2. QED
  BY <1>1, MembershipInit, MembershipStep, PTL

\* No step of any of the calls disables or removes the membership of an owner,
\* unless they were made owner while their leaving was under way.
THEOREM Owners == MembersInit /\ [][MembersNext]_memberVars => OwnersStay
<1> DEFINE Stays == \A u \in People :
             isOwner(u) /\ member[u] = "ACTIVE" /\ member'[u] \in {"DISABLED", "REMOVED"}
             => u \in promoted
<1>1. ASSUME MembershipInv, [MembersNext]_memberVars PROVE Stays
  <2>1. MemberTypes /\ LeavingInv
    BY <1>1 DEF MembershipInv
  <2>2. ASSUME \A u \in People : member'[u] = member[u] \/ member'[u] = "ACTIVE" PROVE Stays
    BY <2>2
  <2>3. CASE UNCHANGED memberVars
    BY <2>2, <2>3 DEF memberVars
  <2>4. ASSUME NEW t \in MemberCalls, Aside(t) PROVE Stays
    BY <2>2, <2>4 DEF Aside
  <2>5. ASSUME NEW t \in MemberCalls,
               \/ \E u \in People : issueMemberSession(t, u)
               \/ \E a, u \in People, r \in Assignable : assignUserRole(t, a, u, r)
               \/ \E a, u \in People : deactivateUser(t, a, u) \/ removeMember(t, a, u)
        PROVE  Stays
    BY <2>2, <2>5 DEF issueMemberSession, assignUserRole, deactivateUser, removeMember, Reads
  <2>6. ASSUME NEW t \in MemberCalls, CommitSession(t) \/ CommitAssignment(t) \/ CommitRoleRemoval(t)
        PROVE  Stays
    BY <2>2, <2>6 DEF CommitSession, CommitAssignment, CommitRoleRemoval
  <2>7. ASSUME NEW t \in MemberCalls, CommitAcceptance(t) \/ CommitReactivation(t)
        PROVE  Stays
    <3>1. UNCHANGED member \/ \E v : member' = [member EXCEPT ![v] = "ACTIVE"]
      BY <2>7 DEF CommitAcceptance, CommitReactivation
    <3>2. \A u \in People : member'[u] = member[u] \/ member'[u] = "ACTIVE"
      BY <2>1, <3>1 DEF MemberTypes
    <3>3. QED
      BY <2>2, <3>2
  <2>8. ASSUME NEW t \in MemberCalls, CommitDeactivation(t) \/ CommitRemoval(t)
        PROVE  Stays
    <3> DEFINE v == txn[t].of
    <3>1. \/ member' = [member EXCEPT ![v] = "DISABLED"]
          \/ member' = [member EXCEPT ![v] = "REMOVED"]
      BY <2>8 DEF CommitDeactivation, CommitRemoval
    <3>2. Under("remove", v) \/ Under("deactivate", v)
      BY <2>8 DEF CommitDeactivation, CommitRemoval, Running, Under
    <3> HIDE DEF v
    <3>3. \A u \in People : u # v => member'[u] = member[u]
      BY <2>1, <3>1 DEF MemberTypes
    <3>4. QED
      BY <2>1, <3>2, <3>3 DEF LeavingInv
  <2> HIDE DEF Stays
  <2>9. QED
    BY <1>1, <2>3, <2>4, <2>5, <2>6, <2>7, <2>8, MemberSteps, Zenon DEF MembersNext
<1>2. QED
  BY <1>1, MembershipInit, MembershipStep, PTL DEF OwnersStay

-----------------------------------------------------------------------------
(***************************************************************************)
(* The calls of an operation, their key and their step-up tokens.          *)
(***************************************************************************)

CallRows ==
  [pc : InFlight, payload : Payloads, tokens : SUBSET Tokens, meta : BOOLEAN,
   apiKey : BOOLEAN, at : Nat \ {0}]
EndRows == [pc : {"idle", "replied", "refused", "lost"}]

KeyStatuses == {"none", "STARTED", "COMPLETED", "FAILED"}

RequestTypes ==
  /\ keyRow.status \in KeyStatuses
  /\ route \in AllRoutes
  /\ req \in [Requests -> CallRows \cup EndRows]
  /\ token \in [Tokens -> [purpose : Purposes, state : {"live", "consumed"}]]
  /\ admitted \in [Tokens -> SUBSET Requests]
  /\ effects \subseteq [call : Requests, payload : Payloads]

\* A call that is past the key's hook has the key.
PastKey(q) ==
  /\ q.pc = "hooks" =>
       \A k \in DOMAIN route.hooks : route.hooks[k].need = "key" /\ k < q.at => q.meta
  /\ q.pc \in {"handler", "complete", "fail"} /\ keyed => q.meta

Live(r) == req[r].pc \in InFlight /\ req[r].meta
Did(r) == \E e \in effects : e.call = r

\* Without a row nobody has the key.  Whoever inserted the row is alone with it
\* until the row says FAILED; from then on nobody is.
AloneWithKey ==
  /\ keyRow = NoRow => reopened = {} /\ \A r \in Requests : ~Live(r) /\ ~Did(r)
  /\ \A r, s \in Requests \ reopened : (Live(r) \/ Did(r)) /\ (Live(s) \/ Did(s)) => r = s
  /\ \A r \in Requests \ reopened : Live(r) => keyRow.status = "STARTED" /\ reopened = {}

\* All who have it, and all they did, have the payload of the row.
OnePayload ==
  /\ \A r \in Requests : Live(r) => req[r].payload = keyRow.payload
  /\ \A e \in effects : e.payload = keyRow.payload

\* What a call completes with it has done, and so has whoever's reply is stored.
RepliesTrue ==
  /\ \A r \in Requests : req[r].pc = "complete" => Did(r)
  /\ keyRow.status = "COMPLETED" => \E r \in Requests : keyRow.reply = {r} /\ Did(r)

TokensOnce ==
  \A t \in Tokens : admitted[t] # {} =>
    token[t].state = "consumed" /\ \E r \in Requests : admitted[t] = {r}

RequestsInv ==
  /\ RequestTypes
  /\ \A r \in Requests : PastKey(req[r])
  /\ keyed => AloneWithKey /\ OnePayload /\ RepliesTrue
  /\ TokensOnce

\* The hooks that only look at the session stand before the key's, so that a
\* call begins at or before it.
LEMMA BeginsBeforeKey ==
  ASSUME RequestTypes, NEW k \in DOMAIN route.hooks, ~looksOnly(route.hooks[k])
  PROVE  /\ Cardinality({j \in DOMAIN route.hooks : looksOnly(route.hooks[j])}) \in Nat
         /\ Cardinality({j \in DOMAIN route.hooks : looksOnly(route.hooks[j])}) < k
<1> DEFINE looking == {j \in DOMAIN route.hooks : looksOnly(route.hooks[j])}
<1>1. /\ Len(route.hooks) \in Nat /\ DOMAIN route.hooks = 1..Len(route.hooks)
      /\ \A i, j \in DOMAIN route.hooks : looksOnly(route.hooks[j]) /\ i < j => looksOnly(route.hooks[i])
  BY HooksAreListed, SessionHooksComeFirst, Zenon DEF RequestTypes
<1>2. k \in Nat /\ k >= 1
  BY <1>1
<1>3. ASSUME NEW j \in looking PROVE j \in 1..(k - 1)
  <2>1. j \in 1..Len(route.hooks) /\ looksOnly(route.hooks[j]) /\ k \in 1..Len(route.hooks)
    BY <1>1, <1>3
  <2>2. ~(k < j) /\ j # k
    BY <1>1, <2>1
  <2>3. QED
    BY <1>1, <2>1, <2>2
<1>4. looking \subseteq 1..(k - 1)
  BY <1>3
<1>5. IsFiniteSet(1..(k - 1)) /\ Cardinality(1..(k - 1)) = k - 1
  <2>1. 1 \in Int /\ k - 1 \in Int
    BY <1>2
  <2>2. /\ IsFiniteSet(1..(k - 1))
        /\ Cardinality(1..(k - 1)) = IF 1 > k - 1 THEN 0 ELSE (k - 1) - 1 + 1
    BY <2>1, FS_Interval, Zenon
  <2>3. QED
    BY <1>2, <2>2
<1>6. Cardinality(looking) \in Nat /\ Cardinality(looking) <= k - 1
  BY <1>4, <1>5, FS_Subset, FS_CardinalityType
<1>7. QED
  BY <1>2, <1>6

LEMMA BeginsSomewhere ==
  ASSUME RequestTypes
  PROVE  Cardinality({j \in DOMAIN route.hooks : looksOnly(route.hooks[j])}) \in Nat
<1>1. Len(route.hooks) \in Nat /\ DOMAIN route.hooks = 1..Len(route.hooks)
  BY HooksAreListed, Zenon DEF RequestTypes
<1>2. IsFiniteSet(1..Len(route.hooks))
  BY <1>1, FS_Interval
<1>3. QED
  BY <1>1, <1>2, FS_Subset, FS_CardinalityType

LEMMA UnderWay ==
  ASSUME RequestTypes, NEW r \in Requests, req[r].pc \in InFlight
  PROVE  req[r] \in CallRows
<1>1. \A q \in EndRows : q.pc \notin InFlight
  BY DEF EndRows, InFlight
<1>2. QED
  BY <1>1 DEF RequestTypes

\* What the writes of a call's row leave.
LEMMA RowWrites ==
  ASSUME NEW q \in CallRows
  PROVE  /\ q.at \in Nat /\ q.at > 0 /\ q.payload \in Payloads /\ q.meta \in BOOLEAN
         /\ \A p \in InFlight :
              /\ [q EXCEPT !.pc = p] \in CallRows /\ [q EXCEPT !.pc = p].pc = p
              /\ [q EXCEPT !.pc = p].meta = q.meta /\ [q EXCEPT !.pc = p].at = q.at
              /\ [q EXCEPT !.pc = p].payload = q.payload
         /\ [q EXCEPT !.at = q.at + 1] \in CallRows /\ [q EXCEPT !.at = q.at + 1].pc = q.pc
         /\ [q EXCEPT !.at = q.at + 1].at = q.at + 1 /\ [q EXCEPT !.at = q.at + 1].meta = q.meta
         /\ [q EXCEPT !.at = q.at + 1].payload = q.payload
<1>1. q.at \in Nat /\ q.at > 0 /\ q.at + 1 \in Nat \ {0} /\ q.payload \in Payloads /\ q.meta \in BOOLEAN
  <2>1. q.at \in Nat \ {0} /\ q.payload \in Payloads /\ q.meta \in BOOLEAN
    BY DEF CallRows
  <2>2. QED
    BY <2>1
<1>2. ASSUME NEW p \in InFlight
      PROVE  /\ [q EXCEPT !.pc = p] \in CallRows /\ [q EXCEPT !.pc = p].pc = p
             /\ [q EXCEPT !.pc = p].meta = q.meta /\ [q EXCEPT !.pc = p].at = q.at
             /\ [q EXCEPT !.pc = p].payload = q.payload
  BY DEF CallRows
<1> DEFINE n == q.at + 1
<1> HIDE DEF n
<1>3. n \in Nat \ {0} => /\ [q EXCEPT !.at = n] \in CallRows /\ [q EXCEPT !.at = n].pc = q.pc
                   /\ [q EXCEPT !.at = n].at = n /\ [q EXCEPT !.at = n].meta = q.meta
                   /\ [q EXCEPT !.at = n].payload = q.payload
  BY DEF CallRows
<1>4. QED
  BY <1>1, <1>2, <1>3 DEF n

\* The row of a call that has passed the key's hook.
LEMMA KeyWrites ==
  ASSUME NEW q \in CallRows, NEW n \in Nat \ {0}
  PROVE  /\ [q EXCEPT !.pc = "hooks", !.at = n, !.meta = TRUE] \in CallRows
         /\ [q EXCEPT !.pc = "hooks", !.at = n, !.meta = TRUE].pc = "hooks"
         /\ [q EXCEPT !.pc = "hooks", !.at = n, !.meta = TRUE].meta = TRUE
         /\ [q EXCEPT !.pc = "hooks", !.at = n, !.meta = TRUE].payload = q.payload
         /\ [q EXCEPT !.at = n, !.meta = TRUE] \in CallRows
         /\ [q EXCEPT !.at = n, !.meta = TRUE].pc = q.pc
         /\ [q EXCEPT !.at = n, !.meta = TRUE].meta = TRUE
         /\ [q EXCEPT !.at = n, !.meta = TRUE].payload = q.payload
<1>1. "hooks" \in InFlight
  BY DEF InFlight
<1>2. QED
  BY <1>1 DEF CallRows

LEMMA Becomes ==
  ASSUME RequestTypes, NEW r \in Requests, NEW q \in CallRows \cup EndRows,
         req' = [req EXCEPT ![r] = q]
  PROVE  /\ req' \in [Requests -> CallRows \cup EndRows]
         /\ \A s \in Requests : req'[s] = IF s = r THEN q ELSE req[s]
  BY DEF RequestTypes

\* A call that moves without coming to the key and without an effect.
LEMMA QuietMove ==
  ASSUME RequestsInv, NEW r \in Requests, NEW q \in CallRows \cup EndRows,
         req' = [req EXCEPT ![r] = q], PastKey(q),
         q.pc # "complete",
         q.pc \in InFlight /\ q.meta => Live(r) /\ q.payload = req[r].payload,
         UNCHANGED <<route, keyRow, effects, reopened>>,
         token' \in [Tokens -> [purpose : Purposes, state : {"live", "consumed"}]],
         admitted' \in [Tokens -> SUBSET Requests],
         TokensOnce'
  PROVE  RequestsInv'
<1>1. RequestTypes /\ \A s \in Requests : PastKey(req[s])
  BY DEF RequestsInv
<1>2. /\ req' \in [Requests -> CallRows \cup EndRows]
      /\ \A s \in Requests : req'[s] = IF s = r THEN q ELSE req[s]
  BY <1>1, Becomes
<1>3. RequestTypes'
  BY <1>1, <1>2 DEF RequestTypes
<1>4. keyed' = keyed /\ \A s \in Requests : PastKey(req[s])'
  <2>1. keyed' = keyed
    BY DEF keyed, has
  <2>2. QED
    BY <1>1, <1>2, <2>1 DEF PastKey
<1>5. \A s \in Requests : Live(s)' => Live(s) /\ req'[s].payload = req[s].payload
  BY <1>2 DEF Live
<1>6. \A s \in Requests : Did(s)' <=> Did(s)
  BY DEF Did
<1>7. ASSUME keyed PROVE (AloneWithKey /\ OnePayload /\ RepliesTrue)'
  <2>1. AloneWithKey /\ OnePayload /\ RepliesTrue
    BY <1>7 DEF RequestsInv
  <2>2. AloneWithKey'
    BY <1>5, <1>6, <2>1 DEF AloneWithKey
  <2>3. OnePayload'
    BY <1>5, <2>1 DEF OnePayload
  <2>4. \A s \in Requests : req'[s].pc = "complete" => req[s].pc = "complete"
    BY <1>2
  <2>5. RepliesTrue'
    BY <1>6, <2>1, <2>4 DEF RepliesTrue
  <2>6. QED
    BY <2>2, <2>3, <2>5
<1>8. QED
  BY <1>3, <1>4, <1>7 DEF RequestsInv

LEMMA HookNumbers ==
  ASSUME RequestTypes
  PROVE  Len(route.hooks) \in Nat /\ DOMAIN route.hooks = 1..Len(route.hooks)
  BY HooksAreListed, Zenon DEF RequestTypes

\* A call ends, is at the next hook, or only its step changes.
LEMMA CallEnds ==
  ASSUME RequestsInv, NEW r \in Requests, NEW p \in {"replied", "refused", "lost"}, End(r, p),
         UNCHANGED <<route, keyRow, effects, reopened, token, admitted>>
  PROVE  RequestsInv'
<1> DEFINE q == [pc |-> p]
<1>1. q \in CallRows \cup EndRows /\ q.pc = p
  BY DEF EndRows
<1>2. req' = [req EXCEPT ![r] = q]
  BY DEF End
<1> HIDE DEF q
<1>3. q.pc \notin InFlight /\ q.pc # "complete" /\ PastKey(q)
  BY <1>1 DEF InFlight, PastKey
<1>4. RequestTypes /\ TokensOnce
  BY DEF RequestsInv
<1>5. /\ token' \in [Tokens -> [purpose : Purposes, state : {"live", "consumed"}]]
      /\ admitted' \in [Tokens -> SUBSET Requests]
      /\ TokensOnce'
  BY <1>4 DEF RequestTypes, TokensOnce
<1>6. QED
  BY <1>1, <1>2, <1>3, <1>5, QuietMove

LEMMA NextHooks ==
  ASSUME RequestsInv, NEW r \in Requests, req[r].pc = "hooks", hook(r).need # "key",
         req[r].at \in DOMAIN route.hooks, NextHook(r)
  PROVE  \E q \in CallRows :
           /\ req' = [req EXCEPT ![r] = q]
           /\ PastKey(q) /\ q.pc = "hooks"
           /\ q.meta = req[r].meta /\ q.payload = req[r].payload
<1> DEFINE q == [req[r] EXCEPT !.at = req[r].at + 1]
<1>1. RequestTypes /\ PastKey(req[r])
  BY DEF RequestsInv
<1>2. req[r] \in CallRows
  BY <1>1, UnderWay DEF InFlight
<1>3. /\ q \in CallRows /\ q.pc = "hooks" /\ q.at = req[r].at + 1 /\ req[r].at \in Nat
      /\ q.meta = req[r].meta /\ q.payload = req[r].payload
  BY <1>2, RowWrites
<1>4. req' = [req EXCEPT ![r] = q]
  BY DEF NextHook
<1> HIDE DEF q
<1>5. PastKey(q)
  <2> SUFFICES ASSUME NEW k \in DOMAIN route.hooks, route.hooks[k].need = "key", k < q.at
               PROVE  req[r].meta
    BY <1>3 DEF PastKey
  <2>1. k \in Nat /\ k # req[r].at
    BY <1>1, HookNumbers DEF hook
  <2>2. k < req[r].at
    BY <1>3, <2>1
  <2>3. QED
    BY <1>1, <2>2 DEF PastKey
<1>6. QED
  BY <1>3, <1>4, <1>5

LEMMA StepChanges ==
  ASSUME RequestsInv, NEW r \in Requests, req[r].pc \in InFlight,
         NEW p \in {"insert", "handler", "fail"}, Goto(r, p),
         p # "insert" => (keyed => req[r].meta),
         UNCHANGED <<route, keyRow, effects, reopened, token, admitted>>
  PROVE  RequestsInv'
<1> DEFINE q == [req[r] EXCEPT !.pc = p]
<1>1. RequestTypes /\ TokensOnce
  BY DEF RequestsInv
<1>2. req[r] \in CallRows /\ p \in InFlight
  BY <1>1, UnderWay DEF InFlight
<1>3. q \in CallRows /\ q.pc = p /\ q.meta = req[r].meta /\ q.payload = req[r].payload
  BY <1>2, RowWrites
<1>4. req' = [req EXCEPT ![r] = q]
  BY DEF Goto
<1> HIDE DEF q
<1>5. PastKey(q)
  BY <1>3 DEF PastKey
<1>6. /\ token' \in [Tokens -> [purpose : Purposes, state : {"live", "consumed"}]]
      /\ admitted' \in [Tokens -> SUBSET Requests]
      /\ TokensOnce'
  BY <1>1 DEF RequestTypes, TokensOnce
<1>7. q.pc \in InFlight /\ q.meta => Live(r) /\ q.payload = req[r].payload
  BY <1>3 DEF Live
<1>8. QED
  BY <1>3, <1>4, <1>5, <1>6, <1>7, QuietMove

LEMMA CallBegins ==
  ASSUME RequestsInv, NEW r \in Requests, NEW c \in Callers, NEW p \in Payloads,
         NEW ts \in SUBSET Tokens, apiV1AuthHook(r, c, p, ts)
  PROVE  RequestsInv'
<1>1. RequestTypes /\ TokensOnce
  BY DEF RequestsInv
<1>2. UNCHANGED <<route, keyRow, token, effects, admitted, reopened>>
  BY DEF apiV1AuthHook
<1>3. CASE End(r, "refused")
  BY <1>2, <1>3, CallEnds
<1> DEFINE n == Cardinality({k \in DOMAIN route.hooks : looksOnly(route.hooks[k])})
           b == c.credential = "api_key"
           q == [pc |-> "hooks", payload |-> p, tokens |-> ts, meta |-> FALSE, apiKey |-> b, at |-> 1 + n]
<1>4. CASE req' = [req EXCEPT ![r] = q]
  <2>1. n \in Nat /\ \A k \in DOMAIN route.hooks : route.hooks[k].need = "key" => n < k
    <3>1. \A k \in DOMAIN route.hooks : route.hooks[k].need = "key" => ~looksOnly(route.hooks[k])
      BY DEF looksOnly
    <3>2. QED
      BY <1>1, <3>1, BeginsBeforeKey, BeginsSomewhere
  <2>2. b \in BOOLEAN
    OBVIOUS
  <2> HIDE DEF n, b
  <2>3. 1 + n \in Nat \ {0}
    BY <2>1
  <2>4. q \in CallRows /\ q.pc = "hooks" /\ q.at = 1 + n /\ q.meta = FALSE
    BY <2>2, <2>3 DEF CallRows, InFlight
  <2> HIDE DEF q
  <2>5. PastKey(q)
    <3> SUFFICES ASSUME NEW k \in DOMAIN route.hooks, route.hooks[k].need = "key", k < q.at
                 PROVE  FALSE
      BY <2>4 DEF PastKey
    <3>1. n < k /\ k < 1 + n /\ n \in Nat /\ k \in Nat
      BY <1>1, <2>1, <2>4, HookNumbers
    <3>2. QED
      BY <3>1
  <2>6. /\ token' \in [Tokens -> [purpose : Purposes, state : {"live", "consumed"}]]
        /\ admitted' \in [Tokens -> SUBSET Requests]
        /\ TokensOnce'
    BY <1>1, <1>2 DEF RequestTypes, TokensOnce
  <2>7. QED
    BY <1>2, <1>4, <2>4, <2>5, <2>6, QuietMove
<1>5. QED
  BY <1>3, <1>4 DEF apiV1AuthHook

LEMMA StepUpKept ==
  ASSUME RequestsInv, NEW r \in Requests, requireStepUp(r)
  PROVE  RequestsInv'
<1>1. RequestTypes /\ TokensOnce
  BY DEF RequestsInv
<1>2. /\ req[r].pc = "hooks" /\ req[r].at <= Len(route.hooks) /\ hook(r).need = "step-up"
      /\ UNCHANGED <<route, keyRow, effects, reopened>>
  BY DEF requireStepUp, AtHook
<1>3. CASE End(r, "refused") /\ UNCHANGED <<token, admitted>>
  BY <1>2, <1>3, CallEnds
<1>4. ASSUME NEW t \in req[r].tokens, token[t].state = "live", token' = consumed(t),
             admitted' = [admitted EXCEPT ![t] = @ \cup {r}], NextHook(r)
      PROVE  RequestsInv'
  <2>1. req[r] \in CallRows
    BY <1>1, <1>2, UnderWay DEF InFlight
  <2>2. t \in Tokens
    BY <1>4, <2>1 DEF CallRows
  <2>3. admitted[t] = {}
    BY <1>1, <1>4, <2>2 DEF TokensOnce
  <2>4. /\ admitted' \in [Tokens -> SUBSET Requests]
        /\ admitted'[t] = {r}
        /\ \A u \in Tokens : u # t => admitted'[u] = admitted[u]
    BY <1>1, <1>4, <2>2, <2>3 DEF RequestTypes
  <2>5. /\ token' \in [Tokens -> [purpose : Purposes, state : {"live", "consumed"}]]
        /\ token'[t].state = "consumed"
        /\ \A u \in Tokens : u # t => token'[u] = token[u]
    <3> DEFINE row == [token[t] EXCEPT !.state = "consumed"]
    <3>1. row \in [purpose : Purposes, state : {"live", "consumed"}] /\ row.state = "consumed"
      BY <1>1, <2>2 DEF RequestTypes
    <3>2. token' = [token EXCEPT ![t] = row]
      BY <1>4 DEF consumed
    <3> HIDE DEF row
    <3>3. QED
      BY <1>1, <2>2, <3>1, <3>2 DEF RequestTypes
  <2>6. TokensOnce'
    BY <1>1, <2>4, <2>5 DEF TokensOnce
  <2>7. PICK q \in CallRows :
          /\ req' = [req EXCEPT ![r] = q]
          /\ PastKey(q) /\ q.pc = "hooks"
          /\ q.meta = req[r].meta /\ q.payload = req[r].payload
    <3>1. req[r].at \in Nat /\ req[r].at > 0
      BY <2>1, RowWrites
    <3>2. req[r].at \in DOMAIN route.hooks
      BY <1>1, <1>2, <3>1, HookNumbers
    <3>3. QED
      BY <1>2, <1>4, <3>2, NextHooks
  <2>8. q.pc \in InFlight /\ q.meta => Live(r) /\ q.payload = req[r].payload
    BY <1>2, <2>7 DEF Live
  <2>9. QED
    BY <1>2, <2>4, <2>5, <2>6, <2>7, <2>8, QuietMove
<1>5. QED
  BY <1>3, <1>4 DEF requireStepUp

LEMMA AtNumber == ASSUME NEW q \in CallRows PROVE q.at \in Nat /\ q.at > 0 /\ q.at + 1 \in Nat \ {0}
<1>1. q.at \in Nat /\ q.at > 0
  BY RowWrites
<1>2. QED
  BY <1>1

LEMMA LimitKept ==
  ASSUME RequestsInv, NEW r \in Requests, rateLimit(r)
  PROVE  RequestsInv'
<1>1. RequestTypes /\ TokensOnce
  BY DEF RequestsInv
<1>2. /\ req[r].pc = "hooks" /\ req[r].at <= Len(route.hooks) /\ hook(r).need = "limit"
      /\ UNCHANGED <<route, keyRow, effects, reopened, token, admitted>>
      /\ NextHook(r) \/ End(r, "refused")
  BY DEF rateLimit, AtHook
<1>3. CASE End(r, "refused")
  BY <1>2, <1>3, CallEnds
<1>4. CASE NextHook(r)
  <2>1. req[r] \in CallRows
    BY <1>1, <1>2, UnderWay DEF InFlight
  <2>2. req[r].at \in DOMAIN route.hooks
    BY <1>1, <1>2, <2>1, AtNumber, HookNumbers
  <2>3. PICK q \in CallRows :
          /\ req' = [req EXCEPT ![r] = q]
          /\ PastKey(q) /\ q.pc = "hooks"
          /\ q.meta = req[r].meta /\ q.payload = req[r].payload
    BY <1>2, <1>4, <2>2, NextHooks
  <2>4. q.pc \in InFlight /\ q.meta => Live(r) /\ q.payload = req[r].payload
    BY <1>2, <2>3 DEF Live
  <2>5. /\ token' \in [Tokens -> [purpose : Purposes, state : {"live", "consumed"}]]
        /\ admitted' \in [Tokens -> SUBSET Requests]
        /\ TokensOnce'
    BY <1>1, <1>2 DEF RequestTypes, TokensOnce
  <2>6. QED
    BY <1>2, <2>3, <2>4, <2>5, QuietMove
<1>5. QED
  BY <1>2, <1>3, <1>4

LEMMA HandlerBegins ==
  ASSUME RequestsInv, NEW r \in Requests, Begin(r)
  PROVE  RequestsInv'
<1>1. RequestTypes /\ PastKey(req[r])
  BY DEF RequestsInv
<1>2. /\ req[r].pc = "hooks" /\ req[r].at > Len(route.hooks) /\ Goto(r, "handler")
      /\ UNCHANGED <<route, keyRow, effects, reopened, token, admitted>>
  BY DEF Begin
<1>3. req[r] \in CallRows
  BY <1>1, <1>2, UnderWay DEF InFlight
<1>4. keyed => req[r].meta
  <2> SUFFICES ASSUME NEW k \in DOMAIN route.hooks, route.hooks[k].need = "key"
               PROVE  req[r].meta
    BY DEF keyed, has
  <2>1. k < req[r].at
    BY <1>1, <1>2, <1>3, AtNumber, HookNumbers
  <2>2. QED
    BY <1>1, <1>2, <2>1 DEF PastKey
<1>5. QED
  BY <1>2, <1>4, StepChanges DEF InFlight

LEMMA CallFails ==
  ASSUME RequestsInv, NEW r \in Requests, req[r].pc \in {"handler", "complete"}, Goto(r, "fail"),
         UNCHANGED <<route, keyRow, effects, reopened, token, admitted>>
  PROVE  RequestsInv'
<1>1. keyed => req[r].meta
  BY DEF RequestsInv, PastKey
<1>2. QED
  BY <1>1, StepChanges DEF InFlight

\* The parts that a step of the key's row or of a handler leaves as they are.
LEMMA OtherPartsKept ==
  ASSUME RequestsInv, NEW r \in Requests, NEW q \in CallRows \cup EndRows,
         req' = [req EXCEPT ![r] = q], PastKey(q),
         effects' \subseteq [call : Requests, payload : Payloads],
         keyRow'.status \in KeyStatuses,
         keyed => (AloneWithKey /\ OnePayload /\ RepliesTrue)',
         UNCHANGED <<route, token, admitted>>
  PROVE  RequestsInv'
<1>1. RequestTypes /\ TokensOnce /\ \A s \in Requests : PastKey(req[s])
  BY DEF RequestsInv
<1>2. /\ req' \in [Requests -> CallRows \cup EndRows]
      /\ \A s \in Requests : req'[s] = IF s = r THEN q ELSE req[s]
  BY <1>1, Becomes
<1>3. RequestTypes'
  BY <1>1, <1>2 DEF RequestTypes
<1>4. keyed' = keyed
  BY DEF keyed, has
<1>5. \A s \in Requests : PastKey(req[s])'
  BY <1>1, <1>2, <1>4 DEF PastKey
<1>6. TokensOnce'
  BY <1>1 DEF TokensOnce
<1>7. QED
  BY <1>3, <1>4, <1>5, <1>6 DEF RequestsInv

\* Whoever finds the row FAILED goes on and is counted as reopened: no one who
\* inserted the row is left with the key.
LEMMA LookupKept ==
  ASSUME RequestsInv, NEW r \in Requests, idempotencyPreHandler(r)
  PROVE  RequestsInv'
<1>1. RequestTypes
  BY DEF RequestsInv
<1>2. /\ req[r].pc = "hooks" /\ req[r].at <= Len(route.hooks) /\ hook(r).need = "key"
      /\ UNCHANGED <<route, keyRow, token, effects, admitted>>
  BY DEF idempotencyPreHandler, AtHook
<1>3. req[r] \in CallRows
  BY <1>1, <1>2, UnderWay DEF InFlight
<1>4. keyed
  <2>1. req[r].at \in DOMAIN route.hooks
    BY <1>1, <1>2, <1>3, AtNumber, HookNumbers
  <2>2. QED
    BY <1>2, <2>1 DEF keyed, has, hook
<1>5. CASE \E p \in {"refused", "replied"} : End(r, p) /\ UNCHANGED reopened
  BY <1>2, <1>5, CallEnds
<1>6. CASE Goto(r, "insert") /\ UNCHANGED reopened
  BY <1>2, <1>6, StepChanges DEF InFlight
<1>7. CASE /\ ~reused(r) /\ lookup(keyRow.status) = "proceed"
           /\ req' = [req EXCEPT ![r].at = @ + 1, ![r].meta = TRUE]
           /\ reopened' = reopened \cup {r}
  <2> DEFINE n == req[r].at + 1
             q == [req[r] EXCEPT !.at = n, !.meta = TRUE]
  <2>1. req' = [req EXCEPT ![r] = q]
    BY <1>7
  <2>2. n \in Nat \ {0}
    BY <1>3, AtNumber
  <2> HIDE DEF n
  <2>3. q \in CallRows /\ q.pc = "hooks" /\ q.meta = TRUE /\ q.payload = req[r].payload
    BY <1>2, <1>3, <2>2, KeyWrites
  <2> HIDE DEF q
  <2>4. PastKey(q)
    BY <2>3 DEF PastKey
  <2>5. keyRow.status = "FAILED"
    BY <1>1, <1>7 DEF RequestTypes, KeyStatuses, lookup
  <2>6. req[r].payload = keyRow.payload
    BY <1>7, <2>5 DEF reused
  <2>7. AloneWithKey /\ OnePayload /\ RepliesTrue
    BY <1>4 DEF RequestsInv
  <2>8. \A s \in Requests \ reopened : ~Live(s)
    BY <2>5, <2>7 DEF AloneWithKey
  <2>9. \A s \in Requests : req'[s] = IF s = r THEN q ELSE req[s]
    BY <1>1, <2>1, <2>3, Becomes
  <2>10. \A s \in Requests : s # r => (Live(s)' <=> Live(s))
    BY <2>9 DEF Live
  <2>11. \A s \in Requests : Did(s)' <=> Did(s)
    BY <1>2 DEF Did
  <2>12. keyRow # NoRow
    BY <2>5 DEF NoRow
  <2>13. AloneWithKey'
    BY <1>2, <1>7, <2>7, <2>8, <2>10, <2>11, <2>12 DEF AloneWithKey
  <2>14. OnePayload'
    BY <1>2, <2>3, <2>6, <2>7, <2>9, <2>10 DEF OnePayload
  <2>15. RepliesTrue'
    BY <1>2, <2>3, <2>7, <2>9, <2>11 DEF RepliesTrue
  <2>16. effects' \subseteq [call : Requests, payload : Payloads] /\ keyRow'.status \in KeyStatuses
    BY <1>1, <1>2 DEF RequestTypes
  <2>17. QED
    BY <1>2, <2>1, <2>3, <2>4, <2>13, <2>14, <2>15, <2>16, OtherPartsKept
<1>8. CASE reused(r)
  BY <1>5, <1>8 DEF idempotencyPreHandler
<1>9. CASE ~reused(r)
  <2>1. lookup(keyRow.status) \in {"insert", "refuse", "cached", "proceed"}
    BY <1>1 DEF RequestTypes, KeyStatuses, lookup
  <2>2. CASE lookup(keyRow.status) = "insert"
    BY <1>6, <1>9, <2>2 DEF idempotencyPreHandler
  <2>3. CASE lookup(keyRow.status) = "refuse"
    BY <1>5, <1>9, <2>3 DEF idempotencyPreHandler
  <2>4. CASE lookup(keyRow.status) = "cached"
    BY <1>5, <1>9, <2>4 DEF idempotencyPreHandler
  <2>5. CASE lookup(keyRow.status) = "proceed"
    BY <1>7, <1>9, <2>5 DEF idempotencyPreHandler
  <2>6. QED
    BY <2>1, <2>2, <2>3, <2>4, <2>5
<1>10. QED
  BY <1>8, <1>9

\* Without a row nobody has done anything: whoever inserts it is alone.
LEMMA InsertKept ==
  ASSUME RequestsInv, NEW r \in Requests, InsertKey(r)
  PROVE  RequestsInv'
<1>1. RequestTypes
  BY DEF RequestsInv
<1>2. req[r].pc = "insert" /\ UNCHANGED <<route, token, effects, admitted, reopened>>
  BY DEF InsertKey
<1>3. req[r] \in CallRows
  BY <1>1, <1>2, UnderWay DEF InFlight
<1>4. CASE keyRow # NoRow
  BY <1>2, <1>4, CallEnds DEF InsertKey
<1>5. CASE keyRow = NoRow
  <2> DEFINE n == req[r].at + 1
             q == [req[r] EXCEPT !.pc = "hooks", !.at = n, !.meta = TRUE]
  <2>1. req' = [req EXCEPT ![r] = q]
    BY <1>5 DEF InsertKey
  <2>2. keyRow'.status = "STARTED" /\ keyRow'.payload = req[r].payload /\ keyRow' # NoRow
    BY <1>5 DEF InsertKey, startedRow, NoRow
  <2>3. n \in Nat \ {0}
    BY <1>3, AtNumber
  <2> HIDE DEF n
  <2>4. q \in CallRows /\ q.pc = "hooks" /\ q.meta = TRUE /\ q.payload = req[r].payload
    BY <1>3, <2>3, KeyWrites
  <2> HIDE DEF q
  <2>5. PastKey(q)
    BY <2>4 DEF PastKey
  <2>6. \A s \in Requests : req'[s] = IF s = r THEN q ELSE req[s]
    BY <1>1, <2>1, <2>4, Becomes
  <2>7. ASSUME keyed PROVE (AloneWithKey /\ OnePayload /\ RepliesTrue)'
    <3>1. AloneWithKey /\ OnePayload /\ RepliesTrue
      BY <2>7 DEF RequestsInv
    <3>2. reopened = {} /\ \A s \in Requests : ~Live(s) /\ ~Did(s)
      BY <1>5, <3>1 DEF AloneWithKey
    <3>3. \A s \in Requests : (Live(s)' => s = r) /\ ~Did(s)'
      BY <1>2, <2>6, <3>2 DEF Live, Did
    <3>4. AloneWithKey'
      BY <1>2, <2>2, <3>2, <3>3 DEF AloneWithKey
    <3>5. effects = {}
      BY <1>1, <3>2 DEF RequestTypes, Did
    <3>6. OnePayload'
      BY <1>2, <2>2, <2>4, <2>6, <3>3, <3>5 DEF OnePayload
    <3>7. RepliesTrue'
      BY <2>2, <2>4, <2>6, <3>1, <3>2 DEF RepliesTrue
    <3>8. QED
      BY <3>4, <3>6, <3>7
  <2>8. effects' \subseteq [call : Requests, payload : Payloads] /\ keyRow'.status \in KeyStatuses
    BY <1>1, <1>2, <2>2 DEF RequestTypes, KeyStatuses
  <2>9. QED
    BY <1>2, <2>1, <2>4, <2>5, <2>7, <2>8, OtherPartsKept
<1>6. QED
  BY <1>4, <1>5

\* The handler's transaction commits for a call that has the key.
LEMMA EffectKept ==
  ASSUME RequestsInv, NEW r \in Requests, NEW p \in {"complete", "fail"},
         req[r].pc = "handler", Goto(r, p),
         effects' = effects \cup {[call |-> r, payload |-> req[r].payload]},
         UNCHANGED <<route, keyRow, token, admitted, reopened>>
  PROVE  RequestsInv'
<1>1. RequestTypes
  BY DEF RequestsInv
<1>2. req[r] \in CallRows /\ p \in InFlight
  BY <1>1, UnderWay DEF InFlight
<1> DEFINE q == [req[r] EXCEPT !.pc = p]
           e == [call |-> r, payload |-> req[r].payload]
<1>3. q \in CallRows /\ q.pc = p /\ q.meta = req[r].meta /\ q.payload = req[r].payload
  BY <1>2, RowWrites
<1>4. req' = [req EXCEPT ![r] = q]
  BY DEF Goto
<1> HIDE DEF q
<1>5. keyed => req[r].meta /\ Live(r)
  BY DEF RequestsInv, PastKey, Live, InFlight
<1>6. PastKey(q)
  BY <1>3, <1>5 DEF PastKey
<1>7. \A s \in Requests : req'[s] = IF s = r THEN q ELSE req[s]
  BY <1>1, <1>3, <1>4, Becomes
<1>8. e.call = r /\ e.payload = req[r].payload /\ e \in [call : Requests, payload : Payloads]
  <2>1. req[r].payload \in Payloads
    BY <1>2 DEF CallRows
  <2>2. QED
    BY <2>1
<1>9. effects' = effects \cup {e}
  OBVIOUS
<1> HIDE DEF e
<1>10. ASSUME keyed PROVE (AloneWithKey /\ OnePayload /\ RepliesTrue)'
  <2>1. AloneWithKey /\ OnePayload /\ RepliesTrue /\ Live(r)
    BY <1>5, <1>10 DEF RequestsInv
  <2>2. /\ \A s \in Requests : Live(s)' <=> Live(s)
        /\ \A s \in Requests : req'[s].payload = req[s].payload
    BY <1>2, <1>3, <1>7, <2>1 DEF Live
  <2>3. \A s \in Requests : Did(s)' <=> Did(s) \/ s = r
    BY <1>8, <1>9 DEF Did
  <2>4. keyRow # NoRow
    BY <2>1 DEF AloneWithKey
  <2>5. AloneWithKey'
    <3>1. \A s \in Requests : Live(s)' \/ Did(s)' <=> Live(s) \/ Did(s)
      BY <2>1, <2>2, <2>3
    <3>2. QED
      BY <2>1, <2>2, <2>4, <3>1 DEF AloneWithKey
  <2>6. OnePayload'
    BY <1>8, <1>9, <2>1, <2>2 DEF OnePayload
  <2>7. RepliesTrue'
    BY <1>7, <2>1, <2>3 DEF RepliesTrue
  <2>8. QED
    BY <2>5, <2>6, <2>7
<1>11. effects' \subseteq [call : Requests, payload : Payloads] /\ keyRow'.status \in KeyStatuses
  BY <1>1, <1>8, <1>9 DEF RequestTypes
<1>12. QED
  BY <1>3, <1>4, <1>6, <1>10, <1>11, OtherPartsKept

LEMMA HandlerKept ==
  ASSUME RequestsInv, NEW r \in Requests, Execute(r)
  PROVE  RequestsInv'
<1>1. req[r].pc = "handler" /\ UNCHANGED <<route, keyRow, token, admitted, reopened>>
  BY DEF Execute
<1>2. CASE Goto(r, "fail") /\ UNCHANGED effects
  BY <1>1, <1>2, CallFails
<1>3. CASE /\ effects' = effects \cup {[call |-> r, payload |-> req[r].payload]}
           /\ Goto(r, "complete") \/ Goto(r, "fail")
  BY <1>1, <1>3, EffectKept
<1>4. QED
  BY <1>2, <1>3 DEF Execute

\* A call that had the key writes the key's row and ends.  If it inserted the
\* row it was the only one with the key; if not, a FAILED row had been reopened
\* and no one who inserted it is left.
LEMMA KeyIsSettled ==
  ASSUME RequestsInv, NEW r \in Requests, req[r].pc \in {"complete", "fail"}, keyed,
         NEW p \in {"replied", "refused"}, End(r, p),
         keyRow'.status \in {"COMPLETED", "FAILED"}, keyRow'.payload = keyRow.payload,
         keyRow'.status = "COMPLETED" => req[r].pc = "complete" /\ keyRow'.reply = {r},
         UNCHANGED <<route, token, effects, admitted, reopened>>
  PROVE  RequestsInv'
<1> DEFINE q == [pc |-> p]
<1>1. q \in EndRows /\ q.pc = p
  BY DEF EndRows
<1>2. req' = [req EXCEPT ![r] = q]
  BY DEF End
<1> HIDE DEF q
<1>3. RequestTypes /\ AloneWithKey /\ OnePayload /\ RepliesTrue /\ PastKey(req[r])
  BY DEF RequestsInv
<1>4. Live(r)
  BY <1>3 DEF PastKey, Live, InFlight
<1>5. PastKey(q)
  BY <1>1 DEF PastKey
<1>6. \A s \in Requests : req'[s] = IF s = r THEN q ELSE req[s]
  BY <1>1, <1>2, <1>3, Becomes
<1>7. \A s \in Requests : Live(s)' <=> Live(s) /\ s # r
  BY <1>1, <1>6 DEF Live, InFlight
<1>8. \A s \in Requests : Did(s)' <=> Did(s)
  BY DEF Did
<1>9. \A s \in Requests \ reopened : ~Live(s)'
  BY <1>3, <1>4, <1>7 DEF AloneWithKey
<1>10. keyRow' # NoRow
  BY DEF NoRow
<1>11. AloneWithKey'
  <2>1. \A s \in Requests : Live(s)' \/ Did(s)' => Live(s) \/ Did(s)
    BY <1>7, <1>8
  <2>2. QED
    BY <1>3, <1>9, <1>10, <2>1 DEF AloneWithKey
<1>12. OnePayload'
  BY <1>3, <1>6, <1>7 DEF OnePayload
<1>13. RepliesTrue'
  BY <1>1, <1>3, <1>6, <1>8 DEF RepliesTrue
<1>14. effects' \subseteq [call : Requests, payload : Payloads] /\ keyRow'.status \in KeyStatuses
  BY <1>3 DEF RequestTypes, KeyStatuses
<1>15. QED
  BY <1>1, <1>2, <1>5, <1>11, <1>12, <1>13, <1>14, OtherPartsKept

LEMMA CompletionKept ==
  ASSUME RequestsInv, NEW r \in Requests, completeIdempotency(r)
  PROVE  RequestsInv'
<1>1. /\ req[r].pc = "complete" /\ End(r, "replied")
      /\ UNCHANGED <<route, token, effects, admitted, reopened>>
  BY DEF completeIdempotency
<1>2. CASE ~settles
  BY <1>1, <1>2, CallEnds DEF completeIdempotency
<1>3. CASE settles
  <2>1. keyed
    BY <1>3 DEF settles
  <2>2. req[r].payload = keyRow.payload
    BY <1>1, <2>1 DEF RequestsInv, PastKey, OnePayload, Live, InFlight
  <2>3. keyRow'.status = "COMPLETED" /\ keyRow'.payload = keyRow.payload /\ keyRow'.reply = {r}
    BY <1>3, <2>2 DEF completeIdempotency, completedRow
  <2>4. QED
    BY <1>1, <2>1, <2>3, KeyIsSettled
<1>4. QED
  BY <1>2, <1>3

LEMMA FailureKept ==
  ASSUME RequestsInv, NEW r \in Requests, failIdempotency(r)
  PROVE  RequestsInv'
<1>1. /\ req[r].pc = "fail" /\ End(r, "refused")
      /\ UNCHANGED <<route, token, effects, admitted, reopened>>
  BY DEF failIdempotency
<1>2. CASE ~(settles /\ failable)
  BY <1>1, <1>2, CallEnds DEF failIdempotency
<1>3. CASE settles /\ failable
  <2>1. keyed
    BY <1>3 DEF settles
  <2>2. keyRow'.status = "FAILED" /\ keyRow'.payload = keyRow.payload
    BY <1>3 DEF failIdempotency
  <2>3. QED
    BY <1>1, <2>1, <2>2, KeyIsSettled
<1>4. QED
  BY <1>2, <1>3

LEMMA RequestsBegin == RequestsInit => RequestsInv
<1> SUFFICES ASSUME RequestsInit PROVE RequestsInv
  OBVIOUS
<1>1. \A r \in Requests : req[r].pc = "idle"
  BY DEF RequestsInit, Idle
<1>2. RequestTypes
  <2>1. Idle \in EndRows
    BY DEF Idle, EndRows
  <2>2. req \in [Requests -> CallRows \cup EndRows]
    BY <2>1 DEF RequestsInit
  <2>3. token \in [Tokens -> [purpose : Purposes, state : {"live", "consumed"}]]
    BY DEF RequestsInit
  <2>4. keyRow.status \in KeyStatuses /\ route \in AllRoutes
    BY RequestsAssumption DEF RequestsInit, NoRow, KeyStatuses, RequestsAssumption
  <2>5. admitted \in [Tokens -> SUBSET Requests] /\ effects \subseteq [call : Requests, payload : Payloads]
    BY DEF RequestsInit
  <2>6. QED
    BY <2>2, <2>3, <2>4, <2>5 DEF RequestTypes
<1>3. \A r \in Requests : PastKey(req[r]) /\ ~Live(r) /\ ~Did(r)
  BY <1>1 DEF PastKey, Live, Did, InFlight, RequestsInit
<1>4. AloneWithKey /\ OnePayload
  BY <1>3 DEF AloneWithKey, OnePayload, RequestsInit
<1>5. RepliesTrue
  BY <1>1 DEF RepliesTrue, RequestsInit, NoRow
<1>6. TokensOnce
  BY DEF TokensOnce, RequestsInit
<1>7. QED
  BY <1>2, <1>3, <1>4, <1>5, <1>6 DEF RequestsInv

LEMMA RequestsStep == RequestsInv /\ [RequestsNext]_requestVars => RequestsInv'
<1> SUFFICES ASSUME RequestsInv, [RequestsNext]_requestVars PROVE RequestsInv'
  OBVIOUS
<1>1. CASE UNCHANGED requestVars
  BY <1>1 DEF requestVars, RequestsInv, RequestTypes, PastKey, AloneWithKey, OnePayload,
              RepliesTrue, TokensOnce, Live, Did, keyed, has
<1>2. ASSUME NEW r \in Requests, Progress(r) PROVE RequestsInv'
  BY <1>2, StepUpKept, LimitKept, LookupKept, InsertKept, HandlerBegins, HandlerKept,
     CompletionKept, FailureKept, Zenon DEF Progress
<1>3. ASSUME NEW r \in Requests, CompleteThrows(r) PROVE RequestsInv'
  BY <1>3, CallFails DEF CompleteThrows
<1>4. ASSUME NEW r \in Requests, LoseRequest(r) PROVE RequestsInv'
  BY <1>4, CallEnds DEF LoseRequest
<1>5. ASSUME NEW r \in Requests, NEW c \in Callers, NEW p \in Payloads,
             NEW ts \in IF has("step-up") THEN SUBSET Tokens ELSE {{}}, apiV1AuthHook(r, c, p, ts)
      PROVE  RequestsInv'
  <2>1. ts \in SUBSET Tokens
    OBVIOUS
  <2>2. QED
    BY <1>5, <2>1, CallBegins
<1>6. QED
  BY <1>1, <1>2, <1>3, <1>4, <1>5, Zenon DEF RequestsNext

LEMMA SingleOrNone ==
  ASSUME NEW S, \A x, y \in S : x = y
  PROVE  Cardinality(S) \in Nat /\ Cardinality(S) <= 1
<1>1. CASE S = {}
  BY <1>1, FS_EmptySet
<1>2. ASSUME NEW x \in S PROVE Cardinality(S) = 1
  <2>1. S = {x}
    BY <1>2
  <2>2. QED
    BY <2>1, FS_Singleton
<1>3. QED
  BY <1>1, <1>2

LEMMA OnceFromInv == RequestsInv => EffectsHappenOnce
<1> SUFFICES ASSUME RequestsInv PROVE EffectsHappenOnce
  OBVIOUS
<1>1. RequestTypes /\ TokensOnce
  BY DEF RequestsInv
<1>2. TokenAdmitsOnce
  <2> SUFFICES ASSUME NEW t \in Tokens PROVE Cardinality(admitted[t]) <= 1
    BY DEF TokenAdmitsOnce
  <2>1. \A x, y \in admitted[t] : x = y
    BY <1>1 DEF TokensOnce
  <2>2. QED
    BY <2>1, SingleOrNone
<1>3. ASSUME keyed PROVE OneEffectPerKey
  <2>1. AloneWithKey /\ OnePayload /\ RepliesTrue
    BY <1>3 DEF RequestsInv
  <2>2. ASSUME Cardinality(effects) > 1 PROVE \E e \in effects : e.call \in reopened
    <3> SUFFICES ASSUME \A e \in effects : e.call \notin reopened PROVE FALSE
      OBVIOUS
    <3>1. \A d, e \in effects : d.call = e.call /\ d.payload = e.payload
      <4>1. \A e \in effects : e.call \in Requests \ reopened /\ Did(e.call)
        BY <1>1 DEF RequestTypes, Did
      <4>2. QED
        BY <2>1, <4>1 DEF AloneWithKey, OnePayload
    <3>2. \A d, e \in effects : d = e
      <4>1. \A e \in effects : e = [call |-> e.call, payload |-> e.payload]
        BY <1>1 DEF RequestTypes
      <4>2. QED
        BY <3>1, <4>1
    <3>3. Cardinality(effects) \in Nat /\ Cardinality(effects) <= 1
      BY <3>2, SingleOrNone
    <3>4. QED
      BY <2>2, <3>3
  <2>3. \A d, e \in effects : d.payload = e.payload
    BY <2>1 DEF OnePayload
  <2>4. keyRow.status = "COMPLETED" => \E e \in effects : keyRow.reply = {e.call}
    BY <2>1 DEF RepliesTrue, Did
  <2>5. QED
    BY <2>2, <2>3, <2>4 DEF OneEffectPerKey
<1>4. QED
  BY <1>2, <1>3 DEF EffectsHappenOnce, OneEffectPerKey

\* What a caller confirmed with a step-up token or named with an
\* Idempotency-Key is done once: two calls under one key both have their effect
\* only where one of them was let in again on a failed row, all of them have the
\* payload of the row, and no token admits two calls (idempotency.ts, step-up.ts).
THEOREM RequestsOnce == RequestsInit /\ [][RequestsNext]_requestVars => []EffectsHappenOnce
<1>1. QED
  BY RequestsBegin, RequestsStep, OnceFromInv, PTL

\* A stored reply is never taken back, and only a call that came in on a failed
\* row can put its own in the place of another's (completeIdempotency,
\* failIdempotency).
THEOREM RepliesStay == RequestsInit /\ [][RequestsNext]_requestVars => StoredReplyStays
<1> DEFINE Stays == keyRow.status = "COMPLETED" =>
                      /\ keyRow'.status = "COMPLETED"
                      /\ keyRow'.reply # keyRow.reply => keyRow'.reply \subseteq reopened
<1>1. RequestsInv /\ [RequestsNext]_requestVars => [Stays]_requestVars
  <2> SUFFICES ASSUME RequestsInv, RequestsNext, keyRow.status = "COMPLETED" PROVE Stays
    BY Zenon
  <2>1. ASSUME UNCHANGED keyRow PROVE Stays
    BY <2>1
  <2>2. ASSUME NEW r \in Requests, completeIdempotency(r) PROVE Stays
    <3>1. CASE ~settles
      BY <2>1, <2>2, <3>1 DEF completeIdempotency
    <3>2. CASE settles
      <4>1. keyRow'.status = "COMPLETED" /\ keyRow'.reply = {r}
        BY <2>2, <3>2 DEF completeIdempotency, completedRow
      <4>2. Live(r) /\ AloneWithKey
        BY <2>2, <3>2 DEF completeIdempotency, settles, RequestsInv, PastKey, Live, InFlight
      <4>3. r \in reopened
        BY <4>2 DEF AloneWithKey
      <4>4. QED
        BY <4>1, <4>3
    <3>3. QED
      BY <3>1, <3>2
  <2>3. ASSUME NEW r \in Requests, failIdempotency(r) PROVE Stays
    BY <2>1, <2>3 DEF failIdempotency, failable
  <2>4. ASSUME NEW r \in Requests, InsertKey(r) PROVE Stays
    BY <2>1, <2>4 DEF InsertKey, NoRow
  <2>5. ASSUME NEW r \in Requests,
               \/ \E c \in Callers, p \in Payloads :
                    \E ts \in IF has("step-up") THEN SUBSET Tokens ELSE {{}} : apiV1AuthHook(r, c, p, ts)
               \/ CompleteThrows(r) \/ LoseRequest(r)
        PROVE  Stays
    BY <2>1, <2>5 DEF apiV1AuthHook, CompleteThrows, LoseRequest
  <2>6. ASSUME NEW r \in Requests,
               \/ requireStepUp(r) \/ rateLimit(r) \/ idempotencyPreHandler(r)
               \/ Begin(r) \/ Execute(r)
        PROVE  Stays
    BY <2>1, <2>6 DEF requireStepUp, rateLimit, idempotencyPreHandler, Begin, Execute
  <2> HIDE DEF Stays
  <2>7. QED
    BY <2>2, <2>3, <2>4, <2>5, <2>6, Zenon DEF RequestsNext, Progress
<1>2. QED
  BY <1>1, RequestsBegin, RequestsStep, PTL DEF StoredReplyStays
=============================================================================
