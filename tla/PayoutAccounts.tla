--------------------------- MODULE PayoutAccounts ---------------------------
(***************************************************************************)
(* The bank accounts an organization is paid out to, the verification of   *)
(* each, and which of them is the default.  Every operation locks the      *)
(* account's row first (lockAccount) and is a step of its own; setDefault  *)
(* also clears the other rows, which it has not locked, so it is taken     *)
(* apart: the row locked, the default rows read, and the writes.           *)
(***************************************************************************)
EXTENDS Integers, FiniteSets

CONSTANTS
  BankAccounts,   \* rows of payout_accounts
  Fingerprint,    \* the fingerprint of each one's type, country and value
  DefaultCalls    \* setDefault requests that may be under way at once

ASSUME PayoutAccountsAssumption == BankAccounts \subseteq DOMAIN Fingerprint

VARIABLES
  bankAccount,    \* status of each account
  check,          \* status of the account's one verification
  isDefault,      \* the accounts marked as default
  choosing,       \* the setDefault requests under way
  bankOutbox      \* outbox keys: what was announced of which account

bankVars == <<bankAccount, check, isDefault, choosing, bankOutbox>>

\* The lifecycle of an account.
ACCOUNT_TRANSITIONS ==
  {<<"PENDING_VERIFICATION", "VERIFIED">>, <<"PENDING_VERIFICATION", "REJECTED">>,
   <<"VERIFIED", "ACTIVE">>, <<"ACTIVE", "DEACTIVATED">>, <<"DEACTIVATED", "ACTIVE">>}

NoChoice == [step |-> "none"]

BankTypeOK ==
  /\ bankAccount \in [BankAccounts -> {"none", "PENDING_VERIFICATION", "VERIFIED",
                                       "ACTIVE", "REJECTED", "DEACTIVATED"}]
  /\ check \in [BankAccounts -> {"none", "PENDING", "IN_PROGRESS", "PASSED", "FAILED"}]
  /\ isDefault \subseteq BankAccounts
  /\ \A t \in DefaultCalls : choosing[t].step \in {"none", "locked", "read"}
  /\ bankOutbox \subseteq {"created", "verified"} \X BankAccounts

BankInit ==
  /\ bankAccount = [a \in BankAccounts |-> "none"]
  /\ check = [a \in BankAccounts |-> "none"]
  /\ isDefault = {}
  /\ choosing = [t \in DefaultCalls |-> NoChoice]
  /\ bankOutbox = {}

\* The organization shows an account for KYB.
payoutAccountPresent ==
  \E a \in BankAccounts : bankAccount[a] \in {"PENDING_VERIFICATION", "VERIFIED", "ACTIVE"}

-----------------------------------------------------------------------------
\* Mutant: the row is read without FOR UPDATE.
lockAccount_NoLock(a) == bankAccount[a] # "none"

\* The row exists, and no setDefault request holds its lock.
lockAccount(a) ==
  /\ bankAccount[a] # "none"
  /\ \A t \in DefaultCalls : choosing[t].step # "none" => choosing[t].of # a

transitionAccount(a, to) ==
  /\ <<bankAccount[a], to>> \in ACCOUNT_TRANSITIONS
  /\ bankAccount' = [bankAccount EXCEPT ![a] = to]

\* The unique index refuses an equal account, a rejected one included.
createAccount(a) ==
  /\ bankAccount[a] = "none"
  /\ \A b \in BankAccounts : bankAccount[b] # "none" => Fingerprint[b] # Fingerprint[a]
  /\ bankAccount' = [bankAccount EXCEPT ![a] = "PENDING_VERIFICATION"]
  /\ check' = [check EXCEPT ![a] = "PENDING"]
  /\ bankOutbox' = bankOutbox \cup {<<"created", a>>}
  /\ UNCHANGED <<isDefault, choosing>>

startVerification(a) ==
  /\ lockAccount(a)
  /\ check[a] = "PENDING"
  /\ check' = [check EXCEPT ![a] = "IN_PROGRESS"]
  /\ UNCHANGED <<bankAccount, isDefault, choosing, bankOutbox>>

decideVerification(a, result) ==
  /\ lockAccount(a)
  /\ check[a] \in {"PENDING", "IN_PROGRESS"}
  /\ check' = [check EXCEPT ![a] = result]
  /\ transitionAccount(a, IF result = "PASSED" THEN "VERIFIED" ELSE "REJECTED")
  /\ bankOutbox' = bankOutbox \cup (IF result = "PASSED" THEN {<<"verified", a>>} ELSE {})
  /\ UNCHANGED <<isDefault, choosing>>

\* By the merchant, or by the platform (adminActivate): the same step.
activate(a) ==
  /\ lockAccount(a)
  /\ transitionAccount(a, "ACTIVE")
  /\ UNCHANGED <<check, isDefault, choosing, bankOutbox>>

adminActivate(a) == activate(a)

deactivate(a) ==
  /\ lockAccount(a)
  /\ transitionAccount(a, "DEACTIVATED")
  /\ isDefault' = isDefault \ {a}
  /\ UNCHANGED <<check, choosing, bankOutbox>>

-----------------------------------------------------------------------------
(* setDefault.                                                             *)

setDefault(t, a) ==
  /\ choosing[t] = NoChoice
  /\ lockAccount(a)
  /\ bankAccount[a] = "ACTIVE"
  /\ choosing' = [choosing EXCEPT ![t] = [step |-> "locked", of |-> a]]
  /\ UNCHANGED <<bankAccount, check, isDefault, bankOutbox>>

\* The statement that clears the other rows sees those that are default now.
ReadDefaults(t) ==
  /\ choosing[t].step = "locked"
  /\ choosing' = [choosing EXCEPT ![t] = [step |-> "read", of |-> @.of, seen |-> isDefault]]
  /\ UNCHANGED <<bankAccount, check, isDefault, bankOutbox>>

\* It waits for a row that another request has locked.  Where another account
\* became the default meanwhile, the index of one default per organization
\* undoes the request.
CommitDefault(t) ==
  LET a == choosing[t].of IN
  /\ choosing[t].step = "read"
  /\ \A u \in DefaultCalls \ {t} :
       choosing[u].step # "none" => choosing[u].of \notin choosing[t].seen
  /\ choosing' = [choosing EXCEPT ![t] = NoChoice]
  /\ isDefault' = IF (isDefault \ choosing[t].seen) \ {a} # {} THEN isDefault ELSE {a}
  /\ UNCHANGED <<bankAccount, check, bankOutbox>>

LoseDefaultCall(t) ==
  /\ choosing[t] # NoChoice
  /\ choosing' = [choosing EXCEPT ![t] = NoChoice]
  /\ UNCHANGED <<bankAccount, check, isDefault, bankOutbox>>

BankNext ==
  \/ \E a \in BankAccounts :
       \/ createAccount(a) \/ startVerification(a) \/ deactivate(a)
       \/ activate(a) \/ adminActivate(a)
       \/ \E result \in {"PASSED", "FAILED"} : decideVerification(a, result)
  \/ \E t \in DefaultCalls :
       \/ \E a \in BankAccounts : setDefault(t, a)
       \/ ReadDefaults(t) \/ CommitDefault(t) \/ LoseDefaultCall(t)

-----------------------------------------------------------------------------
(* Properties.                                                             *)

\* There is one default account at most and it is active; an account has
\* left its verification behind exactly when the verification was passed,
\* and that it was is announced.
AccountsHold ==
  /\ Cardinality(isDefault) <= 1
  /\ \A a \in isDefault : bankAccount[a] = "ACTIVE"
  /\ \A a \in BankAccounts :
       /\ bankAccount[a] \in {"VERIFIED", "ACTIVE", "DEACTIVATED"} <=> check[a] = "PASSED"
       /\ bankAccount[a] = "REJECTED" <=> check[a] = "FAILED"
       /\ check[a] = "PASSED" <=> <<"verified", a>> \in bankOutbox
=============================================================================
