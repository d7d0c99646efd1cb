------------------------------- MODULE Ledger -------------------------------
(***************************************************************************)
(* The double-entry ledger: apps/api/src/ledger/ledger-service.ts.         *)
(*                                                                         *)
(* A journal is posted inside the transaction of the operation it records, *)
(* once per source: a second post of a source finds the first (the lookup, *)
(* or the unique index and the savepoint) and changes nothing.  What is    *)
(* kept is, per account, the debits less the credits of all its entries,   *)
(* and the sources journaled.                                              *)
(***************************************************************************)
EXTENDS Integers

VARIABLES balance,   \* debits - credits of each account
          journals   \* <<source_type, source_id>> of every journal

ledgerVars == <<balance, journals>>

\* DEFAULT_ACCOUNTS; refunds_expense is never posted to.
Accounts == {"pending_settlement", "merchant_payable",
             "platform_revenue", "cash_provider"}

SourceTypes == {"payment_intent", "refund", "settlement_finalize", "payout"}

LedgerTypeOK == /\ balance \in [Accounts -> Int]
                /\ journals \subseteq (SourceTypes \X Nat)

LedgerInit == /\ balance = [a \in Accounts |-> 0]
              /\ journals = {}

\* lines gives what the journal adds to each account's debits - credits.
postBalancedJournalIdempotent(source, lines) ==
  IF source \in journals
  THEN UNCHANGED ledgerVars
  ELSE /\ journals' = journals \union {source}
       /\ balance' = [a \in Accounts |-> balance[a] + lines[a]]

Lines(pending, payable, revenue, cash) ==
  [a \in Accounts |-> CASE a = "pending_settlement" -> pending
                        [] a = "merchant_payable"   -> payable
                        [] a = "platform_revenue"   -> revenue
                        [] a = "cash_provider"      -> cash]

\* The platform's fee is taken from the merchant's share at capture.
postPaymentSucceeded(i, gross, platformFees) ==
  postBalancedJournalIdempotent(<<"payment_intent", i>>,
    Lines(gross, -(gross - platformFees), -platformFees, 0))

postRefund(r, amount) ==
  postBalancedJournalIdempotent(<<"refund", r>>, Lines(-amount, amount, 0, 0))

\* Mutant: the provider's fee is not posted.
postSettlementFinalizeFees_PlatformOnly(s, platformFees, providerFees) ==
  IF platformFees = 0
  THEN UNCHANGED ledgerVars
  ELSE postBalancedJournalIdempotent(<<"settlement_finalize", s>>,
         Lines(0, platformFees, -platformFees, 0))

\* No journal at all when both fees are 0.
postSettlementFinalizeFees(s, platformFees, providerFees) ==
  IF platformFees + providerFees = 0
  THEN UNCHANGED ledgerVars
  ELSE postBalancedJournalIdempotent(<<"settlement_finalize", s>>,
         Lines(0, platformFees + providerFees, -platformFees, -providerFees))

postPayoutPaid(p, amount) ==
  postBalancedJournalIdempotent(<<"payout", p>>, Lines(0, amount, 0, -amount))
=============================================================================
