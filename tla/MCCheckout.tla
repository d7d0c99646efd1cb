----------------------------- MODULE MCCheckout -----------------------------
(* Small instances of Checkout for TLC. *)
EXTENDS Checkout, TLC

CONSTANTS l1, i1, i2

\* Every payment is made on the one link.
MCLinkOf == [i \in Intents |-> l1]

\* The payments differ in nothing.
MCSymmetry == Permutations(Intents)
=============================================================================
