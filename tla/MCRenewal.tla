----------------------------- MODULE MCRenewal -----------------------------
(* Small instances of Renewal for TLC. *)
EXTENDS Renewal

CONSTANTS s1, h1, h2
=============================================================================
