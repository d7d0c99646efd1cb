---------------------------- MODULE MCMessaging ----------------------------
(* Small instances of Outbox for TLC. *)
EXTENDS Outbox

CONSTANTS e1, e2, p1, t1, t2

\* Brevo as production's default, the stub in production, SMTP.
MCEmailSettings ==
  {[setting |-> "",     production |-> TRUE, key |-> TRUE, from |-> TRUE],
   [setting |-> "stub", production |-> TRUE, key |-> TRUE, from |-> TRUE]}

Next == OutboxNext
Spec == OutboxInit /\ [][OutboxNext]_outboxVars /\ OutboxFairness
=============================================================================
