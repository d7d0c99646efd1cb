----------------------------- MODULE MCPayouts -----------------------------
(* Small instances of Payouts for TLC. *)
EXTENDS Payouts

\* The first payment is large enough for two payouts.
MCAmount == [i \in Payments |-> IF i = 1 THEN 100 ELSE 50]

\* 2.5% of 100 is rounded up to 3; a fixed fee on top.
MCSchedules == {[basisPoints |-> 250, fixedMinor |-> 1]}

MCAdjustments == {0, -60}

MCNoAdjustments == {0}
=============================================================================
