--------------------------- MODULE PaymentPromise ---------------------------
(***************************************************************************)
(* What a merchant is promised about one payment, with none of the tables  *)
(* that keep the promise: a payment is opened once, is at most submitted,  *)
(* and ends at most once, as paid, failed or void.  Being paid is one      *)
(* indivisible step that records the transaction, books it in the ledger   *)
(* and announces it, each exactly once; no other step does any of that.    *)
(***************************************************************************)
EXTENDS Naturals

CONSTANT Intents

VARIABLES phase,      \* where each payment stands
          recorded,   \* its successful transactions
          booked,     \* payments whose capture is in the ledger
          announced   \* its payment.succeeded events

vars == <<phase, recorded, booked, announced>>

Init == /\ phase = [i \in Intents |-> "absent"]
        /\ recorded = [i \in Intents |-> 0]
        /\ booked = {}
        /\ announced = [i \in Intents |-> 0]

Move(i, from, to) == /\ phase[i] \in from
                     /\ phase' = [phase EXCEPT ![i] = to]

Open(i)   == Move(i, {"absent"}, "open")
Submit(i) == Move(i, {"open"}, "submitted")
Fail(i)   == Move(i, {"open", "submitted"}, "failed")
Void(i)   == Move(i, {"open"}, "void")

Pay(i) == /\ Move(i, {"open", "submitted"}, "paid")
          /\ recorded' = [recorded EXCEPT ![i] = @ + 1]
          /\ booked' = booked \union {i}
          /\ announced' = [announced EXCEPT ![i] = @ + 1]

Next == \E i \in Intents :
          \/ Pay(i)
          \/ /\ Open(i) \/ Submit(i) \/ Fail(i) \/ Void(i)
             /\ UNCHANGED <<recorded, booked, announced>>

Spec == Init /\ [][Next]_vars
=============================================================================
