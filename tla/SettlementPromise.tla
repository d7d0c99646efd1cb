------------------------- MODULE SettlementPromise -------------------------
(***************************************************************************)
(* What settlements and payouts promise a merchant, without the payments,  *)
(* fees and transactions behind them.  A batch is open until it is voided  *)
(* or closed at an amount that then never changes.  A closed batch is paid *)
(* out in parts that never exceed that amount, and is settled only when    *)
(* they reach it.                                                          *)
(***************************************************************************)
EXTENDS Integers

CONSTANT Batches

VARIABLES state,   \* "none", "open", "void", "closed" or "settled"
          due,     \* the amount the batch was closed at
          paid     \* what has been paid out of it

promiseVars == <<state, due, paid>>

Init == /\ state = [b \in Batches |-> "none"]
        /\ due   = [b \in Batches |-> 0]
        /\ paid  = [b \in Batches |-> 0]

Move(b, from, to) == /\ state[b] = from
                     /\ state' = [state EXCEPT ![b] = to]

Open(b) == Move(b, "none", "open") /\ UNCHANGED <<due, paid>>

Void(b) == Move(b, "open", "void") /\ UNCHANGED <<due, paid>>

Close(b) == /\ Move(b, "open", "closed")
            /\ due'[b] \in Nat
            /\ due' = [due EXCEPT ![b] = due'[b]]
            /\ UNCHANGED paid

Pay(b) == /\ state[b] = "closed"
          /\ paid[b] < paid'[b] /\ paid'[b] <= due[b]
          /\ paid' = [paid EXCEPT ![b] = paid'[b]]
          /\ \/ UNCHANGED state
             \/ /\ paid'[b] = due[b]
                /\ state' = [state EXCEPT ![b] = "settled"]
          /\ UNCHANGED due

Next == \E b \in Batches : Open(b) \/ Void(b) \/ Close(b) \/ Pay(b)

Spec == Init /\ [][Next]_promiseVars
=============================================================================
