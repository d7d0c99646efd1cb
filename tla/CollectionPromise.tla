------------------------- MODULE CollectionPromise -------------------------
(***************************************************************************)
(* What the collection of an invoice promises, without subscriptions,      *)
(* handlers or time: an invoice has at most three attempts, each is        *)
(* answered once and for good, the next attempt reaches the provider only  *)
(* after the earlier one was answered and not by a success, and an attempt *)
(* is called a success only if its money was taken and a failure only if   *)
(* the provider refused it or has not finished.                            *)
(***************************************************************************)
EXTENDS Integers

CONSTANT Invoices

VARIABLES
  taken,    \* the attempts whose money the provider took
  answer    \* the answer kept for an attempt

vars == <<taken, answer>>

Attempts == 1..3
Keys == {<<i[1], i[2], n>> : i \in Invoices, n \in Attempts}
Open == {"AMBIGUOUS", "TIMEOUT", "PENDING"}

Init ==
  /\ taken = {}
  /\ answer = [k \in Keys |-> "none"]

earlierAnswered(k) ==
  \A m \in Attempts : m < k[3] => answer[<<k[1], k[2], m>>] \in Open \cup {"FAILED"}

\* The provider takes the money.
Charge(k) ==
  /\ answer[k] = "none"
  /\ earlierAnswered(k)
  /\ taken' = taken \cup {k}
  /\ UNCHANGED answer

\* The answer is kept.
Answer(k) ==
  /\ answer[k] = "none"
  /\ earlierAnswered(k)
  /\ \E a \in Open \cup {IF k \in taken THEN "SUCCEEDED" ELSE "FAILED"} :
       answer' = [answer EXCEPT ![k] = a]
  /\ UNCHANGED taken

Next == \E k \in Keys : Charge(k) \/ Answer(k)

Spec == Init /\ [][Next]_vars
=============================================================================
