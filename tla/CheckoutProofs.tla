--------------------------- MODULE CheckoutProofs ---------------------------
(***************************************************************************)
(* Theorems about Checkout, for any number of links and payments.          *)
(***************************************************************************)
EXTENDS Checkout, FiniteSetTheorems, TLAPS

\* A successful use keeps the kind of link and leaves it as it was or EXPIRED,
\* and never leaves a one-time link open.
LEMMA UseFacts ==
  ASSUME NEW row \in LinkRow
  PROVE  /\ RecordSuccessfulUse(row) \in LinkRow
         /\ RecordSuccessfulUse(row).oneTime = row.oneTime
         /\ RecordSuccessfulUse(row).status \in {row.status, "EXPIRED"}
         /\ row.oneTime => RecordSuccessfulUse(row).status = "EXPIRED"
<1> DEFINE used == [row EXCEPT !.useCount = @ + 1]
            closed == [used EXCEPT !.status = "EXPIRED"]
<1>1. /\ used \in LinkRow
      /\ used.oneTime = row.oneTime
      /\ used.status = row.status
  BY DEF LinkRow
<1>2. /\ closed \in LinkRow
      /\ closed.oneTime = row.oneTime
      /\ closed.status = "EXPIRED"
  BY <1>1 DEF LinkRow, LinkStatus
<1>3. RecordSuccessfulUse(row) = IF LimitReached(used) \/ row.oneTime
                                 THEN closed ELSE used
  BY DEF RecordSuccessfulUse
<1> HIDE DEF used, closed
<1>4. QED
  BY <1>1, <1>2, <1>3

\* The only attempt, once it has succeeded.
LEMMA LatestSucceeds ==
  ASSUME NEW s \in AttemptStatus
  PROVE  [<<s>> EXCEPT ![Len(<<s>>)] = "SUCCEEDED"] = <<"SUCCEEDED">>
  OBVIOUS

LEMMA FinalAttempts ==
  ASSUME NEW q \in Seq(AttemptStatus), q # <<>>
  PROVE  [q EXCEPT ![Len(q)] = "SUCCEEDED"] \in Seq(AttemptStatus)
  BY DEF AttemptStatus

-----------------------------------------------------------------------------
(***************************************************************************)
(* The inductive invariant, one payment at a time.                         *)
(***************************************************************************)

\* SessionAndIntentAgree for one payment, and that CREATED never commits.
Agree(i) ==
  /\ intent[i] # "CREATED"
  /\ session[i] = "ABSENT" <=> intent[i] = "ABSENT"
  /\ session[i] = "COMPLETED" <=> Paid(i)
  /\ session[i] = "CANCELLED" <=> intent[i] = "CANCELLED"
  /\ session[i] = "OPEN" => intent[i] \in {"REQUIRES_PAYMENT", "PROCESSING",
                                          "FAILED"}
  /\ session[i] = "EXPIRED" => intent[i] \in {"EXPIRED", "PROCESSING", "FAILED"}

\* Before an intent is paid there is nothing to show for it, and before it is
\* submitted there is not even an attempt: that is what makes one the maximum.
Settled(i) ==
  /\ txns[i]["SUCCEEDED"] = OneIf(Paid(i))
  /\ i \in accrued <=> Paid(i)
  /\ order[i] = "PAID" <=> Paid(i)
  /\ IF Paid(i) THEN attempts[i] = <<"SUCCEEDED">>
                ELSE attempts[i] \in {<<>>, <<"PROCESSING">>, <<"FAILED">>}
  /\ intent[i] \in {"ABSENT", "REQUIRES_PAYMENT"} => attempts[i] = <<>>

Announcements(i) ==
  /\ Emitted(i, "payment.succeeded") = OneIf(intent[i] = "SUCCEEDED")
  /\ Emitted(i, "payment.failed")    = OneIf(intent[i] = "FAILED")
  /\ Emitted(i, "payment.cancelled") = OneIf(intent[i] = "CANCELLED")
  /\ Emitted(i, "payment.expired")   = OneIf(intent[i] = "EXPIRED")

\* A payment exists only on a link that does, so creating a one-time link
\* cannot find it paid already.
LinkFits(i) ==
  /\ intent[i] # "ABSENT" => link[LinkOf[i]].status # "ABSENT"
  /\ Paid(i) /\ link[LinkOf[i]].oneTime => link[LinkOf[i]].status = "EXPIRED"

PaymentInv(i) == Agree(i) /\ Settled(i) /\ Announcements(i) /\ LinkFits(i)

IInv == TypeOK /\ \A i \in Intents : PaymentInv(i)

-----------------------------------------------------------------------------
(***************************************************************************)
(* The merchant's operations keep the link table well typed, never change  *)
(* the kind of an existing link and never reopen an EXPIRED one.           *)
(***************************************************************************)
LEMMA LinkStep ==
  ASSUME LinkTypeOK, LinkNext
  PROVE  /\ LinkTypeOK'
         /\ \A l \in Links : link[l].status # "ABSENT" =>
              /\ link'[l].status # "ABSENT"
              /\ link'[l].oneTime = link[l].oneTime
              /\ link[l].status = "EXPIRED" => link'[l].status = "EXPIRED"
<1> USE MaxUsesAssumption DEF LinkTypeOK, LinkRow, LinkStatus
<1>1. PICK l \in Links :
        \/ CreateLink(l)
        \/ GetByPublicToken(l)
        \/ UpdateLink(l)
        \/ \E to \in LinkStatus : TransitionLink(l, to)
        \/ ReuseLink(l)
        \/ LinkLapses(l)
  BY DEF LinkNext
<1>2. CASE CreateLink(l)
  BY <1>2 DEF CreateLink
<1>3. CASE GetByPublicToken(l)
  BY <1>3 DEF GetByPublicToken, EffectiveStatus
<1>4. CASE UpdateLink(l)
  BY <1>4 DEF UpdateLink, EffectiveStatus, NoLimit
<1>5. ASSUME NEW to \in LinkStatus, TransitionLink(l, to)
      PROVE  /\ LinkTypeOK'
             /\ \A m \in Links : link[m].status # "ABSENT" =>
                  /\ link'[m].status # "ABSENT"
                  /\ link'[m].oneTime = link[m].oneTime
                  /\ link[m].status = "EXPIRED" => link'[m].status = "EXPIRED"
  BY <1>5 DEF TransitionLink, EffectiveStatus, LINK_TRANSITIONS
<1>6. CASE ReuseLink(l)
  BY <1>6 DEF ReuseLink
<1>7. CASE LinkLapses(l)
  BY <1>7 DEF LinkLapses
<1>8. QED
  BY <1>1, <1>2, <1>3, <1>4, <1>5, <1>6, <1>7

\* The same of a payment's use of its link.
LEMMA UseStep ==
  ASSUME LinkTypeOK, NEW i \in Intents, UseLink(i)
  PROVE  /\ link' \in [Links -> LinkRow]
         /\ \A l \in Links : link[l].status # "ABSENT" =>
              /\ link'[l].status # "ABSENT"
              /\ link'[l].oneTime = link[l].oneTime
              /\ link[l].status = "EXPIRED" => link'[l].status = "EXPIRED"
         /\ link'[LinkOf[i]].oneTime => link'[LinkOf[i]].status = "EXPIRED"
<1> DEFINE l == LinkOf[i]
           row == RecordSuccessfulUse(link[l])
<1>1. l \in Links /\ link[l] \in LinkRow
  BY LinkOfAssumption DEF LinkTypeOK
<1>2. /\ row \in LinkRow
      /\ row.oneTime = link[l].oneTime
      /\ row.status \in {link[l].status, "EXPIRED"}
      /\ link[l].oneTime => row.status = "EXPIRED"
  BY <1>1, UseFacts
<1> HIDE DEF row
<1>3. link' = Set(link, l, row)
  BY DEF UseLink, row
<1>4. /\ link' \in [Links -> LinkRow]
      /\ \A m \in Links : link'[m] = IF m = l THEN row ELSE link[m]
  BY <1>1, <1>2, <1>3 DEF LinkTypeOK, Set
<1> HIDE DEF l
<1>5. QED
  BY <1>1, <1>2, <1>4 DEF l

-----------------------------------------------------------------------------
\* The two counters, one event or transaction further.
LEMMA OutboxBump ==
  ASSUME NEW b \in [Intents -> [EventType -> Nat]], NEW i \in Intents,
         NEW e \in EventType
  PROVE  /\ Bump(b, i, e) \in [Intents -> [EventType -> Nat]]
         /\ \A j \in Intents, k \in EventType :
              Bump(b, i, e)[j][k] = IF j = i /\ k = e THEN b[j][k] + 1 ELSE b[j][k]
  BY DEF Bump

LEMMA TxnBump ==
  ASSUME NEW b \in [Intents -> [TxnStatus -> Nat]], NEW i \in Intents,
         NEW e \in TxnStatus
  PROVE  /\ Bump(b, i, e) \in [Intents -> [TxnStatus -> Nat]]
         /\ \A j \in Intents, k \in TxnStatus :
              Bump(b, i, e)[j][k] = IF j = i /\ k = e THEN b[j][k] + 1 ELSE b[j][k]
  BY DEF Bump

LEMMA AskedOnceMore ==
  ASSUME asked \in [Intents -> Nat], NEW i \in Intents, Asked(i)
  PROVE  asked' \in [Intents -> Nat]
  BY DEF Asked

LEMMA Keys ==
  /\ "payment.created" \in EventType /\ "payment.processing" \in EventType
  /\ "payment.succeeded" \in EventType /\ "payment.failed" \in EventType
  /\ "payment.cancelled" \in EventType /\ "payment.expired" \in EventType
  /\ "SUCCEEDED" \in TxnStatus /\ "FAILED" \in TxnStatus
  BY DEF EventType, TxnStatus

\* A confirmation announces the submission and how it ended.
LEMMA AnnouncedTwice ==
  ASSUME outbox \in [Intents -> [EventType -> Nat]], NEW i \in Intents,
         NEW e \in EventType \ {"payment.processing"},
         outbox' = Bump(Bump(outbox, i, "payment.processing"), i, e)
  PROVE  \A k \in EventType \ {"payment.processing"} :
           outbox'[i][k] = IF k = e THEN outbox[i][k] + 1 ELSE outbox[i][k]
<1> DEFINE mid == Bump(outbox, i, "payment.processing")
<1>1. /\ mid \in [Intents -> [EventType -> Nat]]
      /\ \A k \in EventType \ {"payment.processing"} : mid[i][k] = outbox[i][k]
  BY OutboxBump, Keys
<1> HIDE DEF mid
<1>2. outbox' = Bump(mid, i, e)
  BY DEF mid
<1>3. QED
  BY <1>1, <1>2, OutboxBump

LEMMA InitInv == Init => IInv
<1> SUFFICES ASSUME Init PROVE IInv
  OBVIOUS
<1>1. TypeOK
  BY DEF Init, LinkInit, TypeOK, LinkTypeOK, LinkRow, NoLimit, EventType,
         TxnStatus
<1>2. ASSUME NEW i \in Intents PROVE PaymentInv(i)
  BY DEF Init, PaymentInv, Agree, Settled, Announcements, LinkFits, Paid, OneIf,
         Emitted, TxnStatus, EventType
<1>3. QED
  BY <1>1, <1>2 DEF IInv

\* Every step keeps the types: the handlers that leave the link alone, the
\* confirmations that settle nothing, the two that settle, the events.
LEMMA TypeStep ==
  ASSUME TypeOK, [Next]_vars
  PROVE  TypeOK'
<1> USE LinkOfAssumption, OutboxBump, TxnBump, AskedOnceMore DEF TypeOK, Set
<1>1. CASE LinkNext /\ UNCHANGED <<paymentVars, steepFees, asked>>
  BY <1>1, LinkStep DEF paymentVars
<1>2. ASSUME NEW i \in Intents, CreateCheckoutSession(i)
      PROVE  TypeOK'
  BY <1>2
     DEF CreateCheckoutSession, linkVars, LinkTypeOK, IntentStatus, SessionStatus,
         EventType
<1>3. ASSUME NEW i \in Intents, GetCheckoutSession(i)
      PROVE  TypeOK'
  <2>1. CASE intent[i] \in {"CREATED", "REQUIRES_PAYMENT"}
    <3>1. /\ outbox' = Bump(outbox, i, "payment.expired")
          /\ intent' = [intent EXCEPT ![i] = "EXPIRED"]
      BY <1>3, <2>1 DEF GetCheckoutSession
    <3>2. /\ outbox' \in [Intents -> [EventType -> Nat]]
          /\ intent' \in [Intents -> IntentStatus \union {"ABSENT"}]
      BY <3>1 DEF EventType, IntentStatus
    <3>3. QED
      BY <1>3, <3>2 DEF GetCheckoutSession, linkVars, LinkTypeOK, SessionStatus
  <2>2. CASE intent[i] \notin {"CREATED", "REQUIRES_PAYMENT"}
    BY <1>3, <2>2 DEF GetCheckoutSession, linkVars, LinkTypeOK, SessionStatus
  <2>3. QED
    BY <2>1, <2>2
<1>4. ASSUME NEW i \in Intents, CancelPayment(i)
      PROVE  TypeOK'
  BY <1>4
     DEF CancelPayment, linkVars, LinkTypeOK, IntentStatus, SessionStatus, EventType
<1>5. ASSUME NEW i \in Intents, ConfirmSucceeded(i)
      PROVE  TypeOK'
  <2>1. attempts' \in [Intents -> Seq(AttemptStatus)]
    BY <1>5 DEF ConfirmSucceeded, Attempted, AttemptStatus
  <2>2. outbox' \in [Intents -> [EventType -> Nat]]
    BY <1>5 DEF ConfirmSucceeded, Announced, EventType
  <2>3. link' \in [Links -> LinkRow] /\ lapsedLinks' = lapsedLinks
    BY <1>5, UseStep DEF ConfirmSucceeded
  <2>4. QED
    BY <1>5, <2>1, <2>2, <2>3
       DEF ConfirmSucceeded, LinkTypeOK, IntentStatus, SessionStatus, TxnStatus
<1>6. ASSUME NEW i \in Intents, ConfirmAmbiguous(i)
      PROVE  TypeOK'
  <2>1. attempts' \in [Intents -> Seq(AttemptStatus)]
    BY <1>6 DEF ConfirmAmbiguous, Attempted, AttemptStatus
  <2>2. outbox' \in [Intents -> [EventType -> Nat]]
    BY <1>6 DEF ConfirmAmbiguous, Announced, EventType
  <2>3. QED
    BY <1>6, <2>1, <2>2 DEF ConfirmAmbiguous, linkVars, LinkTypeOK, IntentStatus
<1>7. ASSUME NEW i \in Intents, ConfirmPending(i)
      PROVE  TypeOK'
  <2>1. attempts' \in [Intents -> Seq(AttemptStatus)]
    BY <1>7 DEF ConfirmPending, Attempted, AttemptStatus
  <2>2. outbox' \in [Intents -> [EventType -> Nat]]
    BY <1>7 DEF ConfirmPending, EventType
  <2>3. QED
    BY <1>7, <2>1, <2>2 DEF ConfirmPending, linkVars, LinkTypeOK, IntentStatus
<1>8. ASSUME NEW i \in Intents, ConfirmFailed(i)
      PROVE  TypeOK'
  <2>1. attempts' \in [Intents -> Seq(AttemptStatus)]
    BY <1>8 DEF ConfirmFailed, Attempted, AttemptStatus
  <2>2. outbox' \in [Intents -> [EventType -> Nat]]
    BY <1>8 DEF ConfirmFailed, Announced, EventType
  <2>3. txns' \in [Intents -> [TxnStatus -> Nat]]
    BY <1>8 DEF ConfirmFailed, TxnStatus
  <2>4. QED
    BY <1>8, <2>1, <2>2, <2>3 DEF ConfirmFailed, linkVars, LinkTypeOK, IntentStatus
<1>9. ASSUME NEW i \in Intents, FinalizeCheckoutArtifacts(i)
      PROVE  /\ link' \in [Links -> LinkRow]
             /\ session' \in [Intents -> SessionStatus \union {"ABSENT"}]
             /\ order' \in [Intents -> {"ABSENT", "OPEN", "PAID"}]
             /\ attempts' \in [Intents -> Seq(AttemptStatus)]
             /\ txns' \in [Intents -> [TxnStatus -> Nat]]
  <2>1. link' \in [Links -> LinkRow]
    BY <1>9, UseStep
       DEF FinalizeCheckoutArtifacts, Reconcile, FinalizeFresh, LinkTypeOK
  <2>2. /\ session' \in [Intents -> SessionStatus \union {"ABSENT"}]
        /\ order' \in [Intents -> {"ABSENT", "OPEN", "PAID"}]
        /\ txns' \in [Intents -> [TxnStatus -> Nat]]
    <3>1. CASE Reconcile(i)
      BY <3>1 DEF Reconcile, SessionStatus
    <3>2. CASE FinalizeFresh(i)
      BY <3>2 DEF FinalizeFresh, SessionStatus, TxnStatus
    <3>3. QED
      BY <1>9, <3>1, <3>2 DEF FinalizeCheckoutArtifacts
  <2>3. attempts' \in [Intents -> Seq(AttemptStatus)]
    <3>1. CASE UNCHANGED attempts
      BY <3>1
    <3>2. CASE FinalizeFresh(i)
      <4>1. CASE attempts[i] = <<>>
        BY <3>2, <4>1 DEF FinalizeFresh, AttemptStatus
      <4>2. CASE attempts[i] # <<>>
        BY <3>2, <4>2, FinalAttempts DEF FinalizeFresh
      <4>3. QED
        BY <4>1, <4>2
    <3>3. QED
      BY <1>9, <3>1, <3>2 DEF FinalizeCheckoutArtifacts, Reconcile
  <2>4. QED
    BY <2>1, <2>2, <2>3
<1>10. ASSUME NEW i \in Intents, SettleByEvent(i)
      PROVE  TypeOK'
  <2>1. outbox' \in [Intents -> [EventType -> Nat]]
    BY <1>10 DEF SettleByEvent, Applicable, EventType
  <2>2. intent' \in [Intents -> IntentStatus \union {"ABSENT"}]
    BY <1>10 DEF SettleByEvent, Applicable, IntentStatus
  <2>3. QED
    BY <1>9, <1>10, <2>1, <2>2 DEF SettleByEvent, Applicable, LinkTypeOK
<1>11. ASSUME NEW i \in Intents, ReconcileByEvent(i)
      PROVE  TypeOK'
  BY <1>9, <1>11 DEF ReconcileByEvent, LinkTypeOK
<1>12. ASSUME NEW i \in Intents, FailByEvent(i)
       PROVE  TypeOK'
  BY <1>12 DEF FailByEvent, Applicable, linkVars, LinkTypeOK, IntentStatus, EventType
<1>13. ASSUME NEW i \in Intents, CancelByEvent(i)
       PROVE  TypeOK'
  BY <1>13 DEF CancelByEvent, linkVars, LinkTypeOK, IntentStatus
<1>14. ASSUME FeesChange \/ \E i \in Intents : ConfirmLost(i)
       PROVE  TypeOK'
  BY <1>14 DEF FeesChange, ConfirmLost, linkVars, paymentVars, LinkTypeOK
<1>15. ASSUME NEW i \in Intents, SessionLapses(i)
       PROVE  TypeOK'
  BY <1>15 DEF SessionLapses, linkVars, LinkTypeOK
<1>16. CASE UNCHANGED vars
  BY <1>16 DEF vars, linkVars, paymentVars, LinkTypeOK
<1>17. QED
  BY <1>1, <1>2, <1>3, <1>4, <1>5, <1>6, <1>7, <1>8, <1>10, <1>11, <1>12, <1>13,
     <1>14, <1>15, <1>16 DEF Next

\* Every reachable state is well typed: the rows only ever hold statuses the
\* tables' CHECK constraints admit, and the counters are numbers.
THEOREM TypeCorrect == Spec => []TypeOK
<1>1. Init => TypeOK
  BY InitInv DEF IInv
<1>2. TypeOK /\ [Next]_vars => TypeOK'
  BY TypeStep
<1>3. QED
  BY <1>1, <1>2, PTL DEF Spec

-----------------------------------------------------------------------------
(***************************************************************************)
(* A step touches the rows of at most one payment; the others keep their   *)
(* invariant because their link only moves towards EXPIRED.                *)
(***************************************************************************)
LinkKept(l) ==
  link[l].status # "ABSENT" =>
    /\ link'[l].status # "ABSENT"
    /\ link'[l].oneTime = link[l].oneTime
    /\ link[l].status = "EXPIRED" => link'[l].status = "EXPIRED"

RowsKept(j) ==
  /\ intent'[j] = intent[j]
  /\ session'[j] = session[j]
  /\ order'[j] = order[j]
  /\ attempts'[j] = attempts[j]
  /\ txns'[j] = txns[j]
  /\ j \in accrued' <=> j \in accrued
  /\ outbox'[j] = outbox[j]

LEMMA Untouched ==
  ASSUME NEW j \in Intents, PaymentInv(j), RowsKept(j), LinkKept(LinkOf[j])
  PROVE  PaymentInv(j)'
<1>1. Agree(j)'
  BY DEF PaymentInv, Agree, RowsKept, Paid
<1>2. Settled(j)'
  BY DEF PaymentInv, Settled, RowsKept, Paid, OneIf
<1>3. Announcements(j)'
  BY DEF PaymentInv, Announcements, RowsKept, Emitted, OneIf
<1>4. LinkFits(j)'
  BY DEF PaymentInv, LinkFits, RowsKept, LinkKept, Paid
<1>5. QED
  BY <1>1, <1>2, <1>3, <1>4 DEF PaymentInv

\* So a step of payment i need only be followed on i itself.
LEMMA OnlyOne ==
  ASSUME IInv, TypeOK', NEW i \in Intents, PaymentInv(i)',
         \A j \in Intents \ {i} : RowsKept(j),
         \A l \in Links : LinkKept(l)
  PROVE  IInv'
<1>1. ASSUME NEW j \in Intents PROVE PaymentInv(j)'
  <2>1. CASE j = i
    BY <2>1
  <2>2. CASE j # i
    BY <2>2, Untouched, LinkOfAssumption DEF IInv
  <2>3. QED
    BY <2>1, <2>2
<1>2. QED
  BY <1>1 DEF IInv

\* Only an intent nobody has submitted can be cancelled.
LEMMA Cancellable ==
  ASSUME NEW s \in IntentStatus, "CANCELLED" \in PAYMENT_INTENT_TRANSITIONS[s]
  PROVE  s \in {"CREATED", "REQUIRES_PAYMENT"}
  BY DEF PAYMENT_INTENT_TRANSITIONS, IntentStatus

LEMMA SessionSteps ==
  ASSUME IInv, TypeOK', NEW i \in Intents,
         CreateCheckoutSession(i) \/ GetCheckoutSession(i) \/ CancelPayment(i)
  PROVE  IInv'
<1> USE DEF IInv, TypeOK
<1>1. CASE CreateCheckoutSession(i)
  <2>1. /\ intent' = [intent EXCEPT ![i] = "REQUIRES_PAYMENT"]
        /\ session' = [session EXCEPT ![i] = "OPEN"]
        /\ order' = [order EXCEPT ![i] = "OPEN"]
        /\ outbox' = Bump(outbox, i, "payment.created")
        /\ UNCHANGED <<link, attempts, txns, accrued>>
        /\ intent[i] = "ABSENT"
        /\ link[LinkOf[i]].status = "ACTIVE"
    BY <1>1 DEF CreateCheckoutSession, Set, linkVars, EffectiveStatus
  <2>2. \A l \in Links : LinkKept(l)
    BY <2>1 DEF LinkKept
  <2>3. \A j \in Intents \ {i} : RowsKept(j)
    BY <2>1 DEF RowsKept, Bump
  <2>4. PaymentInv(i)
    OBVIOUS
  <2>5. Agree(i)'
    BY <2>1, <2>4 DEF PaymentInv, Agree, Paid
  <2>6. Settled(i)'
    BY <2>1, <2>4 DEF PaymentInv, Settled, Paid, OneIf
  <2>7. Announcements(i)'
    <3>1. \A k \in EventType : outbox'[i][k] = IF k = "payment.created"
                                             THEN outbox[i][k] + 1 ELSE outbox[i][k]
      BY <2>1, Keys DEF Bump
    <3>2. QED
      BY <2>1, <2>4, <3>1, Keys DEF PaymentInv, Announcements, Emitted, OneIf
  <2>8. LinkFits(i)'
    BY <2>1 DEF LinkFits, Paid
  <2>9. QED
    BY <2>2, <2>3, <2>5, <2>6, <2>7, <2>8, OnlyOne DEF PaymentInv
<1>2. CASE GetCheckoutSession(i)
  <2>1. CASE intent[i] \in {"CREATED", "REQUIRES_PAYMENT"}
    <3>1. /\ intent' = [intent EXCEPT ![i] = "EXPIRED"]
          /\ session' = [session EXCEPT ![i] = "EXPIRED"]
          /\ outbox' = Bump(outbox, i, "payment.expired")
          /\ UNCHANGED <<link, order, attempts, txns, accrued>>
      BY <1>2, <2>1 DEF GetCheckoutSession, Set, linkVars
    <3>2. \A l \in Links : LinkKept(l)
      BY <3>1 DEF LinkKept
    <3>3. \A j \in Intents \ {i} : RowsKept(j)
      BY <3>1 DEF RowsKept, Bump
    <3>4. PaymentInv(i)
      OBVIOUS
    <3>5. Agree(i)'
      BY <3>1, <3>4 DEF PaymentInv, Agree, Paid
    <3>6. Settled(i)'
      BY <2>1, <3>1, <3>4 DEF PaymentInv, Settled, Paid, OneIf
    <3>7. Announcements(i)'
      <4>1. \A k \in EventType : outbox'[i][k] = IF k = "payment.expired"
                                               THEN outbox[i][k] + 1 ELSE outbox[i][k]
        BY <3>1, Keys DEF Bump
      <4>2. QED
        BY <2>1, <3>1, <3>4, <4>1, Keys DEF PaymentInv, Announcements, Emitted, OneIf
    <3>8. LinkFits(i)'
      BY <2>1, <3>1, <3>4 DEF PaymentInv, LinkFits, Paid
    <3>9. QED
      BY <3>2, <3>3, <3>5, <3>6, <3>7, <3>8, OnlyOne DEF PaymentInv
  <2>2. CASE intent[i] \notin {"CREATED", "REQUIRES_PAYMENT"}
    <3>1. /\ session[i] = "OPEN"
          /\ session' = [session EXCEPT ![i] = "EXPIRED"]
          /\ UNCHANGED <<intent, outbox, link, order, attempts, txns, accrued>>
      BY <1>2, <2>2 DEF GetCheckoutSession, SessionExpired, Set, linkVars
    <3>2. \A l \in Links : LinkKept(l)
      BY <3>1 DEF LinkKept
    <3>3. \A j \in Intents \ {i} : RowsKept(j)
      BY <3>1 DEF RowsKept
    <3>4. PaymentInv(i)
      OBVIOUS
    <3>5. Agree(i)'
      BY <2>2, <3>1, <3>4 DEF PaymentInv, Agree, Paid
    <3>6. Settled(i)' /\ Announcements(i)' /\ LinkFits(i)'
      BY <3>1, <3>4 DEF PaymentInv, Settled, Announcements, LinkFits, Emitted, Paid,
                        OneIf
    <3>7. QED
      BY <3>2, <3>3, <3>5, <3>6, OnlyOne DEF PaymentInv
  <2>3. QED
    BY <2>1, <2>2
<1>3. CASE CancelPayment(i)
  <2>1. /\ intent[i] \in {"CREATED", "REQUIRES_PAYMENT"}
        /\ intent' = [intent EXCEPT ![i] = "CANCELLED"]
        /\ outbox' = Bump(outbox, i, "payment.cancelled")
        /\ UNCHANGED <<link, order, attempts, txns, accrued>>
    <3>1. intent[i] \in {"CREATED", "REQUIRES_PAYMENT"}
      BY <1>3, Cancellable DEF CancelPayment, CanMove
    <3>2. QED
      BY <1>3, <3>1 DEF CancelPayment, Set, linkVars
  <2>2. PaymentInv(i)
    OBVIOUS
  <2>3. session' = [session EXCEPT ![i] = "CANCELLED"]
    <3>1. session[i] = "OPEN"
      BY <2>1, <2>2 DEF PaymentInv, Agree, Paid, SessionStatus
    <3>2. QED
      BY <1>3, <3>1 DEF CancelPayment, Set
  <2>4. \A l \in Links : LinkKept(l)
    BY <2>1 DEF LinkKept
  <2>5. \A j \in Intents \ {i} : RowsKept(j)
    BY <2>1, <2>3 DEF RowsKept, Bump
  <2>6. Agree(i)'
    BY <2>1, <2>2, <2>3 DEF PaymentInv, Agree, Paid
  <2>7. Settled(i)'
    BY <2>1, <2>2 DEF PaymentInv, Settled, Paid, OneIf
  <2>8. Announcements(i)'
    <3>1. \A k \in EventType : outbox'[i][k] = IF k = "payment.cancelled"
                                             THEN outbox[i][k] + 1 ELSE outbox[i][k]
      BY <2>1, Keys DEF Bump
    <3>2. QED
      BY <2>1, <2>2, <3>1, Keys DEF PaymentInv, Announcements, Emitted, OneIf
  <2>9. LinkFits(i)'
    BY <2>1, <2>2 DEF PaymentInv, LinkFits, Paid
  <2>10. QED
    BY <2>4, <2>5, <2>6, <2>7, <2>8, <2>9, OnlyOne DEF PaymentInv
<1>4. QED
  BY <1>1, <1>2, <1>3

\* A confirmation finds an intent without attempts and an open session, and
\* leaves both as the provider's answer says.
LEMMA ConfirmSteps ==
  ASSUME IInv, TypeOK', NEW i \in Intents,
         \/ ConfirmSucceeded(i) \/ ConfirmAmbiguous(i)
         \/ ConfirmPending(i) \/ ConfirmFailed(i)
  PROVE  IInv'
<1> USE LinkOfAssumption DEF IInv, TypeOK
<1>1. /\ intent[i] = "REQUIRES_PAYMENT"
      /\ session[i] = "OPEN"
      /\ attempts[i] = <<>>
      /\ Agree(i) /\ Settled(i) /\ Announcements(i) /\ LinkFits(i)
  <2>1. CanConfirm(i)
    BY DEF ConfirmSucceeded, ConfirmAmbiguous, ConfirmPending, ConfirmFailed
  <2>2. QED
    BY <2>1 DEF CanConfirm, PaymentInv, Settled
<1>2. /\ outbox[i]["payment.succeeded"] = 0 /\ outbox[i]["payment.failed"] = 0
      /\ outbox[i]["payment.cancelled"] = 0 /\ outbox[i]["payment.expired"] = 0
  BY <1>1 DEF Announcements, Emitted, OneIf
<1>3. CASE ConfirmSucceeded(i)
  <2>1. /\ intent' = [intent EXCEPT ![i] = "SUCCEEDED"]
        /\ attempts' = [attempts EXCEPT ![i] = Append(attempts[i], "SUCCEEDED")]
        /\ outbox' = Bump(Bump(outbox, i, "payment.processing"), i, "payment.succeeded")
        /\ session' = [session EXCEPT ![i] = "COMPLETED"]
        /\ order' = [order EXCEPT ![i] = "PAID"]
        /\ accrued' = accrued \union {i}
        /\ txns' = Bump(txns, i, "SUCCEEDED")
    BY <1>3 DEF ConfirmSucceeded, Attempted, Announced, Set, linkVars
  <2>2. /\ \A l \in Links : LinkKept(l)
        /\ link'[LinkOf[i]].oneTime => link'[LinkOf[i]].status = "EXPIRED"
    BY <1>3, UseStep DEF ConfirmSucceeded, LinkKept
  <2>3. \A j \in Intents \ {i} : RowsKept(j)
    BY <2>1 DEF RowsKept, Bump
  <2>4. Agree(i)'
    BY <2>1, <1>1 DEF PaymentInv, Agree, Paid
  <2>5. Settled(i)'
    <3>1. attempts'[i] = <<"SUCCEEDED">>
      BY <1>1, <2>1
    <3>2. txns'[i]["SUCCEEDED"] = 1
      BY <1>1, <2>1, Keys DEF Bump, Settled, OneIf, Paid
    <3>3. QED
      BY <1>1, <2>1, <3>1, <3>2 DEF PaymentInv, Settled, Paid, OneIf
  <2>6. Announcements(i)'
    <3>1. /\ outbox'[i]["payment.succeeded"] = outbox[i]["payment.succeeded"] + 1
          /\ outbox'[i]["payment.failed"] = outbox[i]["payment.failed"]
          /\ outbox'[i]["payment.cancelled"] = outbox[i]["payment.cancelled"]
          /\ outbox'[i]["payment.expired"] = outbox[i]["payment.expired"]
      <4>1. /\ outbox \in [Intents -> [EventType -> Nat]]
            /\ "payment.succeeded" \in EventType \ {"payment.processing"}
            /\ outbox' = Bump(Bump(outbox, i, "payment.processing"), i, "payment.succeeded")
        BY <2>1, Keys
      <4>2. \A k \in EventType \ {"payment.processing"} :
              outbox'[i][k] = IF k = "payment.succeeded" THEN outbox[i][k] + 1
                                                       ELSE outbox[i][k]
        BY ONLY <4>1, AnnouncedTwice, i \in Intents
      <4>3. QED
        BY ONLY <4>2, Keys
    <3>2. /\ outbox'[i]["payment.succeeded"] = 1
          /\ outbox'[i]["payment.failed"] = 0
          /\ outbox'[i]["payment.cancelled"] = 0
          /\ outbox'[i]["payment.expired"] = 0
      BY <1>2, <3>1
    <3>3. QED
      BY <2>1, <3>2 DEF Announcements, Emitted, OneIf
  <2>7. LinkFits(i)'
    BY <1>1, <2>1, <2>2 DEF LinkFits, LinkKept, Paid
  <2>8. QED
    BY <2>2, <2>3, <2>4, <2>5, <2>6, <2>7, OnlyOne DEF PaymentInv
<1>4. CASE ConfirmAmbiguous(i)
  <2>1. /\ intent' = [intent EXCEPT ![i] = "FAILED"]
        /\ attempts' = [attempts EXCEPT ![i] = Append(attempts[i], "FAILED")]
        /\ outbox' = Bump(Bump(outbox, i, "payment.processing"), i, "payment.failed")
        /\ UNCHANGED <<link, session, order, accrued, txns>>
    BY <1>4 DEF ConfirmAmbiguous, Attempted, Announced, Set, linkVars
  <2>2. \A l \in Links : LinkKept(l)
    BY <2>1 DEF LinkKept
  <2>3. \A j \in Intents \ {i} : RowsKept(j)
    BY <2>1 DEF RowsKept, Bump
  <2>4. Agree(i)'
    BY <2>1, <1>1 DEF PaymentInv, Agree, Paid
  <2>5. Settled(i)'
    <3>1. attempts'[i] = <<"FAILED">>
      BY <1>1, <2>1
    <3>2. QED
      BY <1>1, <2>1, <3>1 DEF PaymentInv, Settled, Paid, OneIf
  <2>6. Announcements(i)'
    <3>1. /\ outbox'[i]["payment.succeeded"] = outbox[i]["payment.succeeded"]
          /\ outbox'[i]["payment.failed"] = outbox[i]["payment.failed"] + 1
          /\ outbox'[i]["payment.cancelled"] = outbox[i]["payment.cancelled"]
          /\ outbox'[i]["payment.expired"] = outbox[i]["payment.expired"]
      <4>1. /\ outbox \in [Intents -> [EventType -> Nat]]
            /\ "payment.failed" \in EventType \ {"payment.processing"}
            /\ outbox' = Bump(Bump(outbox, i, "payment.processing"), i, "payment.failed")
        BY <2>1, Keys
      <4>2. \A k \in EventType \ {"payment.processing"} :
              outbox'[i][k] = IF k = "payment.failed" THEN outbox[i][k] + 1
                                                       ELSE outbox[i][k]
        BY ONLY <4>1, AnnouncedTwice, i \in Intents
      <4>3. QED
        BY ONLY <4>2, Keys
    <3>2. /\ outbox'[i]["payment.succeeded"] = 0
          /\ outbox'[i]["payment.failed"] = 1
          /\ outbox'[i]["payment.cancelled"] = 0
          /\ outbox'[i]["payment.expired"] = 0
      BY <1>2, <3>1
    <3>3. QED
      BY <2>1, <3>2 DEF Announcements, Emitted, OneIf
  <2>7. LinkFits(i)'
    BY <1>1, <2>1, <2>2 DEF LinkFits, LinkKept, Paid
  <2>8. QED
    BY <2>2, <2>3, <2>4, <2>5, <2>6, <2>7, OnlyOne DEF PaymentInv
<1>5. CASE ConfirmPending(i)
  <2>1. /\ intent' = [intent EXCEPT ![i] = "PROCESSING"]
        /\ attempts' = [attempts EXCEPT ![i] = Append(attempts[i], "PROCESSING")]
        /\ outbox' = Bump(outbox, i, "payment.processing")
        /\ UNCHANGED <<link, session, order, accrued, txns>>
    BY <1>5 DEF ConfirmPending, Attempted, Announced, Set, linkVars
  <2>2. \A l \in Links : LinkKept(l)
    BY <2>1 DEF LinkKept
  <2>3. \A j \in Intents \ {i} : RowsKept(j)
    BY <2>1 DEF RowsKept, Bump
  <2>4. Agree(i)'
    BY <2>1, <1>1 DEF PaymentInv, Agree, Paid
  <2>5. Settled(i)'
    <3>1. attempts'[i] = <<"PROCESSING">>
      BY <1>1, <2>1
    <3>2. QED
      BY <1>1, <2>1, <3>1 DEF PaymentInv, Settled, Paid, OneIf
  <2>6. Announcements(i)'
    <3>1. /\ outbox'[i]["payment.succeeded"] = outbox[i]["payment.succeeded"]
          /\ outbox'[i]["payment.failed"] = outbox[i]["payment.failed"]
          /\ outbox'[i]["payment.cancelled"] = outbox[i]["payment.cancelled"]
          /\ outbox'[i]["payment.expired"] = outbox[i]["payment.expired"]
      BY <2>1, Keys DEF Bump
    <3>2. /\ outbox'[i]["payment.succeeded"] = 0
          /\ outbox'[i]["payment.failed"] = 0
          /\ outbox'[i]["payment.cancelled"] = 0
          /\ outbox'[i]["payment.expired"] = 0
      BY <1>2, <3>1
    <3>3. QED
      BY <2>1, <3>2 DEF Announcements, Emitted, OneIf
  <2>7. LinkFits(i)'
    BY <1>1, <2>1, <2>2 DEF LinkFits, LinkKept, Paid
  <2>8. QED
    BY <2>2, <2>3, <2>4, <2>5, <2>6, <2>7, OnlyOne DEF PaymentInv
<1>6. CASE ConfirmFailed(i)
  <2>1. /\ intent' = [intent EXCEPT ![i] = "FAILED"]
        /\ attempts' = [attempts EXCEPT ![i] = Append(attempts[i], "FAILED")]
        /\ outbox' = Bump(Bump(outbox, i, "payment.processing"), i, "payment.failed")
        /\ txns' = Bump(txns, i, "FAILED")
        /\ UNCHANGED <<link, session, order, accrued>>
    BY <1>6 DEF ConfirmFailed, Attempted, Announced, Set, linkVars
  <2>2. \A l \in Links : LinkKept(l)
    BY <2>1 DEF LinkKept
  <2>3. \A j \in Intents \ {i} : RowsKept(j)
    BY <2>1 DEF RowsKept, Bump
  <2>4. Agree(i)'
    BY <2>1, <1>1 DEF PaymentInv, Agree, Paid
  <2>5. Settled(i)'
    <3>1. attempts'[i] = <<"FAILED">>
      BY <1>1, <2>1
    <3>2. txns'[i]["SUCCEEDED"] = 0
      BY <1>1, <2>1, Keys DEF Bump, Settled, OneIf, Paid
    <3>3. QED
      BY <1>1, <2>1, <3>1, <3>2 DEF PaymentInv, Settled, Paid, OneIf
  <2>6. Announcements(i)'
    <3>1. /\ outbox'[i]["payment.succeeded"] = outbox[i]["payment.succeeded"]
          /\ outbox'[i]["payment.failed"] = outbox[i]["payment.failed"] + 1
          /\ outbox'[i]["payment.cancelled"] = outbox[i]["payment.cancelled"]
          /\ outbox'[i]["payment.expired"] = outbox[i]["payment.expired"]
      <4>1. /\ outbox \in [Intents -> [EventType -> Nat]]
            /\ "payment.failed" \in EventType \ {"payment.processing"}
            /\ outbox' = Bump(Bump(outbox, i, "payment.processing"), i, "payment.failed")
        BY <2>1, Keys
      <4>2. \A k \in EventType \ {"payment.processing"} :
              outbox'[i][k] = IF k = "payment.failed" THEN outbox[i][k] + 1
                                                       ELSE outbox[i][k]
        BY ONLY <4>1, AnnouncedTwice, i \in Intents
      <4>3. QED
        BY ONLY <4>2, Keys
    <3>2. /\ outbox'[i]["payment.succeeded"] = 0
          /\ outbox'[i]["payment.failed"] = 1
          /\ outbox'[i]["payment.cancelled"] = 0
          /\ outbox'[i]["payment.expired"] = 0
      BY <1>2, <3>1
    <3>3. QED
      BY <2>1, <3>2 DEF Announcements, Emitted, OneIf
  <2>7. LinkFits(i)'
    BY <1>1, <2>1, <2>2 DEF LinkFits, LinkKept, Paid
  <2>8. QED
    BY <2>2, <2>3, <2>4, <2>5, <2>6, <2>7, OnlyOne DEF PaymentInv
<1>7. QED
  BY <1>3, <1>4, <1>5, <1>6

\* The provider's events: a success settles an open payment and only
\* reconciles a paid one; the others change the intent alone.
LEMMA EventSteps ==
  ASSUME IInv, TypeOK', NEW i \in Intents,
         \/ SettleByEvent(i) \/ ReconcileByEvent(i)
         \/ FailByEvent(i) \/ CancelByEvent(i)
  PROVE  IInv'
<1> USE LinkOfAssumption DEF IInv, TypeOK
<1>1. Agree(i) /\ Settled(i) /\ Announcements(i) /\ LinkFits(i)
  BY DEF PaymentInv
<1>2. CASE SettleByEvent(i)
  <2>1. /\ intent[i] \in {"REQUIRES_PAYMENT", "PROCESSING"}
        /\ intent' = [intent EXCEPT ![i] = "SUCCEEDED"]
        /\ accrued' = accrued \union {i}
        /\ outbox' = Bump(outbox, i, "payment.succeeded")
    BY <1>2 DEF SettleByEvent, Applicable, Set
  <2>2. txns[i]["SUCCEEDED"] = 0
    BY <1>1, <2>1 DEF Settled, Paid, OneIf
  <2>3. FinalizeFresh(i)
    BY <1>2, <2>2 DEF SettleByEvent, Applicable, FinalizeCheckoutArtifacts
  <2>4. /\ session' = [session EXCEPT ![i] = "COMPLETED"]
        /\ order' = [order EXCEPT ![i] = "PAID"]
        /\ txns' = Bump(txns, i, "SUCCEEDED")
    BY <2>3 DEF FinalizeFresh, Set
  <2>5. /\ attempts'[i] = <<"SUCCEEDED">>
        /\ \A j \in Intents \ {i} : attempts'[j] = attempts[j]
    <3>1. attempts[i] \in {<<>>, <<"PROCESSING">>, <<"FAILED">>}
      BY <1>1, <2>1 DEF Settled, Paid
    <3>2. CASE attempts[i] = <<>>
      BY <2>3, <3>2 DEF FinalizeFresh, Set
    <3>3. ASSUME NEW s \in AttemptStatus, attempts[i] = <<s>>
          PROVE  /\ attempts'[i] = <<"SUCCEEDED">>
                 /\ \A j \in Intents \ {i} : attempts'[j] = attempts[j]
      <4>1. attempts[i] # <<>>
        BY <3>3
      <4>2. [attempts[i] EXCEPT ![Len(attempts[i])] = "SUCCEEDED"] = <<"SUCCEEDED">>
        BY <3>3, LatestSucceeds
      <4>3. attempts' = [attempts EXCEPT ![i] = <<"SUCCEEDED">>]
        BY <2>3, <4>1, <4>2 DEF FinalizeFresh, Set
      <4>4. QED
        BY <4>3
    <3>4. QED
      BY <3>1, <3>2, <3>3 DEF AttemptStatus
  <2>6. /\ \A l \in Links : LinkKept(l)
        /\ link'[LinkOf[i]].oneTime => link'[LinkOf[i]].status = "EXPIRED"
    BY <2>3, UseStep DEF FinalizeFresh, LinkKept
  <2>7. \A j \in Intents \ {i} : RowsKept(j)
    BY <2>1, <2>4, <2>5 DEF RowsKept, Bump
  <2>8. Agree(i)'
    BY <2>1, <2>4 DEF Agree, Paid
  <2>9. Settled(i)'
    <3>1. txns'[i]["SUCCEEDED"] = 1
      BY <2>2, <2>4, Keys DEF Bump
    <3>2. QED
      BY <2>1, <2>4, <2>5, <3>1 DEF Settled, Paid, OneIf
  <2>10. Announcements(i)'
    <3>1. /\ outbox'[i]["payment.succeeded"] = outbox[i]["payment.succeeded"] + 1
          /\ outbox'[i]["payment.failed"] = outbox[i]["payment.failed"]
          /\ outbox'[i]["payment.cancelled"] = outbox[i]["payment.cancelled"]
          /\ outbox'[i]["payment.expired"] = outbox[i]["payment.expired"]
      BY <2>1, Keys DEF Bump
    <3>2. QED
      BY <1>1, <2>1, <3>1 DEF Announcements, Emitted, OneIf
  <2>11. LinkFits(i)'
    BY <1>1, <2>1, <2>6 DEF LinkFits, LinkKept, Paid
  <2>12. QED
    BY <2>6, <2>7, <2>8, <2>9, <2>10, <2>11, OnlyOne DEF PaymentInv
<1>3. CASE ReconcileByEvent(i)
  <2>1. /\ intent[i] = "SUCCEEDED"
        /\ UNCHANGED <<intent, accrued, outbox>>
    BY <1>3 DEF ReconcileByEvent
  <2>2. txns[i]["SUCCEEDED"] = 1 /\ session[i] = "COMPLETED" /\ order[i] = "PAID"
    BY <1>1, <2>1 DEF Settled, Agree, Paid, OneIf
  <2>3. Reconcile(i)
    BY <1>3, <2>2 DEF ReconcileByEvent, FinalizeCheckoutArtifacts
  <2>4. UNCHANGED <<session, attempts, txns>> /\ order'[i] = "PAID"
    BY <2>2, <2>3 DEF Reconcile, Set
  <2>5. \A j \in Intents \ {i} : order'[j] = order[j]
    BY <2>3 DEF Reconcile, Set
  <2>6. \A l \in Links : LinkKept(l)
    BY <2>3, UseStep DEF Reconcile, LinkKept
  <2>7. \A j \in Intents : RowsKept(j)
    BY <2>1, <2>2, <2>4, <2>5 DEF RowsKept
  <2>8. QED
    BY <2>6, <2>7, Untouched, OnlyOne
<1>4. CASE FailByEvent(i)
  <2>1. /\ intent[i] \in {"REQUIRES_PAYMENT", "PROCESSING"}
        /\ intent' = [intent EXCEPT ![i] = "FAILED"]
        /\ outbox' = Bump(outbox, i, "payment.failed")
        /\ UNCHANGED <<link, session, order, attempts, txns, accrued>>
    BY <1>4 DEF FailByEvent, Applicable, Set, linkVars
  <2>2. \A l \in Links : LinkKept(l)
    BY <2>1 DEF LinkKept
  <2>3. \A j \in Intents \ {i} : RowsKept(j)
    BY <2>1 DEF RowsKept, Bump
  <2>4. Agree(i)' /\ Settled(i)' /\ LinkFits(i)'
    BY <1>1, <2>1 DEF Agree, Settled, LinkFits, Paid, OneIf
  <2>5. Announcements(i)'
    <3>1. /\ outbox'[i]["payment.succeeded"] = outbox[i]["payment.succeeded"]
          /\ outbox'[i]["payment.failed"] = outbox[i]["payment.failed"] + 1
          /\ outbox'[i]["payment.cancelled"] = outbox[i]["payment.cancelled"]
          /\ outbox'[i]["payment.expired"] = outbox[i]["payment.expired"]
      BY <2>1, Keys DEF Bump
    <3>2. QED
      BY <1>1, <2>1, <3>1 DEF Announcements, Emitted, OneIf
  <2>6. QED
    BY <2>2, <2>3, <2>4, <2>5, OnlyOne DEF PaymentInv
<1>5. CASE CancelByEvent(i)
  <2>1. /\ intent[i] = "REQUIRES_PAYMENT"
        /\ intent' = [intent EXCEPT ![i] = "PROCESSING"]
        /\ UNCHANGED <<link, session, order, attempts, txns, accrued, outbox>>
    BY <1>5 DEF CancelByEvent, Set, linkVars
  <2>2. \A l \in Links : LinkKept(l)
    BY <2>1 DEF LinkKept
  <2>3. \A j \in Intents \ {i} : RowsKept(j)
    BY <2>1 DEF RowsKept
  <2>4. Agree(i)' /\ Settled(i)' /\ LinkFits(i)' /\ Announcements(i)'
    BY <1>1, <2>1
       DEF Agree, Settled, LinkFits, Announcements, Emitted, Paid, OneIf
  <2>5. QED
    BY <2>2, <2>3, <2>4, OnlyOne DEF PaymentInv
<1>6. QED
  BY <1>2, <1>3, <1>4, <1>5
-----------------------------------------------------------------------------
LEMMA InvStep ==
  ASSUME IInv, [Next]_vars
  PROVE  IInv'
<1>1. TypeOK'
  BY TypeStep DEF IInv
<1>2. ASSUME \A l \in Links : LinkKept(l), \A j \in Intents : RowsKept(j)
      PROVE  IInv'
  BY <1>1, <1>2, Untouched, LinkOfAssumption DEF IInv
<1>3. CASE LinkNext /\ UNCHANGED <<paymentVars, steepFees, asked>>
  <2>1. \A l \in Links : LinkKept(l)
    BY <1>3, LinkStep DEF LinkKept, IInv, TypeOK
  <2>2. \A j \in Intents : RowsKept(j)
    BY <1>3 DEF paymentVars, RowsKept
  <2>3. QED
    BY <1>2, <2>1, <2>2
<1>4. ASSUME NEW i \in Intents,
             CreateCheckoutSession(i) \/ GetCheckoutSession(i) \/ CancelPayment(i)
      PROVE  IInv'
  BY <1>1, <1>4, SessionSteps
<1>5. ASSUME NEW i \in Intents,
             \/ ConfirmSucceeded(i) \/ ConfirmAmbiguous(i)
             \/ ConfirmPending(i) \/ ConfirmFailed(i)
      PROVE  IInv'
  BY <1>1, <1>5, ConfirmSteps
<1>6. ASSUME NEW i \in Intents,
             \/ SettleByEvent(i) \/ ReconcileByEvent(i)
             \/ FailByEvent(i) \/ CancelByEvent(i)
      PROVE  IInv'
  BY <1>1, <1>6, EventSteps
<1>7. ASSUME FeesChange \/ \E i \in Intents : ConfirmLost(i) \/ SessionLapses(i)
      PROVE  IInv'
  <2>1. UNCHANGED <<link, intent, session, order, attempts, txns, accrued, outbox>>
    BY <1>7 DEF FeesChange, ConfirmLost, SessionLapses, linkVars, paymentVars
  <2>2. QED
    BY <1>2, <2>1 DEF LinkKept, RowsKept
<1>8. CASE UNCHANGED vars
  BY <1>2, <1>8 DEF vars, linkVars, paymentVars, LinkKept, RowsKept
<1>9. QED
  BY <1>3, <1>4, <1>5, <1>6, <1>7, <1>8 DEF Next

\* The inductive invariant holds in every reachable state; the safety
\* properties below are read off it.
THEOREM Invariance == Spec => []IInv
  BY InitInv, InvStep, PTL DEF Spec

\* A session and its intent always tell the same story, whichever of the
\* handlers that lock them in different orders came first.
THEOREM SessionsFollowIntents == Spec => []SessionAndIntentAgree
<1>1. IInv => SessionAndIntentAgree
  BY DEF IInv, PaymentInv, Agree, SessionAndIntentAgree
<1>2. QED
  BY <1>1, Invariance, PTL

\* However a payment reaches SUCCEEDED (confirmation, provider event, poll, and
\* any number of later events), it is settled once and completely.
THEOREM SettledOnce == Spec => []PaidMeansSettledOnce
<1>1. IInv => PaidMeansSettledOnce
  <2> SUFFICES ASSUME IInv, NEW i \in Intents
               PROVE  /\ txns[i]["SUCCEEDED"] = OneIf(Paid(i))
                      /\ i \in accrued <=> Paid(i)
                      /\ order[i] = "PAID" <=> Paid(i)
                      /\ (\E n \in DOMAIN attempts[i] : attempts[i][n] = "SUCCEEDED")
                           <=> Paid(i)
    BY DEF PaidMeansSettledOnce
  <2>1. Settled(i)
    BY DEF IInv, PaymentInv
  <2>2. CASE Paid(i)
    <3>1. attempts[i] = <<"SUCCEEDED">>
      BY <2>1, <2>2 DEF Settled
    <3>2. 1 \in DOMAIN attempts[i] /\ attempts[i][1] = "SUCCEEDED"
      BY <3>1
    <3>3. QED
      BY <2>1, <2>2, <3>2 DEF Settled
  <2>3. CASE ~Paid(i)
    <3>1. attempts[i] \in {<<>>, <<"PROCESSING">>, <<"FAILED">>}
      BY <2>1, <2>3 DEF Settled
    <3>2. \A n \in DOMAIN attempts[i] : attempts[i][n] # "SUCCEEDED"
      BY <3>1
    <3>3. QED
      BY <2>1, <2>3, <3>2 DEF Settled
  <2>4. QED
    BY <2>2, <2>3
<1>2. QED
  BY <1>1, Invariance, PTL

\* The outbox never announces two endings of one payment, nor one that is not
\* in the payment's row.
THEOREM AnnouncedOnce == Spec => []EndingAnnouncedOnce
<1>1. IInv => EndingAnnouncedOnce
  BY DEF IInv, PaymentInv, Announcements, EndingAnnouncedOnce
<1>2. QED
  BY <1>1, Invariance, PTL

\* A paid one-time link is closed for good, whatever the merchant did to it
\* while the payment was in flight.
THEOREM OneTimeLinkCloses == Spec => []PaidOneTimeLinkClosed
<1>1. IInv => PaidOneTimeLinkClosed
  BY DEF IInv, PaymentInv, LinkFits, PaidOn, PaidOneTimeLinkClosed
<1>2. QED
  BY <1>1, Invariance, PTL
-----------------------------------------------------------------------------
(***************************************************************************)
(* The uses of a link, against its paid payments.                          *)
(***************************************************************************)
UsesInv ==
  \A l \in Links : /\ IsFiniteSet(PaidOn(l))
                   /\ Cardinality(PaidOn(l)) <= link[l].useCount

LEMMA UseCounts ==
  ASSUME NEW row \in LinkRow
  PROVE  RecordSuccessfulUse(row).useCount = row.useCount + 1
<1> DEFINE used == [row EXCEPT !.useCount = @ + 1]
<1>1. used.useCount = row.useCount + 1 /\ [used EXCEPT !.status = "EXPIRED"].useCount = row.useCount + 1
  BY DEF LinkRow
<1>2. QED
  BY <1>1 DEF RecordSuccessfulUse

\* Nothing the merchant does takes a use back.
LEMMA LinkKeepsUses ==
  ASSUME LinkTypeOK, LinkNext
  PROVE  \A l \in Links : link[l].status # "ABSENT" => link'[l].useCount = link[l].useCount
<1> USE DEF LinkTypeOK, LinkRow
<1>1. PICK l \in Links :
        \/ CreateLink(l)
        \/ GetByPublicToken(l)
        \/ UpdateLink(l)
        \/ \E to \in LinkStatus : TransitionLink(l, to)
        \/ ReuseLink(l)
        \/ LinkLapses(l)
  BY DEF LinkNext
<1>2. CASE CreateLink(l)
  BY <1>2 DEF CreateLink
<1>3. CASE GetByPublicToken(l)
  BY <1>3 DEF GetByPublicToken
<1>4. CASE UpdateLink(l)
  BY <1>4 DEF UpdateLink
<1>5. CASE \E to \in LinkStatus : TransitionLink(l, to)
  BY <1>5 DEF TransitionLink
<1>6. CASE ReuseLink(l)
  BY <1>6 DEF ReuseLink
<1>7. CASE LinkLapses(l)
  BY <1>7 DEF LinkLapses
<1>8. QED
  BY <1>1, <1>2, <1>3, <1>4, <1>5, <1>6, <1>7

\* The payment's own link counts one use more, the others none.
LEMMA LinkUsed ==
  ASSUME LinkTypeOK, NEW i \in Intents, UseLink(i)
  PROVE  \A l \in Links : link'[l].useCount =
           IF l = LinkOf[i] THEN link[l].useCount + 1 ELSE link[l].useCount
<1> DEFINE m == LinkOf[i]
           row == RecordSuccessfulUse(link[m])
<1>1. m \in Links /\ link[m] \in LinkRow
  BY LinkOfAssumption DEF LinkTypeOK
<1>2. row.useCount = link[m].useCount + 1
  BY <1>1, UseCounts
<1> HIDE DEF row
<1>3. link' = [link EXCEPT ![m] = row]
  BY DEF UseLink, Set, row
<1>4. QED
  BY <1>1, <1>2, <1>3 DEF LinkTypeOK

\* No payment more, and no use less.
LEMMA UsesKept ==
  ASSUME IInv, TypeOK', UsesInv,
         \A l \in Links : PaidOn(l)' = PaidOn(l),
         \A l \in Links : link[l].status # "ABSENT" => link'[l].useCount >= link[l].useCount
  PROVE  UsesInv'
<1> SUFFICES ASSUME NEW l \in Links
             PROVE  IsFiniteSet(PaidOn(l)') /\ Cardinality(PaidOn(l)') <= link'[l].useCount
  BY DEF UsesInv
<1>1. link[l] \in LinkRow /\ link'[l] \in LinkRow
  BY DEF IInv, TypeOK, LinkTypeOK
<1>2. link[l].useCount \in Nat /\ link'[l].useCount \in Nat
  BY <1>1 DEF LinkRow
<1>3. /\ PaidOn(l)' = PaidOn(l) /\ IsFiniteSet(PaidOn(l))
      /\ Cardinality(PaidOn(l)) <= link[l].useCount
  BY DEF UsesInv
<1>4. Cardinality(PaidOn(l)) \in Nat
  BY <1>3, FS_CardinalityType
<1>5. CASE link[l].status = "ABSENT"
  <2>1. PaidOn(l) = {}
    BY <1>5 DEF IInv, PaymentInv, LinkFits, PaidOn, Paid
  <2>2. Cardinality(PaidOn(l)) = 0
    BY <2>1, FS_EmptySet
  <2>3. QED
    BY <1>2, <1>3, <2>2
<1>6. CASE link[l].status # "ABSENT"
  BY <1>2, <1>3, <1>4, <1>6
<1>7. QED
  BY <1>5, <1>6

\* One payment more on a link, and one use.
LEMMA UseAdded ==
  ASSUME IInv, UsesInv, NEW i \in Intents, ~Paid(i), UseLink(i),
         intent' = Set(intent, i, "SUCCEEDED")
  PROVE  UsesInv'
<1> SUFFICES ASSUME NEW l \in Links
             PROVE  IsFiniteSet(PaidOn(l)') /\ Cardinality(PaidOn(l)') <= link'[l].useCount
  BY DEF UsesInv
<1>1. link[l] \in LinkRow
  BY DEF IInv, TypeOK, LinkTypeOK
<1>2. link[l].useCount \in Nat
  BY <1>1 DEF LinkRow
<1>3. link'[l].useCount = IF l = LinkOf[i] THEN link[l].useCount + 1 ELSE link[l].useCount
  BY LinkUsed DEF IInv, TypeOK
<1>4. IsFiniteSet(PaidOn(l)) /\ Cardinality(PaidOn(l)) <= link[l].useCount
  BY DEF UsesInv
<1>5. \A j \in Intents : Paid(j)' <=> j = i \/ Paid(j)
  BY DEF Set, Paid, IInv, TypeOK
<1>6. CASE l = LinkOf[i]
  <2>1. PaidOn(l)' = PaidOn(l) \union {i} /\ i \notin PaidOn(l)
    BY <1>5, <1>6 DEF PaidOn
  <2>2. /\ IsFiniteSet(PaidOn(l) \union {i})
        /\ Cardinality(PaidOn(l) \union {i}) = Cardinality(PaidOn(l)) + 1
        /\ Cardinality(PaidOn(l)) \in Nat
    BY <1>4, <2>1, FS_AddElement, FS_CardinalityType
  <2>3. QED
    BY <1>2, <1>3, <1>4, <1>6, <2>1, <2>2
<1>7. CASE l # LinkOf[i]
  <2>1. PaidOn(l)' = PaidOn(l)
    BY <1>5, <1>7 DEF PaidOn
  <2>2. QED
    BY <1>3, <1>4, <1>7, <2>1
<1>8. QED
  BY <1>6, <1>7

LEMMA UsesStep ==
  ASSUME IInv, UsesInv, [Next]_vars
  PROVE  UsesInv'
<1>1. TypeOK'
  BY TypeStep DEF IInv
<1>2. \A j \in Intents : intent[j] = "SUCCEEDED" <=> Paid(j)
  BY DEF Paid
<1>3. LinkTypeOK /\ \A l \in Links : link[l].useCount \in Nat
  BY DEF IInv, TypeOK, LinkTypeOK, LinkRow
<1>4. ASSUME \A j \in Intents : intent'[j] = "SUCCEEDED" <=> intent[j] = "SUCCEEDED",
             \A l \in Links : link[l].status # "ABSENT" => link'[l].useCount >= link[l].useCount
      PROVE  UsesInv'
  <2>1. \A l \in Links : PaidOn(l)' = PaidOn(l)
    BY <1>4 DEF PaidOn, Paid
  <2>2. QED
    BY <1>1, <1>4, <2>1, UsesKept
<1>5. ASSUME \A j \in Intents : intent'[j] = "SUCCEEDED" <=> intent[j] = "SUCCEEDED",
             UNCHANGED link
      PROVE  UsesInv'
  BY <1>3, <1>4, <1>5
<1>6. CASE LinkNext /\ UNCHANGED <<paymentVars, steepFees, asked>>
  <2>1. \A l \in Links : link[l].status # "ABSENT" => link'[l].useCount >= link[l].useCount
    BY <1>3, <1>6, LinkKeepsUses
  <2>2. QED
    BY <1>4, <1>6, <2>1 DEF paymentVars
<1>7. ASSUME NEW i \in Intents, ConfirmSucceeded(i)
      PROVE  UsesInv'
  BY <1>7, UseAdded DEF ConfirmSucceeded, CanConfirm, Paid
<1>8. ASSUME NEW i \in Intents, SettleByEvent(i)
      PROVE  UsesInv'
  <2>1. Applicable(i) /\ intent' = Set(intent, i, "SUCCEEDED") /\ FinalizeCheckoutArtifacts(i)
    BY <1>8 DEF SettleByEvent
  <2>2. ~Paid(i)
    BY <2>1 DEF Applicable, Paid
  <2>3. txns[i]["SUCCEEDED"] = 0
    BY <2>2 DEF IInv, PaymentInv, Settled, OneIf
  <2>4. UseLink(i)
    BY <2>1, <2>3 DEF FinalizeCheckoutArtifacts, FinalizeFresh
  <2>5. QED
    BY <2>1, <2>2, <2>4, UseAdded
<1>9. ASSUME NEW i \in Intents, ReconcileByEvent(i)
      PROVE  UsesInv'
  <2>1. UNCHANGED intent /\ Paid(i) /\ FinalizeCheckoutArtifacts(i)
    BY <1>9 DEF ReconcileByEvent, Paid
  <2>2. txns[i]["SUCCEEDED"] = 1
    BY <2>1 DEF IInv, PaymentInv, Settled, OneIf
  <2>3. UseLink(i) \/ UNCHANGED link
    BY <2>1, <2>2 DEF FinalizeCheckoutArtifacts, Reconcile
  <2>4. \A l \in Links : link'[l].useCount >= link[l].useCount
    <3>1. CASE UseLink(i)
      BY <1>3, <3>1, LinkUsed
    <3>2. CASE UNCHANGED link
      BY <1>3, <3>2
    <3>3. QED
      BY <2>3, <3>1, <3>2
  <2>5. QED
    BY <1>4, <2>1, <2>4
<1>10. ASSUME NEW i \in Intents, NEW to \in IntentStatus, to # "SUCCEEDED", ~Paid(i),
              intent' = Set(intent, i, to), UNCHANGED link
       PROVE  UsesInv'
  BY <1>5, <1>10 DEF Set, Paid, IInv, TypeOK
<1>11. ASSUME NEW i \in Intents,
              \/ CreateCheckoutSession(i) \/ GetCheckoutSession(i) \/ CancelPayment(i)
              \/ ConfirmAmbiguous(i) \/ ConfirmPending(i) \/ ConfirmFailed(i)
              \/ FailByEvent(i) \/ CancelByEvent(i)
       PROVE  UsesInv'
  <2>1. UNCHANGED link
    BY <1>11 DEF CreateCheckoutSession, GetCheckoutSession, CancelPayment, ConfirmAmbiguous,
                 ConfirmPending, ConfirmFailed, FailByEvent, CancelByEvent, linkVars
  <2>2. \/ UNCHANGED intent
        \/ ~Paid(i) /\ \E to \in IntentStatus : to # "SUCCEEDED" /\ intent' = Set(intent, i, to)
    <3>1. CASE CreateCheckoutSession(i)
      BY <3>1 DEF CreateCheckoutSession, Paid, IntentStatus
    <3>2. CASE GetCheckoutSession(i)
      BY <3>2 DEF GetCheckoutSession, Paid, IntentStatus
    <3>3. CASE CancelPayment(i)
      BY <3>3 DEF CancelPayment, CanMove, PAYMENT_INTENT_TRANSITIONS, Paid, IntentStatus
    <3>4. CASE ConfirmAmbiguous(i) \/ ConfirmPending(i) \/ ConfirmFailed(i)
      BY <3>4 DEF ConfirmAmbiguous, ConfirmPending, ConfirmFailed, CanConfirm, Paid, IntentStatus
    <3>5. CASE FailByEvent(i) \/ CancelByEvent(i)
      BY <3>5 DEF FailByEvent, CancelByEvent, Applicable, Paid, IntentStatus
    <3>6. QED
      BY <1>11, <3>1, <3>2, <3>3, <3>4, <3>5
  <2>3. QED
    BY <1>5, <1>10, <2>1, <2>2
<1>12. ASSUME FeesChange \/ \E i \in Intents : ConfirmLost(i) \/ SessionLapses(i)
       PROVE  UsesInv'
  BY <1>5, <1>12 DEF SessionLapses, ConfirmLost, FeesChange, linkVars, paymentVars
<1>13. CASE UNCHANGED vars
  BY <1>5, <1>13 DEF vars, linkVars, paymentVars
<1>14. QED
  BY <1>6, <1>7, <1>8, <1>9, <1>11, <1>12, <1>13 DEF Next

\* Every successful payment has consumed a use of its link, by whichever path
\* it succeeded and whatever the merchant made of the link meanwhile.
THEOREM PaymentsUseLinks == Spec => []EveryPaymentUsesLink
<1>1. Init => UsesInv
  <2> SUFFICES ASSUME Init, NEW l \in Links
               PROVE  IsFiniteSet(PaidOn(l)) /\ Cardinality(PaidOn(l)) <= link[l].useCount
    BY DEF UsesInv
  <2>1. PaidOn(l) = {}
    BY DEF Init, PaidOn, Paid
  <2>2. link[l].useCount = 0
    BY DEF Init, LinkInit
  <2>3. QED
    BY <2>1, <2>2, FS_EmptySet
<1>2. UsesInv => EveryPaymentUsesLink
  BY DEF UsesInv, EveryPaymentUsesLink
<1>3. IInv /\ UsesInv /\ [Next]_vars => UsesInv'
  BY UsesStep
<1>4. QED
  BY <1>1, <1>2, <1>3, Invariance, PTL DEF Spec

-----------------------------------------------------------------------------
\* What PaidOneTimeLinkTakesNoMoney watches: a session is opened for the
\* payment, or its attempt is submitted.
TakesMoney(i) ==
  \/ intent[i] = "ABSENT" /\ intent'[i] # "ABSENT"
  \/ outbox'[i]["payment.processing"] > outbox[i]["payment.processing"]

\* Only createCheckoutSession and the confirmation do, and both look at the link.
LEMMA MoneyNeedsActiveLink ==
  ASSUME IInv, [Next]_vars, NEW i \in Intents, TakesMoney(i)
  PROVE  link[LinkOf[i]].status = "ACTIVE"
<1> USE DEF IInv, TypeOK
<1> DEFINE Quiet == /\ intent[i] = "ABSENT" => intent'[i] = "ABSENT"
                    /\ outbox'[i]["payment.processing"]
                         = outbox[i]["payment.processing"]
<1>1. outbox[i]["payment.processing"] \in Nat
  BY Keys
<1>2. ~Quiet
  BY <1>1 DEF TakesMoney
<1>4. CASE LinkNext /\ UNCHANGED <<paymentVars, steepFees, asked>>
  BY <1>2, <1>4 DEF paymentVars
<1>5. ASSUME NEW j \in Intents, CreateCheckoutSession(j)
      PROVE  link[LinkOf[i]].status = "ACTIVE"
  <2>1. /\ intent' = [intent EXCEPT ![j] = "REQUIRES_PAYMENT"]
        /\ outbox' = Bump(outbox, j, "payment.created")
        /\ link[LinkOf[j]].status = "ACTIVE"
    BY <1>5 DEF CreateCheckoutSession, Set, EffectiveStatus
  <2>2. CASE j # i
    BY <1>2, <2>1, <2>2 DEF Bump
  <2>3. QED
    BY <2>1, <2>2
<1>6. ASSUME NEW j \in Intents, GetCheckoutSession(j)
      PROVE  FALSE
  <2>1. CASE intent[j] \in {"CREATED", "REQUIRES_PAYMENT"}
    <3>1. /\ intent' = [intent EXCEPT ![j] = "EXPIRED"]
          /\ outbox' = Bump(outbox, j, "payment.expired")
      BY <1>6, <2>1 DEF GetCheckoutSession, Set
    <3>2. QED
      BY <1>2, <2>1, <3>1, Keys DEF Bump
  <2>2. CASE intent[j] \notin {"CREATED", "REQUIRES_PAYMENT"}
    BY <1>2, <1>6, <2>2 DEF GetCheckoutSession
  <2>3. QED
    BY <2>1, <2>2
<1>7. ASSUME NEW j \in Intents, CancelPayment(j)
      PROVE  FALSE
  <2>1. /\ intent[j] # "ABSENT"
        /\ intent' = [intent EXCEPT ![j] = "CANCELLED"]
        /\ outbox' = Bump(outbox, j, "payment.cancelled")
    BY <1>7 DEF CancelPayment, CanMove, Set
  <2>2. QED
    BY <1>2, <2>1, Keys DEF Bump
<1>8. ASSUME NEW j \in Intents,
             \/ ConfirmSucceeded(j) \/ ConfirmAmbiguous(j)
             \/ ConfirmPending(j) \/ ConfirmFailed(j)
      PROVE  link[LinkOf[i]].status = "ACTIVE"
  <2>1. CanConfirm(j)
    BY <1>8 DEF ConfirmSucceeded, ConfirmAmbiguous, ConfirmPending, ConfirmFailed
  <2>2. CASE j # i
    <3>1. intent'[i] = intent[i] /\ outbox'[i] = outbox[i]
      BY <1>8, <2>2
         DEF ConfirmSucceeded, ConfirmAmbiguous, ConfirmPending, ConfirmFailed,
             Announced, Set, Bump
    <3>2. QED
      BY <1>2, <3>1
  <2>3. QED
    BY <2>1, <2>2 DEF CanConfirm
<1>9. ASSUME NEW j \in Intents, SettleByEvent(j)
      PROVE  FALSE
  <2>1. /\ intent[j] # "ABSENT"
        /\ intent' = [intent EXCEPT ![j] = "SUCCEEDED"]
        /\ outbox' = Bump(outbox, j, "payment.succeeded")
    BY <1>9 DEF SettleByEvent, Applicable, Set
  <2>2. QED
    BY <1>2, <2>1, Keys DEF Bump
<1>3. ASSUME NEW j \in Intents, FailByEvent(j)
      PROVE  FALSE
  <2>1. /\ intent[j] # "ABSENT"
        /\ intent' = [intent EXCEPT ![j] = "FAILED"]
        /\ outbox' = Bump(outbox, j, "payment.failed")
    BY <1>3 DEF FailByEvent, Applicable, Set
  <2>2. QED
    BY <1>2, <2>1, Keys DEF Bump
<1>10. ASSUME NEW j \in Intents, CancelByEvent(j)
       PROVE  FALSE
  BY <1>2, <1>10 DEF CancelByEvent, Set
<1>11. ASSUME UNCHANGED <<intent, outbox>>
       PROVE  FALSE
  BY <1>2, <1>11
<1>12. QED
  BY <1>3, <1>4, <1>5, <1>6, <1>7, <1>8, <1>9, <1>10, <1>11
     DEF Next, ReconcileByEvent, ConfirmLost, FeesChange, SessionLapses, vars,
         paymentVars

\* Once a one-time link has been paid, no step opens a session on it or submits
\* one that is open.
THEOREM ClosedLinkTakesNoMoney == Spec => PaidOneTimeLinkTakesNoMoney
<1> DEFINE Watch == \A i \in Intents :
      TakesMoney(i) => ~(link[LinkOf[i]].oneTime /\ PaidOn(LinkOf[i]) # {})
<1>1. IInv /\ [Next]_vars => [Watch]_vars
  <2> SUFFICES ASSUME IInv, [Next]_vars, NEW i \in Intents, TakesMoney(i),
                      link[LinkOf[i]].oneTime, PaidOn(LinkOf[i]) # {}
               PROVE  FALSE
    OBVIOUS
  <2>1. link[LinkOf[i]].status = "ACTIVE"
    BY MoneyNeedsActiveLink
  <2>2. PICK j \in Intents : LinkOf[j] = LinkOf[i] /\ Paid(j)
    BY DEF PaidOn
  <2>3. link[LinkOf[i]].status = "EXPIRED"
    BY <2>2 DEF IInv, PaymentInv, LinkFits
  <2>4. QED
    BY <2>1, <2>3
<1>2. [Watch]_vars <=>
        [\A i \in Intents :
           \/ intent[i] = "ABSENT" /\ intent'[i] # "ABSENT"
           \/ outbox'[i]["payment.processing"] > outbox[i]["payment.processing"]
           => ~(link[LinkOf[i]].oneTime /\ PaidOn(LinkOf[i]) # {})]_vars
  BY DEF TakesMoney
<1> HIDE DEF Watch
<1>3. QED
  BY <1>1, <1>2, Invariance, PTL DEF Spec, PaidOneTimeLinkTakesNoMoney

-----------------------------------------------------------------------------
(***************************************************************************)
(* What has been recorded of a payment that may still be submitted.        *)
(***************************************************************************)
Fresh(i) == /\ txns[i]["FAILED"] = 0
            /\ outbox[i]["payment.processing"] = 0

FreshInv == \A i \in Intents : intent[i] \in {"ABSENT", "REQUIRES_PAYMENT"} => Fresh(i)

\* A payment that can be submitted after a step could be before, or its session
\* has just been opened; either way nothing was recorded of it.
LEMMA FreshStep ==
  ASSUME IInv, FreshInv, [Next]_vars
  PROVE  FreshInv'
<1> USE LinkOfAssumption DEF IInv, TypeOK, Set
<1> SUFFICES ASSUME NEW i \in Intents, intent'[i] \in {"ABSENT", "REQUIRES_PAYMENT"}
             PROVE  Fresh(i)'
  BY DEF FreshInv
<1>1. ASSUME intent'[i] = intent[i], txns'[i] = txns[i], outbox'[i] = outbox[i]
      PROVE  Fresh(i)'
  BY <1>1 DEF FreshInv, Fresh
<1>2. ASSUME NEW j \in Intents, CreateCheckoutSession(j)
      PROVE  Fresh(i)'
  <2>1. /\ intent[j] = "ABSENT"
        /\ intent' = [intent EXCEPT ![j] = "REQUIRES_PAYMENT"]
        /\ outbox' = Bump(outbox, j, "payment.created")
        /\ UNCHANGED txns
    BY <1>2 DEF CreateCheckoutSession
  <2>2. outbox'[i]["payment.processing"] = outbox[i]["payment.processing"]
    BY <2>1, Keys DEF Bump
  <2>3. QED
    BY <2>1, <2>2 DEF FreshInv, Fresh
<1>3. ASSUME NEW j \in Intents, NEW to \in IntentStatus \ {"REQUIRES_PAYMENT"},
             intent' = [intent EXCEPT ![j] = to],
             \A k \in Intents \ {j} : txns'[k] = txns[k] /\ outbox'[k] = outbox[k]
      PROVE  Fresh(i)'
  <2>1. i # j
    BY <1>3 DEF IntentStatus
  <2>2. QED
    BY <1>1, <1>3, <2>1
<1>4. ASSUME NEW j \in Intents, GetCheckoutSession(j) \/ CancelPayment(j)
      PROVE  Fresh(i)'
  <2>1. CASE GetCheckoutSession(j)
    BY <1>1, <1>3, <2>1 DEF GetCheckoutSession, Bump, IntentStatus
  <2>2. CASE CancelPayment(j)
    BY <1>3, <2>2 DEF CancelPayment, Bump, IntentStatus
  <2>3. QED
    BY <1>4, <2>1, <2>2
<1>5. ASSUME NEW j \in Intents,
             \/ ConfirmSucceeded(j) \/ ConfirmAmbiguous(j)
             \/ ConfirmPending(j) \/ ConfirmFailed(j)
      PROVE  Fresh(i)'
  <2>1. CASE ConfirmSucceeded(j)
    BY <1>3, <2>1 DEF ConfirmSucceeded, Announced, Bump, IntentStatus
  <2>2. CASE ConfirmAmbiguous(j)
    BY <1>3, <2>2 DEF ConfirmAmbiguous, Announced, Bump, IntentStatus
  <2>3. CASE ConfirmPending(j)
    BY <1>3, <2>3 DEF ConfirmPending, Bump, IntentStatus
  <2>4. CASE ConfirmFailed(j)
    BY <1>3, <2>4 DEF ConfirmFailed, Announced, Bump, IntentStatus
  <2>5. QED
    BY <1>5, <2>1, <2>2, <2>3, <2>4
<1>6. ASSUME NEW j \in Intents,
             SettleByEvent(j) \/ FailByEvent(j) \/ CancelByEvent(j)
      PROVE  Fresh(i)'
  <2>1. CASE SettleByEvent(j)
    <3>1. txns[j]["SUCCEEDED"] = 0
      BY <2>1 DEF SettleByEvent, Applicable, PaymentInv, Settled, Paid, OneIf
    <3>2. txns' = Bump(txns, j, "SUCCEEDED")
      BY <2>1, <3>1 DEF SettleByEvent, FinalizeCheckoutArtifacts, FinalizeFresh
    <3>3. QED
      BY <1>3, <2>1, <3>2 DEF SettleByEvent, Bump, IntentStatus
  <2>2. CASE FailByEvent(j)
    BY <1>3, <2>2 DEF FailByEvent, Bump, IntentStatus
  <2>3. CASE CancelByEvent(j)
    BY <1>3, <2>3 DEF CancelByEvent, IntentStatus
  <2>4. QED
    BY <1>6, <2>1, <2>2, <2>3
<1>7. ASSUME NEW j \in Intents, ReconcileByEvent(j)
      PROVE  Fresh(i)'
  <2>1. txns[j]["SUCCEEDED"] = 1
    BY <1>7 DEF ReconcileByEvent, PaymentInv, Settled, Paid, OneIf
  <2>2. UNCHANGED <<intent, txns, outbox>>
    BY <1>7, <2>1 DEF ReconcileByEvent, FinalizeCheckoutArtifacts, Reconcile
  <2>3. QED
    BY <1>1, <2>2
<1>8. ASSUME \/ LinkNext /\ UNCHANGED <<paymentVars, steepFees, asked>>
             \/ FeesChange
             \/ \E j \in Intents : ConfirmLost(j) \/ SessionLapses(j)
             \/ UNCHANGED vars
      PROVE  Fresh(i)'
  BY <1>1, <1>8 DEF paymentVars, vars, FeesChange, ConfirmLost, SessionLapses
<1>9. QED
  BY <1>2, <1>4, <1>5, <1>6, <1>7, <1>8 DEF Next

\* The provider is asked only for a payment that may still be submitted.
LEMMA AskedWhenOpen ==
  ASSUME TypeOK, [Next]_vars, NEW i \in Intents, asked'[i] > asked[i]
  PROVE  intent[i] \in {"ABSENT", "REQUIRES_PAYMENT"}
<1> USE DEF TypeOK
<1>1. asked'[i] # asked[i]
  OBVIOUS
<1>2. ASSUME NEW j \in Intents, Asked(j) PROVE j = i
  BY <1>1, <1>2 DEF Asked
<1>3. ASSUME NEW j \in Intents, CreateCheckoutSession(j)
      PROVE  intent[i] = "ABSENT"
  BY <1>2, <1>3 DEF CreateCheckoutSession
<1>4. ASSUME NEW j \in Intents,
             \/ ConfirmSucceeded(j) \/ ConfirmAmbiguous(j) \/ ConfirmPending(j)
             \/ ConfirmFailed(j) \/ ConfirmLost(j)
      PROVE  intent[i] = "REQUIRES_PAYMENT"
  <2>1. Asked(j) /\ CanConfirm(j)
    BY <1>4 DEF ConfirmSucceeded, ConfirmAmbiguous, ConfirmPending, ConfirmFailed,
                ConfirmLost
  <2>2. QED
    BY <1>2, <2>1 DEF CanConfirm
<1>5. QED
  BY <1>1, <1>3, <1>4
     DEF Next, GetCheckoutSession, CancelPayment, SettleByEvent, ReconcileByEvent,
         FailByEvent, CancelByEvent, SessionLapses, FeesChange, vars

\* However declines, unclear answers, cancellations, expiries, events and lost
\* submissions follow one another: once an outcome of a payment is recorded the
\* provider is not asked for it again.
THEOREM NeverAskedAfterOutcome == Spec => NoChargeAfterOutcome
<1> DEFINE Watch == \A i \in Intents : asked'[i] > asked[i] =>
                      /\ attempts[i] = <<>>
                      /\ \A s \in TxnStatus : txns[i][s] = 0
                      /\ \A e \in EventType \ {"payment.created"} : outbox[i][e] = 0
<1>1. Init => FreshInv
  BY Keys DEF Init, FreshInv, Fresh
<1>2. IInv /\ FreshInv /\ [Next]_vars => [Watch]_vars
  <2> SUFFICES ASSUME IInv, FreshInv, [Next]_vars,
                      NEW i \in Intents, asked'[i] > asked[i]
               PROVE  /\ attempts[i] = <<>>
                      /\ \A s \in TxnStatus : txns[i][s] = 0
                      /\ \A e \in EventType \ {"payment.created"} : outbox[i][e] = 0
    OBVIOUS
  <2>1. intent[i] \in {"ABSENT", "REQUIRES_PAYMENT"}
    BY AskedWhenOpen DEF IInv
  <2>2. Fresh(i) /\ Settled(i) /\ Announcements(i)
    BY <2>1 DEF FreshInv, IInv, PaymentInv
  <2>3. attempts[i] = <<>> /\ txns[i]["SUCCEEDED"] = 0
    BY <2>1, <2>2 DEF Settled, Paid, OneIf
  <2>4. QED
    BY <2>1, <2>2, <2>3
       DEF Fresh, Announcements, Emitted, OneIf, TxnStatus, EventType
<1>3. IInv /\ FreshInv /\ [Next]_vars => FreshInv'
  BY FreshStep
<1> HIDE DEF Watch
<1>4. Spec => [][Watch]_vars
  BY <1>1, <1>2, <1>3, Invariance, PTL DEF Spec
<1>5. QED
  BY <1>4 DEF Watch, NoChargeAfterOutcome

-----------------------------------------------------------------------------
(***************************************************************************)
(* Checkout implements PaymentPromise, for any number of payments.         *)
(***************************************************************************)

\* The refinement mapping, by the names PaymentPromise gives its variables.
phase     == [i \in Intents |-> Phase[intent[i]]]
recorded  == [i \in Intents |-> txns[i]["SUCCEEDED"]]
announced == [i \in Intents |-> Emitted(i, "payment.succeeded")]

LEMMA Phases ==
  /\ Phase["ABSENT"] = "absent"      /\ Phase["CREATED"] = "open"
  /\ Phase["REQUIRES_PAYMENT"] = "open" /\ Phase["PROCESSING"] = "submitted"
  /\ Phase["SUCCEEDED"] = "paid"     /\ Phase["FAILED"] = "failed"
  /\ Phase["CANCELLED"] = "void"     /\ Phase["EXPIRED"] = "void"
  BY DEF Phase

\* Moving the intent of one payment moves its phase alone.
LEMMA PhaseMoves ==
  ASSUME NEW i \in Intents,
         \A j \in Intents \ {i} : intent'[j] = intent[j]
  PROVE  /\ phase[i] = Phase[intent[i]]
         /\ phase' = [phase EXCEPT ![i] = Phase[intent'[i]]]
  BY DEF phase

\* Without a success nothing of the promise moves but the phase.
LEMMA BooksKept ==
  ASSUME TypeOK,
         \A j \in Intents : txns'[j]["SUCCEEDED"] = txns[j]["SUCCEEDED"],
         \A j \in Intents :
           outbox'[j]["payment.succeeded"] = outbox[j]["payment.succeeded"],
         UNCHANGED accrued
  PROVE  UNCHANGED <<recorded, accrued, announced>>
  BY DEF recorded, announced, Emitted

\* A step of the phase is a step of the promise.
LEMMA PhaseStep ==
  ASSUME NEW i \in Intents, NEW to,
         phase' = [phase EXCEPT ![i] = to],
         \/ phase[i] = "absent" /\ to = "open"
         \/ phase[i] = "open" /\ to = "submitted"
         \/ phase[i] \in {"open", "submitted"} /\ to = "failed"
         \/ phase[i] = "open" /\ to = "void",
         UNCHANGED <<recorded, accrued, announced>>
  PROVE  Promise!Next
  BY DEF Promise!Next, Promise!Open, Promise!Submit, Promise!Fail, Promise!Void,
         Promise!Move, phase, recorded, announced

\* So is a payment, when everything it settles moves together.
LEMMA PayStep ==
  ASSUME TypeOK, NEW i \in Intents,
         intent[i] \in {"REQUIRES_PAYMENT", "PROCESSING"},
         intent' = [intent EXCEPT ![i] = "SUCCEEDED"],
         txns' = Bump(txns, i, "SUCCEEDED"),
         accrued' = accrued \union {i},
         \A j \in Intents :
           outbox'[j]["payment.succeeded"]
             = IF j = i THEN outbox[j]["payment.succeeded"] + 1
                        ELSE outbox[j]["payment.succeeded"]
  PROVE  Promise!Next
<1>1. /\ phase[i] \in {"open", "submitted"}
      /\ phase' = [phase EXCEPT ![i] = "paid"]
  BY PhaseMoves, Phases DEF TypeOK
<1>2. recorded' = [recorded EXCEPT ![i] = @ + 1]
  <2>1. \A j \in Intents :
          txns'[j]["SUCCEEDED"] = IF j = i THEN txns[j]["SUCCEEDED"] + 1
                                           ELSE txns[j]["SUCCEEDED"]
    BY Keys DEF TypeOK, Bump
  <2>2. QED
    BY <2>1 DEF recorded
<1>3. announced' = [announced EXCEPT ![i] = @ + 1]
  BY DEF announced, Emitted
<1>4. QED
  BY <1>1, <1>2, <1>3
     DEF Promise!Next, Promise!Pay, Promise!Move, phase, recorded, announced

-----------------------------------------------------------------------------
LEMMA StepSimulation ==
  ASSUME IInv, [Next]_vars
  PROVE  [Promise!Next]_(Promise!vars)
<1> USE DEF Set
<1>0. TypeOK
  BY DEF IInv
<1>1. ASSUME UNCHANGED <<intent, txns, accrued, outbox>>
      PROVE  UNCHANGED Promise!vars
  BY <1>1 DEF Promise!vars, Emitted
<1>2. ASSUME NEW i \in Intents, CreateCheckoutSession(i)
      PROVE  Promise!Next
  <2>1. /\ intent[i] = "ABSENT"
        /\ intent' = [intent EXCEPT ![i] = "REQUIRES_PAYMENT"]
        /\ outbox' = Bump(outbox, i, "payment.created")
        /\ UNCHANGED <<txns, accrued>>
    BY <1>2 DEF CreateCheckoutSession
  <2>2. phase[i] = "absent" /\ phase' = [phase EXCEPT ![i] = "open"]
    BY <2>1, <1>0, PhaseMoves, Phases DEF TypeOK
  <2>3. UNCHANGED <<recorded, accrued, announced>>
    BY <2>1, <1>0, BooksKept, Keys DEF Bump, TypeOK
  <2>4. QED
    BY <2>2, <2>3, PhaseStep
<1>3. ASSUME NEW i \in Intents, GetCheckoutSession(i)
      PROVE  [Promise!Next]_(Promise!vars)
  <2>1. CASE intent[i] \in {"CREATED", "REQUIRES_PAYMENT"}
    <3>1. /\ intent' = [intent EXCEPT ![i] = "EXPIRED"]
          /\ outbox' = Bump(outbox, i, "payment.expired")
          /\ UNCHANGED <<txns, accrued>>
      BY <1>3, <2>1 DEF GetCheckoutSession
    <3>2. phase[i] = "open" /\ phase' = [phase EXCEPT ![i] = "void"]
      BY <2>1, <3>1, <1>0, PhaseMoves, Phases DEF TypeOK
    <3>3. UNCHANGED <<recorded, accrued, announced>>
      BY <3>1, <1>0, BooksKept, Keys DEF Bump, TypeOK
    <3>4. QED
      BY <3>2, <3>3, PhaseStep
  <2>2. CASE intent[i] \notin {"CREATED", "REQUIRES_PAYMENT"}
    BY <1>1, <1>3, <2>2 DEF GetCheckoutSession
  <2>3. QED
    BY <2>1, <2>2
<1>4. ASSUME NEW i \in Intents, CancelPayment(i)
      PROVE  Promise!Next
  <2>1. /\ intent[i] \in {"CREATED", "REQUIRES_PAYMENT"}
        /\ intent' = [intent EXCEPT ![i] = "CANCELLED"]
        /\ outbox' = Bump(outbox, i, "payment.cancelled")
        /\ UNCHANGED <<txns, accrued>>
    BY <1>0, <1>4, Cancellable DEF CancelPayment, CanMove, TypeOK
  <2>2. phase[i] = "open" /\ phase' = [phase EXCEPT ![i] = "void"]
    BY <2>1, <1>0, PhaseMoves, Phases DEF TypeOK
  <2>3. UNCHANGED <<recorded, accrued, announced>>
    BY <2>1, <1>0, BooksKept, Keys DEF Bump, TypeOK
  <2>4. QED
    BY <2>2, <2>3, PhaseStep
<1>5. ASSUME NEW i \in Intents, ConfirmSucceeded(i)
      PROVE  Promise!Next
  <2>1. /\ intent[i] = "REQUIRES_PAYMENT"
        /\ intent' = [intent EXCEPT ![i] = "SUCCEEDED"]
        /\ txns' = Bump(txns, i, "SUCCEEDED")
        /\ accrued' = accrued \union {i}
        /\ outbox' = Bump(Bump(outbox, i, "payment.processing"), i, "payment.succeeded")
    BY <1>5 DEF ConfirmSucceeded, CanConfirm, Announced
  <2>2. \A j \in Intents :
          outbox'[j]["payment.succeeded"]
            = IF j = i THEN outbox[j]["payment.succeeded"] + 1
                       ELSE outbox[j]["payment.succeeded"]
    BY <2>1, Keys, <1>0 DEF Bump, TypeOK
  <2>3. QED
    BY <2>1, <2>2, <1>0, PayStep
<1>6. ASSUME NEW i \in Intents, ConfirmAmbiguous(i)
      PROVE  Promise!Next
  <2>1. /\ intent[i] = "REQUIRES_PAYMENT"
        /\ intent' = [intent EXCEPT ![i] = "FAILED"]
        /\ outbox' = Bump(Bump(outbox, i, "payment.processing"), i, "payment.failed")
        /\ UNCHANGED <<txns, accrued>>
    BY <1>6 DEF ConfirmAmbiguous, CanConfirm, Announced
  <2>2. phase[i] = "open" /\ phase' = [phase EXCEPT ![i] = "failed"]
    BY <2>1, <1>0, PhaseMoves, Phases DEF TypeOK
  <2>3. UNCHANGED <<recorded, accrued, announced>>
    BY <2>1, <1>0, BooksKept, Keys DEF Bump, TypeOK
  <2>4. QED
    BY <2>2, <2>3, PhaseStep
<1>7. ASSUME NEW i \in Intents, ConfirmPending(i)
      PROVE  Promise!Next
  <2>1. /\ intent[i] = "REQUIRES_PAYMENT"
        /\ intent' = [intent EXCEPT ![i] = "PROCESSING"]
        /\ outbox' = Bump(outbox, i, "payment.processing")
        /\ UNCHANGED <<txns, accrued>>
    BY <1>7 DEF ConfirmPending, CanConfirm
  <2>2. phase[i] = "open" /\ phase' = [phase EXCEPT ![i] = "submitted"]
    BY <2>1, <1>0, PhaseMoves, Phases DEF TypeOK
  <2>3. UNCHANGED <<recorded, accrued, announced>>
    BY <2>1, <1>0, BooksKept, Keys DEF Bump, TypeOK
  <2>4. QED
    BY <2>2, <2>3, PhaseStep
<1>8. ASSUME NEW i \in Intents, ConfirmFailed(i)
      PROVE  Promise!Next
  <2>1. /\ intent[i] = "REQUIRES_PAYMENT"
        /\ intent' = [intent EXCEPT ![i] = "FAILED"]
        /\ outbox' = Bump(Bump(outbox, i, "payment.processing"), i, "payment.failed")
        /\ txns' = Bump(txns, i, "FAILED")
        /\ UNCHANGED accrued
    BY <1>8 DEF ConfirmFailed, CanConfirm, Announced
  <2>2. phase[i] = "open" /\ phase' = [phase EXCEPT ![i] = "failed"]
    BY <2>1, <1>0, PhaseMoves, Phases DEF TypeOK
  <2>3. UNCHANGED <<recorded, accrued, announced>>
    <3>1. \A j \in Intents : txns'[j]["SUCCEEDED"] = txns[j]["SUCCEEDED"]
      BY <2>1, Keys, <1>0 DEF Bump, TypeOK
    <3>2. \A j \in Intents :
            outbox'[j]["payment.succeeded"] = outbox[j]["payment.succeeded"]
      BY <2>1, Keys, <1>0 DEF Bump, TypeOK
    <3>3. QED
      BY <2>1, <3>1, <3>2, <1>0, BooksKept
  <2>4. QED
    BY <2>2, <2>3, PhaseStep
<1>9. ASSUME NEW i \in Intents, SettleByEvent(i)
      PROVE  Promise!Next
  <2>1. /\ intent[i] \in {"REQUIRES_PAYMENT", "PROCESSING"}
        /\ intent' = [intent EXCEPT ![i] = "SUCCEEDED"]
        /\ accrued' = accrued \union {i}
        /\ outbox' = Bump(outbox, i, "payment.succeeded")
    BY <1>9 DEF SettleByEvent, Applicable
  <2>2. txns[i]["SUCCEEDED"] = 0
    BY <2>1 DEF IInv, PaymentInv, Settled, Paid, OneIf
  <2>3. txns' = Bump(txns, i, "SUCCEEDED")
    BY <1>9, <2>2 DEF SettleByEvent, Applicable, FinalizeCheckoutArtifacts, FinalizeFresh
  <2>4. \A j \in Intents :
          outbox'[j]["payment.succeeded"]
            = IF j = i THEN outbox[j]["payment.succeeded"] + 1
                       ELSE outbox[j]["payment.succeeded"]
    BY <2>1, Keys, <1>0 DEF Bump, TypeOK
  <2>5. QED
    BY <2>1, <2>3, <2>4, <1>0, PayStep
<1>10. ASSUME NEW i \in Intents, ReconcileByEvent(i)
       PROVE  UNCHANGED Promise!vars
  <2>1. txns[i]["SUCCEEDED"] = 1
    BY <1>10 DEF ReconcileByEvent, IInv, PaymentInv, Settled, Paid, OneIf
  <2>2. UNCHANGED <<intent, txns, accrued, outbox>>
    BY <1>10, <2>1 DEF ReconcileByEvent, FinalizeCheckoutArtifacts, Reconcile
  <2>3. QED
    BY <1>1, <2>2
<1>11. ASSUME NEW i \in Intents, FailByEvent(i)
       PROVE  Promise!Next
  <2>1. /\ intent[i] \in {"REQUIRES_PAYMENT", "PROCESSING"}
        /\ intent' = [intent EXCEPT ![i] = "FAILED"]
        /\ outbox' = Bump(outbox, i, "payment.failed")
        /\ UNCHANGED <<txns, accrued>>
    BY <1>11 DEF FailByEvent, Applicable
  <2>2. phase[i] \in {"open", "submitted"} /\ phase' = [phase EXCEPT ![i] = "failed"]
    BY <2>1, <1>0, PhaseMoves, Phases DEF TypeOK
  <2>3. UNCHANGED <<recorded, accrued, announced>>
    BY <2>1, <1>0, BooksKept, Keys DEF Bump, TypeOK
  <2>4. QED
    BY <2>2, <2>3, PhaseStep
<1>12. ASSUME NEW i \in Intents, CancelByEvent(i)
       PROVE  Promise!Next
  <2>1. /\ intent[i] = "REQUIRES_PAYMENT"
        /\ intent' = [intent EXCEPT ![i] = "PROCESSING"]
        /\ UNCHANGED <<txns, accrued, outbox>>
    BY <1>12 DEF CancelByEvent
  <2>2. phase[i] = "open" /\ phase' = [phase EXCEPT ![i] = "submitted"]
    BY <2>1, <1>0, PhaseMoves, Phases DEF TypeOK
  <2>3. UNCHANGED <<recorded, accrued, announced>>
    BY <1>0, <2>1, BooksKept
  <2>4. QED
    BY <2>2, <2>3, PhaseStep
<1>13. ASSUME \/ LinkNext /\ UNCHANGED <<paymentVars, steepFees, asked>>
              \/ FeesChange
              \/ \E i \in Intents : ConfirmLost(i) \/ SessionLapses(i)
              \/ UNCHANGED vars
       PROVE  UNCHANGED Promise!vars
  BY <1>1, <1>13 DEF paymentVars, vars, FeesChange, ConfirmLost, SessionLapses
<1>14. QED
  BY <1>2, <1>3, <1>4, <1>5, <1>6, <1>7, <1>8, <1>9, <1>10, <1>11, <1>12, <1>13
     DEF Next

LEMMA InitSimulation == Init => Promise!Init
  BY DEF Init, Promise!Init, Phase, Emitted, TxnStatus, EventType

\* Every behaviour of the tables is one of the promise: a payment ends at most
\* once, and being paid is a single step for everything that records it.
THEOREM CheckoutKeepsPromise == Spec => KeepsPromise
<1>1. Init => Promise!Init
  BY InitSimulation
<1>2. IInv /\ [Next]_vars => [Promise!Next]_(Promise!vars)
  BY StepSimulation
<1>3. QED
  BY <1>1, <1>2, Invariance, PTL DEF Spec, KeepsPromise, Promise!Spec
=============================================================================
