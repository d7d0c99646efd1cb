--------------------------- MODULE MerchantProofs ---------------------------
(***************************************************************************)
(* What holds of the merchant's side of the platform for any number of     *)
(* requests, rows and events: the inbox of provider events, the payout     *)
(* accounts and the documents of an organization, its routes and the KYB   *)
(* case, what the adapters answer, and the refunds of a payment.           *)
(***************************************************************************)
EXTENDS Readiness, Inbox, Refunds, SumsProofs, FiniteSetTheorems

-----------------------------------------------------------------------------
(* The inbox.                                                              *)

InboxSpec == InboxInit /\ [][InboxNext(Events)]_inboxVars

\* A row of the inbox: of a refusal or of a replay, or of what was let in.
ShutRows == [status : {"REJECTED", "DUPLICATE"}, by : {{}}]
OpenRows == [status : {"REJECTED", "PROCESSED", "DUPLICATE"}, by : SUBSET Events, found : BOOLEAN]
InboxRows == {NoRowYet} \cup ShutRows \cup OpenRows
LookedUp == [step : {"looked up"}, event : Events, replayed : BOOLEAN]

InboxTypes ==
  /\ eventRow \in [Ids -> InboxRows]
  /\ delivering \in [Deliveries -> {Idle} \cup LookedUp]
  /\ applied = [e \in Events |-> applied[e]]
  /\ answered \subseteq Events
  /\ notices \subseteq Ids

\* An event counts as applied once, under a row that is its own alone and
\* that was announced.
AppliedAlone ==
  \A e \in Events :
    \/ applied[e] = 0
    \/ /\ applied[e] = 1
       /\ eventRow[providerEventId(e)] \in OpenRows
       /\ eventRow[providerEventId(e)].by = {e}
       /\ providerEventId(e) \in notices

\* An event let in without its effect came before its payment was known.
LetIn ==
  \A e \in Events :
    /\ eventRow[providerEventId(e)] \in OpenRows
    /\ e \in eventRow[providerEventId(e)].by
    /\ effective(e)
    /\ applied[e] = 0
    => ~eventRow[providerEventId(e)].found

Filed ==
  /\ \A e \in answered : eventRow[providerEventId(e)] # NoRowYet
  /\ \A i \in notices : eventRow[i] \in OpenRows /\ eventRow[i].by # {}

InboxInv == InboxTypes /\ AppliedAlone /\ LetIn /\ Filed

\* The kinds of rows exclude each other.
LEMMA RowsDiffer ==
  /\ NoRowYet \notin OpenRows /\ NoRowYet \notin ShutRows
  /\ \A r \in ShutRows : r \notin OpenRows
<1>1. NoRowYet \notin OpenRows /\ NoRowYet \notin ShutRows
  BY DEF NoRowYet, OpenRows, ShutRows
<1>2. ASSUME NEW r \in ShutRows, r \in OpenRows PROVE FALSE
  <2>1. DOMAIN r = {"status", "by"} BY <1>2 DEF ShutRows
  <2>2. DOMAIN r = {"status", "by", "found"} BY <1>2 DEF OpenRows
  <2> QED BY <2>1, <2>2
<1> QED BY <1>1, <1>2

\* A duplicate changes the status of the row under its id and nothing else.
LEMMA OnlyStatus ==
  ASSUME NEW r \in InboxRows, r # NoRowYet, NEW s, s = [r EXCEPT !.status = "DUPLICATE"]
  PROVE  /\ s # NoRowYet
         /\ r \in ShutRows => s \in ShutRows
         /\ r \in OpenRows => s \in OpenRows /\ s.by = r.by /\ s.found = r.found
<1>1. CASE r \in ShutRows
  <2>1. s \in ShutRows BY <1>1 DEF ShutRows
  <2> QED BY <1>1, <2>1, RowsDiffer
<1>2. CASE r \in OpenRows
  <2>1. s \in OpenRows /\ s.by = r.by /\ s.found = r.found BY <1>2 DEF OpenRows
  <2> QED BY <1>2, <2>1, RowsDiffer
<1> QED BY <1>1, <1>2 DEF InboxRows

LEMMA InboxStarts == InboxInit => InboxInv
<1> SUFFICES ASSUME InboxInit PROVE InboxInv OBVIOUS
<1> USE DEF InboxInit
<1>1. InboxTypes BY DEF InboxTypes, InboxRows
<1>2. AppliedAlone BY DEF AppliedAlone
<1>3. \A e \in Events : eventRow[providerEventId(e)] = NoRowYet BY DEF Ids
<1>4. LetIn BY <1>3, RowsDiffer DEF LetIn
<1>5. Filed BY DEF Filed
<1> QED BY <1>1, <1>2, <1>4, <1>5 DEF InboxInv

\* Steps that leave the rows, what was applied, answered and announced alone.
LEMMA InboxAside ==
  ASSUME InboxInv, UNCHANGED <<eventRow, applied, answered, notices>>,
         delivering' \in [Deliveries -> {Idle} \cup LookedUp]
  PROVE  InboxInv'
<1>1. InboxTypes' BY DEF InboxInv, InboxTypes, InboxRows, ShutRows, OpenRows
<1>2. AppliedAlone' BY DEF InboxInv, AppliedAlone, OpenRows
<1>3. LetIn' BY DEF InboxInv, LetIn, OpenRows
<1>4. Filed' BY DEF InboxInv, Filed, OpenRows
<1> QED BY <1>1, <1>2, <1>3, <1>4 DEF InboxInv

LEMMA RefusedFiled ==
  ASSUME InboxInv, NEW e \in Events, NEW post \in Posts, RefuseDelivery(e, post)
  PROVE  InboxInv'
<1> DEFINE refusal == [status |-> "REJECTED", by |-> {}]
<1>0. /\ eventRow' = [i \in Ids |-> IF i \in refusedIds(e, post) /\ eventRow[i] = NoRowYet
                                    THEN refusal ELSE eventRow[i]]
      /\ UNCHANGED <<delivering, applied, answered, notices>>
  BY DEF RefuseDelivery
<1>1. refusal \in ShutRows /\ refusal \notin OpenRows /\ refusal # NoRowYet
  <2>1. refusal \in ShutRows BY DEF ShutRows
  <2> QED BY <2>1, RowsDiffer
<1> HIDE DEF refusal
<1>2. ASSUME NEW i \in Ids
      PROVE  /\ eventRow'[i] \in InboxRows
             /\ eventRow[i] # NoRowYet => eventRow'[i] = eventRow[i]
             /\ eventRow'[i] = eventRow[i] \/ eventRow'[i] = refusal
  BY <1>0, <1>1 DEF InboxInv, InboxTypes, InboxRows
<1>3. \A f \in Events : providerEventId(f) \in Ids BY DEF Ids
<1>4. eventRow' \in [Ids -> InboxRows] BY <1>0, <1>2
<1>5. InboxTypes' BY <1>0, <1>4 DEF InboxInv, InboxTypes, InboxRows, ShutRows, OpenRows
<1>6. AppliedAlone'
  BY <1>0, <1>2, <1>3, RowsDiffer DEF InboxInv, AppliedAlone, OpenRows
<1>7. LetIn'
  <2> SUFFICES ASSUME NEW f \in Events, eventRow'[providerEventId(f)] \in OpenRows
               PROVE  eventRow'[providerEventId(f)] = eventRow[providerEventId(f)]
    BY <1>0 DEF InboxInv, LetIn, OpenRows
  <2> QED BY <1>1, <1>2, <1>3
<1>8. Filed'
  <2>1. ASSUME NEW i \in notices PROVE eventRow'[i] \in OpenRows /\ eventRow'[i].by # {}
    BY <1>2, RowsDiffer DEF InboxInv, Filed, InboxTypes
  <2>2. ASSUME NEW f \in answered PROVE eventRow'[providerEventId(f)] # NoRowYet
    BY <1>2, <1>3 DEF InboxInv, Filed, InboxTypes
  <2> QED BY <1>0, <2>1, <2>2 DEF Filed, OpenRows
<1> QED BY <1>5, <1>6, <1>7, <1>8 DEF InboxInv

LEMMA DuplicateFiled ==
  ASSUME InboxInv, NEW e \in Events, NEW post \in Posts, DuplicateDelivery(e, post)
  PROVE  InboxInv'
<1> DEFINE i == providerEventId(e)
           s == [eventRow[i] EXCEPT !.status = "DUPLICATE"]
<1>0. /\ i \in Ids /\ eventRow[i] # NoRowYet
      /\ eventRow' = [eventRow EXCEPT ![i] = s]
      /\ UNCHANGED <<delivering, applied, notices>>
      /\ answered' = answered \cup {e}
  BY DEF DuplicateDelivery, Answer, Ids
<1>1. eventRow[i] \in InboxRows BY <1>0 DEF InboxInv, InboxTypes
<1>2. /\ s # NoRowYet
      /\ eventRow[i] \in ShutRows => s \in ShutRows
      /\ eventRow[i] \in OpenRows => s \in OpenRows /\ s.by = eventRow[i].by /\ s.found = eventRow[i].found
  BY <1>0, <1>1, OnlyStatus
<1> HIDE DEF s
<1>3. s \in OpenRows => eventRow[i] \in OpenRows BY <1>0, <1>1, <1>2, RowsDiffer DEF InboxRows
<1>4. s \in InboxRows BY <1>0, <1>1, <1>2 DEF InboxRows
<1>5. ASSUME NEW j \in Ids
      PROVE  /\ eventRow'[j] \in InboxRows
             /\ eventRow[j] # NoRowYet => eventRow'[j] # NoRowYet
             /\ eventRow[j] \in OpenRows <=> eventRow'[j] \in OpenRows
             /\ eventRow[j] \in OpenRows => /\ eventRow'[j].by = eventRow[j].by
                                            /\ eventRow'[j].found = eventRow[j].found
  <2>1. CASE j = i BY <1>0, <1>2, <1>3, <1>4, <2>1 DEF InboxInv, InboxTypes
  <2>2. CASE j # i BY <1>0, <2>2 DEF InboxInv, InboxTypes
  <2> QED BY <2>1, <2>2
<1>6. eventRow' \in [Ids -> InboxRows]
  <2>1. eventRow' = [j \in Ids |-> eventRow'[j]] BY <1>0 DEF InboxInv, InboxTypes
  <2> QED BY <1>5, <2>1
<1>a. eventRow'[i] # NoRowYet BY <1>0, <1>2 DEF InboxInv, InboxTypes
<1> HIDE DEF i
<1>7. \A f \in Events : providerEventId(f) \in Ids BY DEF Ids
<1>8. InboxTypes' BY <1>0, <1>6 DEF InboxInv, InboxTypes
<1>9. AppliedAlone' BY <1>0, <1>5, <1>7 DEF InboxInv, AppliedAlone
<1>10. LetIn' BY <1>0, <1>5, <1>7 DEF InboxInv, LetIn
<1>11. Filed'
  <2>1. ASSUME NEW f \in answered' PROVE eventRow'[providerEventId(f)] # NoRowYet
    BY <1>0, <1>a, <1>5, <1>7 DEF InboxInv, Filed, InboxTypes, i
  <2>2. ASSUME NEW j \in notices' PROVE eventRow'[j] \in OpenRows /\ eventRow'[j].by # {}
    BY <1>0, <1>5, <1>7 DEF InboxInv, Filed, InboxTypes
  <2> QED BY <2>1, <2>2 DEF Filed
<1> QED BY <1>8, <1>9, <1>10, <1>11 DEF InboxInv

\* What the events' writes leave in the inbox: one new row, under an id that
\* had none.
LEMMA CommitFiled ==
  ASSUME InboxInv, NEW d \in Deliveries, CommitDelivery(d)
  PROVE  InboxInv'
<1> DEFINE e == delivering[d].event
           i == providerEventId(e)
<1>0. /\ delivering[d].step = "looked up" /\ insertable(d)
      /\ delivering' = [delivering EXCEPT ![d] = Idle]
      /\ answered' = answered \cup {e}
  BY DEF CommitDelivery, Answer
<1>1. delivering[d] \in LookedUp
  <2>1. delivering[d] \in {Idle} \cup LookedUp BY DEF InboxInv, InboxTypes
  <2>2. delivering[d].step # "none" BY <1>0
  <2>3. delivering[d] # Idle BY <2>2 DEF Idle
  <2> QED BY <2>1, <2>3
<1>2. e \in Events /\ i \in Ids BY <1>1 DEF LookedUp, Ids
<1>3. eventRow[i] = NoRowYet BY <1>0 DEF insertable
<1>4. correlated(e) \in BOOLEAN BY DEF correlated
<1>5. applied[e] = 0 BY <1>2, <1>3, RowsDiffer DEF InboxInv, AppliedAlone
<1>6. delivering' \in [Deliveries -> {Idle} \cup LookedUp] BY <1>0 DEF InboxInv, InboxTypes
<1>b. \A f \in Events : providerEventId(f) \in Ids BY DEF Ids
\* The row that is new, whichever it is, and the count of e.
<1> DEFINE row == eventRow'[i]
<1>7. SUFFICES ASSUME /\ eventRow' = [eventRow EXCEPT ![i] = eventRow'[i]]
                      /\ eventRow'[i] \in ShutRows \cup OpenRows
                      /\ \/ UNCHANGED <<applied, notices>>
                         \/ /\ eventRow'[i] \in OpenRows /\ eventRow'[i].by = {e}
                            /\ notices' = notices \cup {i}
                            /\ applied' = [applied EXCEPT ![e] = applied'[e]]
                            /\ applied'[e] \in {0, 1}
                      /\ eventRow'[i] \in OpenRows =>
                           /\ eventRow'[i].by = {e}
                           /\ effective(e) /\ applied'[e] = 0 => ~eventRow'[i].found
               PROVE  InboxInv'
  <2>1. CASE delivering[d].replayed
    <3> DEFINE shut == [status |-> "DUPLICATE", by |-> {}]
    <3>1. eventRow' = [eventRow EXCEPT ![i] = shut] /\ UNCHANGED <<applied, notices>>
      BY <2>1 DEF CommitDelivery
    <3>2. shut \in ShutRows BY DEF ShutRows
    <3> HIDE DEF shut, i, e
    <3>3. eventRow'[i] = shut BY <3>1, <1>2 DEF InboxInv, InboxTypes
    <3> QED BY <3>1, <3>2, <3>3, <1>7, RowsDiffer
  <2>2. CASE ~delivering[d].replayed
    <3> DEFINE file(status) == [status |-> status, by |-> {e}, found |-> correlated(e)]
    <3>1. CASE normalized(e).names /\ ~correlated(e)
      <4>1. eventRow' = [eventRow EXCEPT ![i] = file("REJECTED")] /\ UNCHANGED <<applied, notices>>
        BY <2>2, <3>1 DEF CommitDelivery
      <4>2. /\ file("REJECTED") \in OpenRows /\ file("REJECTED").by = {e}
            /\ ~file("REJECTED").found
        BY <3>1, <1>2, <1>4 DEF OpenRows
      <4> HIDE DEF file, i, e
      <4>3. eventRow'[i] = file("REJECTED") BY <4>1, <1>2 DEF InboxInv, InboxTypes
      <4> QED BY <4>1, <4>2, <4>3, <1>7
    <3>2. CASE ~(normalized(e).names /\ ~correlated(e))
      <4>1. /\ eventRow' = [eventRow EXCEPT ![i] = file("PROCESSED")]
            /\ applied' = [applied EXCEPT ![e] = IF correlated(e) /\ effective(e) THEN @ + 1 ELSE @]
            /\ notices' = notices \cup {i}
        BY <2>2, <3>2 DEF CommitDelivery, applyProviderWebhookToPaymentIntent
      <4>2. /\ file("PROCESSED") \in OpenRows /\ file("PROCESSED").by = {e}
            /\ file("PROCESSED").found => correlated(e)
        BY <1>2, <1>4 DEF OpenRows
      <4> HIDE DEF file, i, e
      <4>3. eventRow'[i] = file("PROCESSED") BY <4>1, <1>2 DEF InboxInv, InboxTypes
      <4>4. applied'[e] = IF correlated(e) /\ effective(e) THEN 1 ELSE 0
        BY <4>1, <1>2, <1>5 DEF InboxInv, InboxTypes
      <4>5. applied' = [applied EXCEPT ![e] = applied'[e]]
        BY <4>1, <4>4, <1>2, <1>5 DEF InboxInv, InboxTypes
      <4>6. applied'[e] \in {0, 1} BY <4>4
      <4>7. effective(e) /\ applied'[e] = 0 => ~eventRow'[i].found
        <5>1. SUFFICES ASSUME effective(e), correlated(e) PROVE applied'[e] # 0
          BY <4>2, <4>3
        <5> QED BY <4>4, <5>1
      <4>8. eventRow'[i] \in OpenRows /\ eventRow'[i].by = {e} BY <4>2, <4>3
      <4>9. eventRow' = [eventRow EXCEPT ![i] = eventRow'[i]] BY <4>1, <4>3
      <4> QED BY <4>1, <4>5, <4>6, <4>7, <4>8, <4>9, <1>7
    <3> QED BY <3>1, <3>2
  <2> QED BY <1>1, <2>1, <2>2 DEF LookedUp
<1> HIDE DEF row, e, i
<1>8. /\ eventRow' \in [Ids -> InboxRows]
      /\ \A j \in Ids : j # i => eventRow'[j] = eventRow[j]
  BY <1>7 DEF InboxInv, InboxTypes, InboxRows
<1>9. eventRow'[i] # NoRowYet BY <1>7, RowsDiffer
<1>10. /\ applied' = [f \in Events |-> applied'[f]]
       /\ \A f \in Events : f # e => applied'[f] = applied[f]
  BY <1>7 DEF InboxInv, InboxTypes
<1>11. notices' \subseteq Ids BY <1>7, <1>2 DEF InboxInv, InboxTypes
<1>12. InboxTypes' BY <1>0, <1>2, <1>6, <1>8, <1>10, <1>11 DEF InboxInv, InboxTypes
<1>13. ASSUME NEW f \in Events, providerEventId(f) # i
       PROVE  /\ eventRow'[providerEventId(f)] = eventRow[providerEventId(f)]
              /\ applied'[f] = applied[f]
  BY <1>8, <1>10, <1>13, <1>b DEF i
<1>14. ASSUME NEW f \in Events, providerEventId(f) = i, f # e
       PROVE  applied[f] = 0 /\ applied'[f] = 0
  BY <1>3, <1>10, <1>14, RowsDiffer DEF InboxInv, AppliedAlone
<1>15. AppliedAlone'
  <2> SUFFICES ASSUME NEW f \in Events
               PROVE  \/ applied'[f] = 0
                      \/ /\ applied'[f] = 1
                         /\ eventRow'[providerEventId(f)] \in OpenRows
                         /\ eventRow'[providerEventId(f)].by = {f}
                         /\ providerEventId(f) \in notices'
    BY DEF AppliedAlone, OpenRows
  <2>1. CASE providerEventId(f) # i BY <2>1, <1>7, <1>13 DEF InboxInv, AppliedAlone
  <2>2. CASE f # e /\ providerEventId(f) = i BY <2>2, <1>14
  <2>3. CASE f = e BY <2>3, <1>5, <1>7 DEF i
  <2> QED BY <2>1, <2>2, <2>3
<1>16. LetIn'
  <2> SUFFICES ASSUME NEW f \in Events, eventRow'[providerEventId(f)] \in OpenRows,
                      f \in eventRow'[providerEventId(f)].by, effective(f), applied'[f] = 0
               PROVE  ~eventRow'[providerEventId(f)].found
    BY DEF LetIn, OpenRows
  <2>1. CASE providerEventId(f) # i BY <2>1, <1>13 DEF InboxInv, LetIn
  <2>2. CASE providerEventId(f) = i BY <2>2, <1>7
  <2> QED BY <2>1, <2>2
<1>17. Filed'
  <2>1. ASSUME NEW f \in answered' PROVE eventRow'[providerEventId(f)] # NoRowYet
    BY <1>0, <1>8, <1>9, <1>b DEF InboxInv, Filed, InboxTypes, i
  <2>2. ASSUME NEW j \in notices' PROVE eventRow'[j] \in OpenRows /\ eventRow'[j].by # {}
    <3>1. CASE j = i
      <4>1. i \notin notices BY <1>3, RowsDiffer DEF InboxInv, Filed
      <4> QED BY <4>1, <3>1, <2>2, <1>7
    <3>2. CASE j # i BY <3>2, <2>2, <1>7, <1>8 DEF InboxInv, Filed, InboxTypes
    <3> QED BY <3>1, <3>2
  <2> QED BY <2>1, <2>2 DEF Filed, OpenRows
<1> QED BY <1>12, <1>15, <1>16, <1>17 DEF InboxInv

LEMMA InboxStep == InboxInv /\ [InboxNext(Events)]_inboxVars => InboxInv'
<1> SUFFICES ASSUME InboxInv, [InboxNext(Events)]_inboxVars PROVE InboxInv' OBVIOUS
<1>0. delivering \in [Deliveries -> {Idle} \cup LookedUp] BY DEF InboxInv, InboxTypes
<1>1. CASE UNCHANGED inboxVars BY <1>0, <1>1, InboxAside DEF inboxVars
<1>2. ASSUME NEW p \in Payments, OpenIntent(p) \/ StoreReference(p) PROVE InboxInv'
  BY <1>0, <1>2, InboxAside DEF OpenIntent, StoreReference
<1>3. ASSUME NEW e \in Events, NEW post \in Posts, RefuseDelivery(e, post) PROVE InboxInv'
  BY <1>3, RefusedFiled
<1>4. ASSUME NEW e \in Events, NEW post \in Posts, DuplicateDelivery(e, post) PROVE InboxInv'
  BY <1>4, DuplicateFiled
<1>5. ASSUME NEW e \in Events, NEW post \in Posts, NEW d \in Deliveries, LookUp(d, e, post)
      PROVE  InboxInv'
  <2> DEFINE new == [step |-> "looked up", event |-> e, replayed |-> nonceOf(e) \in nonces]
  <2>1. new \in LookedUp BY DEF LookedUp
  <2>2. delivering' = [delivering EXCEPT ![d] = new] BY <1>5 DEF LookUp
  <2> HIDE DEF new
  <2>3. delivering' \in [Deliveries -> {Idle} \cup LookedUp] BY <1>0, <2>1, <2>2
  <2> QED BY <1>5, <2>3, InboxAside DEF LookUp
<1>6. CASE StoreSecret BY <1>0, <1>6, InboxAside DEF StoreSecret
<1>7. ASSUME NEW d \in Deliveries, CommitDelivery(d) PROVE InboxInv' BY <1>7, CommitFiled
<1>8. ASSUME NEW d \in Deliveries, AbortDelivery(d) PROVE InboxInv'
  <2>1. delivering' \in [Deliveries -> {Idle} \cup LookedUp] BY <1>0, <1>8 DEF AbortDelivery
  <2> QED BY <1>8, <2>1, InboxAside DEF AbortDelivery
<1> QED BY <1>1, <1>2, <1>3, <1>4, <1>5, <1>6, <1>7, <1>8 DEF InboxNext

\* Two events of one id are not both applied, for each would be the only one
\* its row was let in for.
LEMMA EventsFollow == InboxInv => EventsHold
<1> SUFFICES ASSUME InboxInv PROVE EventsHold OBVIOUS
<1>1. ASSUME NEW i \in Ids,
             NEW of, of = {e \in Events : providerEventId(e) = i}
      PROVE  /\ \A e \in of : applied[e] <= 1
             /\ Cardinality({e \in of : applied[e] = 1}) <= 1
  <2>1. \A e \in of : applied[e] <= 1 BY <1>1 DEF InboxInv, AppliedAlone
  <2> DEFINE A == {e \in of : applied[e] = 1}
  <2>2. CASE A = {} BY <2>1, <2>2, FS_EmptySet
  <2>3. CASE A # {}
    <3>1. PICK e \in A : TRUE BY <2>3
    <3>2. \A f \in A : eventRow[i].by = {f} BY <1>1 DEF InboxInv, AppliedAlone
    <3>3. A = {e} BY <3>1, <3>2
    <3>4. Cardinality(A) = 1 BY <3>3, FS_Singleton
    <3> QED BY <2>1, <3>4
  <2> QED BY <2>2, <2>3
<1>2. \A e \in answered : eventRow[providerEventId(e)] # NoRowYet BY DEF InboxInv, Filed
<1>3. ASSUME NEW e \in answered, effective(e), applied[e] = 0,
             e \in eventRow[providerEventId(e)].by
      PROVE  ~eventRow[providerEventId(e)].found
  <2>1. e \in Events /\ eventRow[providerEventId(e)] \in InboxRows
    BY DEF InboxInv, InboxTypes, Ids
  <2>2. eventRow[providerEventId(e)] \notin ShutRows BY <1>3 DEF ShutRows
  <2>3. eventRow[providerEventId(e)] \in OpenRows BY <1>2, <2>1, <2>2 DEF InboxRows
  <2> QED BY <1>3, <2>1, <2>3 DEF InboxInv, LetIn
<1>4. \A i \in notices : eventRow[i].by # {} BY DEF InboxInv, Filed
<1>5. \A e \in Events : applied[e] = 1 => providerEventId(e) \in notices
  BY DEF InboxInv, AppliedAlone
<1> QED BY <1>1, <1>2, <1>3, <1>4, <1>5 DEF EventsHold

\* However many deliveries of however many events overlap: no event id is
\* applied twice, and an event that was answered and not applied came behind
\* another one, a refusal, or before its payment.
THEOREM EventsOnce == InboxSpec => []EventsHold
<1>1. InboxInit => InboxInv BY InboxStarts
<1>2. InboxInv /\ [InboxNext(Events)]_inboxVars => InboxInv' BY InboxStep
<1>3. InboxInv => EventsHold BY EventsFollow
<1> QED BY <1>1, <1>2, <1>3, PTL DEF InboxSpec

-----------------------------------------------------------------------------
(* The payout accounts.                                                    *)

BankSpec == BankInit /\ [][BankNext]_bankVars

ChoiceRows ==
  {NoChoice} \cup [step : {"locked"}, of : BankAccounts]
    \cup [step : {"read"}, of : BankAccounts, seen : SUBSET BankAccounts]

BankTypes ==
  /\ bankAccount = [a \in BankAccounts |-> bankAccount[a]]
  /\ check = [a \in BankAccounts |-> check[a]]
  /\ choosing \in [DefaultCalls -> ChoiceRows]

\* A request that chooses a default holds the lock of an active account.
ChosenIsActive == \A t \in DefaultCalls : choosing[t] # NoChoice => bankAccount[choosing[t].of] = "ACTIVE"

OneDefault ==
  /\ \A a, b \in isDefault : a = b
  /\ isDefault \subseteq {a \in BankAccounts : bankAccount[a] = "ACTIVE"}

\* How far an account is and how far its verification is.
VerifiedAlike ==
  \A a \in BankAccounts :
    \/ bankAccount[a] = "none" /\ check[a] = "none" /\ <<"verified", a>> \notin bankOutbox
    \/ bankAccount[a] = "PENDING_VERIFICATION" /\ check[a] \in {"PENDING", "IN_PROGRESS"}
       /\ <<"verified", a>> \notin bankOutbox
    \/ bankAccount[a] = "REJECTED" /\ check[a] = "FAILED" /\ <<"verified", a>> \notin bankOutbox
    \/ bankAccount[a] \in {"VERIFIED", "ACTIVE", "DEACTIVATED"} /\ check[a] = "PASSED"
       /\ <<"verified", a>> \in bankOutbox

BankInv == BankTypes /\ ChosenIsActive /\ OneDefault /\ VerifiedAlike

LEMMA BankStarts == BankInit => BankInv
BY DEF BankInit, BankInv, BankTypes, ChoiceRows, ChosenIsActive, OneDefault, VerifiedAlike

\* A call under way is in one of its two steps.
LEMMA ChoiceSteps ==
  ASSUME BankTypes, NEW t \in DefaultCalls
  PROVE  /\ choosing[t].step # "none" <=> choosing[t] # NoChoice
         /\ choosing[t] # NoChoice => choosing[t].of \in BankAccounts
         /\ choosing[t].step = "read" => choosing[t].seen \subseteq BankAccounts
<1>1. choosing[t] \in ChoiceRows BY DEF BankTypes
<1> QED BY <1>1 DEF ChoiceRows, NoChoice

\* A step of an account nobody has locked that leaves the calls alone.
LEMMA AccountStep ==
  ASSUME BankInv, UNCHANGED choosing, NEW a \in BankAccounts,
         bankAccount' = [bankAccount EXCEPT ![a] = bankAccount'[a]],
         check' = [check EXCEPT ![a] = check'[a]],
         isDefault' = isDefault \/ isDefault' = isDefault \ {a},
         a \in isDefault' => bankAccount'[a] = "ACTIVE",
         bankAccount'[a] = "ACTIVE" \/ \A t \in DefaultCalls : choosing[t] # NoChoice => choosing[t].of # a,
         \A b \in BankAccounts : b # a => (<<"verified", b>> \in bankOutbox' <=> <<"verified", b>> \in bankOutbox),
         \/ bankAccount'[a] = "none" /\ check'[a] = "none" /\ <<"verified", a>> \notin bankOutbox'
         \/ bankAccount'[a] = "PENDING_VERIFICATION" /\ check'[a] \in {"PENDING", "IN_PROGRESS"}
            /\ <<"verified", a>> \notin bankOutbox'
         \/ bankAccount'[a] = "REJECTED" /\ check'[a] = "FAILED" /\ <<"verified", a>> \notin bankOutbox'
         \/ bankAccount'[a] \in {"VERIFIED", "ACTIVE", "DEACTIVATED"} /\ check'[a] = "PASSED"
            /\ <<"verified", a>> \in bankOutbox'
  PROVE  BankInv'
<1>1. \A b \in BankAccounts : b # a => bankAccount'[b] = bankAccount[b] /\ check'[b] = check[b]
  BY DEF BankInv, BankTypes
<1>2. BankTypes' BY DEF BankInv, BankTypes
<1>3. ChosenIsActive' BY <1>1, ChoiceSteps DEF BankInv, ChosenIsActive
<1>4. OneDefault' BY <1>1 DEF BankInv, OneDefault
<1>5. VerifiedAlike' BY <1>1 DEF BankInv, VerifiedAlike
<1> QED BY <1>2, <1>3, <1>4, <1>5 DEF BankInv

LEMMA CallStep ==
  ASSUME BankInv, UNCHANGED <<bankAccount, check, bankOutbox>>, NEW t \in DefaultCalls,
         NEW row, row \in ChoiceRows, choosing' = [choosing EXCEPT ![t] = row],
         row # NoChoice => bankAccount[row.of] = "ACTIVE",
         isDefault' = isDefault \/ \E a \in BankAccounts : isDefault' = {a} /\ bankAccount[a] = "ACTIVE"
  PROVE  BankInv'
<1>1. BankTypes' BY DEF BankInv, BankTypes
<1>2. ChosenIsActive' BY DEF BankInv, BankTypes, ChosenIsActive
<1>3. OneDefault' BY DEF BankInv, OneDefault
<1>4. VerifiedAlike' BY DEF BankInv, VerifiedAlike
<1> QED BY <1>1, <1>2, <1>3, <1>4 DEF BankInv

LEMMA BankStep == BankInv /\ [BankNext]_bankVars => BankInv'
<1> SUFFICES ASSUME BankInv, [BankNext]_bankVars PROVE BankInv' OBVIOUS
<1>0. CASE UNCHANGED bankVars
  BY <1>0 DEF BankInv, BankTypes, ChosenIsActive, OneDefault, VerifiedAlike, bankVars
<1>1. ASSUME NEW a \in BankAccounts, createAccount(a) PROVE BankInv'
  <2>1. bankAccount[a] = "none" /\ <<"verified", a>> \notin bankOutbox /\ a \notin isDefault
    BY <1>1 DEF createAccount, BankInv, VerifiedAlike, OneDefault
  <2>2. /\ bankAccount'[a] = "PENDING_VERIFICATION" /\ check'[a] = "PENDING"
        /\ bankAccount' = [bankAccount EXCEPT ![a] = "PENDING_VERIFICATION"]
        /\ check' = [check EXCEPT ![a] = "PENDING"]
    BY <1>1 DEF createAccount, BankInv, BankTypes
  <2>3. \A t \in DefaultCalls : choosing[t] # NoChoice => choosing[t].of # a
    BY <2>1 DEF BankInv, ChosenIsActive
  <2>4. \A b : <<"verified", b>> \in bankOutbox' <=> <<"verified", b>> \in bankOutbox
    BY <1>1 DEF createAccount
  <2>5. UNCHANGED <<isDefault, choosing>> BY <1>1 DEF createAccount
  <2> QED BY <2>1, <2>2, <2>3, <2>4, <2>5, AccountStep
<1>2. ASSUME NEW a \in BankAccounts, startVerification(a) PROVE BankInv'
  <2>1. check[a] = "PENDING" /\ bankAccount[a] = "PENDING_VERIFICATION" /\ <<"verified", a>> \notin bankOutbox
    BY <1>2 DEF startVerification, BankInv, VerifiedAlike
  <2>2. /\ bankAccount' = bankAccount /\ check'[a] = "IN_PROGRESS"
        /\ check' = [check EXCEPT ![a] = "IN_PROGRESS"]
        /\ UNCHANGED <<isDefault, choosing, bankOutbox>>
    BY <1>2 DEF startVerification, BankInv, BankTypes
  <2>3. a \notin isDefault /\ \A t \in DefaultCalls : choosing[t] # NoChoice => choosing[t].of # a
    BY <2>1 DEF BankInv, ChosenIsActive, OneDefault
  <2>4. bankAccount' = [bankAccount EXCEPT ![a] = bankAccount'[a]]
    BY <2>2 DEF BankInv, BankTypes
  <2> QED BY <2>1, <2>2, <2>3, <2>4, AccountStep
<1>3. ASSUME NEW a \in BankAccounts, NEW result \in {"PASSED", "FAILED"}, decideVerification(a, result)
      PROVE  BankInv'
  <2>1. bankAccount[a] = "PENDING_VERIFICATION" /\ <<"verified", a>> \notin bankOutbox
    BY <1>3 DEF decideVerification, BankInv, VerifiedAlike
  <2>2. /\ bankAccount' = [bankAccount EXCEPT ![a] = IF result = "PASSED" THEN "VERIFIED" ELSE "REJECTED"]
        /\ check' = [check EXCEPT ![a] = result]
        /\ bankOutbox' = bankOutbox \cup (IF result = "PASSED" THEN {<<"verified", a>>} ELSE {})
        /\ UNCHANGED <<isDefault, choosing>>
    BY <1>3 DEF decideVerification, transitionAccount
  <2>3. a \notin isDefault /\ \A t \in DefaultCalls : choosing[t] # NoChoice => choosing[t].of # a
    BY <2>1 DEF BankInv, ChosenIsActive, OneDefault
  <2>4. /\ bankAccount'[a] = IF result = "PASSED" THEN "VERIFIED" ELSE "REJECTED"
        /\ check'[a] = result
    BY <2>2 DEF BankInv, BankTypes
  <2>5. \A b \in BankAccounts : b # a => (<<"verified", b>> \in bankOutbox' <=> <<"verified", b>> \in bankOutbox)
    BY <2>2
  <2>6. <<"verified", a>> \in bankOutbox' <=> result = "PASSED" BY <2>1, <2>2
  <2> QED BY <2>2, <2>3, <2>4, <2>5, <2>6, AccountStep
<1>4. ASSUME NEW a \in BankAccounts, NEW to \in {"ACTIVE", "DEACTIVATED"}, transitionAccount(a, to),
             UNCHANGED <<check, choosing, bankOutbox>>,
             isDefault' = IF to = "ACTIVE" THEN isDefault ELSE isDefault \ {a}, lockAccount(a)
      PROVE  BankInv'
  <2>1. bankAccount[a] \in {"VERIFIED", "ACTIVE", "DEACTIVATED"}
    BY <1>4 DEF transitionAccount, ACCOUNT_TRANSITIONS
  <2>2. check[a] = "PASSED" /\ <<"verified", a>> \in bankOutbox
    BY <2>1 DEF BankInv, VerifiedAlike
  <2>3. bankAccount' = [bankAccount EXCEPT ![a] = to] /\ bankAccount'[a] = to
    BY <1>4 DEF transitionAccount, BankInv, BankTypes
  <2>4. check' = [check EXCEPT ![a] = check'[a]] BY <1>4 DEF BankInv, BankTypes
  <2>5. \A t \in DefaultCalls : choosing[t] # NoChoice => choosing[t].of # a
    BY <1>4, ChoiceSteps DEF lockAccount, BankInv
  <2>6. a \in isDefault' => to = "ACTIVE" BY <1>4
  <2> QED BY <1>4, <2>2, <2>3, <2>4, <2>5, <2>6, AccountStep
<1>5. ASSUME NEW a \in BankAccounts, activate(a) \/ adminActivate(a) PROVE BankInv'
  <2>1. activate(a) BY <1>5 DEF adminActivate
  <2> QED BY <2>1, <1>4 DEF activate
<1>6. ASSUME NEW a \in BankAccounts, deactivate(a) PROVE BankInv'
  BY <1>6, <1>4 DEF deactivate
<1>7. ASSUME NEW t \in DefaultCalls, NEW a \in BankAccounts, setDefault(t, a) PROVE BankInv'
  <2> DEFINE row == [step |-> "locked", of |-> a]
  <2>1. row \in ChoiceRows /\ row.of = a BY DEF ChoiceRows
  <2>2. /\ choosing' = [choosing EXCEPT ![t] = row] /\ bankAccount[a] = "ACTIVE"
        /\ UNCHANGED <<bankAccount, check, isDefault, bankOutbox>>
    BY <1>7 DEF setDefault
  <2> HIDE DEF row
  <2> QED BY <2>1, <2>2, CallStep
<1>8. ASSUME NEW t \in DefaultCalls, ReadDefaults(t) PROVE BankInv'
  <2> DEFINE row == [step |-> "read", of |-> choosing[t].of, seen |-> isDefault]
  <2>1. choosing[t] # NoChoice BY <1>8 DEF ReadDefaults, NoChoice
  <2>2. /\ choosing[t].of \in BankAccounts /\ bankAccount[choosing[t].of] = "ACTIVE"
        /\ isDefault \subseteq BankAccounts
    BY <2>1, ChoiceSteps DEF BankInv, ChosenIsActive, OneDefault
  <2>3. row \in ChoiceRows /\ row.of = choosing[t].of BY <2>2 DEF ChoiceRows
  <2>4. /\ choosing' = [choosing EXCEPT ![t] = row]
        /\ UNCHANGED <<bankAccount, check, isDefault, bankOutbox>>
    BY <1>8 DEF ReadDefaults, BankInv, BankTypes
  <2> HIDE DEF row
  <2> QED BY <2>2, <2>3, <2>4, CallStep
<1>9. ASSUME NEW t \in DefaultCalls, CommitDefault(t) PROVE BankInv'
  <2>1. choosing[t] # NoChoice BY <1>9 DEF CommitDefault, NoChoice
  <2>2. choosing[t].of \in BankAccounts /\ bankAccount[choosing[t].of] = "ACTIVE"
    BY <2>1, ChoiceSteps DEF BankInv, ChosenIsActive
  <2>3. NoChoice \in ChoiceRows BY DEF ChoiceRows
  <2>4. /\ choosing' = [choosing EXCEPT ![t] = NoChoice]
        /\ UNCHANGED <<bankAccount, check, bankOutbox>>
        /\ isDefault' = isDefault \/ isDefault' = {choosing[t].of}
    BY <1>9 DEF CommitDefault
  <2> QED BY <2>2, <2>3, <2>4, CallStep
<1>10. ASSUME NEW t \in DefaultCalls, LoseDefaultCall(t) PROVE BankInv'
  <2>1. NoChoice \in ChoiceRows BY DEF ChoiceRows
  <2> QED BY <1>10, <2>1, CallStep DEF LoseDefaultCall
<1> QED BY <1>0, <1>1, <1>2, <1>3, <1>5, <1>6, <1>7, <1>8, <1>9, <1>10 DEF BankNext

\* Whoever chooses a default and whoever deactivates an account meanwhile:
\* one account at most is the default, it is active, and an account is
\* beyond its verification exactly when that was passed and announced.
THEOREM AccountsAgree == BankSpec => []AccountsHold
<1>1. BankInv => AccountsHold
  <2> SUFFICES ASSUME BankInv PROVE AccountsHold OBVIOUS
  <2>1. Cardinality(isDefault) <= 1
    <3>1. CASE isDefault = {} BY <3>1, FS_EmptySet
    <3>2. CASE isDefault # {}
      <4>1. PICK a \in isDefault : TRUE BY <3>2
      <4>2. isDefault = {a} BY <4>1 DEF BankInv, OneDefault
      <4>3. Cardinality({a}) = 1 BY FS_Singleton
      <4> QED BY <4>2, <4>3
    <3> QED BY <3>1, <3>2
  <2> QED BY <2>1 DEF AccountsHold, BankInv, OneDefault, VerifiedAlike
<1> QED BY <1>1, BankStarts, BankStep, PTL DEF BankSpec

-----------------------------------------------------------------------------
(* The documents.                                                          *)

\* The submission of the KYB case takes part: it sends documents to review.
DocumentsSpec ==
  /\ DocumentsInit
  /\ [][\/ DocumentsNext
        \/ /\ markPendingReviewForOrganization
           /\ UNCHANGED <<fileRequired, stored, upload, overlapped>>]_documentVars

DocumentRecords ==
  [status : {"none", "UPLOADED", "PENDING_REVIEW", "ACCEPTED", "REJECTED", "ARCHIVED"},
   key : BOOLEAN, sha : Contents \cup {Claimed, None}]
UploadRecords ==
  {NoUpload} \cup [step : {"begun", "put"}, of : DocumentRows, content : Contents]

DocumentTypes ==
  /\ document \in [DocumentRows -> DocumentRecords]
  /\ upload \in [Uploads -> UploadRecords]
  /\ stored = [d \in DocumentRows |-> stored[d]]

NoRowIsEmpty == \A d \in DocumentRows : document[d].status = "none" => document[d] = NoRow

\* An upload that met no other has its document to itself, whose hash is
\* still to come, and what it has put is what is stored.
UploadsAlone ==
  \A u \in Uploads :
    upload[u] # NoUpload =>
      /\ document[upload[u].of].key
      /\ \A v \in Uploads \ {u} :
           upload[v] # NoUpload /\ upload[v].of = upload[u].of => upload[u].of \in overlapped
      /\ upload[u].of \notin overlapped =>
           /\ document[upload[u].of].sha = None
           /\ upload[u].step = "put" => stored[upload[u].of] = upload[u].content

HashesTrue ==
  \A d \in DocumentRows :
    /\ document[d].sha \in Contents /\ d \notin overlapped =>
         document[d].key /\ stored[d] = document[d].sha
    /\ document[d].status = "PENDING_REVIEW" => document[d].sha # None

DocumentsInv == DocumentTypes /\ NoRowIsEmpty /\ UploadsAlone /\ HashesTrue

LEMMA DocumentsStart == DocumentsInit => DocumentsInv
<1> SUFFICES ASSUME DocumentsInit PROVE DocumentsInv OBVIOUS
<1> USE DEF DocumentsInit
<1>0. \A d \in DocumentRows : document[d] = NoRow /\ document[d].sha = None /\ document[d].status = "none"
  BY DEF NoRow
<1>1. NoRow \in DocumentRecords BY DEF NoRow, DocumentRecords
<1>2. DocumentTypes BY <1>1 DEF DocumentTypes, UploadRecords
<1>3. NoRowIsEmpty BY <1>0 DEF NoRowIsEmpty
<1>4. UploadsAlone BY DEF UploadsAlone
<1>5. HashesTrue BY <1>0, DocumentsAssumption DEF HashesTrue
<1> QED BY <1>2, <1>3, <1>4, <1>5 DEF DocumentsInv

\* Steps that only change rows: those that are there keep key and hash, and
\* those that are new have no hash of a content.
LEMMA RowsStep ==
  ASSUME DocumentsInv, UNCHANGED <<stored, upload, overlapped>>,
         document' \in [DocumentRows -> DocumentRecords],
         \A d \in DocumentRows :
           \/ document'[d] = document[d]
           \/ /\ document'[d].key = document[d].key /\ document'[d].sha = document[d].sha
              /\ document'[d].status # "none"
              /\ document'[d].status = "PENDING_REVIEW" => document[d].sha # None
           \/ /\ document[d].status = "none"
              /\ document'[d].sha \in {Claimed, None}
              /\ document'[d].status \notin {"none", "PENDING_REVIEW"}
  PROVE  DocumentsInv'
<1>1. DocumentTypes' BY DEF DocumentsInv, DocumentTypes
<1>2. NoRowIsEmpty' BY DEF DocumentsInv, NoRowIsEmpty
<1>3. UploadsAlone'
  <2> SUFFICES ASSUME NEW u \in Uploads, upload[u] # NoUpload
               PROVE  /\ document'[upload[u].of].key = document[upload[u].of].key
                      /\ document'[upload[u].of].sha = document[upload[u].of].sha
    BY DEF DocumentsInv, UploadsAlone
  <2>1. upload[u].of \in DocumentRows BY DEF DocumentsInv, DocumentTypes, UploadRecords
  <2>2. document[upload[u].of].key BY DEF DocumentsInv, UploadsAlone
  <2>3. document[upload[u].of].status # "none"
    BY <2>1, <2>2 DEF DocumentsInv, NoRowIsEmpty, NoRow
  <2> QED BY <2>1, <2>3
<1>4. HashesTrue'
  <2> SUFFICES ASSUME NEW d \in DocumentRows
               PROVE  /\ document'[d].sha \in Contents /\ d \notin overlapped =>
                           document'[d].key /\ stored[d] = document'[d].sha
                      /\ document'[d].status = "PENDING_REVIEW" => document'[d].sha # None
    BY DEF HashesTrue
  <2> QED BY DocumentsAssumption DEF DocumentsInv, HashesTrue
<1> QED BY <1>1, <1>2, <1>3, <1>4 DEF DocumentsInv

LEMMA DocumentRowStep ==
  ASSUME DocumentsInv, UNCHANGED <<stored, upload, overlapped>>,
         NEW d \in DocumentRows, NEW row \in DocumentRecords,
         document' = [document EXCEPT ![d] = row],
         \/ /\ row.key = document[d].key /\ row.sha = document[d].sha
            /\ row.status \notin {"none", "PENDING_REVIEW"}
         \/ /\ document[d].status = "none"
            /\ row.sha \in {Claimed, None}
            /\ row.status \notin {"none", "PENDING_REVIEW"}
  PROVE  DocumentsInv'
<1>1. document' \in [DocumentRows -> DocumentRecords] BY DEF DocumentsInv, DocumentTypes
<1>2. \A c \in DocumentRows : document'[c] = IF c = d THEN row ELSE document[c]
  BY DEF DocumentsInv, DocumentTypes
<1> QED BY <1>1, <1>2, RowsStep

LEMMA NewUpload ==
  ASSUME DocumentsInv, NEW u \in Uploads, NEW d \in DocumentRows, NEW c \in Contents,
         uploadContent(u, d, c)
  PROVE  DocumentsInv'
<1> DEFINE row == [step |-> "begun", of |-> d, content |-> c]
<1>1. /\ upload[u] = NoUpload /\ document[d].key /\ document[d].sha = None
      /\ upload' = [upload EXCEPT ![u] = row]
      /\ UNCHANGED <<document, stored>>
  BY DEF uploadContent, uploadable
<1>2. row \in UploadRecords /\ row.of = d /\ row.step = "begun" BY DEF UploadRecords
<1>3. \/ overlapped' = overlapped \cup {d}
      \/ overlapped' = overlapped /\ \A v \in Uploads : upload[v] # NoUpload => upload[v].of # d
  <2>1. ASSUME NEW v \in Uploads, upload[v] # NoUpload PROVE upload[v].step # "none"
    BY <2>1 DEF DocumentsInv, DocumentTypes, UploadRecords
  <2> QED BY <2>1 DEF uploadContent
<1> HIDE DEF row
<1>4. /\ upload'[u] = row /\ \A v \in Uploads : v # u => upload'[v] = upload[v]
      /\ upload' \in [Uploads -> UploadRecords]
  BY <1>1, <1>2 DEF DocumentsInv, DocumentTypes
<1>5. DocumentTypes' BY <1>1, <1>4 DEF DocumentsInv, DocumentTypes
<1>6. NoRowIsEmpty' BY <1>1 DEF DocumentsInv, NoRowIsEmpty
<1>7. UploadsAlone'
  <2> SUFFICES ASSUME NEW v \in Uploads, upload'[v] # NoUpload
               PROVE  /\ document[upload'[v].of].key
                      /\ \A w \in Uploads \ {v} :
                           upload'[w] # NoUpload /\ upload'[w].of = upload'[v].of => upload'[v].of \in overlapped'
                      /\ upload'[v].of \notin overlapped' =>
                           /\ document[upload'[v].of].sha = None
                           /\ upload'[v].step = "put" => stored[upload'[v].of] = upload'[v].content
    BY <1>1 DEF UploadsAlone
  <2>1. CASE v = u BY <2>1, <1>1, <1>2, <1>3, <1>4
  <2>2. CASE v # u
    <3>1. upload'[v] = upload[v] BY <2>2, <1>4
    <3> QED BY <3>1, <2>2, <1>1, <1>2, <1>3, <1>4 DEF DocumentsInv, UploadsAlone
  <2> QED BY <2>1, <2>2
<1>8. HashesTrue' BY <1>1, <1>3 DEF DocumentsInv, HashesTrue
<1> QED BY <1>5, <1>6, <1>7, <1>8 DEF DocumentsInv

LEMMA ContentPut ==
  ASSUME DocumentsInv, NEW u \in Uploads, putDocumentObject(u)
  PROVE  DocumentsInv'
<1> DEFINE d == upload[u].of
           row == [upload[u] EXCEPT !.step = "put"]
<1>0. upload[u] \in UploadRecords BY DEF DocumentsInv, DocumentTypes
<1>1. /\ upload[u].step = "begun"
      /\ upload' = [upload EXCEPT ![u] = row]
      /\ stored' = [stored EXCEPT ![d] = upload[u].content]
      /\ UNCHANGED <<document, overlapped>>
  BY DEF putDocumentObject
<1>2. upload[u] # NoUpload BY <1>1 DEF NoUpload
<1>3. d \in DocumentRows BY <1>0, <1>2 DEF UploadRecords
<1>4. row \in UploadRecords /\ row.of = d /\ row.content = upload[u].content
  BY <1>0, <1>2 DEF UploadRecords
<1> HIDE DEF row
<1>5. /\ upload'[u] = row /\ \A v \in Uploads : v # u => upload'[v] = upload[v]
      /\ upload' \in [Uploads -> UploadRecords]
  BY <1>1, <1>4 DEF DocumentsInv, DocumentTypes
<1>6. /\ stored'[d] = upload[u].content
      /\ \A c \in DocumentRows : c # d => stored'[c] = stored[c]
      /\ stored' = [c \in DocumentRows |-> stored'[c]]
  BY <1>1, <1>3 DEF DocumentsInv, DocumentTypes
<1>7. \A v \in Uploads : upload'[v] # NoUpload => upload[v] # NoUpload /\ upload'[v].of = upload[v].of
  BY <1>2, <1>4, <1>5
<1>8. \A v \in Uploads : upload[v] # NoUpload => upload[v].of \in DocumentRows
  BY DEF DocumentsInv, DocumentTypes, UploadRecords
<1>9. DocumentTypes' BY <1>1, <1>5, <1>6 DEF DocumentsInv, DocumentTypes
<1>10. NoRowIsEmpty' BY <1>1 DEF DocumentsInv, NoRowIsEmpty
<1>11. UploadsAlone'
  <2> SUFFICES ASSUME NEW v \in Uploads, upload'[v] # NoUpload
               PROVE  /\ document[upload'[v].of].key
                      /\ \A w \in Uploads \ {v} :
                           upload'[w] # NoUpload /\ upload'[w].of = upload'[v].of => upload'[v].of \in overlapped
                      /\ upload'[v].of \notin overlapped =>
                           /\ document[upload'[v].of].sha = None
                           /\ upload'[v].step = "put" => stored'[upload'[v].of] = upload'[v].content
    BY <1>1 DEF UploadsAlone
  <2>1. CASE v = u BY <2>1, <1>2, <1>4, <1>5, <1>6, <1>7 DEF DocumentsInv, UploadsAlone
  <2>2. CASE v # u
    <3>1. upload'[v] = upload[v] /\ upload[v] # NoUpload BY <2>2, <1>5, <1>7
    <3>2. upload[v].of = d => d \in overlapped BY <3>1, <2>2, <1>2 DEF DocumentsInv, UploadsAlone
    <3> QED BY <3>1, <3>2, <2>2, <1>6, <1>7, <1>8 DEF DocumentsInv, UploadsAlone
  <2> QED BY <2>1, <2>2
<1>12. HashesTrue'
  <2>1. d \notin overlapped => document[d].sha = None BY <1>2 DEF DocumentsInv, UploadsAlone
  <2> QED BY <2>1, <1>1, <1>6, DocumentsAssumption DEF DocumentsInv, HashesTrue
<1> QED BY <1>9, <1>10, <1>11, <1>12 DEF DocumentsInv

\* An upload that ends leaves the others theirs.
LEMMA UploadEnds ==
  ASSUME DocumentsInv, NEW u \in Uploads, upload' = [upload EXCEPT ![u] = NoUpload],
         UNCHANGED <<stored, overlapped>>
  PROVE  /\ upload' \in [Uploads -> UploadRecords]
         /\ \A v \in Uploads : upload'[v] # NoUpload => v # u /\ upload'[v] = upload[v]
<1>1. NoUpload \in UploadRecords BY DEF UploadRecords
<1> QED BY <1>1 DEF DocumentsInv, DocumentTypes

LEMMA UploadFails ==
  ASSUME DocumentsInv, NEW u \in Uploads, FailUpload(u)
  PROVE  DocumentsInv'
<1>1. UNCHANGED <<document, stored, overlapped>> BY DEF FailUpload
<1>2. /\ upload' \in [Uploads -> UploadRecords]
      /\ \A v \in Uploads : upload'[v] # NoUpload => v # u /\ upload'[v] = upload[v]
  BY UploadEnds DEF FailUpload
<1>3. DocumentTypes' BY <1>1, <1>2 DEF DocumentsInv, DocumentTypes
<1>4. NoRowIsEmpty' BY <1>1 DEF DocumentsInv, NoRowIsEmpty
<1>5. UploadsAlone' BY <1>1, <1>2 DEF DocumentsInv, UploadsAlone
<1>6. HashesTrue' BY <1>1 DEF DocumentsInv, HashesTrue
<1> QED BY <1>3, <1>4, <1>5, <1>6 DEF DocumentsInv

LEMMA UploadCommits ==
  ASSUME DocumentsInv, NEW u \in Uploads, CommitUpload(u)
  PROVE  DocumentsInv'
<1> DEFINE d == upload[u].of
           row == [document[d] EXCEPT !.sha = upload[u].content]
<1>0. upload[u] \in UploadRecords BY DEF DocumentsInv, DocumentTypes
<1>1. /\ upload[u].step = "put"
      /\ document' = [document EXCEPT ![d] = row]
      /\ UNCHANGED <<stored, overlapped>>
      /\ upload' = [upload EXCEPT ![u] = NoUpload]
  BY DEF CommitUpload
<1>2. upload[u] # NoUpload BY <1>1 DEF NoUpload
<1>3. d \in DocumentRows /\ upload[u].content \in Contents BY <1>0, <1>2 DEF UploadRecords
<1>4. /\ row \in DocumentRecords /\ row.sha = upload[u].content
      /\ row.key = document[d].key /\ row.status = document[d].status
  BY <1>3 DEF DocumentsInv, DocumentTypes, DocumentRecords
<1>5. document[d].key /\ (d \notin overlapped => stored[d] = upload[u].content)
  BY <1>1, <1>2 DEF DocumentsInv, UploadsAlone
<1>6. document[d].status # "none" BY <1>3, <1>5 DEF DocumentsInv, NoRowIsEmpty, NoRow
<1> HIDE DEF row
<1>7. /\ upload' \in [Uploads -> UploadRecords]
      /\ \A v \in Uploads : upload'[v] # NoUpload => v # u /\ upload'[v] = upload[v]
  BY <1>1, UploadEnds
<1>8. \A v \in Uploads : upload'[v] # NoUpload => upload[v].of \in DocumentRows /\ (upload[v].of = d => d \in overlapped)
  BY <1>2, <1>7 DEF DocumentsInv, UploadsAlone, DocumentTypes, UploadRecords
<1>9. /\ document'[d] = row
      /\ \A c \in DocumentRows : c # d => document'[c] = document[c]
      /\ document' \in [DocumentRows -> DocumentRecords]
  BY <1>1, <1>3, <1>4 DEF DocumentsInv, DocumentTypes
<1>10. DocumentTypes' BY <1>1, <1>7, <1>9 DEF DocumentsInv, DocumentTypes
<1>11. NoRowIsEmpty' BY <1>4, <1>6, <1>9 DEF DocumentsInv, NoRowIsEmpty
<1>12. UploadsAlone'
  <2> SUFFICES ASSUME NEW v \in Uploads, upload'[v] # NoUpload
               PROVE  /\ document'[upload'[v].of].key
                      /\ \A w \in Uploads \ {v} :
                           upload'[w] # NoUpload /\ upload'[w].of = upload'[v].of => upload'[v].of \in overlapped
                      /\ upload'[v].of \notin overlapped =>
                           /\ document'[upload'[v].of].sha = None
                           /\ upload'[v].step = "put" => stored[upload'[v].of] = upload'[v].content
    BY <1>1 DEF UploadsAlone
  <2>1. upload'[v] = upload[v] BY <1>7
  <2>2. CASE upload[v].of = d
    BY <2>1, <2>2, <1>4, <1>5, <1>7, <1>8, <1>9 DEF DocumentsInv, UploadsAlone
  <2>3. CASE upload[v].of # d
    BY <2>1, <2>3, <1>7, <1>8, <1>9 DEF DocumentsInv, UploadsAlone
  <2> QED BY <2>2, <2>3
<1>13. HashesTrue'
  <2> SUFFICES ASSUME NEW c \in DocumentRows
               PROVE  /\ document'[c].sha \in Contents /\ c \notin overlapped =>
                           document'[c].key /\ stored[c] = document'[c].sha
                      /\ document'[c].status = "PENDING_REVIEW" => document'[c].sha # None
    BY <1>1 DEF HashesTrue
  <2>1. CASE c = d BY <2>1, <1>3, <1>4, <1>5, <1>9, DocumentsAssumption
  <2>2. CASE c # d BY <2>2, <1>9 DEF DocumentsInv, HashesTrue
  <2> QED BY <2>1, <2>2
<1> QED BY <1>10, <1>11, <1>12, <1>13 DEF DocumentsInv

LEMMA DocumentsStep == DocumentsInv /\ [DocumentsNext]_documentVars => DocumentsInv'
<1> SUFFICES ASSUME DocumentsInv, [DocumentsNext]_documentVars PROVE DocumentsInv' OBVIOUS
<1>0. CASE UNCHANGED documentVars
  BY <1>0 DEF documentVars, DocumentsInv, DocumentTypes, NoRowIsEmpty, UploadsAlone, HashesTrue
<1>1. ASSUME NEW d \in DocumentRows, NEW key \in BOOLEAN, NEW sha \in {Claimed, None}, register(d, key, sha)
      PROVE  DocumentsInv'
  <2> DEFINE row == [status |-> "UPLOADED", key |-> key, sha |-> sha]
  <2>1. row \in DocumentRecords /\ row.sha = sha /\ row.status = "UPLOADED" BY DEF DocumentRecords
  <2>2. /\ document[d].status = "none" /\ document' = [document EXCEPT ![d] = row]
        /\ UNCHANGED <<stored, upload, overlapped>>
    BY <1>1 DEF register
  <2> HIDE DEF row
  <2> QED BY <2>1, <2>2, DocumentRowStep
<1>2. ASSUME NEW d \in DocumentRows, createUploadIntent(d) PROVE DocumentsInv'
  <2> DEFINE row == [status |-> "UPLOADED", key |-> TRUE, sha |-> None]
  <2>1. row \in DocumentRecords /\ row.sha = None /\ row.status = "UPLOADED" BY DEF DocumentRecords
  <2>2. /\ document[d].status = "none" /\ document' = [document EXCEPT ![d] = row]
        /\ UNCHANGED <<stored, upload, overlapped>>
    BY <1>2 DEF createUploadIntent
  <2> HIDE DEF row
  <2> QED BY <2>1, <2>2, DocumentRowStep
<1>3. ASSUME NEW d \in DocumentRows, NEW status \in {"ACCEPTED", "REJECTED", "ARCHIVED"},
             document' = [document EXCEPT ![d].status = status], UNCHANGED <<stored, upload, overlapped>>
      PROVE  DocumentsInv'
  <2> DEFINE row == [document[d] EXCEPT !.status = status]
  <2>1. /\ row \in DocumentRecords /\ row.sha = document[d].sha /\ row.key = document[d].key
        /\ row.status = status
    BY DEF DocumentRecords, DocumentsInv, DocumentTypes
  <2>2. document' = [document EXCEPT ![d] = row] BY <1>3
  <2> HIDE DEF row
  <2> QED BY <1>3, <2>1, <2>2, DocumentRowStep
<1>4. ASSUME NEW d \in DocumentRows, archive(d) PROVE DocumentsInv'
  BY <1>4, <1>3 DEF archive
<1>5. ASSUME NEW d \in DocumentRows, NEW decision \in {"ACCEPTED", "REJECTED"}, review(d, decision)
      PROVE  DocumentsInv'
  BY <1>5, <1>3 DEF review
<1>6. ASSUME NEW d \in DocumentRows, NEW u \in Uploads, NEW c \in Contents, uploadContent(u, d, c)
      PROVE  DocumentsInv'
  BY <1>6, NewUpload
<1>7. ASSUME NEW u \in Uploads, putDocumentObject(u) PROVE DocumentsInv' BY <1>7, ContentPut
<1>8. ASSUME NEW u \in Uploads, CommitUpload(u) PROVE DocumentsInv' BY <1>8, UploadCommits
<1>9. ASSUME NEW u \in Uploads, FailUpload(u) PROVE DocumentsInv' BY <1>9, UploadFails
<1> QED BY <1>0, <1>1, <1>2, <1>4, <1>5, <1>6, <1>7, <1>8, <1>9 DEF DocumentsNext

LEMMA SentToReview ==
  ASSUME DocumentsInv, markPendingReviewForOrganization, UNCHANGED <<stored, upload, overlapped>>
  PROVE  DocumentsInv'
<1>1. ASSUME NEW d \in DocumentRows
      PROVE  LET row == [document[d] EXCEPT !.status = "PENDING_REVIEW"] IN
             /\ document[d] \in DocumentRecords /\ row \in DocumentRecords
             /\ row.key = document[d].key /\ row.sha = document[d].sha /\ row.status = "PENDING_REVIEW"
  BY DEF DocumentsInv, DocumentTypes, DocumentRecords
<1>2. ASSUME NEW d \in DocumentRows
      PROVE  /\ document'[d] \in DocumentRecords
             /\ \/ document'[d] = document[d]
                \/ /\ document'[d].key = document[d].key /\ document'[d].sha = document[d].sha
                   /\ document'[d].status # "none" /\ document[d].sha # None
  <2> DEFINE row == [document[d] EXCEPT !.status = "PENDING_REVIEW"]
             goes == document[d].status = "UPLOADED" /\ document[d].key /\ document[d].sha # None
  <2>1. document'[d] = IF goes THEN row ELSE document[d]
    BY DEF markPendingReviewForOrganization
  <2>2. /\ document[d] \in DocumentRecords /\ row \in DocumentRecords
        /\ row.key = document[d].key /\ row.sha = document[d].sha /\ row.status = "PENDING_REVIEW"
    BY <1>1
  <2>3. goes => document[d].sha # None OBVIOUS
  <2> HIDE DEF row, goes
  <2> QED BY <2>1, <2>2, <2>3
<1>3. document' = [d \in DocumentRows |-> document'[d]] BY DEF markPendingReviewForOrganization
<1>4. document' \in [DocumentRows -> DocumentRecords] BY <1>2, <1>3
<1> QED BY <1>2, <1>4, RowsStep

\* Whatever uploads, reviews and submissions meet: a hash that is recorded
\* is that of the object a reader is given, unless two uploads overlapped.
THEOREM DocumentsTrue == DocumentsSpec => []DocumentsHold
<1>1. DocumentsInv => DocumentsHold
  BY DEF DocumentsInv, HashesTrue, DocumentsHold, getContent
<1>2. ASSUME DocumentsInv,
             [\/ DocumentsNext
              \/ /\ markPendingReviewForOrganization
                 /\ UNCHANGED <<fileRequired, stored, upload, overlapped>>]_documentVars
      PROVE  DocumentsInv'
  BY <1>2, DocumentsStep, SentToReview
<1> QED BY <1>1, <1>2, DocumentsStart, PTL DEF DocumentsSpec

-----------------------------------------------------------------------------
(* The routes.                                                             *)

RoutingSpec == ProvidersInit /\ [][ProvidersNext]_providerVars

RouteRows ==
  [org : Orgs, env : Environments, currency : Currencies \cup {Any},
   method : Methods \cup {Any}, account : Accounts, priority : Nat, created : Nat]
RouteCallRows ==
  {NoCall} \cup [step : {"route"}, seen : SUBSET RouteRows, route : RouteRows]
    \cup [step : {"bootstrap"}, org : Orgs]

RoutingTypes ==
  /\ accountStatus \in [Accounts -> {"none", "ACTIVE", "DISABLED"}]
  /\ defaultAccounts \subseteq Accounts
  /\ routes \subseteq RouteRows
  /\ inserted \in Nat
  /\ routeCall \in [RouteCalls -> RouteCallRows]

\* A route leads to an account of its own organization or of the platform,
\* and of its own environment.
OfTenant(r) == r.account.owner \in {r.org, "shared"} /\ r.account.env = r.env

RoutesOfTenant ==
  /\ \A r \in routes : OfTenant(r)
  /\ \A c \in RouteCalls :
       /\ routeCall[c].step = "route" => OfTenant(routeCall[c].route)
       /\ routeCall[c].step = "bootstrap" => stripeSandbox \in Accounts

\* No two routes, committed or under way, were made at one time, so that the
\* order the router takes them in has no ties.
RoutesInOrder ==
  /\ \A r \in routes : r.created <= inserted
  /\ \A r, s \in routes : r.created = s.created => r = s
  /\ \A c \in RouteCalls : routeCall[c].step = "route" =>
       /\ routeCall[c].route.created <= inserted
       /\ \A r \in routes : r.created # routeCall[c].route.created
       /\ \A d \in RouteCalls \ {c} :
            routeCall[d].step = "route" => routeCall[d].route.created # routeCall[c].route.created

OneDefaultEach ==
  \A a, b \in defaultAccounts : a.owner = b.owner /\ a.env = b.env => a = b

RoutingInv == RoutingTypes /\ RoutesOfTenant /\ RoutesInOrder /\ OneDefaultEach

LEMMA RoutingStarts == ProvidersInit => RoutingInv
<1> SUFFICES ASSUME ProvidersInit PROVE RoutingInv OBVIOUS
<1> USE DEF ProvidersInit
<1>1. RoutingTypes BY DEF RoutingTypes, RouteCallRows
<1>2. \A c \in RouteCalls : routeCall[c].step = "none" BY DEF NoCall
<1>3. RoutesOfTenant BY <1>2 DEF RoutesOfTenant
<1>4. RoutesInOrder BY <1>2 DEF RoutesInOrder
<1>5. OneDefaultEach BY DEF OneDefaultEach
<1> QED BY <1>1, <1>3, <1>4, <1>5 DEF RoutingInv

LEMMA CallRows ==
  ASSUME RoutingTypes, NEW c \in RouteCalls
  PROVE  /\ routeCall[c].step = "route" =>
              routeCall[c].route \in RouteRows /\ routeCall[c].seen \subseteq RouteRows
         /\ routeCall[c].step = "bootstrap" => routeCall[c].org \in Orgs
<1>1. routeCall[c] \in RouteCallRows BY DEF RoutingTypes
<1>2. NoCall.step = "none" BY DEF NoCall
<1> QED BY <1>1, <1>2 DEF RouteCallRows

\* Steps on the accounts alone.
LEMMA AccountsStep ==
  ASSUME RoutingInv, UNCHANGED <<routes, inserted, routeCall>>,
         accountStatus' \in [Accounts -> {"none", "ACTIVE", "DISABLED"}],
         defaultAccounts' \subseteq Accounts, OneDefaultEach'
  PROVE  RoutingInv'
<1>1. RoutingTypes' BY DEF RoutingInv, RoutingTypes
<1>2. RoutesOfTenant' BY DEF RoutingInv, RoutesOfTenant
<1>3. RoutesInOrder' BY DEF RoutingInv, RoutesInOrder
<1> QED BY <1>1, <1>2, <1>3 DEF RoutingInv

LEMMA AccountCreated ==
  ASSUME RoutingInv, NEW a \in Accounts, NEW asDefault \in {"true", "false", "absent"},
         createOrgAccount(a, asDefault)
  PROVE  RoutingInv'
<1> DEFINE samePlane == {b \in defaultAccounts : b.owner = a.owner /\ b.env = a.env}
<1>1. /\ UNCHANGED <<routes, inserted, routeCall>>
      /\ accountStatus' = [accountStatus EXCEPT ![a] = "ACTIVE"]
  BY DEF createOrgAccount
<1>2. \/ defaultAccounts' = (defaultAccounts \ samePlane) \cup {a}
      \/ defaultAccounts' = defaultAccounts \cup {a} /\ samePlane \subseteq {a}
      \/ defaultAccounts' = defaultAccounts \ {a}
  <2>1. CASE asDefault = "true" BY <2>1 DEF createOrgAccount
  <2>2. CASE asDefault = "absent" BY <2>2 DEF createOrgAccount
  <2>3. CASE asDefault = "false" BY <2>3 DEF createOrgAccount
  <2> QED BY <2>1, <2>2, <2>3
<1>3. accountStatus' \in [Accounts -> {"none", "ACTIVE", "DISABLED"}]
  BY <1>1 DEF RoutingInv, RoutingTypes
<1>4. defaultAccounts' \subseteq Accounts BY <1>2 DEF RoutingInv, RoutingTypes
<1>5. OneDefaultEach' BY <1>2 DEF RoutingInv, OneDefaultEach
<1> QED BY <1>1, <1>3, <1>4, <1>5, AccountsStep

\* A call that begins, ends or is lost, with what it leaves of the routes.
LEMMA CallBegins ==
  ASSUME RoutingInv, NEW c \in RouteCalls, NEW row \in RouteCallRows,
         UNCHANGED <<accountStatus, defaultAccounts, routes>>,
         routeCall' = [routeCall EXCEPT ![c] = row],
         inserted' \in Nat, inserted' >= inserted,
         row.step = "route" => OfTenant(row.route) /\ row.route.created = inserted + 1 /\ inserted' = inserted + 1,
         row.step = "bootstrap" => stripeSandbox \in Accounts
  PROVE  RoutingInv'
<1>1. /\ routeCall'[c] = row /\ \A d \in RouteCalls : d # c => routeCall'[d] = routeCall[d]
      /\ routeCall' \in [RouteCalls -> RouteCallRows]
  BY DEF RoutingInv, RoutingTypes
<1>2. RoutingTypes' BY <1>1 DEF RoutingInv, RoutingTypes
<1>3. RoutesOfTenant' BY <1>1 DEF RoutingInv, RoutesOfTenant
<1>4. \A r \in routes : r.created \in Nat BY DEF RoutingInv, RoutingTypes, RouteRows
<1>5. \A d \in RouteCalls : routeCall[d].step = "route" => routeCall[d].route.created \in Nat
  BY CallRows DEF RoutingInv, RouteRows
<1>6. inserted \in Nat BY DEF RoutingInv, RoutingTypes
<1>7. RoutesInOrder'
  <2>1. \A r \in routes : r.created <= inserted' BY <1>4, <1>6 DEF RoutingInv, RoutesInOrder
  <2>2. ASSUME NEW d \in RouteCalls, routeCall'[d].step = "route"
        PROVE  /\ routeCall'[d].route.created <= inserted'
               /\ \A r \in routes : r.created # routeCall'[d].route.created
               /\ \A e \in RouteCalls \ {d} :
                    routeCall'[e].step = "route" => routeCall'[e].route.created # routeCall'[d].route.created
    <3>1. CASE d = c
      <4>1. routeCall'[d].route.created = inserted + 1 /\ inserted' = inserted + 1 BY <1>1, <2>2, <3>1
      <4>2. \A r \in routes : r.created # inserted + 1 BY <1>4, <1>6 DEF RoutingInv, RoutesInOrder
      <4>3. \A e \in RouteCalls : e # c /\ routeCall[e].step = "route" => routeCall[e].route.created # inserted + 1
        BY <1>5, <1>6 DEF RoutingInv, RoutesInOrder
      <4> QED BY <4>1, <4>2, <4>3, <1>1, <1>6, <3>1
    <3>2. CASE d # c
      <4>1. /\ routeCall'[d] = routeCall[d] /\ routeCall[d].route.created <= inserted
            /\ routeCall[d].route.created \in Nat
        BY <1>1, <1>5, <2>2, <3>2 DEF RoutingInv, RoutesInOrder
      <4>2. row.step = "route" => row.route.created # routeCall[d].route.created BY <4>1, <1>6
      <4>3. \A e \in RouteCalls \ {d} :
              routeCall'[e].step = "route" => routeCall'[e].route.created # routeCall'[d].route.created
        BY <4>1, <4>2, <1>1, <2>2, <3>2 DEF RoutingInv, RoutesInOrder
      <4>4. \A r \in routes : r.created # routeCall'[d].route.created
        BY <4>1, <2>2 DEF RoutingInv, RoutesInOrder
      <4>5. routeCall'[d].route.created <= inserted' BY <4>1, <1>6
      <4> QED BY <4>3, <4>4, <4>5
    <3> QED BY <3>1, <3>2
  <2> QED BY <2>1, <2>2 DEF RoutingInv, RoutesInOrder
<1>8. OneDefaultEach' BY DEF RoutingInv, OneDefaultEach
<1> QED BY <1>2, <1>3, <1>7, <1>8 DEF RoutingInv

LEMMA CallCommits ==
  ASSUME RoutingInv, NEW c \in RouteCalls, NEW kept, kept \subseteq routes, NEW new \in RouteRows,
         UNCHANGED <<accountStatus, defaultAccounts>>,
         routeCall' = [routeCall EXCEPT ![c] = NoCall],
         routes' = kept \cup {new}, OfTenant(new),
         \/ routeCall[c].step = "route" /\ new = routeCall[c].route /\ inserted' = inserted
         \/ new.created = inserted + 1 /\ inserted' = inserted + 1
  PROVE  RoutingInv'
<1>0. NoCall \in RouteCallRows /\ NoCall.step = "none" BY DEF RouteCallRows, NoCall
<1>1. /\ routeCall'[c] = NoCall /\ \A d \in RouteCalls : d # c => routeCall'[d] = routeCall[d]
      /\ routeCall' \in [RouteCalls -> RouteCallRows]
  BY <1>0 DEF RoutingInv, RoutingTypes
<1>2. RoutingTypes' BY <1>1 DEF RoutingInv, RoutingTypes
<1>3. RoutesOfTenant' BY <1>0, <1>1 DEF RoutingInv, RoutesOfTenant
<1>4. \A r \in routes : r.created \in Nat BY DEF RoutingInv, RoutingTypes, RouteRows
<1>5. \A d \in RouteCalls : routeCall[d].step = "route" => routeCall[d].route.created \in Nat
  BY CallRows DEF RoutingInv, RouteRows
<1>6. inserted \in Nat /\ new.created \in Nat BY DEF RoutingInv, RoutingTypes, RouteRows
<1>7. /\ new.created <= inserted' /\ inserted <= inserted'
      /\ \A r \in routes : r.created # new.created
      /\ \A d \in RouteCalls \ {c} : routeCall[d].step = "route" => routeCall[d].route.created # new.created
  <2>1. CASE routeCall[c].step = "route" /\ new = routeCall[c].route /\ inserted' = inserted
    BY <2>1, <1>6 DEF RoutingInv, RoutesInOrder
  <2>2. CASE new.created = inserted + 1 /\ inserted' = inserted + 1
    BY <2>2, <1>4, <1>5, <1>6 DEF RoutingInv, RoutesInOrder
  <2> QED BY <2>1, <2>2
<1>8. RoutesInOrder'
  <2>1. \A r \in routes' : r.created <= inserted' BY <1>4, <1>6, <1>7 DEF RoutingInv, RoutesInOrder
  <2>2. \A r, s \in routes' : r.created = s.created => r = s BY <1>7 DEF RoutingInv, RoutesInOrder
  <2>3. ASSUME NEW d \in RouteCalls, routeCall'[d].step = "route"
        PROVE  /\ routeCall'[d].route.created <= inserted'
               /\ \A r \in routes' : r.created # routeCall'[d].route.created
               /\ \A e \in RouteCalls \ {d} :
                    routeCall'[e].step = "route" => routeCall'[e].route.created # routeCall'[d].route.created
    <3>1. d # c /\ routeCall'[d] = routeCall[d] BY <1>0, <1>1, <2>3
    <3>2. routeCall[d].route.created \in Nat /\ routeCall[d].route.created <= inserted
      BY <1>5, <2>3, <3>1 DEF RoutingInv, RoutesInOrder
    <3>3. routeCall[d].route.created <= inserted' BY <3>2, <1>6, <1>7
    <3>4. \A r \in routes' : r.created # routeCall[d].route.created
      BY <1>7, <2>3, <3>1 DEF RoutingInv, RoutesInOrder
    <3>5. \A e \in RouteCalls \ {d} :
            routeCall'[e].step = "route" => routeCall'[e].route.created # routeCall[d].route.created
      BY <1>0, <1>1, <2>3, <3>1 DEF RoutingInv, RoutesInOrder
    <3> QED BY <3>1, <3>3, <3>4, <3>5
  <2> QED BY <2>1, <2>2, <2>3 DEF RoutesInOrder
<1>9. OneDefaultEach' BY DEF RoutingInv, OneDefaultEach
<1> QED BY <1>2, <1>3, <1>8, <1>9 DEF RoutingInv

LEMMA RoutingStep == RoutingInv /\ [ProvidersNext]_providerVars => RoutingInv'
<1> SUFFICES ASSUME RoutingInv, [ProvidersNext]_providerVars PROVE RoutingInv' OBVIOUS
<1>0. /\ inserted \in Nat /\ NoCall \in RouteCallRows /\ NoCall.step = "none"
      /\ NoCall.step # "route" /\ NoCall.step # "bootstrap"
  BY DEF RoutingInv, RoutingTypes, RouteCallRows, NoCall
<1>1. CASE UNCHANGED providerVars
  BY <1>1 DEF providerVars, RoutingInv, RoutingTypes, RoutesOfTenant, RoutesInOrder, OneDefaultEach
<1>2. ASSUME NEW a \in Accounts, TakeOut(a) PROVE RoutingInv'
  <2>1. accountStatus' \in [Accounts -> {"none", "ACTIVE", "DISABLED"}]
    BY <1>2 DEF TakeOut, RoutingInv, RoutingTypes
  <2>2. UNCHANGED <<defaultAccounts, routes, inserted, routeCall>> BY <1>2 DEF TakeOut
  <2>3. defaultAccounts' \subseteq Accounts /\ OneDefaultEach'
    BY <2>2 DEF RoutingInv, RoutingTypes, OneDefaultEach
  <2> QED BY <2>1, <2>2, <2>3, AccountsStep
<1>3. ASSUME NEW a \in Accounts, NEW asDefault \in {"true", "false", "absent"}, createOrgAccount(a, asDefault)
      PROVE  RoutingInv'
  BY <1>3, AccountCreated
<1>4. ASSUME NEW code, SwitchProvider(code) PROVE RoutingInv'
  <2>1. UNCHANGED <<accountStatus, defaultAccounts, routes, inserted, routeCall>>
    BY <1>4 DEF SwitchProvider
  <2>2. /\ accountStatus' \in [Accounts -> {"none", "ACTIVE", "DISABLED"}]
        /\ defaultAccounts' \subseteq Accounts /\ OneDefaultEach'
    BY <2>1 DEF RoutingInv, RoutingTypes, OneDefaultEach
  <2> QED BY <2>1, <2>2, AccountsStep
<1>5. ASSUME NEW c \in RouteCalls, CommitRoute(c) PROVE RoutingInv'
  <2> DEFINE kept == routes \ routeCall[c].seen
  <2>1. /\ routeCall[c].step = "route"
        /\ routes' = kept \cup {routeCall[c].route}
        /\ routeCall' = [routeCall EXCEPT ![c] = NoCall]
        /\ UNCHANGED <<accountStatus, defaultAccounts, inserted>>
    BY <1>5 DEF CommitRoute
  <2>2. kept \subseteq routes OBVIOUS
  <2>3. routeCall[c].route \in RouteRows /\ OfTenant(routeCall[c].route)
    BY <2>1, CallRows DEF RoutingInv, RoutesOfTenant
  <2> HIDE DEF kept
  <2> QED BY <2>1, <2>2, <2>3, CallCommits
<1>6. ASSUME NEW c \in RouteCalls, InsertBootstrapRoute(c) PROVE RoutingInv'
  <2> DEFINE new == [org |-> routeCall[c].org, env |-> "SANDBOX", currency |-> Any, method |-> Any,
                     account |-> stripeSandbox, priority |-> 10, created |-> inserted + 1]
  <2>1. /\ routeCall[c].step = "bootstrap"
        /\ routes' = routes \cup {new} /\ inserted' = inserted + 1
        /\ routeCall' = [routeCall EXCEPT ![c] = NoCall]
        /\ UNCHANGED <<accountStatus, defaultAccounts>>
    BY <1>6 DEF InsertBootstrapRoute
  <2>2. stripeSandbox \in Accounts /\ routeCall[c].org \in Orgs
    BY <2>1, CallRows DEF RoutingInv, RoutesOfTenant
  <2>3. new \in RouteRows BY <1>0, <2>2 DEF RouteRows, Environments
  <2>4. new.created = inserted + 1 OBVIOUS
  <2>5. OfTenant(new) BY DEF OfTenant, stripeSandbox
  <2> HIDE DEF new
  <2> QED BY <2>1, <2>3, <2>4, <2>5, CallCommits
<1>7. ASSUME NEW c \in RouteCalls, LoseRouteCall(c) PROVE RoutingInv'
  <2>1. /\ routeCall' = [routeCall EXCEPT ![c] = NoCall]
        /\ UNCHANGED <<accountStatus, defaultAccounts, routes>> /\ inserted' = inserted
    BY <1>7 DEF LoseRouteCall
  <2>2. inserted' \in Nat /\ inserted' >= inserted BY <1>0, <2>1
  <2> QED BY <1>0, <2>1, <2>2, CallBegins
<1>8. ASSUME NEW c \in RouteCalls, NEW org \in Orgs, bootstrapStripeRoutesDev(c, org) PROVE RoutingInv'
  <2> DEFINE row == [step |-> "bootstrap", org |-> org]
  <2>1. /\ routeCall' = [routeCall EXCEPT ![c] = row] /\ stripeSandbox \in Accounts
        /\ UNCHANGED <<accountStatus, defaultAccounts, routes>> /\ inserted' = inserted
    BY <1>8 DEF bootstrapStripeRoutesDev
  <2>2. inserted' \in Nat /\ inserted' >= inserted BY <1>0, <2>1
  <2>3. row \in RouteCallRows /\ row.step # "route" BY DEF RouteCallRows
  <2> HIDE DEF row
  <2> QED BY <2>1, <2>2, <2>3, CallBegins
<1>9. ASSUME NEW c \in RouteCalls, NEW org \in Orgs, NEW a \in Accounts,
             NEW currency \in Currencies \cup {Any}, NEW method \in Methods \cup {Any},
             NEW priority \in Priorities, upsertRoute(c, org, a.env, a, currency, method, priority)
      PROVE  RoutingInv'
  <2> DEFINE route == [org |-> org, env |-> a.env, currency |-> currency, method |-> method,
                       account |-> a, priority |-> priority, created |-> inserted + 1]
             row == [step |-> "route", seen |-> wildcards(org, a.env), route |-> route]
  <2>1. /\ routeCall' = [routeCall EXCEPT ![c] = row] /\ mayRouteTo(org, a, a.env)
        /\ UNCHANGED <<accountStatus, defaultAccounts, routes>> /\ inserted' = inserted + 1
    BY <1>9 DEF upsertRoute
  <2>2. inserted' \in Nat /\ inserted' >= inserted BY <1>0, <2>1
  <2>3. priority \in Nat /\ a.env \in Environments BY ProvidersAssumption DEF Environments
  <2>4. route \in RouteRows /\ route.created = inserted + 1 BY <1>0, <2>3 DEF RouteRows
  <2>5. OfTenant(route) BY <2>1 DEF OfTenant, mayRouteTo
  <2>6. wildcards(org, a.env) \subseteq RouteRows BY DEF wildcards, RoutingInv, RoutingTypes
  <2> HIDE DEF route
  <2>7. row \in RouteCallRows /\ row.route = route /\ row.step # "bootstrap" BY <2>4, <2>6 DEF RouteCallRows
  <2> HIDE DEF row
  <2> QED BY <2>1, <2>2, <2>4, <2>5, <2>7, CallBegins
<1> QED BY <1>1, <1>2, <1>3, <1>4, <1>5, <1>6, <1>7, <1>8, <1>9 DEF ProvidersNext

\* The order of the routes, written out.
CurrencyRank(r) == IF r.currency = Any THEN 1 ELSE 0
MethodRank(r) == IF r.method = Any THEN 1 ELSE 0
Sooner(r, s) ==
  \/ CurrencyRank(r) < CurrencyRank(s)
  \/ /\ CurrencyRank(r) = CurrencyRank(s)
     /\ \/ MethodRank(r) < MethodRank(s)
        \/ /\ MethodRank(r) = MethodRank(s)
           /\ \/ r.priority < s.priority
              \/ r.priority = s.priority /\ r.created < s.created

LEMMA PrecedesIsSooner ==
  ASSUME NEW r \in RouteRows, NEW s \in RouteRows
  PROVE  precedes(r, s) <=> Sooner(r, s)
<1> DEFINE last(code) == IF code = Any THEN 1 ELSE 0
           rank(x) == <<last(x.currency), last(x.method), x.priority, x.created>>
           before(p, q) == \E i \in 1..4 : p[i] < q[i] /\ \A j \in 1..(i - 1) : p[j] = q[j]
<1>1. precedes(r, s) = before(rank(r), rank(s)) BY DEF precedes
<1>2. /\ rank(r)[1] = CurrencyRank(r) /\ rank(r)[2] = MethodRank(r)
      /\ rank(r)[3] = r.priority /\ rank(r)[4] = r.created
      /\ rank(s)[1] = CurrencyRank(s) /\ rank(s)[2] = MethodRank(s)
      /\ rank(s)[3] = s.priority /\ rank(s)[4] = s.created
  BY DEF CurrencyRank, MethodRank
<1> HIDE DEF rank
<1>3. before(rank(r), rank(s))
        <=> \/ rank(r)[1] < rank(s)[1]
            \/ rank(r)[2] < rank(s)[2] /\ rank(r)[1] = rank(s)[1]
            \/ rank(r)[3] < rank(s)[3] /\ rank(r)[1] = rank(s)[1] /\ rank(r)[2] = rank(s)[2]
            \/ /\ rank(r)[4] < rank(s)[4]
               /\ rank(r)[1] = rank(s)[1] /\ rank(r)[2] = rank(s)[2] /\ rank(r)[3] = rank(s)[3]
  <2>1. /\ 1..4 = {1, 2, 3, 4} /\ 1..(1 - 1) = {} /\ 1..(2 - 1) = {1}
        /\ 1..(3 - 1) = {1, 2} /\ 1..(4 - 1) = {1, 2, 3}
    OBVIOUS
  <2>2. /\ before(rank(r), rank(s)) <=>
             \/ rank(r)[1] < rank(s)[1] /\ \A j \in 1..(1 - 1) : rank(r)[j] = rank(s)[j]
             \/ rank(r)[2] < rank(s)[2] /\ \A j \in 1..(2 - 1) : rank(r)[j] = rank(s)[j]
             \/ rank(r)[3] < rank(s)[3] /\ \A j \in 1..(3 - 1) : rank(r)[j] = rank(s)[j]
             \/ rank(r)[4] < rank(s)[4] /\ \A j \in 1..(4 - 1) : rank(r)[j] = rank(s)[j]
    BY <2>1
  <2> HIDE DEF before
  <2> QED BY <2>1, <2>2
<1> HIDE DEF before
<1> QED BY <1>1, <1>2, <1>3 DEF Sooner

\* Of routes that are there, one comes before all the others.
LEMMA FirstRouteExists ==
  ASSUME RoutingInv, NEW C, C \subseteq routes, C # {}
  PROVE  /\ firstRoute(C) \in C
         /\ \A s \in C \ {firstRoute(C)} : precedes(firstRoute(C), s)
<1>0. /\ C \subseteq RouteRows /\ \A r, s \in C : r.created = s.created => r = s
      /\ \A r \in C : /\ r.priority \in Nat /\ r.created \in Nat
                       /\ CurrencyRank(r) \in Nat /\ MethodRank(r) \in Nat
  BY DEF RoutingInv, RoutingTypes, RoutesInOrder, RouteRows, CurrencyRank, MethodRank
<1> DEFINE R1 == {CurrencyRank(r) : r \in C}
<1>1. PICK w \in R1 : \A v \in R1 : w <= v
  <2>1. R1 \in SUBSET Nat /\ R1 # {} BY <1>0
  <2> QED BY <2>1, LeastNatural
<1> DEFINE C2 == {r \in C : CurrencyRank(r) = w}
           R2 == {MethodRank(r) : r \in C2}
<1>2. C2 # {} BY <1>1
<1>3. PICK m \in R2 : \A v \in R2 : m <= v
  <2>1. R2 \in SUBSET Nat /\ R2 # {} BY <1>0, <1>2
  <2> QED BY <2>1, LeastNatural
<1> DEFINE C3 == {r \in C2 : MethodRank(r) = m}
           R3 == {r.priority : r \in C3}
<1>4. C3 # {} BY <1>3
<1>5. PICK p \in R3 : \A v \in R3 : p <= v
  <2>1. R3 \in SUBSET Nat /\ R3 # {} BY <1>0, <1>4
  <2> QED BY <2>1, LeastNatural
<1> DEFINE C4 == {r \in C3 : r.priority = p}
           R4 == {r.created : r \in C4}
<1>6. C4 # {} BY <1>5
<1>7. PICK c \in R4 : \A v \in R4 : c <= v
  <2>1. R4 \in SUBSET Nat /\ R4 # {} BY <1>0, <1>6
  <2> QED BY <2>1, LeastNatural
<1>8. PICK f \in C4 : f.created = c BY <1>7
<1>9. f \in C /\ CurrencyRank(f) = w /\ MethodRank(f) = m /\ f.priority = p BY <1>8
<1>10. ASSUME NEW s \in C \ {f} PROVE precedes(f, s)
  <2>1. f \in RouteRows /\ s \in RouteRows BY <1>0, <1>9
  <2>2. w <= CurrencyRank(s) BY <1>1
  <2>3. CurrencyRank(s) = w => m <= MethodRank(s) BY <1>3
  <2>4. CurrencyRank(s) = w /\ MethodRank(s) = m => p <= s.priority BY <1>5
  <2>5. CurrencyRank(s) = w /\ MethodRank(s) = m /\ s.priority = p => c <= s.created BY <1>7
  <2>6. f.created # s.created BY <1>0, <1>9
  <2>7. /\ w \in Nat /\ m \in Nat /\ p \in Nat /\ c \in Nat
        /\ CurrencyRank(s) \in Nat /\ MethodRank(s) \in Nat /\ s.priority \in Nat /\ s.created \in Nat
    BY <1>0, <1>8, <1>9
  <2>8. Sooner(f, s) BY <1>8, <1>9, <2>2, <2>3, <2>4, <2>5, <2>6, <2>7 DEF Sooner
  <2> QED BY <2>1, <2>8, PrecedesIsSooner
<1> QED BY <1>9, <1>10 DEF firstRoute

\* Whatever account is chosen, the last gate lets only a fitting one through.
LEMMA GateFits ==
  ASSUME NEW chosen, NEW env, NEW capability, NEW a \in finalizeResolve(chosen, env, capability)
  PROVE  a \in chosen /\ a.env = env /\ up(a) /\ <<a.provider, env, capability>> \in Evidence
BY DEF finalizeResolve, assertCapability

LEMMA RegionalGated ==
  ASSUME NEW org, NEW env, NEW currency, NEW capability,
         resolveRegional(org, env, currency, capability) # {}
  PROVE  \E code : resolveRegional(org, env, currency, capability)
                     = finalizeResolve(regionalAccount(org, code, env), env, capability)
BY DEF resolveRegional

LEMMA ResolvedFits ==
  ASSUME RoutingInv, NEW org \in Orgs, NEW env \in Environments, NEW currency, NEW method,
         NEW capability, NEW a \in resolve(org, env, currency, method, capability)
  PROVE  /\ a \in listAccounts(org) /\ a.env = env /\ up(a)
         /\ <<a.provider, env, capability>> \in Evidence
<1>1. ASSUME NEW chosen, a \in finalizeResolve(chosen, env, capability),
             \A b \in chosen : b \in Accounts /\ b.owner \in {org, "shared"}
      PROVE  /\ a \in listAccounts(org) /\ a.env = env /\ up(a)
             /\ <<a.provider, env, capability>> \in Evidence
  <2>1. /\ a \in chosen /\ a.env = env /\ up(a)
        /\ <<a.provider, env, capability>> \in Evidence
    BY <1>1, GateFits
  <2>2. a \in listAccounts(org) BY <1>1, <2>1 DEF listAccounts, up
  <2> QED BY <2>1, <2>2
<1> DEFINE candidates == routesFor(org, env, currency, method)
           regional == resolveRegional(org, env, currency, capability)
<1>2. CASE candidates # {}
  <2>1. candidates \subseteq routes /\ \A r \in candidates : r.org = org BY DEF routesFor
  <2>2. firstRoute(candidates) \in candidates BY <1>2, <2>1, FirstRouteExists
  <2>3. /\ firstRoute(candidates).account \in Accounts
        /\ firstRoute(candidates).account.owner \in {org, "shared"}
    BY <2>1, <2>2 DEF RoutingInv, RoutingTypes, RouteRows, RoutesOfTenant, OfTenant
  <2>4. a \in finalizeResolve({firstRoute(candidates).account}, env, capability)
    BY <1>2 DEF resolve
  <2> QED BY <2>3, <2>4, <1>1
<1>3. CASE candidates = {} /\ defaultOf(org, env) # {}
  <2>1. a \in finalizeResolve(defaultOf(org, env), env, capability) BY <1>3 DEF resolve
  <2>2. \A b \in defaultOf(org, env) : b \in Accounts /\ b.owner = org
    BY DEF defaultOf, RoutingInv, RoutingTypes
  <2> QED BY <2>1, <2>2, <1>1
<1>4. CASE candidates = {} /\ defaultOf(org, env) = {} /\ (regional # {} \/ env = "LIVE")
  <2>1. a \in regional BY <1>4 DEF resolve
  <2>2. PICK code : a \in finalizeResolve(regionalAccount(org, code, env), env, capability)
    BY <2>1, RegionalGated
  <2>3. \A b \in regionalAccount(org, code, env) : b \in Accounts /\ b.owner \in {org, "shared"}
    BY DEF regionalAccount, ofProvider
  <2> QED BY <2>2, <2>3, <1>1
<1>5. CASE candidates = {} /\ defaultOf(org, env) = {} /\ ~(regional # {} \/ env = "LIVE")
  <2>1. a \in finalizeResolve(ofProvider("shared", "sandbox", "SANDBOX"), env, capability)
    BY <1>5 DEF resolve
  <2>2. \A b \in ofProvider("shared", "sandbox", "SANDBOX") : b \in Accounts /\ b.owner = "shared"
    BY DEF ofProvider
  <2> QED BY <2>1, <2>2, <1>1
<1> QED BY <1>2, <1>3, <1>4, <1>5

LEMMA TenantFollows == RoutingInv => ResolvesWithinTenant
<1> SUFFICES ASSUME RoutingInv PROVE ResolvesWithinTenant OBVIOUS
<1>1. ASSUME NEW org \in Orgs, NEW deployment \in Deployments,
             NEW currency \in Currencies, NEW method \in Methods \cup {Any},
             NEW capability \in Capabilities, NEW env, env = resolvePaymentEnvironment(deployment),
             NEW a \in resolve(org, env, currency, method, capability)
                         \cup UNION {resolveExplicit(org, b, env, capability) : b \in Accounts}
      PROVE  /\ a \in listAccounts(org) /\ a.env = env /\ up(a)
             /\ <<a.provider, env, capability>> \in Evidence
  <2>1. env \in Environments BY <1>1 DEF resolvePaymentEnvironment, Environments
  <2>2. CASE a \in resolve(org, env, currency, method, capability) BY <2>1, <2>2, ResolvedFits
  <2>3. CASE a \in UNION {resolveExplicit(org, b, env, capability) : b \in Accounts}
    <3>1. PICK b \in Accounts : a \in resolveExplicit(org, b, env, capability) BY <2>3
    <3> DEFINE chosen == {x \in {b} : x.owner \in {org, "shared"}}
    <3>2. a \in finalizeResolve(chosen, env, capability) BY <3>1 DEF resolveExplicit
    <3>3. \A x \in chosen : x \in Accounts /\ x.owner \in {org, "shared"} OBVIOUS
    <3> HIDE DEF chosen
    <3>4. /\ a \in chosen /\ a.env = env /\ up(a)
          /\ <<a.provider, env, capability>> \in Evidence
      BY <3>2, GateFits
    <3>5. a \in listAccounts(org) BY <3>3, <3>4 DEF listAccounts, up
    <3> QED BY <3>4, <3>5
  <2> QED BY <2>2, <2>3
<1>2. \A a, b \in defaultAccounts : a.owner = b.owner /\ a.env = b.env => a = b
  BY DEF RoutingInv, OneDefaultEach
<1> QED BY <1>1, <1>2 DEF ResolvesWithinTenant

\* Of an organization and an environment no two calls met on: one call at
\* most is about them, it replaces the primary route there is, and there is
\* no second one.
About(c, org, env) == routeCall[c] # NoCall /\ planeOf(routeCall[c]) = <<org, env>>
Replaces(call) == IF call.step = "route" THEN call.seen ELSE {}

PrimaryKept ==
  \A org \in Orgs, env \in Environments : <<org, env>> \notin met =>
    /\ \A r, s \in wildcards(org, env) : r = s
    /\ \A c, d \in RouteCalls : About(c, org, env) /\ About(d, org, env) => c = d
    /\ \A c \in RouteCalls : About(c, org, env) => wildcards(org, env) \subseteq Replaces(routeCall[c])

LEMMA PrimaryBegins ==
  ASSUME RoutingInv, PrimaryKept, NEW c \in RouteCalls, NEW row, NEW o, NEW e,
         routeCall[c] = NoCall, routeCall' = [routeCall EXCEPT ![c] = row], UNCHANGED routes,
         planeOf(row) = <<o, e>>, noticed(o, e), wildcards(o, e) \subseteq Replaces(row)
  PROVE  PrimaryKept'
<1>1. routeCall'[c] = row /\ \A d \in RouteCalls : d # c => routeCall'[d] = routeCall[d]
  BY DEF RoutingInv, RoutingTypes
<1> SUFFICES ASSUME NEW org \in Orgs, NEW env \in Environments, <<org, env>> \notin met'
             PROVE  /\ \A r, s \in wildcards(org, env) : r = s
                    /\ \A d, f \in RouteCalls : About(d, org, env)' /\ About(f, org, env)' => d = f
                    /\ \A d \in RouteCalls : About(d, org, env)' =>
                         wildcards(org, env) \subseteq Replaces(routeCall'[d])
  BY DEF PrimaryKept, wildcards, Replaces
<1>2. /\ <<org, env>> \notin met
      /\ <<org, env>> = <<o, e>> => \A d \in RouteCalls : ~About(d, org, env)
  BY DEF noticed, About
<1>3. \A d \in RouteCalls : d # c => (About(d, org, env)' <=> About(d, org, env))
  BY <1>1 DEF About, planeOf
<1>4. About(c, org, env)' => <<org, env>> = <<o, e>> BY <1>1 DEF About, planeOf
<1>5. \A r, s \in wildcards(org, env) : r = s BY <1>2 DEF PrimaryKept
<1>6. ASSUME NEW d \in RouteCalls, NEW f \in RouteCalls, About(d, org, env)', About(f, org, env)'
      PROVE  d = f
  BY <1>2, <1>3, <1>4, <1>6 DEF PrimaryKept
<1>7. ASSUME NEW d \in RouteCalls, About(d, org, env)'
      PROVE  wildcards(org, env) \subseteq Replaces(routeCall'[d])
  <2>1. CASE d = c BY <2>1, <1>1, <1>4, <1>7
  <2>2. CASE d # c BY <2>2, <1>1, <1>2, <1>3, <1>7 DEF PrimaryKept
  <2> QED BY <2>1, <2>2
<1> QED BY <1>5, <1>6, <1>7

LEMMA PrimaryEnds ==
  ASSUME RoutingInv, PrimaryKept, NEW c \in RouteCalls, UNCHANGED met,
         routeCall' = [routeCall EXCEPT ![c] = NoCall],
         \A org \in Orgs, env \in Environments : <<org, env>> \notin met =>
           \/ wildcards(org, env)' \subseteq wildcards(org, env)
           \/ About(c, org, env) /\ \E r : wildcards(org, env)' \subseteq {r}
  PROVE  PrimaryKept'
<1>1. routeCall'[c] = NoCall /\ \A d \in RouteCalls : d # c => routeCall'[d] = routeCall[d]
  BY DEF RoutingInv, RoutingTypes
<1> SUFFICES ASSUME NEW org \in Orgs, NEW env \in Environments, <<org, env>> \notin met
             PROVE  /\ \A r, s \in wildcards(org, env)' : r = s
                    /\ \A d, f \in RouteCalls : About(d, org, env)' /\ About(f, org, env)' => d = f
                    /\ \A d \in RouteCalls : About(d, org, env)' =>
                         wildcards(org, env)' \subseteq Replaces(routeCall'[d])
  BY DEF PrimaryKept, Replaces
<1>2. \A d \in RouteCalls : About(d, org, env)' => d # c /\ About(d, org, env) /\ routeCall'[d] = routeCall[d]
  BY <1>1 DEF About, planeOf
<1>3. /\ \A r, s \in wildcards(org, env) : r = s
      /\ \A d, f \in RouteCalls : About(d, org, env) /\ About(f, org, env) => d = f
      /\ \A d \in RouteCalls : About(d, org, env) => wildcards(org, env) \subseteq Replaces(routeCall[d])
  BY DEF PrimaryKept
<1>4. \/ wildcards(org, env)' \subseteq wildcards(org, env)
      \/ About(c, org, env) /\ \E r : wildcards(org, env)' \subseteq {r}
  OBVIOUS
<1>5. \A r, s \in wildcards(org, env)' : r = s BY <1>3, <1>4
<1>6. \A d, f \in RouteCalls : About(d, org, env)' /\ About(f, org, env)' => d = f BY <1>2, <1>3
<1>7. \A d \in RouteCalls : About(d, org, env)' => wildcards(org, env)' \subseteq Replaces(routeCall'[d])
  BY <1>2, <1>3, <1>4
<1> QED BY <1>5, <1>6, <1>7

LEMMA PrimaryStep == RoutingInv /\ PrimaryKept /\ [ProvidersNext]_providerVars => PrimaryKept'
<1> SUFFICES ASSUME RoutingInv, PrimaryKept, [ProvidersNext]_providerVars PROVE PrimaryKept' OBVIOUS
<1>1. ASSUME UNCHANGED <<routes, routeCall, met>> PROVE PrimaryKept'
  BY <1>1 DEF PrimaryKept, wildcards, About, planeOf, Replaces
<1>2. ASSUME NEW c \in RouteCalls, CommitRoute(c) PROVE PrimaryKept'
  <2> DEFINE call == routeCall[c]
  <2>1. /\ call.step = "route" /\ call.route \in RouteRows /\ call # NoCall
        /\ routes' = (routes \ call.seen) \cup {call.route}
        /\ routeCall' = [routeCall EXCEPT ![c] = NoCall] /\ UNCHANGED met
    BY <1>2, CallRows DEF CommitRoute, RoutingInv, NoCall
  <2>2. ASSUME NEW org \in Orgs, NEW env \in Environments, <<org, env>> \notin met
        PROVE  \/ wildcards(org, env)' \subseteq wildcards(org, env)
               \/ About(c, org, env) /\ \E r : wildcards(org, env)' \subseteq {r}
    <3>1. CASE About(c, org, env)
      <4>1. wildcards(org, env) \subseteq call.seen BY <2>1, <2>2, <3>1 DEF PrimaryKept, Replaces
      <4>2. wildcards(org, env)' \subseteq {call.route} BY <4>1, <2>1 DEF wildcards
      <4> QED BY <3>1, <4>2
    <3>2. CASE ~About(c, org, env)
      <4>1. ~(call.route.org = org /\ call.route.env = env) BY <2>1, <3>2 DEF About, planeOf
      <4>2. wildcards(org, env)' \subseteq wildcards(org, env) BY <4>1, <2>1 DEF wildcards
      <4> QED BY <4>2
    <3> QED BY <3>1, <3>2
  <2> QED BY <2>1, <2>2, PrimaryEnds
<1>3. ASSUME NEW c \in RouteCalls, InsertBootstrapRoute(c) PROVE PrimaryKept'
  <2> DEFINE new == [org |-> routeCall[c].org, env |-> "SANDBOX", currency |-> Any, method |-> Any,
                     account |-> stripeSandbox, priority |-> 10, created |-> inserted + 1]
  <2>1. /\ routeCall[c].step = "bootstrap" /\ routeCall[c] # NoCall
        /\ routes' = routes \cup {new}
        /\ routeCall' = [routeCall EXCEPT ![c] = NoCall] /\ UNCHANGED met
    BY <1>3 DEF InsertBootstrapRoute, NoCall
  <2>2. new.org = routeCall[c].org /\ new.env = "SANDBOX" OBVIOUS
  <2> HIDE DEF new
  <2>3. ASSUME NEW org \in Orgs, NEW env \in Environments, <<org, env>> \notin met
        PROVE  \/ wildcards(org, env)' \subseteq wildcards(org, env)
               \/ About(c, org, env) /\ \E r : wildcards(org, env)' \subseteq {r}
    <3>1. CASE About(c, org, env)
      <4>1. wildcards(org, env) = {} BY <2>1, <2>3, <3>1 DEF PrimaryKept, Replaces
      <4>2. wildcards(org, env)' \subseteq {new} BY <4>1, <2>1 DEF wildcards
      <4> QED BY <3>1, <4>2
    <3>2. CASE ~About(c, org, env)
      <4>1. ~(new.org = org /\ new.env = env) BY <2>1, <2>2, <3>2 DEF About, planeOf
      <4>2. wildcards(org, env)' \subseteq wildcards(org, env) BY <4>1, <2>1 DEF wildcards
      <4> QED BY <4>2
    <3> QED BY <3>1, <3>2
  <2> QED BY <2>1, <2>3, PrimaryEnds
<1>4. ASSUME NEW c \in RouteCalls, LoseRouteCall(c) PROVE PrimaryKept'
  <2>1. routeCall' = [routeCall EXCEPT ![c] = NoCall] /\ UNCHANGED <<routes, met>>
    BY <1>4 DEF LoseRouteCall
  <2>2. \A org, env : wildcards(org, env)' = wildcards(org, env) BY <2>1 DEF wildcards
  <2> QED BY <2>1, <2>2, PrimaryEnds
<1>5. ASSUME NEW c \in RouteCalls, NEW org \in Orgs, bootstrapStripeRoutesDev(c, org) PROVE PrimaryKept'
  <2> DEFINE row == [step |-> "bootstrap", org |-> org]
  <2>1. /\ routeCall[c] = NoCall /\ routeCall' = [routeCall EXCEPT ![c] = row]
        /\ UNCHANGED routes /\ noticed(org, "SANDBOX")
        /\ ~\E r \in routes : r.org = org /\ r.env = "SANDBOX"
    BY <1>5 DEF bootstrapStripeRoutesDev
  <2>2. planeOf(row) = <<org, "SANDBOX">> BY DEF planeOf
  <2>3. wildcards(org, "SANDBOX") \subseteq Replaces(row) BY <2>1 DEF wildcards
  <2> HIDE DEF row
  <2> QED BY <2>1, <2>2, <2>3, PrimaryBegins
<1>6. ASSUME NEW c \in RouteCalls, NEW org \in Orgs, NEW a \in Accounts, NEW currency, NEW method,
             NEW priority, upsertRoute(c, org, a.env, a, currency, method, priority)
      PROVE  PrimaryKept'
  <2> DEFINE route == [org |-> org, env |-> a.env, currency |-> currency, method |-> method,
                       account |-> a, priority |-> priority, created |-> inserted + 1]
             row == [step |-> "route", seen |-> wildcards(org, a.env), route |-> route]
  <2>1. /\ routeCall[c] = NoCall /\ routeCall' = [routeCall EXCEPT ![c] = row]
        /\ UNCHANGED routes /\ noticed(org, a.env)
    BY <1>6 DEF upsertRoute
  <2>2. planeOf(row) = <<org, a.env>> BY DEF planeOf
  <2>3. wildcards(org, a.env) \subseteq Replaces(row) BY DEF Replaces
  <2> HIDE DEF row
  <2> QED BY <2>1, <2>2, <2>3, PrimaryBegins
<1>7. ASSUME NEW a \in Accounts, TakeOut(a) PROVE PrimaryKept' BY <1>7, <1>1 DEF TakeOut
<1>8. ASSUME NEW a \in Accounts, NEW asDefault, createOrgAccount(a, asDefault) PROVE PrimaryKept'
  BY <1>8, <1>1 DEF createOrgAccount
<1>9. ASSUME NEW code, SwitchProvider(code) PROVE PrimaryKept' BY <1>9, <1>1 DEF SwitchProvider
<1>10. CASE UNCHANGED providerVars BY <1>10, <1>1 DEF providerVars
<1> QED BY <1>2, <1>3, <1>4, <1>5, <1>6, <1>7, <1>8, <1>9, <1>10 DEF ProvidersNext

\* The one primary route shown is then the only one the router takes.
LEMMA WhereShownFollows == RoutingInv /\ PrimaryKept => ReadyGoesWhereShown
<1> SUFFICES ASSUME RoutingInv, PrimaryKept,
                    NEW env \in Environments, NEW currency \in Currencies, NEW method \in Methods,
                    NEW capability \in Capabilities,
                    readyFor(env), <<Merchant, env>> \notin met, special(env) = {},
                    \A r \in wildcards(Merchant, env) : up(r.account)
             PROVE  \E code \in shown(env) :
                      /\ shown(env) = {code}
                      /\ \A a \in resolve(Merchant, env, currency, method, capability) : a.provider = code
  BY DEF ReadyGoesWhereShown
<1> DEFINE all == wildcards(Merchant, env)
           candidates == routesFor(Merchant, env, currency, method)
<1>1. all # {}
  <2>1. shown(env) # {} BY DEF readyFor, Environments
  <2> QED BY <2>1 DEF shown
<1>2. PICK r : r \in all BY <1>1
<1>3. all = {r}
  <2>1. Merchant \in Orgs BY <1>2 DEF wildcards, RoutingInv, RoutingTypes, RouteRows
  <2>2. \A s, t \in all : s = t BY <2>1 DEF PrimaryKept
  <2> QED BY <1>2, <2>2
<1>4. shown(env) = {r.account.provider}
  <2>1. r.priority \in Nat BY <1>2 DEF wildcards, RoutingInv, RoutingTypes, RouteRows
  <2> QED BY <1>3, <2>1 DEF shown
<1>5. candidates = {r}
  <2>1. candidates \subseteq all BY DEF special, listRoutes, routesFor
  <2>2. r \in candidates BY <1>2 DEF wildcards, routesFor
  <2> QED BY <1>3, <2>1, <2>2
<1>6. firstRoute(candidates) = r BY <1>5 DEF firstRoute
<1>7. ASSUME NEW a \in resolve(Merchant, env, currency, method, capability) PROVE a.provider = r.account.provider
  <2>1. candidates # {} BY <1>5
  <2>2. a \in finalizeResolve({firstRoute(candidates).account}, env, capability)
    BY <2>1, <1>7 DEF resolve
  <2>3. a \in {firstRoute(candidates).account} BY <2>2 DEF finalizeResolve
  <2> HIDE DEF candidates
  <2> QED BY <2>3, <1>6
<1>8. r.account.provider \in shown(env) /\ shown(env) = {r.account.provider} BY <1>4
<1> HIDE DEF candidates, all
<1> QED BY <1>7, <1>8

\* For any organizations, accounts and routes, whatever is added, deleted and
\* started at once: a payment goes through an account of its own organization
\* or of the platform that is up and of its environment.  Where no two calls
\* about an organization's environment overlapped, its primary route replaced
\* the one before; and, without special routes and with the account in
\* service, a merchant shown ready gets the one provider shown.
THEOREM RoutesHold == RoutingSpec => []RoutingHolds
<1>1. ProvidersInit => PrimaryKept
  BY DEF ProvidersInit, PrimaryKept, wildcards, About
<1>2. RoutingInv /\ PrimaryKept => RoutingHolds
  BY TenantFollows, WhereShownFollows DEF RoutingHolds, PrimaryIsReplaced, PrimaryKept
<1> QED BY <1>1, <1>2, RoutingStarts, RoutingStep, PrimaryStep, PTL DEF RoutingSpec

-----------------------------------------------------------------------------
(* The verification of a merchant.                                         *)

\* Every operation of the case and every edit, whatever the requirements are.
KybNext == CaseNext \/ ProfileNext \/ PeopleNext \/ submit
KybSpec == KybInit(requirements) /\ [][KybNext]_kybVars

CaseRows == [number : Nat, status : KybStatuses, version : Nat, risk : RiskCategories]
PersonRows ==
  {Nobody} \cup [kind : {"owner"}, percent : Nat]
    \cup [kind : {"director", "representative"}, percent : Nat]
WriteRows ==
  [sections : SUBSET Sections, whole : SUBSET Sections, person : {None}, becomes : {Nobody}]
    \cup [sections : {{}}, whole : {{}}, person : Persons, becomes : PersonRows]
EditRows == [step : {"begun"}, locked : BOOLEAN, write : WriteRows]

KybTypes ==
  /\ kase \in CaseRows
  /\ person \in [Persons -> PersonRows]
  /\ edit \in [Editors -> {NoEdit} \cup EditRows]
  /\ announced \subseteq {"kyb-submit", "kyb-decide"} \X Nat \X Nat

\* One edit at most holds the lock of the case's row, and as long as it does
\* the case stays one that may be edited.
LocksEditable ==
  /\ \A e \in Editors : edit[e] # NoEdit /\ edit[e].locked =>
       kase.status \in {"DRAFT", "NEEDS_INFORMATION", "APPROVED"}
  /\ \A e, f \in Editors :
       edit[e] # NoEdit /\ edit[e].locked /\ edit[f] # NoEdit /\ edit[f].locked => e = f

\* Every key that was announced is of an earlier case or an earlier version.
KeysAreOld ==
  /\ ~unannounced
  /\ \A w \in {"kyb-submit", "kyb-decide"}, n \in Nat, v \in Nat :
       <<w, n, v>> \in announced => n < kase.number \/ (n = kase.number /\ v < kase.version)

OwnDataHolds(risk) ==
  \A r \in applicableRequirements(risk) : r.type \in OwnData => satisfied(r.type)

ApprovedIsDecided ==
  /\ kase.status = "APPROVED" /\ ~stray => asDecided
  /\ kase.status = "SUBMITTED" /\ ~stray => OwnDataHolds(kase.risk)

Entering(e) == edit[e] # NoEdit /\ edit[e].write.becomes.kind = "owner"

\* The owner under way, of whom there is one at most, has room.
OwnersWithin ==
  /\ ownership <= 100
  /\ \A e \in Editors : Entering(e) => ownership + edit[e].write.becomes.percent <= 100
  /\ \A e, f \in Editors : Entering(e) /\ Entering(f) => e = f

KybInv == KybTypes /\ LocksEditable /\ KeysAreOld /\ ApprovedIsDecided /\ OwnersWithin

LEMMA OwnersSum ==
  ASSUME KybTypes
  PROVE  /\ IsFiniteSet(Active("owner")) /\ Active("owner") \subseteq Persons
         /\ \A p \in Persons : person[p].percent \in Nat
         /\ ownership \in Int
<1>1. IsFiniteSet(Active("owner")) /\ Active("owner") \subseteq Persons
  BY KybAssumption, FS_Subset DEF Active
<1>2. \A p \in Persons : person[p].percent \in Nat BY DEF KybTypes, PersonRows, Nobody
<1> DEFINE f == [p \in Persons |-> person[p].percent]
<1>3. \A p \in Active("owner") : f[p] \in Int BY <1>1, <1>2
<1>4. ownership = SumOver(f, Active("owner")) BY DEF ownership
<1> HIDE DEF f
<1>5. ownership \in Int BY <1>1, <1>3, <1>4, SumOverInt
<1> QED BY <1>1, <1>2, <1>5

LEMMA KybStarts == KybInit(requirements) => KybInv
<1> SUFFICES ASSUME KybInit(requirements) PROVE KybInv OBVIOUS
<1> USE DEF KybInit
<1>1. KybTypes BY DEF KybTypes, CaseRows, KybStatuses, RiskCategories, PersonRows
<1>2. LocksEditable BY DEF LocksEditable
<1>3. KeysAreOld BY DEF KeysAreOld
<1>4. ApprovedIsDecided BY DEF ApprovedIsDecided
<1>5. OwnersWithin
  <2>1. Active("owner") = {} BY DEF Active, Nobody
  <2>2. ownership = 0 BY <2>1, SumOverEmpty DEF ownership
  <2>3. \A e \in Editors : ~Entering(e) BY DEF Entering
  <2> QED BY <2>2, <2>3 DEF OwnersWithin
<1> QED BY <1>1, <1>2, <1>3, <1>4, <1>5 DEF KybInv

\* Steps of the case that leave people and edits alone: while an edit holds
\* the lock, the case stays one that may be edited.
LEMMA CaseMoves ==
  ASSUME KybInv, UNCHANGED <<person, edit>>, kase' \in CaseRows,
         announced' \subseteq {"kyb-submit", "kyb-decide"} \X Nat \X Nat,
         caseFree \/ kase'.status = kase.status \/ kase'.status = "DRAFT",
         KeysAreOld', ApprovedIsDecided'
  PROVE  KybInv'
<1>1. KybTypes' BY DEF KybInv, KybTypes
<1>2. LocksEditable' BY DEF KybInv, LocksEditable, caseFree
<1>3. ownership' = ownership BY DEF ownership, Active
<1>4. OwnersWithin' BY <1>3 DEF KybInv, OwnersWithin, Entering
<1> QED BY <1>1, <1>2, <1>4 DEF KybInv

\* What the requirements on the merchant's own data say depends on the data.
LEMMA OwnDataKept ==
  ASSUME UNCHANGED <<requirements, profile, person>>, NEW risk
  PROVE  OwnDataHolds(risk) <=> OwnDataHolds(risk)'
<1>1. ownership' = ownership BY DEF ownership, Active
<1>2. ASSUME NEW type \in OwnData PROVE satisfied(type)' <=> satisfied(type)
  <2>1. CASE type \in Sections BY <2>1 DEF satisfied
  <2>2. CASE type = "PERSON_MIN" BY <2>2 DEF satisfied, Sections
  <2>3. CASE type = "OWNERSHIP_TOTAL_MAX" BY <2>3, <1>1 DEF satisfied, Sections
  <2> QED BY <2>1, <2>2, <2>3 DEF OwnData
<1>3. applicableRequirements(risk)' = applicableRequirements(risk) BY DEF applicableRequirements
<1> QED BY <1>2, <1>3 DEF OwnDataHolds

LEMMA ApprovalKept ==
  ASSUME ApprovedIsDecided, UNCHANGED <<requirements, kase, profile, person, asDecided, stray>>
  PROVE  ApprovedIsDecided'
<1>1. PICK risk : risk = kase.risk OBVIOUS
<1>2. OwnDataHolds(risk) <=> OwnDataHolds(risk)' BY OwnDataKept
<1>3. kase'.risk = risk BY <1>1
<1>4. OwnDataHolds(kase.risk) => OwnDataHolds(kase.risk)' BY <1>1, <1>2, <1>3 DEF OwnDataHolds
<1> QED BY <1>4 DEF ApprovedIsDecided

\* The draft that is made where there is no live case has a new number.
LEMMA DraftIsNew ==
  ASSUME KybInv
  PROVE  /\ existingOrDraft \in CaseRows
         /\ live => existingOrDraft = kase
         /\ ~live => /\ existingOrDraft.number = kase.number + 1
                     /\ existingOrDraft.status = "DRAFT"
         /\ kase.number \in Nat /\ kase.version \in Nat
<1>1. kase \in CaseRows BY DEF KybInv, KybTypes
<1>2. kase.number \in Nat /\ kase.version \in Nat BY <1>1 DEF CaseRows
<1> QED BY <1>1, <1>2 DEF existingOrDraft, CaseRows, KybStatuses, RiskCategories

\* What was announced is old to the case, and stays so as it goes on; a key
\* of its own version is new.
LEMMA KeysStayOld ==
  ASSUME KybInv, announced' = announced, unannounced' = unannounced, kase' \in CaseRows,
         \/ kase'.number = kase.number /\ kase'.version >= kase.version
         \/ kase'.number = kase.number + 1
  PROVE  KeysAreOld'
<1>1. /\ kase.number \in Nat /\ kase.version \in Nat
      /\ kase'.number \in Nat /\ kase'.version \in Nat
  BY DEF KybInv, KybTypes, CaseRows
<1>2. ASSUME NEW w \in {"kyb-submit", "kyb-decide"}, NEW n \in Nat, NEW v \in Nat, <<w, n, v>> \in announced
      PROVE  n < kase'.number \/ (n = kase'.number /\ v < kase'.version)
  <2>1. n < kase.number \/ (n = kase.number /\ v < kase.version) BY <1>2 DEF KybInv, KeysAreOld
  <2> QED BY <1>1, <2>1
<1> QED BY <1>2 DEF KybInv, KeysAreOld

LEMMA NewKeyAnnounced ==
  ASSUME KybInv, NEW what \in {"kyb-submit", "kyb-decide"}, emitOutboxEvent(what),
         kase' \in CaseRows, kase'.number = existingOrDraft.number,
         kase'.version = existingOrDraft.version + 1
  PROVE  /\ KeysAreOld'
         /\ announced' \subseteq {"kyb-submit", "kyb-decide"} \X Nat \X Nat
<1> DEFINE m == existingOrDraft.number
           u == existingOrDraft.version
<1>1. /\ m \in Nat /\ u \in Nat /\ kase.number \in Nat /\ kase.version \in Nat
      /\ \/ m = kase.number /\ u = kase.version
         \/ m = kase.number + 1
  BY DraftIsNew DEF CaseRows
<1>2. /\ announced' = announced \cup {<<what, m, u>>}
      /\ unannounced' = (unannounced \/ <<what, m, u>> \in announced)
      /\ kase'.number = m /\ kase'.version = u + 1
  BY DEF emitOutboxEvent, keyOf
<1> HIDE DEF m, u
<1>3. \A w \in {"kyb-submit", "kyb-decide"}, n \in Nat, v \in Nat :
        <<w, n, v>> \in announced => n < kase.number \/ (n = kase.number /\ v < kase.version)
  BY DEF KybInv, KeysAreOld
<1>4. <<what, m, u>> \notin announced BY <1>1, <1>3
<1>5. ~unannounced' BY <1>2, <1>4 DEF KybInv, KeysAreOld
<1>6. ASSUME NEW w \in {"kyb-submit", "kyb-decide"}, NEW n \in Nat, NEW v \in Nat, <<w, n, v>> \in announced'
      PROVE  n < kase'.number \/ (n = kase'.number /\ v < kase'.version)
  <2>1. CASE <<w, n, v>> \in announced
    <3>1. n < kase.number \/ (n = kase.number /\ v < kase.version) BY <2>1, <1>3
    <3> QED BY <3>1, <1>1, <1>2
  <2>2. CASE <<w, n, v>> = <<what, m, u>> BY <2>2, <1>1, <1>2
  <2> QED BY <1>2, <1>6, <2>1, <2>2
<1>7. KeysAreOld' BY <1>5, <1>6 DEF KeysAreOld
<1>8. announced' \subseteq {"kyb-submit", "kyb-decide"} \X Nat \X Nat
  BY <1>1, <1>2 DEF KybInv, KybTypes
<1> QED BY <1>7, <1>8

\* A row moved on to another status.
LEMMA RowMovesOn ==
  ASSUME NEW c \in CaseRows, NEW to \in KybStatuses,
         NEW k, k = [c EXCEPT !.status = to, !.version = @ + 1]
  PROVE  /\ k \in CaseRows /\ k.status = to /\ k.number = c.number
         /\ k.version = c.version + 1 /\ k.risk = c.risk
<1>1. /\ c.number \in Nat /\ c.version \in Nat /\ c.risk \in RiskCategories
      /\ c = [number |-> c.number, status |-> c.status, version |-> c.version, risk |-> c.risk]
  BY DEF CaseRows
<1>2. k = [number |-> c.number, status |-> to, version |-> c.version + 1, risk |-> c.risk]
  BY <1>1
<1>3. c.version + 1 \in Nat BY <1>1
<1> QED BY <1>1, <1>2, <1>3 DEF CaseRows

\* A step of the case to another status, which nobody's edit is under way of.
LEMMA Transitions ==
  ASSUME KybInv, NEW to \in {"UNDER_REVIEW", "NEEDS_INFORMATION", "SUSPENDED"}, transitionCase(to),
         UNCHANGED <<requirements, profile, person, edit, announced, asDecided, stray, unannounced>>
  PROVE  KybInv'
<1> DEFINE k == [kase EXCEPT !.status = to, !.version = @ + 1]
<1>1. kase \in CaseRows /\ kase' = k /\ caseFree BY DEF transitionCase, KybInv, KybTypes
<1>2. k \in CaseRows /\ k.status = to /\ k.number = kase.number /\ k.version = kase.version + 1
  <2>1. to \in KybStatuses BY DEF KybStatuses
  <2>2. kase \in CaseRows BY <1>1
  <2>3. k = [kase EXCEPT !.status = to, !.version = @ + 1] OBVIOUS
  <2> HIDE DEF k
  <2> QED BY <2>1, <2>2, <2>3, RowMovesOn, Zenon
<1>3. kase.version \in Nat BY <1>1 DEF CaseRows
<1> HIDE DEF k
<1>4. KeysAreOld' BY <1>1, <1>2, <1>3, KeysStayOld
<1>5. ApprovedIsDecided' BY <1>1, <1>2 DEF ApprovedIsDecided
<1>6. announced' \subseteq {"kyb-submit", "kyb-decide"} \X Nat \X Nat BY DEF KybInv, KybTypes
<1> QED BY <1>1, <1>2, <1>4, <1>5, <1>6, CaseMoves

LEMMA OverviewRead == ASSUME KybInv, getCaseOverview PROVE KybInv'
<1>1. /\ kase' = existingOrDraft
      /\ UNCHANGED <<requirements, profile, person, edit, announced, asDecided, stray, unannounced>>
  BY DEF getCaseOverview
<1>2. /\ existingOrDraft \in CaseRows
      /\ live => existingOrDraft = kase
      /\ ~live => existingOrDraft.number = kase.number + 1 /\ existingOrDraft.status = "DRAFT"
      /\ kase.number \in Nat /\ kase.version \in Nat
  BY DraftIsNew
<1>3. KeysAreOld' BY <1>1, <1>2, KeysStayOld
<1>4. ApprovedIsDecided'
  <2>1. CASE live
    <3>1. kase' = kase BY <2>1, <1>1, <1>2
    <3> QED BY <1>1, <3>1, ApprovalKept DEF KybInv
  <2>2. CASE ~live BY <2>2, <1>1, <1>2 DEF ApprovedIsDecided
  <2> QED BY <2>1, <2>2
<1>5. kase'.status = kase.status \/ kase'.status = "DRAFT" BY <1>1, <1>2
<1>6. announced' \subseteq {"kyb-submit", "kyb-decide"} \X Nat \X Nat BY <1>1 DEF KybInv, KybTypes
<1> QED BY <1>1, <1>2, <1>3, <1>4, <1>5, <1>6, CaseMoves

LEMMA Decided ==
  ASSUME KybInv, NEW decision \in {"APPROVED", "REJECTED"}, NEW risk \in RiskCategories,
         decide(decision, risk)
  PROVE  KybInv'
<1> DEFINE k == [kase EXCEPT !.status = decision, !.version = @ + 1,
                             !.risk = IF risk = "none" THEN @ ELSE risk]
<1>1. /\ kase \in CaseRows /\ kase' = k /\ caseFree /\ <<kase.status, decision>> \in TRANSITIONS
      /\ emitOutboxEvent("kyb-decide") /\ asDecided' = (decision = "APPROVED")
      /\ UNCHANGED <<person, edit>>
  BY DEF decide, KybInv, KybTypes
<1>2. k \in CaseRows /\ k.status = decision /\ k.number = kase.number /\ k.version = kase.version + 1
  <2>1. PICK category : category = IF risk = "none" THEN kase.risk ELSE risk OBVIOUS
  <2>2. decision \in KybStatuses /\ category \in RiskCategories
    BY <1>1, <2>1 DEF CaseRows, KybStatuses
  <2>3. /\ kase.number \in Nat /\ kase.version \in Nat
        /\ kase = [number |-> kase.number, status |-> kase.status, version |-> kase.version,
                   risk |-> kase.risk]
    BY <1>1 DEF CaseRows
  <2>4. k = [number |-> kase.number, status |-> decision, version |-> kase.version + 1,
             risk |-> category]
    <3>1. CASE risk = "none"
      <4>1. category = kase.risk BY <2>1, <3>1
      <4>2. k = [kase EXCEPT !.status = decision, !.version = @ + 1] BY <2>3, <3>1
      <4> HIDE DEF k
      <4> QED BY <2>3, <4>1, <4>2
    <3>2. CASE risk # "none"
      <4>1. category = risk BY <2>1, <3>2
      <4>2. k = [kase EXCEPT !.status = decision, !.version = @ + 1, !.risk = risk] BY <3>2
      <4> HIDE DEF k
      <4> QED BY <2>3, <4>1, <4>2
    <3> QED BY <3>1, <3>2
  <2>5. kase.version + 1 \in Nat BY <2>3
  <2> HIDE DEF k
  <2> QED BY <2>2, <2>3, <2>4, <2>5 DEF CaseRows
<1> HIDE DEF k
<1>3. live BY <1>1 DEF live, TRANSITIONS
<1>4. existingOrDraft = kase BY <1>3, DraftIsNew
<1>5. KeysAreOld' /\ announced' \subseteq {"kyb-submit", "kyb-decide"} \X Nat \X Nat
  BY <1>1, <1>2, <1>4, NewKeyAnnounced
<1>6. ApprovedIsDecided' BY <1>1, <1>2 DEF ApprovedIsDecided
<1> QED BY <1>1, <1>2, <1>5, <1>6, CaseMoves

LEMMA Submitted == ASSUME KybInv, submit PROVE KybInv'
<1> DEFINE d == existingOrDraft
           k == [d EXCEPT !.status = "SUBMITTED", !.version = @ + 1]
<1>1. /\ kase' = k /\ caseFree /\ emitOutboxEvent("kyb-submit")
      /\ evaluateRequirements(d.risk) = {}
      /\ UNCHANGED <<requirements, profile, person, edit>>
  BY DEF submit, getOrCreateCase
<1>2. d \in CaseRows BY DraftIsNew
<1>3. /\ k \in CaseRows /\ k.status = "SUBMITTED" /\ k.number = d.number
      /\ k.version = d.version + 1 /\ k.risk = d.risk
  <2>1. "SUBMITTED" \in KybStatuses BY DEF KybStatuses
  <2> HIDE DEF d
  <2> QED BY <1>2, <2>1, RowMovesOn
<1> HIDE DEF k
<1>4. KeysAreOld' /\ announced' \subseteq {"kyb-submit", "kyb-decide"} \X Nat \X Nat
  BY <1>1, <1>3, NewKeyAnnounced DEF d
<1>5. PICK risk : risk = d.risk OBVIOUS
<1>6. OwnDataHolds(risk)
  BY <1>1, <1>5 DEF evaluateRequirements, OwnDataHolds
<1>7. ApprovedIsDecided'
  <2>1. OwnDataHolds(risk)' BY <1>1, <1>6, OwnDataKept
  <2>2. kase'.risk = risk BY <1>1, <1>3, <1>5
  <2>3. OwnDataHolds(kase.risk)' BY <2>1, <2>2 DEF OwnDataHolds
  <2> QED BY <1>1, <1>3, <2>3 DEF ApprovedIsDecided
<1> QED BY <1>1, <1>3, <1>4, <1>7, CaseMoves

\* An edit that begins: it may have the lock, and an owner it enters has room.
LEMMA EditBegins ==
  ASSUME KybInv, NEW e \in Editors, NEW write \in WriteRows, assertKybEditable(e, write),
         write.becomes.kind = "owner" => ownersFree /\ ownership + write.becomes.percent <= 100
  PROVE  KybInv'
<1> DEFINE row == [step |-> "begun", locked |-> live, write |-> write]
<1>0. live \in BOOLEAN BY DEF live
<1>1. /\ edit[e] = NoEdit /\ edit' = [edit EXCEPT ![e] = row]
      /\ live => caseFree /\ kase.status \in {"DRAFT", "NEEDS_INFORMATION", "APPROVED"}
      /\ UNCHANGED <<requirements, kase, profile, person, announced, asDecided, stray, unannounced>>
  BY DEF assertKybEditable
<1>2. row \in EditRows /\ (row.locked => live) /\ row.write = write BY <1>0 DEF EditRows
<1> HIDE DEF row
<1>3. /\ edit' \in [Editors -> {NoEdit} \cup EditRows] /\ edit'[e] = row
      /\ \A f \in Editors : f # e => edit'[f] = edit[f]
  BY <1>1, <1>2 DEF KybInv, KybTypes
<1>4. KybTypes' BY <1>1, <1>3 DEF KybInv, KybTypes
<1>5. LocksEditable' BY <1>1, <1>2, <1>3 DEF KybInv, LocksEditable, caseFree
<1>6. KeysAreOld' BY <1>1 DEF KybInv, KeysAreOld
<1>7. ApprovedIsDecided'
  BY <1>1, ApprovalKept DEF KybInv
<1>8. OwnersWithin'
  <2>1. ownership' = ownership BY <1>1 DEF ownership, Active
  <2>2. ASSUME NEW f \in Editors, Entering(f)' PROVE f = e \/ Entering(f)
    BY <1>3, <2>2 DEF Entering
  <2>3. Entering(e)' => write.becomes.kind = "owner" BY <1>2, <1>3 DEF Entering
  <2>4. write.becomes.kind = "owner" => \A f \in Editors : ~Entering(f)
    BY DEF ownersFree, Entering
  <2>5. \A f \in Editors : Entering(f)' => ownership' + edit'[f].write.becomes.percent <= 100
    BY <1>2, <1>3, <2>1, <2>2, <2>3 DEF KybInv, OwnersWithin
  <2>6. \A f, g \in Editors : Entering(f)' /\ Entering(g)' => f = g
    BY <2>2, <2>3, <2>4 DEF KybInv, OwnersWithin
  <2> QED BY <2>1, <2>5, <2>6 DEF KybInv, OwnersWithin
<1> QED BY <1>4, <1>5, <1>6, <1>7, <1>8 DEF KybInv

\* An edit that ends without a trace.
LEMMA EditFails ==
  ASSUME KybInv, NEW e \in Editors, FailEdit(e)
  PROVE  KybInv'
<1>1. /\ edit' = [edit EXCEPT ![e] = NoEdit]
      /\ UNCHANGED <<requirements, kase, profile, person, announced, asDecided, stray, unannounced>>
  BY DEF FailEdit
<1>2. /\ edit' \in [Editors -> {NoEdit} \cup EditRows]
      /\ \A f \in Editors : edit'[f] # NoEdit => f # e /\ edit'[f] = edit[f]
  BY <1>1 DEF KybInv, KybTypes
<1>3. KybTypes' BY <1>1, <1>2 DEF KybInv, KybTypes
<1>4. LocksEditable' BY <1>1, <1>2 DEF KybInv, LocksEditable
<1>5. KeysAreOld' BY <1>1 DEF KybInv, KeysAreOld
<1>6. ApprovedIsDecided'
  BY <1>1, ApprovalKept DEF KybInv
<1>7. OwnersWithin'
  <2>1. ownership' = ownership BY <1>1 DEF ownership, Active
  <2>2. \A f \in Editors : Entering(f)' => Entering(f) /\ edit'[f] = edit[f] BY <1>2 DEF Entering
  <2> QED BY <2>1, <2>2 DEF KybInv, OwnersWithin
<1> QED BY <1>3, <1>4, <1>5, <1>6, <1>7 DEF KybInv

\* What a committed edit does to the sum of the shares.
LEMMA SharesMove ==
  ASSUME KybInv, NEW e \in Editors, CommitEdit(e)
  PROVE  /\ person' \in [Persons -> PersonRows]
         /\ ownership' \in Int /\ ownership' <= 100
         /\ ~Entering(e) => ownership' <= ownership
<1> DEFINE w == edit[e].write
           f == [p \in Persons |-> person[p].percent]
           g == [p \in Persons |-> person'[p].percent]
           A == Active("owner")
<1>1. /\ edit[e] # NoEdit /\ w \in WriteRows
      /\ w.person # None => (w.becomes = Nobody) = (person[w.person] # Nobody)
      /\ person' = [p \in Persons |-> IF p = w.person THEN w.becomes ELSE person[p]]
  BY DEF CommitEdit, KybInv, KybTypes, EditRows
<1>2. /\ IsFiniteSet(A) /\ A \subseteq Persons /\ ownership \in Int /\ ownership <= 100
      /\ person \in [Persons -> PersonRows] /\ None \notin Persons
      /\ ownership = SumOver(f, A) /\ ownership' = SumOver(g, Active("owner")')
  BY OwnersSum, KybAssumption DEF KybInv, KybTypes, OwnersWithin, ownership
<1>3. Entering(e) <=> w.becomes.kind = "owner" BY <1>1 DEF Entering
<1>4. w.becomes.kind = "owner" => ownership + w.becomes.percent <= 100
  BY <1>3 DEF KybInv, OwnersWithin
<1> HIDE DEF w
<1>5. person' \in [Persons -> PersonRows] BY <1>1, <1>2 DEF WriteRows, PersonRows
<1>6. \A p \in Persons : f[p] \in Nat /\ g[p] \in Nat /\ f[p] = person[p].percent /\ g[p] = person'[p].percent
  BY <1>2, <1>5 DEF PersonRows, Nobody
<1>7. Active("owner")' = {p \in Persons : person'[p].kind = "owner"} BY DEF Active
<1>8. \A p \in Persons : p \in A <=> person[p].kind = "owner" BY DEF Active
<1> HIDE DEF f, g, A
<1>11. ownership' \in Int
  <2>1. Active("owner")' \subseteq Persons BY <1>7
  <2>2. IsFiniteSet(Active("owner")') BY <2>1, KybAssumption, FS_Subset
  <2>3. \A p \in Active("owner")' : g[p] \in Int BY <1>6, <2>1
  <2> QED BY <1>2, <2>2, <2>3, SumOverInt
<1>9. CASE w.person = None
  <2>1. \A p \in Persons : person'[p] = person[p] BY <1>1, <1>2, <1>9
  <2>2. Active("owner")' = A BY <1>2, <1>7, <1>8, <2>1
  <2>3. \A p \in A : f[p] \in Int /\ g[p] = f[p] BY <1>2, <1>6, <2>1
  <2>4. SumOver(g, A) = SumOver(f, A) BY <1>2, <2>3, SumOverEqual
  <2>5. ownership' = ownership BY <1>2, <2>2, <2>4
  <2> QED BY <1>2, <1>5, <2>5
<1>10. CASE w.person # None
  <2>1. PICK z \in Persons : z = w.person BY <1>1, <1>10 DEF WriteRows
  <2>2. /\ person'[z] = w.becomes
        /\ \A p \in Persons \ {z} : person'[p] = person[p]
        /\ (w.becomes = Nobody) = (person[z] # Nobody)
        /\ w.becomes \in PersonRows /\ person[z] \in PersonRows
    BY <1>1, <1>2, <1>10, <2>1 DEF WriteRows
  <2>3. CASE w.becomes.kind = "owner"
    <3>1. person[z] = Nobody BY <2>2, <2>3 DEF Nobody
    <3>2. z \notin A BY <1>8, <3>1 DEF Nobody
    <3>3. Active("owner")' = A \cup {z} BY <1>2, <1>7, <1>8, <2>2, <2>3
    <3>4. \A p \in A : f[p] \in Int /\ g[p] = f[p] BY <1>2, <1>6, <2>2, <3>2
    <3>5. g[z] \in Int /\ g[z] = w.becomes.percent BY <1>6, <2>2
    <3>6. SumOver(g, A \cup {z}) = SumOver(f, A) + g[z]
      <4>1. IsFiniteSet(A \cup {z}) BY <1>2, FS_AddElement
      <4>2. \A p \in A \cup {z} : g[p] \in Int BY <3>4, <3>5
      <4>3. SumOver(g, A \cup {z}) = g[z] + SumOver(g, (A \cup {z}) \ {z})
        BY <4>1, <4>2, SumOverRemove
      <4>4. (A \cup {z}) \ {z} = A BY <3>2
      <4>5. SumOver(g, A) = SumOver(f, A) BY <1>2, <3>4, SumOverEqual
      <4>6. SumOver(f, A) \in Int BY <1>2, <3>4, SumOverInt
      <4>7. SumOver(g, A \cup {z}) = g[z] + SumOver(f, A) BY <4>3, <4>4, <4>5, Zenon
      <4> QED BY <3>5, <4>6, <4>7
    <3>7. ownership' = ownership + w.becomes.percent BY <1>2, <3>3, <3>5, <3>6
    <3> QED BY <1>3, <1>4, <1>5, <1>11, <2>3, <3>7
  <2>4. CASE w.becomes.kind # "owner" /\ person[z].kind = "owner"
    <3>1. z \in A BY <1>8, <2>4
    <3>2. Active("owner")' = A \ {z} BY <1>2, <1>7, <1>8, <2>2, <2>4
    <3>3. \A p \in A : f[p] \in Int BY <1>2, <1>6
    <3>4. SumOver(f, A) = f[z] + SumOver(f, A \ {z}) BY <1>2, <3>1, <3>3, SumOverRemove
    <3>5. \A p \in A \ {z} : f[p] \in Int /\ g[p] = f[p] BY <1>2, <1>6, <2>2
    <3>6. IsFiniteSet(A \ {z}) BY <1>2, FS_Subset
    <3>7. SumOver(g, A \ {z}) = SumOver(f, A \ {z}) /\ SumOver(f, A \ {z}) \in Int
      BY <3>5, <3>6, SumOverEqual, SumOverInt
    <3>8. ownership' = SumOver(f, A \ {z}) BY <1>2, <3>2, <3>7
    <3>9. f[z] \in Nat BY <1>6
    <3> QED BY <1>2, <1>5, <3>4, <3>7, <3>8, <3>9
  <2>5. CASE w.becomes.kind # "owner" /\ person[z].kind # "owner"
    <3>1. z \notin A BY <1>8, <2>5
    <3>2. Active("owner")' = A BY <1>2, <1>7, <1>8, <2>2, <2>5
    <3>3. \A p \in A : f[p] \in Int /\ g[p] = f[p] BY <1>2, <1>6, <2>2, <3>1
    <3>4. SumOver(g, A) = SumOver(f, A) BY <1>2, <3>3, SumOverEqual
    <3>5. ownership' = ownership BY <1>2, <3>2, <3>4
    <3> QED BY <1>2, <1>5, <3>5
  <2> QED BY <2>3, <2>4, <2>5
<1> QED BY <1>9, <1>10, <1>11

\* An edit that comes in: one with the lock takes an approved case back to
\* review, one without it is noticed unless there is no case or a draft.
LEMMA EditCommits ==
  ASSUME KybInv, NEW e \in Editors, CommitEdit(e)
  PROVE  KybInv'
<1>1. /\ edit[e] # NoEdit /\ edit' = [edit EXCEPT ![e] = NoEdit]
      /\ stray' = (stray \/ (~edit[e].locked /\ kase.status \notin {"none", "DRAFT"}))
      /\ asDecided' = FALSE
      /\ UNCHANGED <<requirements, announced, unannounced>>
      /\ edit[e] \in EditRows /\ kase \in CaseRows
  BY DEF CommitEdit, KybInv, KybTypes
<1>2. /\ edit' \in [Editors -> {NoEdit} \cup EditRows]
      /\ \A f \in Editors : edit'[f] # NoEdit => f # e /\ edit'[f] = edit[f]
  BY <1>1 DEF KybInv, KybTypes
<1>3. \/ kase' = kase /\ ~(edit[e].locked /\ kase.status = "APPROVED")
      \/ /\ edit[e].locked /\ kase.status = "APPROVED"
         /\ kase' = [kase EXCEPT !.status = "UNDER_REVIEW", !.version = @ + 1]
  BY DEF CommitEdit, flagDataChangedAfterApproval
<1>4. /\ kase' \in CaseRows /\ kase'.number = kase.number /\ kase'.version >= kase.version
      /\ \/ kase' = kase /\ ~(edit[e].locked /\ kase.status = "APPROVED")
         \/ edit[e].locked /\ kase'.status = "UNDER_REVIEW"
  <2>1. kase.version \in Nat BY <1>1 DEF CaseRows
  <2>2. CASE kase' = kase /\ ~(edit[e].locked /\ kase.status = "APPROVED") BY <2>1, <2>2, <1>1
  <2>3. CASE /\ edit[e].locked
             /\ kase' = [kase EXCEPT !.status = "UNDER_REVIEW", !.version = @ + 1]
    <3> DEFINE k == [kase EXCEPT !.status = "UNDER_REVIEW", !.version = @ + 1]
    <3>1. "UNDER_REVIEW" \in KybStatuses BY DEF KybStatuses
    <3>2. kase \in CaseRows BY <1>1
    <3>3. kase' = k BY <2>3
    <3> HIDE DEF k
    <3>4. k = [kase EXCEPT !.status = "UNDER_REVIEW", !.version = @ + 1] BY DEF k
    <3>5. k \in CaseRows /\ k.status = "UNDER_REVIEW" /\ k.number = kase.number /\ k.version = kase.version + 1
      BY <3>1, <3>2, <3>4, RowMovesOn, Zenon
    <3> QED BY <2>1, <2>3, <3>3, <3>5
  <2> QED BY <1>3, <2>2, <2>3
<1>5. KybTypes' BY <1>1, <1>2, <1>4, SharesMove DEF KybInv, KybTypes
<1>6. LocksEditable' BY <1>1, <1>2, <1>4 DEF KybInv, LocksEditable
<1>7. KeysAreOld' BY <1>1, <1>4, KeysStayOld
<1>8. ApprovedIsDecided'
  <2>1. CASE edit[e].locked
    <3>1. kase.status \in {"DRAFT", "NEEDS_INFORMATION", "APPROVED"}
      BY <1>1, <2>1 DEF KybInv, LocksEditable
    <3>2. kase'.status \notin {"APPROVED", "SUBMITTED"} BY <1>4, <2>1, <3>1
    <3> QED BY <3>2 DEF ApprovedIsDecided
  <2>2. CASE ~edit[e].locked
    <3>1. kase' = kase BY <1>4, <2>2
    <3>2. kase.status \in {"APPROVED", "SUBMITTED"} => stray' BY <1>1, <2>2
    <3> QED BY <3>1, <3>2 DEF ApprovedIsDecided
  <2> QED BY <2>1, <2>2
<1>9. OwnersWithin'
  <2>1. \A f \in Editors : Entering(f)' => Entering(f) /\ f # e /\ edit'[f] = edit[f]
    BY <1>2 DEF Entering
  <2>2. \A f \in Editors : Entering(f)' => ~Entering(e) BY <2>1 DEF KybInv, OwnersWithin
  <2>3. ownership \in Int /\ ownership' \in Int
    BY OwnersSum, SharesMove DEF KybInv
  <2>4. ASSUME NEW f \in Editors, Entering(f)'
        PROVE  ownership' + edit'[f].write.becomes.percent <= 100
    <3>1. ownership' <= ownership BY <2>2, <2>4, SharesMove
    <3>2. /\ ownership + edit[f].write.becomes.percent <= 100
          /\ edit'[f] = edit[f]
          /\ edit[f] \in EditRows
      BY <2>1, <2>4 DEF KybInv, OwnersWithin, KybTypes, Entering
    <3>3. edit[f].write.becomes.percent \in Nat
      BY <3>2 DEF EditRows, WriteRows, PersonRows, Nobody
    <3> QED BY <2>3, <3>1, <3>2, <3>3
  <2>5. \A f, h \in Editors : Entering(f)' /\ Entering(h)' => f = h BY <2>1 DEF KybInv, OwnersWithin
  <2> QED BY <2>4, <2>5, SharesMove DEF OwnersWithin
<1> QED BY <1>5, <1>6, <1>7, <1>8, <1>9 DEF KybInv

\* Every operation of the case and every edit keeps the invariant.
LEMMA KybStep == KybInv /\ [KybNext]_kybVars => KybInv'
<1> SUFFICES ASSUME KybInv, [KybNext]_kybVars PROVE KybInv' OBVIOUS
<1>1. CASE CaseNext
  <2>1. CASE getCaseOverview BY <2>1, OverviewRead
  <2>2. CASE startReview BY <2>2, Transitions DEF startReview
  <2>3. CASE requestInformation BY <2>3, Transitions DEF requestInformation
  <2>4. CASE suspend BY <2>4, Transitions DEF suspend
  <2>5. ASSUME NEW decision \in {"APPROVED", "REJECTED"}, NEW risk \in RiskCategories,
               decide(decision, risk)
        PROVE  KybInv'
    BY <2>5, Decided
  <2> QED BY <1>1, <2>1, <2>2, <2>3, <2>4, <2>5 DEF CaseNext
<1>2. ASSUME NEW e \in Editors, CommitEdit(e) \/ FailEdit(e) PROVE KybInv'
  BY <1>2, EditCommits, EditFails
<1>3. CASE ProfileNext
  <2>1. ASSUME NEW e \in Editors, NEW whole \in SUBSET Sections, upsertLegalProfile(e, whole)
        PROVE  KybInv'
    <3>1. assertKybEditable(e, Write({"LEGAL_PROFILE"}, whole)) BY <2>1 DEF upsertLegalProfile
    <3>2. Write({"LEGAL_PROFILE"}, whole) \in WriteRows BY DEF Write, WriteRows, Sections
    <3>3. Write({"LEGAL_PROFILE"}, whole).becomes.kind # "owner" BY DEF Write, Nobody
    <3> QED BY <3>1, <3>2, <3>3, EditBegins
  <2>2. ASSUME NEW e \in Editors, NEW whole \in SUBSET Sections, upsertBusinessProfile(e, whole)
        PROVE  KybInv'
    <3>1. assertKybEditable(e, Write({"BUSINESS_PROFILE"}, whole)) BY <2>2 DEF upsertBusinessProfile
    <3>2. Write({"BUSINESS_PROFILE"}, whole) \in WriteRows BY DEF Write, WriteRows, Sections
    <3>3. Write({"BUSINESS_PROFILE"}, whole).becomes.kind # "owner" BY DEF Write, Nobody
    <3> QED BY <3>1, <3>2, <3>3, EditBegins
  <2> QED BY <1>2, <1>3, <2>1, <2>2 DEF ProfileNext
<1>4. CASE PeopleNext
  <2>1. ASSUME NEW e \in Editors, NEW p \in Persons, removePerson(e, p) PROVE KybInv'
    <3>1. assertKybEditable(e, OfPerson(p, Nobody)) BY <2>1 DEF removePerson
    <3>2. OfPerson(p, Nobody) \in WriteRows BY DEF OfPerson, WriteRows, PersonRows
    <3>3. OfPerson(p, Nobody).becomes.kind # "owner" BY DEF OfPerson, Nobody
    <3> QED BY <3>1, <3>2, <3>3, EditBegins
  <2>2. ASSUME NEW e \in Editors, NEW p \in Persons, NEW percent \in Nat,
               NEW kind \in {"owner", "director", "representative"}, addPerson(e, p, kind, percent)
        PROVE  KybInv'
    <3> DEFINE who == [kind |-> kind, percent |-> percent]
    <3>1. /\ assertKybEditable(e, OfPerson(p, who))
          /\ kind = "owner" => ownersFree /\ ownership + percent <= 100
      BY <2>2 DEF addPerson
    <3>2. who \in PersonRows /\ who.kind = kind /\ who.percent = percent BY DEF PersonRows
    <3> HIDE DEF who
    <3>3. OfPerson(p, who) \in WriteRows /\ OfPerson(p, who).becomes = who
      BY <3>2 DEF OfPerson, WriteRows
    <3> QED BY <3>1, <3>2, <3>3, EditBegins
  <2> QED BY <1>2, <1>4, <2>1, <2>2, KybAssumption DEF PeopleNext
<1>5. CASE submit BY <1>5, Submitted
<1>6. CASE UNCHANGED kybVars
  <2>1. UNCHANGED <<requirements, kase, profile, person, edit, announced, asDecided, stray,
                    unannounced>>
    BY <1>6 DEF kybVars
  <2>2. KybTypes' /\ LocksEditable' /\ KeysAreOld'
    BY <2>1 DEF KybInv, KybTypes, LocksEditable, KeysAreOld
  <2>3. ApprovedIsDecided' BY <2>1, ApprovalKept DEF KybInv
  <2>4. ownership' = ownership BY <2>1 DEF ownership, Active
  <2>5. OwnersWithin' BY <2>1, <2>4 DEF KybInv, OwnersWithin, Entering
  <2> QED BY <2>2, <2>3, <2>5 DEF KybInv
<1> QED BY <1>1, <1>3, <1>4, <1>5, <1>6 DEF KybNext

\* Whatever is edited while a case is decided on, what was approved is what
\* the merchant's data still says, what was submitted is complete, and every
\* submission and decision is announced: an edit holds the lock of the case's
\* row from its check to its commit, unless there was no case to lock.
THEOREM ApprovalsStand == KybSpec => []ApprovalsHold
<1>1. KybInv => ApprovalsHold
  BY DEF KybInv, ApprovedIsDecided, OwnDataHolds, KeysAreOld, ApprovalsHold
<1> QED BY <1>1, KybStarts, KybStep, PTL DEF KybSpec

\* No two owners who are entered at once own more than the whole company
\* together; that, and what is proved above of accounts and of documents.
THEOREM RecordsAgree == BankSpec /\ DocumentsSpec /\ KybSpec => []RecordsHold
<1>1. KybInv => OwnershipHolds BY DEF KybInv, OwnersWithin, OwnershipHolds
<1>2. AccountsHold /\ DocumentsHold /\ KybInv => RecordsHold BY <1>1 DEF RecordsHold
<1> QED BY <1>2, AccountsAgree, DocumentsTrue, KybStarts, KybStep, PTL DEF KybSpec

-----------------------------------------------------------------------------
(* What the adapters tell of a payment.                                    *)

AdapterSpec == AdaptersInit /\ [][AdaptersNext]_adapterVars

Outward == setup.code \in {"stripe", "paytabs"}

Remotes == {"none", "open", "processing", "paid", "declined", "canceled", "expired"}

AdapterTypes ==
  /\ setup.plane \in {"test", "live"}
  /\ remote \in [Authorizations -> Remotes]
  /\ held \in [Authorizations -> {"none", "attempt", "intent", "session", "tran_ref"}]
  /\ page \in [Authorizations -> BOOLEAN]
  /\ told \in [Authorizations -> SUBSET Verdicts]

\* Of an authorization with state r, reference h, page p and verdicts t.
\* Where the provider is reached: what is not there is not shown; what was
\* paid was shown; what was told to have failed was not; and what was told
\* to have succeeded is what the customer made.  Where it is simulated
\* nothing is there.
Sound(r, h, p, t) ==
  /\ Outward /\ ~Simulating =>
       /\ r = "none" => h = "none" /\ ~p
       /\ r \in {"processing", "paid"} => p
       /\ <<"authorize", "FAILED">> \in t => ~p
       /\ \A op \in {"authorize", "getStatus", "recover"} : <<op, "SUCCEEDED">> \in t =>
            r = "paid" \/ (h = "session" /\ p /\ r # "open")
       /\ setup.code = "stripe" /\ <<"getStatus", "FAILED">> \in t => r \in {"canceled", "expired"}
  /\ Outward /\ Simulating =>
       r = "none" /\ (setup.code = "stripe" => <<"getStatus", "FAILED">> \notin t)

AuthorizationInv(i) ==
  /\ i \notin asked => remote[i] = "none" /\ held[i] = "none" /\ ~page[i] /\ told[i] = {}
  /\ Sound(remote[i], held[i], page[i], told[i])

\* The client is one of the secrets of the plane that is asked for, or one
\* that simulates where the deployment does.
ClientFits ==
  /\ client \in {"test", "live"} => client = setup.plane /\ (client = "live" => setup.allowLive)
  /\ Simulating => client \in {"none", "simulated"}
  /\ client = "simulated" => Simulating

AdapterInv ==
  AdapterTypes /\ ClientFits /\ \A i \in Authorizations : AuthorizationInv(i)

LEMMA AdaptersStart == AdaptersInit => AdapterInv
<1> SUFFICES ASSUME AdaptersInit PROVE AdapterInv OBVIOUS
<1>1. setup.plane \in {"test", "live"} BY DEF AdaptersInit
<1>2. AdapterTypes BY <1>1 DEF AdaptersInit, AdapterTypes, Remotes
<1>3. ClientFits BY DEF AdaptersInit, ClientFits
<1>4. \A i \in Authorizations : AuthorizationInv(i)
  BY DEF AdaptersInit, AuthorizationInv, Sound
<1> QED BY <1>2, <1>3, <1>4 DEF AdapterInv

\* What the credentials are.
LEMMA CredentialsFit ==
  ASSUME AdapterInv
  PROVE  /\ \/ loadCredentials \in {"simulated", "missing"}
            \/ loadCredentials = setup.plane /\ (setup.plane = "live" => setup.allowLive)
         /\ loadCredentials = "simulated" <=> Simulating
         /\ setup.code = "stripe" => loadCredentials = loadStripeCredentials
<1>0. setup.plane \in {"test", "live"} BY DEF AdapterInv, AdapterTypes
<1>1. CASE setup.code = "stripe"
  <2>1. loadCredentials = loadStripeCredentials BY <1>1 DEF loadCredentials
  <2>2. Simulating <=> resolveStripeMode = "simulate" BY <1>1 DEF Simulating
  <2>3. \/ resolveStripeMode = "simulate" /\ loadStripeCredentials = "simulated"
        \/ /\ resolveStripeMode # "simulate"
           /\ \/ loadStripeCredentials = "missing"
              \/ loadStripeCredentials = setup.plane /\ (setup.plane = "live" => setup.allowLive)
    BY DEF loadStripeCredentials, assertStripePlaneAllowed, classifyStripeSecretKey,
           resolveStripeRequestedPlane, isStripeLiveAllowed
  <2> QED BY <1>0, <2>1, <2>2, <2>3
<1>2. CASE setup.code = "paytabs"
  <2>1. loadCredentials = loadPayTabsSandboxCredentials BY <1>2 DEF loadCredentials
  <2>2. Simulating <=> resolvePayTabsMode = "simulate" BY <1>2 DEF Simulating
  <2>3. \/ resolvePayTabsMode = "simulate" /\ loadPayTabsSandboxCredentials = "simulated"
        \/ /\ resolvePayTabsMode # "simulate"
           /\ \/ loadPayTabsSandboxCredentials = "missing"
              \/ loadPayTabsSandboxCredentials = setup.plane /\ (setup.plane = "live" => setup.allowLive)
    BY DEF loadPayTabsSandboxCredentials, assertPayTabsSandboxOnly, resolvePayTabsEnv
  <2> QED BY <1>0, <1>2, <2>1, <2>2, <2>3
<1>3. CASE ~Outward BY <1>3 DEF loadCredentials, Simulating, Outward
<1> QED BY <1>1, <1>2, <1>3 DEF Outward

LEMMA ClientKept ==
  ASSUME AdapterInv, setup' = setup, client' \in {client, clientOr(loadCredentials), "none"}
  PROVE  ClientFits' /\ (Simulating' <=> Simulating)
<1>1. Simulating' <=> Simulating BY DEF Simulating, resolveStripeMode, resolvePayTabsMode, resolvePayTabsEnv
<1>2. setup.plane \in {"test", "live"} BY DEF AdapterInv, AdapterTypes
<1>3. client' \in {client, loadCredentials, "none"} BY DEF clientOr
<1>4. ClientFits BY DEF AdapterInv
<1> HIDE DEF Simulating
<1>5. client' = client => ClientFits' BY <1>1, <1>4 DEF ClientFits
<1>6. client' = "none" => ClientFits' BY DEF ClientFits
<1>7. client' = loadCredentials /\ client' # client => ClientFits'
  <2>1. client' = clientOr(loadCredentials) /\ client' # client => client' = loadCredentials BY DEF clientOr
  <2>2. loadCredentials \in {"simulated", "missing"}
          \/ (loadCredentials = setup.plane /\ (setup.plane = "live" => setup.allowLive))
    BY CredentialsFit
  <2>3. loadCredentials = "simulated" <=> Simulating BY CredentialsFit
  <2> QED BY <1>1, <1>2, <2>2, <2>3 DEF ClientFits
<1> QED BY <1>1, <1>3, <1>5, <1>6, <1>7

\* A step on one authorization leaves the others as they are.
LEMMA OneChanges ==
  ASSUME AdapterInv, NEW i \in Authorizations,
         setup' = setup, client' \in {client, clientOr(loadCredentials), "none"},
         NEW r \in Remotes, NEW h \in {"none", "attempt", "intent", "session", "tran_ref"},
         NEW p \in BOOLEAN, NEW t \in SUBSET Verdicts,
         remote' = [remote EXCEPT ![i] = r], held' = [held EXCEPT ![i] = h],
         page' = [page EXCEPT ![i] = p], told' = [told EXCEPT ![i] = t],
         asked' = asked \/ asked' = asked \cup {i},
         i \notin asked' => r = "none" /\ h = "none" /\ ~p /\ t = {},
         Sound(r, h, p, t)
  PROVE  AdapterInv'
<1>1. AdapterTypes' BY DEF AdapterInv, AdapterTypes
<1>2. /\ remote'[i] = r /\ held'[i] = h /\ page'[i] = p /\ told'[i] = t
      /\ \A j \in Authorizations : j # i =>
           remote'[j] = remote[j] /\ held'[j] = held[j] /\ page'[j] = page[j] /\ told'[j] = told[j]
  BY DEF AdapterInv, AdapterTypes
<1>3. ClientFits' /\ (Simulating' <=> Simulating) BY ClientKept
<1>4. Outward' <=> Outward BY DEF Outward
<1>5. AuthorizationInv(i)'
  BY <1>2, <1>3, <1>4 DEF AuthorizationInv, Sound
<1>6. ASSUME NEW j \in Authorizations, j # i PROVE AuthorizationInv(j)'
  <2>1. AuthorizationInv(j) BY DEF AdapterInv
  <2>2. remote'[j] = remote[j] /\ held'[j] = held[j] /\ page'[j] = page[j] /\ told'[j] = told[j]
    BY <1>2, <1>6
  <2>3. j \in asked' <=> j \in asked BY <1>6
  <2> QED BY <1>3, <1>4, <2>1, <2>2, <2>3 DEF AuthorizationInv, Sound
<1> QED BY <1>1, <1>3, <1>5, <1>6 DEF AdapterInv

\* What is there of an authorization, named.
LEMMA RowOf ==
  ASSUME AdapterInv, NEW i \in Authorizations
  PROVE  \E r \in Remotes, h \in {"none", "attempt", "intent", "session", "tran_ref"},
            p \in BOOLEAN, t \in SUBSET Verdicts :
           /\ remote[i] = r /\ held[i] = h /\ page[i] = p /\ told[i] = t
           /\ remote = [remote EXCEPT ![i] = r] /\ held = [held EXCEPT ![i] = h]
           /\ page = [page EXCEPT ![i] = p] /\ told = [told EXCEPT ![i] = t]
           /\ Sound(r, h, p, t)
           /\ i \notin asked => r = "none" /\ h = "none" /\ ~p /\ t = {}
BY DEF AdapterInv, AdapterTypes, AuthorizationInv

\* A first authorization never succeeds there and then, and shows the page
\* unless it failed or nobody knows.
LEMMA Authorized ==
  ASSUME AdapterInv, NEW i \in Authorizations, NEW wire \in Wires, Authorize(i, wire)
  PROVE  AdapterInv'
<1> DEFINE creds == loadCredentials
           made  == IF creds = "missing" THEN client ELSE clientOr(creds)
           able  == creds # "missing" /\ made # "missing"
           answer == IF ~able THEN "FAILED"
                     ELSE IF setup.code = "stripe" THEN stripeAuthorize(made, wire)
                     ELSE paytabsAuthorize(made, wire)
<1>1. /\ Outward /\ i \notin asked /\ asked' = asked \cup {i} /\ client' = made
      /\ UNCHANGED <<setup, keys, changes>>
  BY DEF Authorize, Asks, Outward
<1>2. remote[i] = "none" /\ held[i] = "none" /\ ~page[i] /\ told[i] = {}
  BY <1>1 DEF AdapterInv, AuthorizationInv
<1> DEFINE t == {<<"authorize", answer>>} \cap Verdicts
           p == answer = "REQUIRES_ACTION" /\ (i = "submission" \/ setup.ui = "elements")
<1>3. PICK acted \in Acted(wire) :
        remote' = [remote EXCEPT ![i] = IF able /\ made # "simulated" /\ acted THEN "open" ELSE @]
  BY DEF Authorize
<1> DEFINE r == IF able /\ made # "simulated" /\ acted THEN "open" ELSE "none"
<1>4. PICK reference \in references(made) :
        held' = IF answer = "REQUIRES_ACTION" THEN [held EXCEPT ![i] = reference] ELSE held
  BY DEF Authorize
<1> DEFINE h == IF answer = "REQUIRES_ACTION" THEN reference ELSE "none"
<1>5. remote' = [remote EXCEPT ![i] = r] BY <1>2, <1>3 DEF AdapterInv, AdapterTypes
<1>6. held' = [held EXCEPT ![i] = h] BY <1>2, <1>4 DEF AdapterInv, AdapterTypes
<1>7. page' = [page EXCEPT ![i] = p] BY DEF Authorize
<1>8. told' = [told EXCEPT ![i] = t] BY <1>2 DEF Authorize, Answered, AdapterInv, AdapterTypes
<1>9. answer \in {"FAILED", "throws", "AMBIGUOUS", "REQUIRES_ACTION"}
  BY DEF stripeAuthorize, paytabsAuthorize, mapPaymentIntentEmbedded, mapCheckoutSession,
         mapPayTabsPaymentResponse, mapHttpErrorToProviderResult
<1>10. answer = "REQUIRES_ACTION" => able /\ (made # "simulated" => wire = "ok")
  <2>1. ASSUME stripeAuthorize(made, wire) = "REQUIRES_ACTION", made # "simulated" PROVE wire = "ok"
    BY <2>1 DEF stripeAuthorize, stripeRequest, ending
  <2>2. ASSUME paytabsAuthorize(made, wire) = "REQUIRES_ACTION", made # "simulated" PROVE wire = "ok"
    BY <2>2 DEF paytabsAuthorize, postJson, classifyHttpStatus, mapHttpErrorToProviderResult,
                mapPayTabsPaymentResponse, Wires, HttpErrors, ending
  <2> QED BY <2>1, <2>2
<1>11. client' \in {client, clientOr(loadCredentials), "none"} BY <1>1
<1>12. made = "simulated" <=> Simulating /\ able
  <2>1. ClientFits /\ (creds = "simulated" <=> Simulating) BY CredentialsFit DEF AdapterInv
  <2> HIDE DEF creds
  <2> QED BY <2>1 DEF ClientFits, clientOr
<1>13. reference \in {"none", "attempt", "intent", "session", "tran_ref"}
  BY <1>4 DEF references
<1> HIDE DEF able, answer, made, creds
<1>14. answer = "REQUIRES_ACTION" /\ ~Simulating => r = "open" BY <1>3, <1>10, <1>12 DEF Acted
<1>15. Simulating => r = "none" BY <1>12
<1>16. /\ t \in SUBSET Verdicts /\ t \subseteq {<<"authorize", "FAILED">>}
       /\ <<"authorize", "FAILED">> \in t => answer = "FAILED"
  BY <1>9 DEF Verdicts
<1>17. r \in Remotes /\ r \in {"none", "open"} /\ p \in BOOLEAN
       /\ h \in {"none", "attempt", "intent", "session", "tran_ref"}
  BY <1>13 DEF Remotes
<1>18. r = "none" /\ ~Simulating => h = "none" /\ ~p BY <1>14
<1>19. answer = "FAILED" => ~p OBVIOUS
<1> HIDE DEF r, h, p, t
<1>20. Sound(r, h, p, t) BY <1>15, <1>16, <1>17, <1>18, <1>19 DEF Sound
<1> QED BY <1>1, <1>5, <1>6, <1>7, <1>8, <1>11, <1>16, <1>17, <1>20, OneChanges

\* A query or a recovery tells what is: of what is paid that it succeeded, of
\* what is over that it failed.
LEMMA Told ==
  ASSUME AdapterInv, NEW i \in Authorizations, NEW op \in {"getStatus", "recover"}, NEW answer,
         Answered(i, op, answer), i \in asked,
         client' \in {client, clientOr(loadCredentials), "none"},
         UNCHANGED <<setup, asked, remote, held, page>>,
         Outward /\ ~Simulating /\ answer = "SUCCEEDED" =>
           remote[i] = "paid" \/ (held[i] = "session" /\ remote[i] = "processing"),
         op = "getStatus" /\ answer = "FAILED" /\ setup.code = "stripe" =>
           ~Simulating /\ remote[i] \in {"canceled", "expired"}
  PROVE  AdapterInv'
<1>1. PICK r \in Remotes, h \in {"none", "attempt", "intent", "session", "tran_ref"},
         p \in BOOLEAN, t0 \in SUBSET Verdicts :
        /\ remote[i] = r /\ held[i] = h /\ page[i] = p /\ told[i] = t0
        /\ remote = [remote EXCEPT ![i] = r] /\ held = [held EXCEPT ![i] = h]
        /\ page = [page EXCEPT ![i] = p] /\ told = [told EXCEPT ![i] = t0]
        /\ Sound(r, h, p, t0)
        /\ i \notin asked => r = "none" /\ h = "none" /\ ~p /\ t0 = {}
  BY RowOf
<1> DEFINE t == t0 \cup ({<<op, answer>>} \cap Verdicts)
<1>2. told' = [told EXCEPT ![i] = t] /\ t \in SUBSET Verdicts BY <1>1 DEF Answered
<1>3. /\ <<"authorize", "FAILED">> \in t => <<"authorize", "FAILED">> \in t0
      /\ <<"getStatus", "FAILED">> \in t =>
           <<"getStatus", "FAILED">> \in t0 \/ (op = "getStatus" /\ answer = "FAILED")
      /\ \A o \in {"authorize", "getStatus", "recover"} : <<o, "SUCCEEDED">> \in t =>
           <<o, "SUCCEEDED">> \in t0 \/ answer = "SUCCEEDED"
  OBVIOUS
<1> HIDE DEF t
<1>4. r \in {"processing", "paid"} /\ Outward /\ ~Simulating => p BY <1>1 DEF Sound
<1>5. Sound(r, h, p, t) BY <1>1, <1>3, <1>4 DEF Sound
<1>6. ClientFits' /\ (Simulating' <=> Simulating) BY ClientKept
<1>7. AdapterTypes' BY <1>2 DEF AdapterInv, AdapterTypes
<1>8. ASSUME NEW k \in Authorizations PROVE AuthorizationInv(k)'
  <2>1. AuthorizationInv(k) BY DEF AdapterInv
  <2>2. told'[k] = IF k = i THEN t ELSE told[k] BY <1>2 DEF AdapterInv, AdapterTypes
  <2>3. Sound(remote[k], held[k], page[k], told'[k]) BY <1>1, <1>5, <2>1, <2>2 DEF AuthorizationInv
  <2> QED BY <1>6, <2>1, <2>2, <2>3 DEF AuthorizationInv, Sound, Outward
<1> QED BY <1>6, <1>7, <1>8 DEF AdapterInv

LEMMA StatusTold ==
  ASSUME AdapterInv, NEW i \in Authorizations, NEW wire \in Wires, GetStatus(i, wire)
  PROVE  AdapterInv'
<1> DEFINE creds == loadCredentials
           made == IF setup.code = "paytabs" /\ creds = "missing" THEN client ELSE clientOr(creds)
           used == IF creds = "missing" THEN creds ELSE made
<1>1. /\ held[i] # "none" /\ UNCHANGED <<setup, keys, asked, remote, held, page, changes>>
      /\ client' \in {client, clientOr(loadCredentials), "none"}
  BY DEF GetStatus
<1>2. i \in asked BY <1>1 DEF AdapterInv, AuthorizationInv
<1>3. ClientFits /\ (creds = "simulated" <=> Simulating) BY CredentialsFit DEF AdapterInv
<1>4. CASE setup.code = "sandbox"
  <2>1. Answered(i, "getStatus", sandboxGetStatus(held[i])) BY <1>4 DEF GetStatus
  <2> QED BY <1>1, <1>2, <1>4, <2>1, Told DEF Outward
<1>5. CASE setup.code = "stripe"
  <2>1. Answered(i, "getStatus", stripeGetStatus(i, made, wire)) BY <1>5 DEF GetStatus
  <2>2. /\ Simulating => made = "simulated"
        /\ made = "simulated" => Simulating
    <3> HIDE DEF creds
    <3> QED BY <1>3, <1>5 DEF ClientFits, clientOr
  <2> HIDE DEF made
  <2>3. made # "simulated" /\ stripeGetStatus(i, made, wire) = "SUCCEEDED" =>
          remote[i] = "paid" \/ (held[i] = "session" /\ remote[i] = "processing")
    BY DEF stripeGetStatus, mapCheckoutSession, sessionStatus, mapPaymentIntent,
           mapStripePaymentIntentStatus, intentStatus
  <2>4. stripeGetStatus(i, made, wire) = "FAILED" =>
          made # "simulated" /\ remote[i] \notin {"open", "declined", "processing", "paid"}
    BY DEF stripeGetStatus, mapCheckoutSession, sessionStatus, mapPaymentIntent,
           mapStripePaymentIntentStatus, intentStatus
  <2>5. ~Simulating => remote[i] # "none" BY <1>1, <1>5 DEF Outward, AdapterInv, AuthorizationInv, Sound
  <2>6. stripeGetStatus(i, made, wire) = "FAILED" => ~Simulating /\ remote[i] \in {"canceled", "expired"}
    BY <2>2, <2>4, <2>5 DEF AdapterInv, AdapterTypes, Remotes
  <2> QED BY <1>1, <1>2, <2>1, <2>2, <2>3, <2>6, Told
<1>6. CASE setup.code \notin {"sandbox", "stripe"}
  <2>1. PICK body \in payTabsBodies(i, used) :
          Answered(i, "getStatus", paytabsGetStatus(used, wire, body))
    BY <1>6 DEF GetStatus
  <2>2. used = "simulated" => Simulating
    <3> HIDE DEF creds
    <3> QED BY <1>3 DEF ClientFits, clientOr
  <2> HIDE DEF used
  <2>3. used # "simulated" => body = payTabsStatus(i) BY <2>1 DEF payTabsBodies
  <2>4. paytabsGetStatus(used, wire, body) = "SUCCEEDED" => body = "A"
    BY DEF paytabsGetStatus, mapPayTabsQueryResponse, mapPayTabsResponseStatus, mapHttpErrorToProviderResult
  <2>5. payTabsStatus(i) = "A" => remote[i] = "paid" BY DEF payTabsStatus
  <2> QED BY <1>1, <1>2, <1>6, <2>1, <2>2, <2>3, <2>4, <2>5, Told
<1> QED BY <1>4, <1>5, <1>6

LEMMA Recovered ==
  ASSUME AdapterInv, NEW i \in Authorizations, NEW wire \in Wires, Recover(i, wire)
  PROVE  AdapterInv'
<1>1. /\ setup.code = "paytabs" /\ client \in {"test", "live", "simulated"}
      /\ UNCHANGED <<setup, keys, client, asked, remote, held, page, changes>>
  BY DEF Recover
<1>2. PICK body \in payTabsBodies(i, client) :
        Answered(i, "recover", resolveUnknownPayTabsOutcome(i, wire, body))
  BY DEF Recover
<1> DEFINE answer == resolveUnknownPayTabsOutcome(i, wire, body)
<1>3. CASE held[i] = "none"
  <2>1. answer = "AMBIGUOUS" BY <1>3 DEF resolveUnknownPayTabsOutcome
  <2>2. told' = told
    <3>1. <<"recover", "AMBIGUOUS">> \notin Verdicts BY DEF Verdicts
    <3> QED BY <1>2, <2>1, <3>1 DEF Answered, AdapterInv, AdapterTypes
  <2>3. ClientFits' /\ (Simulating' <=> Simulating) BY <1>1, ClientKept
  <2>4. AdapterTypes' BY <1>1, <2>2 DEF AdapterInv, AdapterTypes
  <2>5. \A k \in Authorizations : AuthorizationInv(k)'
    BY <1>1, <2>2, <2>3 DEF AdapterInv, AuthorizationInv, Sound, Outward
  <2> QED BY <2>3, <2>4, <2>5 DEF AdapterInv
<1>4. CASE held[i] # "none"
  <2>1. i \in asked BY <1>4 DEF AdapterInv, AuthorizationInv
  <2>2. client = "simulated" => Simulating BY DEF AdapterInv, ClientFits
  <2>3. client # "simulated" => body = payTabsStatus(i) BY <1>2 DEF payTabsBodies
  <2>4. answer = "SUCCEEDED" => body = "A" BY DEF resolveUnknownPayTabsOutcome
  <2>5. payTabsStatus(i) = "A" => remote[i] = "paid" BY DEF payTabsStatus
  <2> HIDE DEF answer
  <2>6. Answered(i, "recover", answer) BY <1>2 DEF answer
  <2> QED BY <1>1, <2>1, <2>2, <2>3, <2>4, <2>5, <2>6, Told
<1> QED BY <1>3, <1>4

\* Steps of the customer and of the provider, and a cancellation: what is
\* there goes on as the provider lets it.
LEMMA GoesOn ==
  ASSUME AdapterInv, NEW i \in Authorizations, UNCHANGED <<setup, asked, held, page, told>>,
         client' \in {client, clientOr(loadCredentials), "none"},
         NEW r \in Remotes, remote' = [remote EXCEPT ![i] = r],
         \/ r = remote[i]
         \/ /\ remote[i] \in {"open", "declined", "processing"} /\ r \notin {"none", "open"}
            /\ r \in {"processing", "paid"} => page[i]
            /\ Outward => ~Simulating
  PROVE  AdapterInv'
<1>1. PICK r0 \in Remotes, h \in {"none", "attempt", "intent", "session", "tran_ref"},
         p \in BOOLEAN, t0 \in SUBSET Verdicts :
        /\ remote[i] = r0 /\ held[i] = h /\ page[i] = p /\ told[i] = t0
        /\ remote = [remote EXCEPT ![i] = r0] /\ held = [held EXCEPT ![i] = h]
        /\ page = [page EXCEPT ![i] = p] /\ told = [told EXCEPT ![i] = t0]
        /\ Sound(r0, h, p, t0)
        /\ i \notin asked => r0 = "none" /\ h = "none" /\ ~p /\ t0 = {}
  BY RowOf
<1>3. Sound(r, h, p, t0) BY <1>1 DEF Sound
<1>4. i \notin asked => r = "none" /\ h = "none" /\ ~p /\ t0 = {} BY <1>1
<1>5. ClientFits' /\ (Simulating' <=> Simulating) BY ClientKept
<1>6. AdapterTypes' BY DEF AdapterInv, AdapterTypes
<1>7. ASSUME NEW k \in Authorizations PROVE AuthorizationInv(k)'
  <2>1. AuthorizationInv(k) BY DEF AdapterInv
  <2>2. remote'[k] = IF k = i THEN r ELSE remote[k] BY DEF AdapterInv, AdapterTypes
  <2>3. Sound(remote'[k], held[k], page[k], told[k]) BY <1>1, <1>3, <2>1, <2>2 DEF AuthorizationInv
  <2> QED BY <1>1, <1>4, <1>5, <2>1, <2>2, <2>3 DEF AuthorizationInv, Sound, Outward
<1> QED BY <1>5, <1>6, <1>7 DEF AdapterInv

LEMMA AdaptersStep == AdapterInv /\ [AdaptersNext]_adapterVars => AdapterInv'
<1> SUFFICES ASSUME AdapterInv, [AdaptersNext]_adapterVars PROVE AdapterInv' OBVIOUS
<1>0. AdapterTypes /\ \A i \in Authorizations : AuthorizationInv(i) BY DEF AdapterInv
<1>1. ASSUME NEW i \in Authorizations, NEW token, Decline(i, token) PROVE AdapterInv'
  <2>1. /\ Outward /\ i \notin asked /\ asked' = asked \cup {i} /\ UNCHANGED <<setup, client, remote, held, page>>
        /\ Answered(i, "authorize", "FAILED")
    BY <1>1 DEF Decline, Asks, Outward
  <2>2. remote[i] = "none" /\ held[i] = "none" /\ ~page[i] /\ told[i] = {}
    BY <1>0, <2>1 DEF AuthorizationInv
  <2>3. /\ remote' = [remote EXCEPT ![i] = "none"] /\ held' = [held EXCEPT ![i] = "none"]
        /\ page' = [page EXCEPT ![i] = FALSE] /\ told' = [told EXCEPT ![i] = {<<"authorize", "FAILED">>}]
    BY <1>0, <2>1, <2>2 DEF Answered, AdapterTypes, Verdicts
  <2>4. {<<"authorize", "FAILED">>} \in SUBSET Verdicts /\ "none" \in Remotes BY DEF Verdicts, Remotes
  <2>5. Sound("none", "none", FALSE, {<<"authorize", "FAILED">>}) BY DEF Sound
  <2> QED BY <2>1, <2>3, <2>4, <2>5, OneChanges
<1>2. ASSUME NEW i \in Authorizations, NEW token, AuthorizeLocally(i, token) PROVE AdapterInv'
  <2>1. /\ ~Outward /\ i \notin asked /\ asked' = asked \cup {i} /\ UNCHANGED <<setup, client, remote, page>>
    BY <1>2 DEF AuthorizeLocally, Asks, Outward
  <2>2. PICK answer : Answered(i, "authorize", answer) BY <1>2 DEF AuthorizeLocally
  <2>3. PICK h \in {"none", "attempt", "intent", "session", "tran_ref"} : held' = [held EXCEPT ![i] = h]
    <3>1. held[i] \in {"none", "attempt", "intent", "session", "tran_ref"} BY <1>0 DEF AdapterTypes
    <3> QED BY <1>2, <3>1 DEF AuthorizeLocally
  <2>4. PICK t \in SUBSET Verdicts : told' = [told EXCEPT ![i] = t]
    BY <1>0, <2>2 DEF Answered, AdapterTypes
  <2>5. PICK r \in Remotes, p \in BOOLEAN :
          remote' = [remote EXCEPT ![i] = r] /\ page' = [page EXCEPT ![i] = p]
    BY <1>0, <2>1 DEF AdapterTypes
  <2>6. Sound(r, h, p, t) BY <2>1 DEF Sound
  <2>7. setup' = setup /\ client' = client /\ asked' = asked \cup {i} BY <2>1
  <2>8. i \in asked' BY <2>7
  <2> QED BY <2>3, <2>4, <2>5, <2>6, <2>7, <2>8, OneChanges
<1>3. ASSUME NEW i \in Authorizations, NEW wire \in Wires, Authorize(i, wire) PROVE AdapterInv'
  BY <1>3, Authorized
<1>4. ASSUME NEW i \in Authorizations, NEW wire \in Wires, GetStatus(i, wire) PROVE AdapterInv'
  BY <1>4, StatusTold
<1>5. ASSUME NEW i \in Authorizations, NEW wire \in Wires, Recover(i, wire) PROVE AdapterInv'
  BY <1>5, Recovered
<1>6. ASSUME NEW i \in Authorizations, NEW wire \in Wires, VoidPayment(i, wire) PROVE AdapterInv'
  <2>1. /\ client' \in {client, clientOr(loadCredentials), "none"} /\ setup.code = "stripe"
        /\ UNCHANGED <<setup, asked, held, page>>
    BY <1>6, CredentialsFit DEF VoidPayment
  <2>2. \A answer : <<"void", answer>> \notin Verdicts BY DEF Verdicts
  <2>3. told' = told BY <1>0, <1>6, <2>2 DEF VoidPayment, Answered, AdapterTypes
  <2>4. PICK r \in {remote[i], "canceled"} :
          /\ remote' = [remote EXCEPT ![i] = r]
          /\ r # remote[i] => remote[i] \in {"open", "declined"}
    BY <1>6 DEF VoidPayment
  <2>5. r \in Remotes BY <1>0 DEF AdapterTypes, Remotes
  <2>6. remote[i] \in {"open", "declined"} => ~Simulating
    BY <1>0, <2>1 DEF AuthorizationInv, Sound, Outward
  <2> QED BY <2>1, <2>3, <2>4, <2>5, <2>6, GoesOn
<1>7. ASSUME NEW i \in Authorizations, CustomerActs(i) \/ ProviderActs(i) PROVE AdapterInv'
  <2>1. /\ UNCHANGED <<setup, client, asked, held, page, told>>
        /\ remote[i] \in {"open", "declined", "processing"}
    BY <1>7 DEF CustomerActs, ProviderActs
  <2>2. PICK r \in {"paid", "processing", "declined", "expired", "canceled"} :
          /\ remote' = [remote EXCEPT ![i] = r]
          /\ r \in {"processing", "paid"} => page[i] \/ remote[i] = "processing"
    BY <1>7 DEF CustomerActs, ProviderActs
  <2>3. Outward => ~Simulating BY <1>0, <2>1 DEF AuthorizationInv, Sound
  <2>4. CASE Outward
    <3>1. remote[i] = "processing" => page[i] BY <1>0, <2>3, <2>4 DEF AuthorizationInv, Sound
    <3> QED BY <2>1, <2>2, <2>3, <3>1, GoesOn DEF Remotes
  <2>5. CASE ~Outward
    <3>1. PICK h \in {"none", "attempt", "intent", "session", "tran_ref"}, p \in BOOLEAN, t \in SUBSET Verdicts :
            /\ held' = [held EXCEPT ![i] = h] /\ page' = [page EXCEPT ![i] = p]
            /\ told' = [told EXCEPT ![i] = t]
      BY <1>0, <2>1 DEF AdapterTypes
    <3>2. i \in asked /\ r \in Remotes BY <1>0, <2>1 DEF AuthorizationInv, Remotes
    <3>3. Sound(r, h, p, t) BY <2>5 DEF Sound
    <3>4. setup' = setup /\ client' = client /\ asked' = asked BY <2>1
    <3>5. remote' = [remote EXCEPT ![i] = r] BY <2>2
    <3> QED BY <3>1, <3>2, <3>3, <3>4, <3>5, OneChanges
  <2> QED BY <2>4, <2>5
<1>8. ASSUME UNCHANGED <<setup, asked, remote, held, page, told>>, client' \in {client, "none"}
      PROVE  AdapterInv'
  <2>1. ClientFits' /\ (Simulating' <=> Simulating) BY <1>8, ClientKept
  <2>2. AdapterTypes' BY <1>0, <1>8 DEF AdapterTypes
  <2>3. \A i \in Authorizations : AuthorizationInv(i)'
    BY <1>0, <1>8, <2>1 DEF AuthorizationInv, Sound, Outward
  <2> QED BY <2>1, <2>2, <2>3 DEF AdapterInv
<1>9. CASE RestartAdapter BY <1>8, <1>9 DEF RestartAdapter
<1>10. ASSUME NEW key, ChangeSecrets(key) PROVE AdapterInv' BY <1>8, <1>10 DEF ChangeSecrets
<1>11. CASE UNCHANGED adapterVars BY <1>8, <1>11 DEF adapterVars
<1> QED BY <1>1, <1>2, <1>3, <1>4, <1>5, <1>6, <1>7, <1>9, <1>10, <1>11 DEF AdaptersNext

LEMMA AnswersFollow == AdapterInv => AnswersAreTrue
<1> SUFFICES ASSUME AdapterInv PROVE AnswersAreTrue OBVIOUS
<1>1. ClientFits BY DEF AdapterInv
<1>2. ASSUME Outward, NEW i \in Authorizations
      PROVE  /\ \A op \in {"authorize", "getStatus", "recover"} : <<op, "SUCCEEDED">> \in told[i] =>
                  \/ Simulating
                  \/ remote[i] = "paid"
                  \/ held[i] = "session" /\ page[i] /\ remote[i] # "open"
             /\ <<"authorize", "FAILED">> \in told[i] => remote[i] \notin {"processing", "paid"}
             /\ setup.code = "stripe" /\ <<"getStatus", "FAILED">> \in told[i]
                  => remote[i] \in {"canceled", "expired"}
  <2>1. AuthorizationInv(i) BY DEF AdapterInv
  <2> QED BY <1>2, <2>1 DEF AuthorizationInv, Sound
<1> QED BY <1>1, <1>2 DEF AnswersAreTrue, ClientFits, Outward

\* For any two authorizations of a payment, whichever call is lost on
\* whichever way, and whatever secrets are changed meanwhile: where the
\* deployment does not simulate, a success is told of what the customer paid
\* or of a session the customer completed; an authorization told to have
\* failed when it was asked for is not paid itself (the payment's other one may
\* be); and no client holds a key of the other plane.
THEOREM AnswersStayTrue == AdapterSpec => []AnswersAreTrue
BY AnswersFollow, AdaptersStart, AdaptersStep, PTL DEF AdapterSpec

-----------------------------------------------------------------------------
(* The refunds of a payment.                                               *)

RefundSpec == RefundsInit /\ [][RefundsNext]_refundVars

RequestRows ==
  [step : {"asked", "locked", "accepted"}, key : RefundKeys \cup {NoKey}, amount : Nat]
ProviderRefunds ==
  [key : RefundKeys \cup {NoKey}, amount : Nat, by : {"api", "dashboard"},
   status : {"succeeded", "pending", "failed"}, first : {"succeeded", "pending"}]

RefundTypes ==
  /\ request \in [Calls -> {NoRequest} \cup RequestRows]
  /\ holder \in [holds : SUBSET Calls]
  /\ IsFiniteSet(refunds) /\ \A r \in refunds : r.amount \in Nat
  /\ atProvider \in Seq(ProviderRefunds)

Inside(c) == request[c].step \in {"locked", "accepted"}

\* Whoever is between the lock and the commit has the lock, and is alone.
LockAlone ==
  /\ \A c \in Calls : Inside(c) => holder.holds = {c} /\ refundable(rail)
  /\ \A c \in holder.holds : Inside(c)

\* There is room for what was asked for until it is recorded.
RoomLeft ==
  /\ Recorded <= Captured
  /\ \A c \in Calls : Inside(c) => Recorded + request[c].amount <= Captured

MadeFor(key, amount) ==
  \E n \in DOMAIN atProvider :
    atProvider[n].by = "api" /\ atProvider[n].key = key /\ atProvider[n].amount = amount

\* A key was taken on once, and what goes on to be recorded was taken on.
TakenOn ==
  /\ rail = "stripe" =>
       \A n, m \in DOMAIN atProvider :
         /\ atProvider[n].by = "api" /\ atProvider[m].by = "api"
         /\ atProvider[n].key = atProvider[m].key /\ atProvider[n].key # NoKey
         => n = m
  /\ rail # "sandbox" =>
       \A c \in Calls : request[c].step = "accepted" /\ request[c].key # NoKey
                          => MadeFor(request[c].key, request[c].amount)
  /\ rail # "sandbox" =>
       \A r \in refunds, k \in RefundKeys : r.key = <<"api", k>> => MadeFor(k, r.amount)

RefundInv == RefundTypes /\ LockAlone /\ RoomLeft /\ TakenOn

\* A row adds its amount to what is recorded, unless it is there already.
LEMMA RowAdds ==
  ASSUME NEW R, IsFiniteSet(R), \A r \in R : r.amount \in Nat, NEW x, x.amount \in Nat, x \notin R
  PROVE  /\ IsFiniteSet(R \cup {x})
         /\ SumOver([r \in R |-> r.amount], R) \in Int
         /\ SumOver([r \in R \cup {x} |-> r.amount], R \cup {x})
              = SumOver([r \in R |-> r.amount], R) + x.amount
<1> DEFINE f == [r \in R |-> r.amount]
           T == R \cup {x}
           g == [r \in T |-> r.amount]
<1>1. /\ \A r \in R : f[r] \in Int /\ f[r] = r.amount
      /\ \A r \in T : g[r] \in Int /\ g[r] = r.amount
      /\ x \in T
  OBVIOUS
<1>2. IsFiniteSet(T) BY FS_AddElement
<1>3. \A r \in R : f[r] \in Int /\ g[r] = f[r] BY <1>1
<1>4. T \ {x} = R OBVIOUS
<1> HIDE DEF f, g, T
<1>5. SumOver(g, T) = g[x] + SumOver(g, T \ {x}) BY <1>1, <1>2, SumOverRemove
<1>6. SumOver(g, R) = SumOver(f, R) BY <1>3, SumOverEqual
<1>7. SumOver(f, R) \in Int BY <1>3, SumOverInt
<1>8. SumOver(g, T) = x.amount + SumOver(f, R) BY <1>1, <1>4, <1>5, <1>6, Zenon
<1>9. SumOver(g, T) = SumOver(f, R) + x.amount BY <1>7, <1>8
<1> QED BY <1>2, <1>7, <1>9 DEF f, g, T

LEMMA RecordedMoves ==
  ASSUME RefundTypes, NEW x, x.amount \in Nat, refunds' = refunds \cup {x}
  PROVE  /\ IsFiniteSet(refunds') /\ (\A r \in refunds' : r.amount \in Nat)
         /\ Recorded \in Int /\ Recorded' \in Int
         /\ Recorded' = Recorded \/ Recorded' = Recorded + x.amount
<1>1. PICK R : R = refunds OBVIOUS
<1>2. /\ IsFiniteSet(R) /\ \A r \in R : r.amount \in Nat BY <1>1 DEF RefundTypes
<1>3. Recorded = SumOver([r \in R |-> r.amount], R) BY <1>1 DEF Recorded
<1>4. \A r \in R : [s \in R |-> s.amount][r] \in Int BY <1>2
<1>5. Recorded \in Int BY <1>2, <1>3, <1>4, SumOverInt
<1>6. CASE x \in R
  <2>1. refunds' = R BY <1>1, <1>6
  <2>2. Recorded' = Recorded BY <1>3, <2>1, Zenon DEF Recorded
  <2> QED BY <1>2, <1>5, <2>1, <2>2
<1>7. CASE x \notin R
  <2>1. /\ IsFiniteSet(R \cup {x})
        /\ SumOver([r \in R \cup {x} |-> r.amount], R \cup {x})
             = SumOver([r \in R |-> r.amount], R) + x.amount
    BY <1>2, <1>7, RowAdds
  <2>2. refunds' = R \cup {x} BY <1>1
  <2>3. Recorded' = SumOver([r \in R \cup {x} |-> r.amount], R \cup {x}) BY <2>2, Zenon DEF Recorded
  <2>4. Recorded' = Recorded + x.amount BY <1>3, <2>1, <2>3, Zenon
  <2>5. Recorded' \in Int BY <1>5, <2>4
  <2>6. \A r \in refunds' : r.amount \in Nat BY <1>2, <2>2
  <2>7. IsFiniteSet(refunds') BY <2>1, <2>2, Zenon
  <2> QED BY <1>5, <2>4, <2>5, <2>6, <2>7
<1> QED BY <1>6, <1>7

LEMMA RecordedInt == RefundTypes => Recorded \in Int
<1> SUFFICES ASSUME RefundTypes PROVE Recorded \in Int OBVIOUS
<1>1. PICK R : R = refunds OBVIOUS
<1>2. /\ IsFiniteSet(R) /\ \A r \in R : r.amount \in Nat BY <1>1 DEF RefundTypes
<1>3. Recorded = SumOver([r \in R |-> r.amount], R) BY <1>1 DEF Recorded
<1>4. \A r \in R : [s \in R |-> s.amount][r] \in Int BY <1>2
<1> QED BY <1>2, <1>3, <1>4, SumOverInt

LEMMA RefundsStart == RefundsInit => RefundInv
<1> SUFFICES ASSUME RefundsInit PROVE RefundInv OBVIOUS
<1>1. /\ request = [c \in Calls |-> NoRequest] /\ holder = Free /\ refunds = {} /\ atProvider = <<>>
  BY DEF RefundsInit
<1>2. RefundTypes BY <1>1, FS_EmptySet DEF RefundTypes, Free
<1>3. \A c \in Calls : request[c].step = "none" BY <1>1 DEF NoRequest
<1>4. LockAlone BY <1>1, <1>3 DEF LockAlone, Inside, Free
<1>5. Recorded = 0 BY <1>1, SumOverEmpty DEF Recorded
<1>6. RoomLeft BY <1>3, <1>5, RefundsAssumption DEF RoomLeft, Inside
<1>7. TakenOn BY <1>1, <1>3 DEF TakenOn
<1> QED BY <1>2, <1>4, <1>6, <1>7 DEF RefundInv

\* A request that is put to the door, or out of it, while nothing else moves.
LEMMA RequestMoves ==
  ASSUME RefundInv, NEW c \in Calls, NEW q \in {NoRequest} \cup RequestRows,
         request' = [request EXCEPT ![c] = q],
         UNCHANGED <<rail, refunds, atProvider>>,
         q.step \notin {"locked", "accepted"},
         holder' = [holds |-> holder.holds \ {c}]
  PROVE  RefundInv'
<1>1. /\ request' \in [Calls -> {NoRequest} \cup RequestRows] /\ request'[c] = q
      /\ \A d \in Calls : d # c => request'[d] = request[d]
  BY DEF RefundInv, RefundTypes
<1>2. RefundTypes' BY <1>1 DEF RefundInv, RefundTypes
<1>3. \A d \in Calls : Inside(d)' => d # c /\ Inside(d) BY <1>1 DEF Inside
<1>4. holder'.holds = holder.holds \ {c} OBVIOUS
<1>5. \A d \in Calls : Inside(d) /\ d # c => Inside(d)' BY <1>1 DEF Inside
<1>6. \A d \in holder.holds : d \in Calls BY DEF RefundInv, RefundTypes
<1>7. LockAlone' BY <1>3, <1>4, <1>5, <1>6 DEF RefundInv, LockAlone
<1>8. Recorded' = Recorded BY DEF Recorded
<1>9. RoomLeft' BY <1>1, <1>3, <1>8 DEF RefundInv, RoomLeft
<1>10. TakenOn' BY <1>1 DEF RefundInv, TakenOn, MadeFor
<1> QED BY <1>2, <1>7, <1>9, <1>10 DEF RefundInv

LEMMA ToLocked ==
  ASSUME RefundInv, NEW c \in Calls, Lock(c)
  PROVE  RefundInv'
<1>1. /\ request[c].step = "asked" /\ holder = Free
      /\ UNCHANGED <<rail, refunds, atProvider, events>>
  BY DEF Lock, lockable
<1>2. request[c] \in RequestRows BY <1>1 DEF RefundInv, RefundTypes, NoRequest
<1>5. Recorded \in Int /\ request[c].amount \in Nat /\ Captured \in Nat
  BY <1>2, RecordedInt, RefundsAssumption DEF RefundInv, RequestRows
<1>3. CASE /\ Recorded + request[c].amount <= Captured /\ refundable(rail)
           /\ request' = [request EXCEPT ![c].step = "locked"] /\ holder' = [holds |-> {c}]
  <2> DEFINE q == [request[c] EXCEPT !.step = "locked"]
  <2>1. request' = [request EXCEPT ![c] = q] BY <1>3
  <2>2. q \in RequestRows /\ q.step = "locked" /\ q.amount = request[c].amount /\ q.key = request[c].key
    BY <1>2 DEF RequestRows
  <2> HIDE DEF q
  <2>3. /\ request' \in [Calls -> {NoRequest} \cup RequestRows] /\ request'[c] = q
        /\ \A d \in Calls : d # c => request'[d] = request[d]
    BY <2>1, <2>2 DEF RefundInv, RefundTypes
  <2>4. RefundTypes' BY <1>1, <1>3, <2>3 DEF RefundInv, RefundTypes
  <2>5. \A d \in Calls : ~Inside(d) BY <1>1 DEF RefundInv, LockAlone, Free
  <2>6. \A d \in Calls : Inside(d)' <=> d = c BY <2>2, <2>3, <2>5 DEF Inside
  <2>7. LockAlone' BY <1>1, <1>3, <2>6 DEF LockAlone, refundable
  <2>8. Recorded' = Recorded BY <1>1 DEF Recorded
  <2>9. RoomLeft' BY <1>3, <2>2, <2>3, <2>6, <2>8 DEF RefundInv, RoomLeft
  <2>10. TakenOn' BY <1>1, <2>2, <2>3 DEF RefundInv, TakenOn, MadeFor
  <2> QED BY <2>4, <2>7, <2>9, <2>10 DEF RefundInv
<1>4. CASE request' = [request EXCEPT ![c] = NoRequest] /\ UNCHANGED holder
  <2>1. holder' = [holds |-> holder.holds \ {c}] BY <1>1, <1>4 DEF Free
  <2>2. NoRequest.step \notin {"locked", "accepted"} BY DEF NoRequest
  <2> QED BY <1>1, <1>4, <2>1, <2>2, RequestMoves
<1> QED BY <1>3, <1>4, <1>5 DEF Lock, resolvePaymentProviderForRefund

\* Only a refund the provider made, or made before under the key, goes on.
LEMMA OnlyMadeGoesOn ==
  ASSUME NEW provider \in {"paytabs", "stripe"}, NEW wire
  PROVE  ~goesOn(refundAnswer(provider, wire, "failed"))
<1>1. CASE provider = "stripe" BY <1>1 DEF refundAnswer, goesOn, mapRefund
<1>2. CASE provider = "paytabs"
  <2>1. refundAnswer(provider, wire, "failed")
          = LET class == postJson(wire, "D") IN
            CASE class = "none" -> mapPayTabsPaymentResponse("refund", FALSE, "D")
              [] class = "TIMEOUT" -> "throws"
              [] OTHER -> mapHttpErrorToProviderResult(wire)
    BY <1>2 DEF refundAnswer
  <2>2. mapPayTabsPaymentResponse("refund", FALSE, "D") = "FAILED"
    BY DEF mapPayTabsPaymentResponse, mapPayTabsResponseStatus
  <2>3. wire = "timeout" => postJson(wire, "D") = "TIMEOUT" BY DEF postJson, HttpErrors
  <2>4. wire # "timeout" => mapHttpErrorToProviderResult(wire) = "FAILED"
    BY DEF mapHttpErrorToProviderResult
  <2> QED BY <2>1, <2>2, <2>3, <2>4 DEF goesOn
<1> QED BY <1>1, <1>2

\* The provider's refunds only grow, and only a dashboard's or a new key's
\* comes in: what was made stays made.
LEMMA MadeStays ==
  ASSUME RefundTypes, NEW row \in ProviderRefunds, atProvider' = Append(atProvider, row)
  PROVE  /\ atProvider' \in Seq(ProviderRefunds)
         /\ Len(atProvider) \in Nat /\ Len(atProvider)' = Len(atProvider) + 1
         /\ atProvider'[Len(atProvider) + 1] = row
         /\ \A n \in DOMAIN atProvider : n \in DOMAIN atProvider' /\ atProvider'[n] = atProvider[n]
         /\ \A n \in DOMAIN atProvider' : n \in DOMAIN atProvider \/ n = Len(atProvider) + 1
         /\ Len(atProvider) + 1 \in DOMAIN atProvider'
<1>1. PICK s \in Seq(ProviderRefunds) : s = atProvider BY DEF RefundTypes
<1>2. atProvider' = Append(s, row) BY <1>1
<1>3. /\ Len(s) \in Nat /\ DOMAIN s = 1..Len(s) /\ Append(s, row) \in Seq(ProviderRefunds)
      /\ Len(Append(s, row)) = Len(s) + 1 /\ DOMAIN Append(s, row) = 1..(Len(s) + 1)
      /\ Append(s, row)[Len(s) + 1] = row
      /\ \A n \in 1..Len(s) : Append(s, row)[n] = s[n]
  OBVIOUS
<1> QED BY <1>1, <1>2, <1>3

LEMMA TakenOnStays ==
  ASSUME RefundInv, NEW row \in ProviderRefunds, atProvider' = Append(atProvider, row),
         rail' = rail, refunds' = refunds,
         rail = "stripe" /\ row.by = "api" /\ row.key # NoKey =>
           \A n \in DOMAIN atProvider : ~(atProvider[n].by = "api" /\ atProvider[n].key = row.key),
         \A c \in Calls : request'[c].step = "accepted" =>
           \/ request[c].step = "accepted" /\ request'[c] = request[c]
           \/ row.by = "api" /\ row.key = request'[c].key /\ row.amount = request'[c].amount
  PROVE  TakenOn'
<1>1. /\ Len(atProvider) \in Nat
      /\ atProvider'[Len(atProvider) + 1] = row
      /\ \A n \in DOMAIN atProvider : n \in DOMAIN atProvider' /\ atProvider'[n] = atProvider[n]
      /\ \A n \in DOMAIN atProvider' : n \in DOMAIN atProvider \/ n = Len(atProvider) + 1
      /\ Len(atProvider) + 1 \in DOMAIN atProvider'
  BY MadeStays DEF RefundInv
<1>2. ASSUME NEW key, NEW amount, MadeFor(key, amount) PROVE MadeFor(key, amount)'
  BY <1>1, <1>2 DEF MadeFor
<1>3. MadeFor(row.key, row.amount)' \/ row.by # "api" BY <1>1 DEF MadeFor
<1>4. ASSUME rail = "stripe", NEW n \in DOMAIN atProvider', NEW m \in DOMAIN atProvider',
             atProvider'[n].by = "api", atProvider'[m].by = "api",
             atProvider'[n].key = atProvider'[m].key, atProvider'[n].key # NoKey
      PROVE  n = m
  BY <1>1, <1>4 DEF RefundInv, TakenOn
<1>5. ASSUME rail # "sandbox", NEW c \in Calls, request'[c].step = "accepted", request'[c].key # NoKey
      PROVE  MadeFor(request[c].key, request[c].amount)'
  <2>1. PICK key, amount : key = request'[c].key /\ amount = request'[c].amount OBVIOUS
  <2>2. CASE request[c].step = "accepted" /\ request'[c] = request[c]
    <3>1. MadeFor(key, amount) BY <1>5, <2>1, <2>2 DEF RefundInv, TakenOn
    <3>2. MadeFor(key, amount)' BY <3>1, <1>2
    <3> QED BY <3>2, <2>1 DEF MadeFor
  <2>3. CASE row.by = "api" /\ row.key = request'[c].key /\ row.amount = request'[c].amount
    BY <1>3, <2>3 DEF MadeFor
  <2> QED BY <1>5, <2>2, <2>3
<1>6. ASSUME rail # "sandbox", NEW r \in refunds, NEW k \in RefundKeys, r.key = <<"api", k>>
      PROVE  MadeFor(k, r.amount)'
  BY <1>2, <1>6 DEF RefundInv, TakenOn
<1> QED BY <1>4, <1>5, <1>6 DEF TakenOn

\* The answer is taken while the lock is held: it is given back, or the
\* request goes on with the room it had.
LEMMA AnswerTaken ==
  ASSUME RefundInv, NEW c \in Calls, request[c].step = "locked", NEW answer, TakeAnswer(c, answer),
         UNCHANGED <<rail, refunds>>, atProvider' \in Seq(ProviderRefunds)
  PROVE  /\ RefundTypes' /\ LockAlone' /\ RoomLeft'
         /\ \A d \in Calls : d # c => request'[d] = request[d]
         /\ \/ goesOn(answer) /\ request'[c].key = request[c].key /\ request'[c].amount = request[c].amount
            \/ request'[c].step # "accepted"
<1>1. /\ request[c] \in RequestRows /\ Inside(c) /\ holder.holds = {c} /\ refundable(rail)
      /\ holder = [holds |-> {c}]
  BY DEF RefundInv, RefundTypes, NoRequest, LockAlone, Inside
<1>2. \A d \in Calls : Inside(d) => d = c BY <1>1 DEF RefundInv, LockAlone
<1>3. Recorded' = Recorded BY DEF Recorded
<1>4. CASE goesOn(answer) /\ request' = [request EXCEPT ![c].step = "accepted"] /\ UNCHANGED holder
  <2> DEFINE q == [request[c] EXCEPT !.step = "accepted"]
  <2>1. request' = [request EXCEPT ![c] = q] BY <1>4
  <2>2. q \in RequestRows /\ q.step = "accepted" /\ q.amount = request[c].amount /\ q.key = request[c].key
    BY <1>1 DEF RequestRows
  <2> HIDE DEF q
  <2>3. /\ request' \in [Calls -> {NoRequest} \cup RequestRows] /\ request'[c] = q
        /\ \A d \in Calls : d # c => request'[d] = request[d]
    BY <2>1, <2>2 DEF RefundInv, RefundTypes
  <2>4. RefundTypes' BY <1>4, <2>3 DEF RefundInv, RefundTypes
  <2>5. \A d \in Calls : Inside(d)' <=> d = c BY <1>2, <2>2, <2>3 DEF Inside
  <2>6. LockAlone' BY <1>1, <1>4, <2>5 DEF LockAlone, refundable
  <2>7. RoomLeft' BY <1>1, <1>3, <2>2, <2>3, <2>5 DEF RefundInv, RoomLeft
  <2> QED BY <1>4, <2>2, <2>3, <2>4, <2>6, <2>7
<1>5. CASE request' = [request EXCEPT ![c] = NoRequest] /\ holder' = Free
  <2>1. /\ request' \in [Calls -> {NoRequest} \cup RequestRows] /\ request'[c] = NoRequest
        /\ \A d \in Calls : d # c => request'[d] = request[d]
    BY <1>5 DEF RefundInv, RefundTypes
  <2>2. RefundTypes' BY <1>5, <2>1 DEF RefundInv, RefundTypes, Free
  <2>3. \A d \in Calls : ~Inside(d)' BY <1>2, <2>1 DEF Inside, NoRequest
  <2>4. LockAlone' BY <1>5, <2>3 DEF LockAlone, Free
  <2>5. RoomLeft' BY <1>3, <2>3 DEF RefundInv, RoomLeft
  <2> QED BY <2>1, <2>2, <2>4, <2>5 DEF NoRequest
<1> QED BY <1>4, <1>5 DEF TakeAnswer

LEMMA ProviderCalled ==
  ASSUME RefundInv, NEW c \in Calls, NEW wire \in Wires, CallProvider(c, wire)
  PROVE  RefundInv'
<1>1. /\ request[c].step = "locked" /\ UNCHANGED <<rail, refunds, events>>
  BY DEF CallProvider
<1>2. PICK key, amount, old :
        key = request[c].key /\ amount = request[c].amount /\ old = known(rail, key)
  OBVIOUS
<1>3. /\ key \in RefundKeys \cup {NoKey} /\ amount \in Nat /\ rail \in {"sandbox", "paytabs", "stripe"}
  BY <1>1, <1>2 DEF RefundInv, RefundTypes, NoRequest, RequestRows, LockAlone, Inside, refundable
<1>4. \A n \in old : n \in DOMAIN atProvider /\ atProvider[n].by = "api" /\ atProvider[n].key = key
  BY <1>2 DEF known
<1>5. CASE /\ rail # "sandbox" /\ old = {}
           /\ \E status \in {"succeeded", "pending"} :
                /\ atProvider' = Append(atProvider, [key |-> key, amount |-> amount, by |-> "api",
                                                     status |-> status, first |-> status])
                /\ TakeAnswer(c, refundAnswer(rail, wire, status))
  <2>1. PICK status \in {"succeeded", "pending"} :
          /\ atProvider' = Append(atProvider, [key |-> key, amount |-> amount, by |-> "api",
                                               status |-> status, first |-> status])
          /\ TakeAnswer(c, refundAnswer(rail, wire, status))
    BY <1>5
  <2> DEFINE row == [key |-> key, amount |-> amount, by |-> "api", status |-> status, first |-> status]
  <2>2. row \in ProviderRefunds /\ row.by = "api" /\ row.key = key /\ row.amount = amount
    BY <1>3 DEF ProviderRefunds
  <2>3. atProvider' = Append(atProvider, row) BY <2>1
  <2> HIDE DEF row
  <2>4. atProvider' \in Seq(ProviderRefunds) BY <2>2, <2>3, MadeStays DEF RefundInv
  <2>5. /\ RefundTypes' /\ LockAlone' /\ RoomLeft'
        /\ \A d \in Calls : d # c => request'[d] = request[d]
        /\ \/ request'[c].key = key /\ request'[c].amount = amount
           \/ request'[c].step # "accepted"
    BY <1>1, <1>2, <2>1, <2>4, AnswerTaken
  <2>6. rail = "stripe" /\ key # NoKey =>
          \A n \in DOMAIN atProvider : ~(atProvider[n].by = "api" /\ atProvider[n].key = key)
    BY <1>2, <1>5 DEF known
  <2>7. \A d \in Calls : request'[d].step = "accepted" =>
          \/ request[d].step = "accepted" /\ request'[d] = request[d]
          \/ row.by = "api" /\ row.key = request'[d].key /\ row.amount = request'[d].amount
    BY <2>2, <2>5
  <2>8. TakenOn' BY <1>1, <2>2, <2>3, <2>6, <2>7, TakenOnStays
  <2> QED BY <2>5, <2>8 DEF RefundInv
<1>6. CASE /\ atProvider' = atProvider
           /\ TakeAnswer(c, refundAnswer(rail, wire,
                              IF \E n \in old : atProvider[n].amount = amount
                              THEN atProvider[CHOOSE n \in old : TRUE].first ELSE "failed"))
  <2>1. PICK status : status = IF \E n \in old : atProvider[n].amount = amount
                               THEN atProvider[CHOOSE n \in old : TRUE].first ELSE "failed"
    OBVIOUS
  <2>2. TakeAnswer(c, refundAnswer(rail, wire, status)) BY <1>6, <2>1
  <2>3. atProvider' \in Seq(ProviderRefunds) BY <1>6 DEF RefundInv, RefundTypes
  <2>4. /\ RefundTypes' /\ LockAlone' /\ RoomLeft'
        /\ \A d \in Calls : d # c => request'[d] = request[d]
        /\ \/ /\ goesOn(refundAnswer(rail, wire, status))
              /\ request'[c].key = key /\ request'[c].amount = amount
           \/ request'[c].step # "accepted"
    BY <1>1, <1>2, <2>2, <2>3, AnswerTaken
  <2>5. goesOn(refundAnswer(rail, wire, status)) /\ rail # "sandbox" => MadeFor(key, amount)
    <3>1. CASE \E n \in old : atProvider[n].amount = amount BY <1>4, <3>1 DEF MadeFor
    <3>2. CASE ~ \E n \in old : atProvider[n].amount = amount
      <4>1. status = "failed" BY <2>1, <3>2
      <4> QED BY <1>3, <4>1, OnlyMadeGoesOn
    <3> QED BY <3>1, <3>2
  <2>6. ASSUME rail # "sandbox", NEW d \in Calls, request'[d].step = "accepted", request'[d].key # NoKey
        PROVE  MadeFor(request[d].key, request[d].amount)'
    <3>1. CASE d = c
      <4>1. MadeFor(key, amount) /\ request'[c].key = key /\ request'[c].amount = amount
        BY <2>4, <2>5, <2>6, <3>1
      <4> QED BY <1>6, <3>1, <4>1 DEF MadeFor
    <3>2. CASE d # c
      <4>1. request'[d] = request[d] BY <2>4, <3>2
      <4>2. MadeFor(request[d].key, request[d].amount) BY <2>6, <4>1 DEF RefundInv, TakenOn
      <4> QED BY <1>6, <4>1, <4>2 DEF MadeFor
    <3> QED BY <3>1, <3>2
  <2>7. TakenOn' BY <1>1, <1>6, <2>6 DEF RefundInv, TakenOn, MadeFor
  <2> QED BY <2>4, <2>7 DEF RefundInv
<1> QED BY <1>2, <1>5, <1>6 DEF CallProvider, resolvePaymentProviderForRefund

\* A row is recorded by whoever has the lock, or an event that waited for it.
LEMMA Committed ==
  ASSUME RefundInv, NEW c \in Calls, CommitRefund(c)
  PROVE  RefundInv'
<1>1. PICK id : id = IF request[c].key = NoKey THEN <<"row", Cardinality(refunds)>> ELSE <<"api", request[c].key>>
  OBVIOUS
<1>2. /\ request[c].step = "accepted" /\ request' = [request EXCEPT ![c] = NoRequest] /\ holder' = Free
      /\ UNCHANGED <<rail, atProvider, events>>
      /\ \/ refunds' = refunds
         \/ refunds' = refunds \cup {[key |-> id, amount |-> request[c].amount]}
  BY <1>1 DEF CommitRefund
<1>3. PICK row : row = [key |-> id, amount |-> request[c].amount] OBVIOUS
<1>4. /\ request[c] \in RequestRows /\ Inside(c)
  BY <1>2 DEF RefundInv, RefundTypes, NoRequest, Inside
<1>5. row.amount \in Nat /\ row.key = id /\ row.amount = request[c].amount
  BY <1>3, <1>4 DEF RequestRows
<1>6. /\ Recorded' \in Int /\ Recorded' <= Captured
      /\ IsFiniteSet(refunds') /\ \A r \in refunds' : r.amount \in Nat
  <2>1. Recorded \in Int /\ Recorded <= Captured /\ Recorded + row.amount <= Captured
    BY <1>4, <1>5, RecordedInt DEF RefundInv, RoomLeft
  <2>2. CASE refunds' = refunds
    <3>1. Recorded' = Recorded BY <2>2 DEF Recorded
    <3> QED BY <2>1, <2>2, <3>1 DEF RefundInv, RefundTypes
  <2>3. CASE refunds' = refunds \cup {row}
    <3>1. /\ IsFiniteSet(refunds') /\ (\A r \in refunds' : r.amount \in Nat)
          /\ Recorded' \in Int /\ (Recorded' = Recorded \/ Recorded' = Recorded + row.amount)
      BY <1>5, <2>3, RecordedMoves DEF RefundInv
    <3> QED BY <2>1, <3>1
  <2> QED BY <1>2, <1>3, <2>2, <2>3
<1>7. /\ request' \in [Calls -> {NoRequest} \cup RequestRows] /\ request'[c] = NoRequest
      /\ \A d \in Calls : d # c => request'[d] = request[d]
  BY <1>2 DEF RefundInv, RefundTypes
<1>8. RefundTypes' BY <1>2, <1>6, <1>7 DEF RefundInv, RefundTypes, Free
<1>9. \A d \in Calls : Inside(d) => d = c BY <1>4 DEF RefundInv, LockAlone
<1>10. \A d \in Calls : ~Inside(d)' BY <1>7, <1>9 DEF Inside, NoRequest
<1>11. LockAlone' BY <1>2, <1>10 DEF LockAlone, Free
<1>12. RoomLeft' BY <1>6, <1>10 DEF RoomLeft
<1>13. ASSUME rail # "sandbox", NEW r \in refunds', NEW k \in RefundKeys, r.key = <<"api", k>>
       PROVE  MadeFor(k, r.amount)'
  <2>1. CASE r \in refunds BY <1>2, <1>13, <2>1 DEF RefundInv, TakenOn, MadeFor
  <2>2. CASE r = row
    <3>1. request[c].key = k /\ k # NoKey BY <1>1, <1>5, <1>13, <2>2, RefundsAssumption
    <3>2. MadeFor(k, r.amount) BY <1>2, <1>5, <1>13, <2>2, <3>1 DEF RefundInv, TakenOn
    <3> QED BY <1>2, <3>2 DEF MadeFor
  <2> QED BY <1>2, <1>3, <1>13, <2>1, <2>2
<1>14. \A d \in Calls : request'[d].step = "accepted" => request[d].step = "accepted" /\ request'[d] = request[d]
  BY <1>7 DEF NoRequest
<1>15. TakenOn' BY <1>2, <1>13, <1>14 DEF RefundInv, TakenOn, MadeFor
<1> QED BY <1>8, <1>11, <1>12, <1>15 DEF RefundInv

LEMMA EventApplied ==
  ASSUME RefundInv, NEW e, e.amount \in Nat, applyProviderRefundEvent(e)
  PROVE  RefundInv'
<1>1. PICK row : row = [key |-> <<"webhook-refund", e>>, amount |-> e.amount] OBVIOUS
<1>2. /\ holder = Free /\ UNCHANGED <<rail, request, holder, atProvider>>
      /\ \/ refunds' = refunds
         \/ refunds' = refunds \cup {row} /\ ~(Recorded + row.amount > Captured)
  BY <1>1 DEF applyProviderRefundEvent
<1>3. row.amount \in Nat /\ \A k \in RefundKeys : row.key # <<"api", k>> BY <1>1
<1>4. \A c \in Calls : ~Inside(c) BY <1>2 DEF RefundInv, LockAlone, Free
<1>5. /\ Recorded' \in Int /\ Recorded' <= Captured
      /\ IsFiniteSet(refunds') /\ \A r \in refunds' : r.amount \in Nat
  <2>1. Recorded \in Int /\ Recorded <= Captured /\ Captured \in Nat
    BY RecordedInt, RefundsAssumption DEF RefundInv, RoomLeft
  <2>2. CASE refunds' = refunds
    <3>1. Recorded' = Recorded BY <2>2 DEF Recorded
    <3> QED BY <2>1, <2>2, <3>1 DEF RefundInv, RefundTypes
  <2>3. CASE refunds' = refunds \cup {row} /\ ~(Recorded + row.amount > Captured)
    <3>1. /\ IsFiniteSet(refunds') /\ (\A r \in refunds' : r.amount \in Nat)
          /\ Recorded' \in Int /\ (Recorded' = Recorded \/ Recorded' = Recorded + row.amount)
      BY <1>3, <2>3, RecordedMoves DEF RefundInv
    <3> QED BY <1>3, <2>1, <2>3, <3>1
  <2> QED BY <1>2, <2>2, <2>3
<1>6. RefundTypes' BY <1>2, <1>5 DEF RefundInv, RefundTypes
<1>7. LockAlone' BY <1>2 DEF RefundInv, LockAlone, Inside, refundable
<1>8. RoomLeft' BY <1>2, <1>4, <1>5 DEF RoomLeft, Inside
<1>9. \A r \in refunds', k \in RefundKeys : r.key = <<"api", k>> => r \in refunds BY <1>2, <1>3
<1>10. TakenOn' BY <1>2, <1>9 DEF RefundInv, TakenOn, MadeFor
<1> QED BY <1>6, <1>7, <1>8, <1>10 DEF RefundInv

\* Whoever refunds in the dashboard uses no key of the merchant's.
LEMMA DashboardRefunds ==
  ASSUME RefundInv, NEW amount \in Nat, RefundInDashboard(amount)
  PROVE  RefundInv'
<1> DEFINE row == [key |-> NoKey, amount |-> amount, by |-> "dashboard",
                   status |-> "succeeded", first |-> "succeeded"]
<1>1. atProvider' = Append(atProvider, row) /\ UNCHANGED <<rail, request, holder, refunds, events>>
  BY DEF RefundInDashboard
<1>2. row \in ProviderRefunds /\ row.by = "dashboard" BY DEF ProviderRefunds
<1> HIDE DEF row
<1>3. RefundTypes' BY <1>1, <1>2, MadeStays DEF RefundInv, RefundTypes
<1>4. Recorded' = Recorded BY <1>1 DEF Recorded
<1>5. LockAlone' /\ RoomLeft' BY <1>1, <1>4 DEF RefundInv, LockAlone, RoomLeft, Inside, refundable
<1>6. TakenOn' BY <1>1, <1>2, TakenOnStays
<1> QED BY <1>3, <1>5, <1>6 DEF RefundInv

LEMMA ProviderSettles ==
  ASSUME RefundInv, NEW n \in DOMAIN atProvider, Settle(n)
  PROVE  RefundInv'
<1>1. PICK status \in {"succeeded", "failed"} : atProvider' = [atProvider EXCEPT ![n].status = status]
  BY DEF Settle
<1>2. UNCHANGED <<rail, request, holder, refunds, events>> BY DEF Settle
<1> DEFINE row == [atProvider[n] EXCEPT !.status = status]
<1>3. atProvider' = [atProvider EXCEPT ![n] = row] BY <1>1
<1>4. /\ atProvider \in Seq(ProviderRefunds) /\ atProvider[n] \in ProviderRefunds
  BY DEF RefundInv, RefundTypes
<1>5. /\ row \in ProviderRefunds /\ row.by = atProvider[n].by /\ row.key = atProvider[n].key
      /\ row.amount = atProvider[n].amount
  BY <1>4 DEF ProviderRefunds
<1> HIDE DEF row
<1>6. /\ atProvider' \in Seq(ProviderRefunds) /\ DOMAIN atProvider' = DOMAIN atProvider
      /\ \A m \in DOMAIN atProvider : atProvider'[m] = IF m = n THEN row ELSE atProvider[m]
  BY <1>3, <1>4, <1>5
<1>7. \A m \in DOMAIN atProvider : /\ atProvider'[m].by = atProvider[m].by
                                   /\ atProvider'[m].key = atProvider[m].key
                                   /\ atProvider'[m].amount = atProvider[m].amount
  BY <1>5, <1>6
<1>8. RefundTypes' BY <1>2, <1>6 DEF RefundInv, RefundTypes
<1>9. Recorded' = Recorded BY <1>2 DEF Recorded
<1>10. LockAlone' /\ RoomLeft' BY <1>2, <1>9 DEF RefundInv, LockAlone, RoomLeft, Inside, refundable
<1>11. ASSUME NEW key, NEW amount, MadeFor(key, amount) PROVE MadeFor(key, amount)'
  BY <1>6, <1>7, <1>11 DEF MadeFor
<1>12. \A c \in Calls : MadeFor(request[c].key, request[c].amount) => MadeFor(request[c].key, request[c].amount)'
  BY <1>2, <1>6, <1>7 DEF MadeFor
<1>13. TakenOn'
  BY <1>2, <1>6, <1>7, <1>11, <1>12 DEF RefundInv, TakenOn
<1> QED BY <1>8, <1>10, <1>13 DEF RefundInv

LEMMA RefundsStep == RefundInv /\ [RefundsNext]_refundVars => RefundInv'
<1> SUFFICES ASSUME RefundInv, [RefundsNext]_refundVars PROVE RefundInv' OBVIOUS
<1>1. ASSUME NEW c \in Calls, createRefund(c) PROVE RefundInv'
  <2>1. ASSUME NEW key \in RefundKeys \cup {NoKey}, NEW amount \in Amounts, Ask(c, key, amount)
        PROVE  RefundInv'
    <3> DEFINE q == [step |-> "asked", key |-> key, amount |-> amount]
    <3>1. /\ request[c] = NoRequest /\ request' = [request EXCEPT ![c] = q]
          /\ UNCHANGED <<rail, holder, refunds, atProvider, events>>
      BY <2>1 DEF Ask
    <3>2. q \in RequestRows /\ q.step = "asked" BY RefundsAssumption DEF RequestRows
    <3> HIDE DEF q
    <3>3. c \notin holder.holds BY <3>1 DEF RefundInv, LockAlone, Inside, NoRequest
    <3>4. holder' = [holds |-> holder.holds \ {c}] BY <3>1, <3>3 DEF RefundInv, RefundTypes
    <3> QED BY <3>1, <3>2, <3>4, RequestMoves
  <2>2. CASE LoseRequest(c)
    <3>1. /\ request' = [request EXCEPT ![c] = NoRequest]
          /\ holder' = [holder EXCEPT !.holds = @ \ {c}]
          /\ UNCHANGED <<rail, refunds, atProvider, events>>
      BY <2>2 DEF LoseRequest
    <3>2. holder' = [holds |-> holder.holds \ {c}] BY <3>1 DEF RefundInv, RefundTypes
    <3>3. NoRequest.step \notin {"locked", "accepted"} BY DEF NoRequest
    <3> QED BY <3>1, <3>2, <3>3, RequestMoves
  <2> QED BY <1>1, <2>1, <2>2, ToLocked, ProviderCalled, Committed DEF createRefund
<1>2. ASSUME NEW amount \in Amounts, RefundInDashboard(amount) PROVE RefundInv'
  BY <1>2, RefundsAssumption, DashboardRefunds
<1>3. ASSUME NEW n \in DOMAIN atProvider, Settle(n) PROVE RefundInv' BY <1>3, ProviderSettles
<1>4. ASSUME NEW n \in DOMAIN atProvider, NEW e \in EventsOf(n), applyProviderRefundEvent(e)
      PROVE  RefundInv'
  <2>1. atProvider \in Seq(ProviderRefunds) BY DEF RefundInv, RefundTypes
  <2>2. atProvider[n] \in ProviderRefunds BY <1>4, <2>1
  <2>3. atProvider[n].amount \in Nat BY <2>2 DEF ProviderRefunds
  <2>4. \A name : amountMinorOf(name, n) \in Nat BY <2>3, RefundsAssumption DEF amountMinorOf
  <2>5. e.amount \in Nat BY <2>4 DEF EventsOf
  <2> QED BY <1>4, <2>5, EventApplied
<1>5. ASSUME NEW e \in SandboxEvents, applyProviderRefundEvent(e) PROVE RefundInv'
  <2>1. e.amount \in Nat BY RefundsAssumption DEF SandboxEvents
  <2> QED BY <1>5, <2>1, EventApplied
<1>6. CASE UNCHANGED refundVars
  <2>1. UNCHANGED <<rail, request, holder, refunds, atProvider, events>> BY <1>6 DEF refundVars
  <2>2. Recorded' = Recorded BY <2>1 DEF Recorded
  <2> QED BY <2>1, <2>2 DEF RefundInv, RefundTypes, LockAlone, RoomLeft, TakenOn, Inside, MadeFor, refundable
<1> QED BY <1>1, <1>2, <1>3, <1>4, <1>5, <1>6 DEF RefundsNext

LEMMA RefundsFollow == RefundInv => RefundsAgree
<1> SUFFICES ASSUME RefundInv PROVE RefundsAgree OBVIOUS
<1>1. ASSUME rail = "stripe", NEW k \in RefundKeys
      PROVE  Cardinality({n \in DOMAIN atProvider : atProvider[n].by = "api" /\ atProvider[n].key = k}) <= 1
  <2> DEFINE S == {n \in DOMAIN atProvider : atProvider[n].by = "api" /\ atProvider[n].key = k}
  <2>1. \A n, m \in S : n = m BY <1>1, RefundsAssumption DEF RefundInv, TakenOn
  <2> HIDE DEF S
  <2>2. CASE S = {} BY <2>2, FS_EmptySet DEF S
  <2>3. CASE S # {}
    <3>1. PICK n \in S : S = {n} BY <2>1, <2>3
    <3> QED BY <3>1, FS_Singleton DEF S
  <2> QED BY <2>2, <2>3
<1>2. ASSUME rail # "sandbox", NEW r \in refunds, NEW k \in RefundKeys, r.key = <<"api", k>>
      PROVE  \E n \in {n \in DOMAIN atProvider : atProvider[n].by = "api" /\ atProvider[n].key = k} :
               atProvider[n].amount = r.amount
  BY <1>2 DEF RefundInv, TakenOn, MadeFor
<1> QED BY <1>1, <1>2 DEF RefundsAgree, RefundInv, RoomLeft

\* However requests, retries, losses and the provider's events are mixed: no
\* more is recorded as refunded than was captured, Stripe pays a key back
\* once, and every row of the merchant stands for a refund the provider took
\* on.  The row lock is held from the sum that is checked to the row.
THEOREM RefundsStand == RefundSpec => []RefundsAgree
BY RefundsStart, RefundsStep, RefundsFollow, PTL DEF RefundSpec

\* That, and what the adapters tell of the payment.
THEOREM RefundsAndAnswers == RefundSpec /\ AdapterSpec => []RefundsHold
<1>1. RefundsAgree /\ AnswersAreTrue => RefundsHold BY DEF RefundsHold
<1> QED BY <1>1, RefundsStand, AnswersStayTrue, PTL
=============================================================================
