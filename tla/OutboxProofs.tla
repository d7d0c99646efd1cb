---------------------------- MODULE OutboxProofs ----------------------------
(***************************************************************************)
(* What holds of the domain events, their mails and their deliveries for   *)
(* any number of events, endpoints and processes, any attempts and any     *)
(* number of faults.                                                       *)
(***************************************************************************)
EXTENDS Outbox, TLAPS

EventRows ==
  [status : {"none", "PENDING", "PROCESSED", "FAILED"}, type : EventTypes,
   complete : BOOLEAN, attempts : Int, available : BOOLEAN]
DeliveryRows ==
  [status : {"none", "PENDING", "RETRYING", "DELIVERED", "FAILED"}, attempt : Int, due : BOOLEAN]
ReadRows == [key : Keys, attempt : Int]

\* What a thread has in hand in each of its steps.
ClaimRow(q) ==
  /\ q.batch \subseteq Events /\ q.left \subseteq q.batch
  /\ q.row \in [q.batch -> EventRows]
  /\ q.queued \subseteq Keys
  /\ q.mailed \subseteq q.batch \ q.left
RunRow(q) ==
  /\ q.rows \subseteq ReadRows
  /\ \A r, s \in q.rows : r.key = s.key => r = s
RecordRow(q) ==
  /\ RunRow(q)
  /\ q.row \in ReadRows
  /\ \A r \in q.rows : r.key # q.row.key
  /\ q.answer \in {"ok", "rejected", "error"}

ThreadRow(q) ==
  /\ q.pc \in {"idle", "claim", "deliver", "record"}
  /\ q.pc = "claim" => ClaimRow(q)
  /\ q.pc = "deliver" => RunRow(q)
  /\ q.pc = "record" => RecordRow(q)

OutboxTypes ==
  /\ outbox \in [Events -> EventRows]
  /\ endpoint \in [Endpoints -> [status : {"none", "ACTIVE", "DISABLED"}, readable : BOOLEAN,
                                 events : SUBSET (MERCHANT_WEBHOOK_EVENT_TYPES \cup {"*"})]]
  /\ delivery \in [Keys -> DeliveryRows]
  /\ sent \in [Events -> Nat]
  /\ owed \in [Events -> SUBSET Endpoints]
  /\ thread = [t \in Threads |-> thread[t]]
  /\ \A t \in Threads : ThreadRow(thread[t])

\* No two claims hold one event, and an event that is held is still pending.
LocksHold ==
  /\ \A t, u \in Threads : t # u => lockedBy(t) \cap lockedBy(u) = {}
  /\ \A t \in Threads : \A e \in lockedBy(t) :
       /\ outbox[e].status = "PENDING" /\ outbox[e].available
       /\ thread[t].row[e].type = outbox[e].type
       /\ thread[t].row[e].complete = outbox[e].complete

mailedBy(t) == IF thread[t].pc = "claim" THEN thread[t].mailed ELSE {}

\* A mail that left is recorded, about to be, or among the unclear ones.
MailsCount ==
  /\ \A e \in Events \ unclear : sent[e] > 0 =>
       sent[e] = 1 /\ (outbox[e].status = "PROCESSED" \/ \E t \in Threads : e \in mailedBy(t))
  /\ \A t \in Threads : \A e \in mailedBy(t) : thread[t].row[e].status = "PROCESSED"

OwedIsWanted == \A e \in Events : \A p \in owed[e] : wants(p, outbox[e].type)

\* What a row of an event says, once the deliveries queued with it are there.
EventTrue(e, row, queued) ==
  row.status = "PROCESSED" =>
    /\ isDeliverableEmailEvent(row.type) /\ row.complete => sent[e] > 0
    /\ \A p \in owed[e] : <<p, e>> \in queued \/ delivery[<<p, e>>].status # "none"

EventsTrue ==
  /\ \A e \in Events : EventTrue(e, outbox[e], {})
  /\ \A t \in Threads : \A e \in lockedBy(t) : EventTrue(e, thread[t].row[e], thread[t].queued)

DeliveriesTrue ==
  /\ \A k \in Keys : delivery[k].status = "DELIVERED" => k \in accepted
  /\ \A t \in Threads : thread[t].pc = "record" /\ thread[t].answer = "ok" => thread[t].row.key \in accepted

\* Of two runs with one delivery in hand the second was noticed, and so is a
\* run that has one in hand that is delivered already.
RunsNoticed ==
  /\ \A t, u \in Threads : t # u => heldBy(t) \cap heldBy(u) \subseteq overlap
  /\ \A t \in Threads : \A k \in heldBy(t) : delivery[k].status = "DELIVERED" => k \in overlap

OutboxInv ==
  OutboxTypes /\ LocksHold /\ MailsCount /\ OwedIsWanted /\ EventsTrue /\ DeliveriesTrue /\ RunsNoticed

-----------------------------------------------------------------------------
LEMMA ThreadMove ==
  ASSUME OutboxTypes, NEW t \in Threads, NEW q, ThreadRow(q), thread' = [thread EXCEPT ![t] = q]
  PROVE  /\ thread' = [u \in Threads |-> thread'[u]]
         /\ \A u \in Threads : thread'[u] = IF u = t THEN q ELSE thread[u]
         /\ \A u \in Threads : ThreadRow(thread'[u])
<1>1. /\ thread' = [u \in Threads |-> thread'[u]]
      /\ \A u \in Threads : thread'[u] = IF u = t THEN q ELSE thread[u]
  BY Zenon DEF OutboxTypes
<1>2. ASSUME NEW u \in Threads PROVE ThreadRow(thread'[u])
  <2>1. CASE u = t
    BY <1>1, <2>1
  <2>2. CASE u # t
    BY <1>1, <2>2 DEF OutboxTypes
  <2>3. QED
    BY <2>1, <2>2
<1>3. QED
  BY <1>1, <1>2

\* A run that begins has nothing in hand, and one that ends.
LEMMA EmptyRuns ==
  /\ ThreadRow(Idle) /\ Idle.pc = "idle"
  /\ \A b \in BOOLEAN : LET q == [pc |-> "deliver", rows |-> {}, read |-> b]
                        IN  ThreadRow(q) /\ q.pc = "deliver" /\ q.rows = {}
<1>1. ThreadRow(Idle) /\ Idle.pc = "idle"
  BY DEF ThreadRow, Idle
<1>2. ASSUME NEW b \in BOOLEAN
      PROVE  LET q == [pc |-> "deliver", rows |-> {}, read |-> b]
             IN  ThreadRow(q) /\ q.pc = "deliver" /\ q.rows = {}
  BY DEF ThreadRow, RunRow
<1>3. QED
  BY <1>1, <1>2

\* The events keep their side of the invariant where neither they, nor the
\* claims, nor the endpoints change and no delivery disappears.
LEMMA EventSide ==
  ASSUME LocksHold, MailsCount, OwedIsWanted, EventsTrue,
         \A u \in Threads : thread[u].pc = "claim" \/ thread'[u].pc = "claim" => thread'[u] = thread[u],
         \A k \in Keys : delivery[k].status # "none" => delivery'[k].status # "none",
         OutboxTypes,
         UNCHANGED <<outbox, sent, unclear, owed, endpoint>>
  PROVE  (LocksHold /\ MailsCount /\ OwedIsWanted /\ EventsTrue)'
<1>1. \A u \in Threads : lockedBy(u)' = lockedBy(u) /\ mailedBy(u)' = mailedBy(u)
  BY DEF lockedBy, mailedBy
<1>2. \A u \in Threads : lockedBy(u)' # {} => thread'[u] = thread[u]
  BY DEF lockedBy
<1>3. \A u \in Threads : mailedBy(u)' # {} => thread'[u] = thread[u]
  BY DEF mailedBy
<1>4. LocksHold'
  BY <1>1, <1>2 DEF LocksHold
<1>5. MailsCount'
  BY <1>1, <1>3 DEF MailsCount
<1>6. OwedIsWanted'
  BY DEF OwedIsWanted, wants, subscribes
<1>7. EventsTrue'
  <2>1. \A e \in Events : \A p \in owed[e] : <<p, e>> \in Keys
    BY DEF OutboxTypes, Keys
  <2>2. ASSUME NEW e \in Events, NEW row, NEW queued, EventTrue(e, row, queued)
        PROVE  EventTrue(e, row, queued)'
    BY <2>1, <2>2 DEF EventTrue
  <2>3. \A e \in Events : EventTrue(e, outbox[e], {})'
    BY <2>2 DEF EventsTrue
  <2>4. ASSUME NEW u \in Threads, NEW e \in lockedBy(u)'
        PROVE  EventTrue(e, thread[u].row[e], thread[u].queued)'
    <3>1. e \in lockedBy(u) /\ thread'[u] = thread[u] /\ e \in Events
      BY <1>1, <1>2, <2>4 DEF lockedBy, OutboxTypes, ThreadRow, ClaimRow
    <3>2. EventTrue(e, thread[u].row[e], thread[u].queued)
      BY <3>1 DEF EventsTrue
    <3>3. QED
      BY <2>2, <3>1, <3>2
  <2>5. QED
    BY <2>3, <2>4 DEF EventsTrue
<1>8. QED
  BY <1>4, <1>5, <1>6, <1>7

\* The deliveries keep theirs where no run reads, posts or records.
LEMMA DeliverySide ==
  ASSUME DeliveriesTrue, RunsNoticed,
         \A u \in Threads : heldBy(u)' \subseteq heldBy(u),
         \A u \in Threads : thread'[u].pc = "record" => thread'[u] = thread[u],
         accepted \subseteq accepted', overlap \subseteq overlap',
         \A k \in Keys : delivery'[k].status = "DELIVERED" => delivery[k].status = "DELIVERED",
         \A u \in Threads : heldBy(u)' \subseteq Keys
  PROVE  (DeliveriesTrue /\ RunsNoticed)'
<1>1. DeliveriesTrue'
  BY DEF DeliveriesTrue
<1>2. RunsNoticed'
  BY DEF RunsNoticed
<1>3. QED
  BY <1>1, <1>2

\* What is in hand is a delivery.
LEMMA HeldKeys ==
  ASSUME NEW u \in Threads, ThreadRow(thread[u]) PROVE heldBy(u) \subseteq Keys
  BY DEF ThreadRow, RunRow, RecordRow, ReadRows, heldBy

LEMMA HeldKeysNext ==
  ASSUME NEW u \in Threads, ThreadRow(thread'[u]) PROVE heldBy(u)' \subseteq Keys
  BY DEF ThreadRow, RunRow, RecordRow, ReadRows, heldBy

\* A thread that goes from one step to another in which it has nothing in hand.
LEMMA HandsEmpty ==
  ASSUME OutboxTypes, NEW t \in Threads, NEW q, ThreadRow(q),
         q.pc \in {"idle", "claim"} \/ (q.pc = "deliver" /\ q.rows = {}),
         thread' = [thread EXCEPT ![t] = q]
  PROVE  /\ \A u \in Threads : heldBy(u)' \subseteq heldBy(u) /\ heldBy(u)' \subseteq Keys
         /\ \A u \in Threads : thread'[u].pc = "record" => thread'[u] = thread[u]
<1>1. \A u \in Threads : thread'[u] = IF u = t THEN q ELSE thread[u]
  BY ThreadMove
<1>2. heldBy(t)' = {}
  BY <1>1 DEF heldBy
<1>3. \A u \in Threads : u # t => heldBy(u)' = heldBy(u)
  BY <1>1 DEF heldBy
<1>4. \A u \in Threads : heldBy(u) \subseteq Keys
  BY HeldKeys DEF OutboxTypes
<1>5. QED
  BY <1>1, <1>2, <1>3, <1>4

-----------------------------------------------------------------------------
\* A key of the event that is inserted has no row yet: it is in no claim, and
\* its mail has not left.
LEMMA EmitKept ==
  ASSUME OutboxInv, NEW e \in Events, NEW type \in EventTypes, NEW complete \in BOOLEAN,
         emitOutboxEvent(e, type, complete)
  PROVE  OutboxInv'
<1> DEFINE row == [status |-> "PENDING", type |-> type, complete |-> complete,
                   attempts |-> 0, available |-> TRUE]
           wanted == {p \in Endpoints : wants(p, type)}
<1>1. /\ OutboxTypes /\ LocksHold /\ MailsCount /\ OwedIsWanted /\ EventsTrue
      /\ DeliveriesTrue /\ RunsNoticed
  BY DEF OutboxInv
<1>2. /\ outbox[e].status = "none" /\ outbox' = [outbox EXCEPT ![e] = row]
      /\ owed' = [owed EXCEPT ![e] = wanted]
      /\ UNCHANGED <<endpoint, delivery, thread, sent, accepted, unclear, overlap>>
  BY DEF emitOutboxEvent
<1>3. row \in EventRows /\ row.status = "PENDING" /\ row.type = type
  BY DEF EventRows
<1>4. wanted \in SUBSET Endpoints /\ \A p \in wanted : wants(p, type)
  OBVIOUS
<1> HIDE DEF row, wanted
<1>5. /\ outbox' \in [Events -> EventRows] /\ outbox'[e] = row
      /\ \A f \in Events : f # e => outbox'[f] = outbox[f]
      /\ owed' \in [Events -> SUBSET Endpoints] /\ owed'[e] = wanted
      /\ \A f \in Events : f # e => owed'[f] = owed[f]
  BY <1>1, <1>2, <1>3, <1>4, Zenon DEF OutboxTypes
<1>6. OutboxTypes'
  BY <1>1, <1>2, <1>5 DEF OutboxTypes
<1>7. /\ \A u \in Threads : lockedBy(u)' = lockedBy(u) /\ mailedBy(u)' = mailedBy(u)
      /\ \A u \in Threads : heldBy(u)' = heldBy(u)
  BY <1>2 DEF lockedBy, mailedBy, heldBy
<1>8. \A u \in Threads : lockedBy(u) \subseteq Events /\ e \notin lockedBy(u) /\ mailedBy(u) \subseteq lockedBy(u)
  BY <1>1, <1>2 DEF LocksHold, lockedBy, mailedBy, OutboxTypes, ThreadRow, ClaimRow
<1>9. LocksHold'
  BY <1>1, <1>2, <1>5, <1>7, <1>8 DEF LocksHold
<1>10. MailsCount'
  BY <1>1, <1>2, <1>5, <1>7, <1>8 DEF MailsCount
<1>11. OwedIsWanted'
  BY <1>1, <1>2, <1>3, <1>4, <1>5 DEF OwedIsWanted, wants, subscribes
<1>12. EventsTrue'
  <2>1. \A f \in Events : \A w, queued : f # e /\ EventTrue(f, w, queued) => EventTrue(f, w, queued)'
    BY <1>2, <1>5 DEF EventTrue
  <2>2. EventTrue(e, row, {})'
    BY <1>3 DEF EventTrue
  <2>3. QED
    BY <1>1, <1>2, <1>5, <1>7, <1>8, <2>1, <2>2 DEF EventsTrue
<1>13. DeliveriesTrue' /\ RunsNoticed'
  BY <1>1, <1>2, <1>7 DEF DeliveriesTrue, RunsNoticed
<1>14. QED
  BY <1>6, <1>9, <1>10, <1>11, <1>12, <1>13 DEF OutboxInv

\* The merchants' changes of their endpoints.
LEMMA EndpointKept ==
  ASSUME OutboxInv,
         endpoint' \in [Endpoints -> [status : {"none", "ACTIVE", "DISABLED"}, readable : BOOLEAN,
                                 events : SUBSET (MERCHANT_WEBHOOK_EVENT_TYPES \cup {"*"})]],
         owed' \in [Events -> SUBSET Endpoints],
         \A e \in Events : owed'[e] \subseteq owed[e],
         \A e \in Events : \A p \in owed'[e] : wants(p, outbox[e].type) => wants(p, outbox[e].type)',
         UNCHANGED <<outbox, delivery, thread, sent, accepted, unclear, overlap>>
  PROVE  OutboxInv'
<1>1. /\ OutboxTypes /\ LocksHold /\ MailsCount /\ OwedIsWanted /\ EventsTrue
      /\ DeliveriesTrue /\ RunsNoticed
  BY DEF OutboxInv
<1>2. OutboxTypes'
  BY <1>1 DEF OutboxTypes
<1>3. /\ \A u \in Threads : lockedBy(u)' = lockedBy(u) /\ mailedBy(u)' = mailedBy(u)
      /\ \A u \in Threads : heldBy(u)' = heldBy(u)
      /\ \A u \in Threads : lockedBy(u) \subseteq Events
  BY <1>1 DEF lockedBy, mailedBy, heldBy, OutboxTypes, ThreadRow, ClaimRow
<1>4. LocksHold' /\ MailsCount' /\ DeliveriesTrue' /\ RunsNoticed'
  BY <1>1, <1>3 DEF LocksHold, MailsCount, DeliveriesTrue, RunsNoticed
<1>5. OwedIsWanted'
  BY <1>1 DEF OwedIsWanted
<1>6. EventsTrue'
  <2>1. \A f \in Events : \A w, queued : EventTrue(f, w, queued) => EventTrue(f, w, queued)'
    BY DEF EventTrue
  <2>2. QED
    BY <1>1, <1>3, <2>1 DEF EventsTrue
<1>7. QED
  BY <1>2, <1>4, <1>5, <1>6 DEF OutboxInv

LEMMA EndpointSteps ==
  ASSUME OutboxInv, NEW p \in Endpoints,
         \/ \E events \in Subscriptions : createEndpoint(p, events)
         \/ \E events \in Subscriptions, s \in {"ACTIVE", "DISABLED"} : updateEndpoint(p, events, s)
         \/ RotateEncryptionKey(p)
  PROVE  OutboxInv'
<1> DEFINE Rows == [status : {"none", "ACTIVE", "DISABLED"}, readable : BOOLEAN,
                    events : SUBSET (MERCHANT_WEBHOOK_EVENT_TYPES \cup {"*"})]
<1>1. OutboxTypes /\ OwedIsWanted
  BY DEF OutboxInv
<1>2. endpoint \in [Endpoints -> Rows] /\ owed \in [Events -> SUBSET Endpoints]
  BY <1>1 DEF OutboxTypes
<1>3. ASSUME NEW row \in Rows, endpoint' = [endpoint EXCEPT ![p] = row]
      PROVE  /\ endpoint' \in [Endpoints -> Rows] /\ endpoint'[p] = row
             /\ \A q \in Endpoints : q # p => endpoint'[q] = endpoint[q]
  BY <1>2, <1>3, Zenon
<1>4. \A q \in Endpoints : \A type : q # p /\ endpoint'[q] = endpoint[q] /\ wants(q, type) => wants(q, type)'
  BY DEF wants, subscribes
<1>5. ASSUME NEW events \in Subscriptions, createEndpoint(p, events) PROVE OutboxInv'
  <2> DEFINE row == [status |-> "ACTIVE", events |-> events, readable |-> TRUE]
  <2>1. row \in Rows /\ endpoint' = [endpoint EXCEPT ![p] = row]
    BY <1>5 DEF createEndpoint, Subscriptions
  <2>2. UNCHANGED <<outbox, delivery, thread, sent, accepted, unclear, overlap, owed>>
    BY <1>5 DEF createEndpoint
  <2>3. \A type : ~wants(p, type)
    BY <1>5 DEF createEndpoint, wants
  <2> HIDE DEF row
  <2>4. \A e \in Events : \A q \in owed[e] : q \in Endpoints /\ q # p
    BY <1>1, <1>2, <2>3 DEF OwedIsWanted
  <2> HIDE DEF Rows
  <2>5. \A e \in Events : \A q \in owed'[e] : wants(q, outbox[e].type) => wants(q, outbox[e].type)'
    BY <1>3, <1>4, <2>1, <2>2, <2>4
  <2>6. endpoint' \in [Endpoints -> Rows] /\ owed' = owed
    BY <1>3, <2>1, <2>2
  <2>7. QED
    BY <1>2, <2>2, <2>5, <2>6, EndpointKept DEF Rows
<1>6. ASSUME NEW events \in Subscriptions, NEW s \in {"ACTIVE", "DISABLED"}, updateEndpoint(p, events, s)
      PROVE  OutboxInv'
  <2> DEFINE row == [endpoint[p] EXCEPT !.status = s, !.events = events]
  <2>1. row \in Rows /\ row.status = s /\ row.events = events
    BY <1>2 DEF Subscriptions
  <2>2. endpoint' = [endpoint EXCEPT ![p] = row]
    BY <1>6 DEF updateEndpoint
  <2>3. /\ UNCHANGED <<outbox, delivery, thread, sent, accepted, unclear, overlap>>
        /\ owed' = [e \in Events |->
               {q \in owed[e] : q # p \/ (s = "ACTIVE" /\ events \cap {"*", outbox[e].type} # {})}]
    BY <1>6 DEF updateEndpoint
  <2> HIDE DEF row
  <2>4. owed' \in [Events -> SUBSET Endpoints] /\ \A e \in Events : owed'[e] \subseteq owed[e]
    BY <1>2, <2>3
  <2>5. ASSUME NEW e \in Events, NEW q \in owed'[e], wants(q, outbox[e].type)
        PROVE  wants(q, outbox[e].type)'
    <3>1. outbox'[e].type = outbox[e].type /\ q \in Endpoints
      BY <2>3, <2>4
    <3>2. CASE q # p
      BY <1>3, <1>4, <2>1, <2>2, <2>5, <3>1, <3>2
    <3>3. CASE q = p
      <4>1. s = "ACTIVE" /\ events \cap {"*", outbox[e].type} # {}
        BY <2>3, <3>3
      <4>2. endpoint'[p].status = "ACTIVE" /\ endpoint'[p].events = events
        BY <1>3, <2>1, <2>2, <4>1
      <4>3. QED
        BY <2>5, <3>1, <3>3, <4>1, <4>2 DEF wants, subscribes
    <3>4. QED
      BY <3>2, <3>3
  <2> HIDE DEF Rows
  <2>6. endpoint' \in [Endpoints -> Rows]
    BY <1>3, <2>1, <2>2
  <2>7. QED
    BY <2>3, <2>4, <2>5, <2>6, EndpointKept DEF Rows
<1>7. CASE RotateEncryptionKey(p)
  <2> DEFINE row == [endpoint[p] EXCEPT !.readable = FALSE]
  <2>1. row \in Rows /\ row.status = endpoint[p].status /\ row.events = endpoint[p].events
    BY <1>2
  <2>2. endpoint' = [endpoint EXCEPT ![p] = row]
    BY <1>7 DEF RotateEncryptionKey
  <2>3. UNCHANGED <<outbox, delivery, thread, sent, accepted, unclear, overlap, owed>>
    BY <1>7 DEF RotateEncryptionKey
  <2> HIDE DEF row
  <2>4. \A q \in Endpoints : \A type : wants(q, type) => wants(q, type)'
    BY <1>3, <1>4, <2>1, <2>2 DEF wants, subscribes
  <2>5. \A e \in Events : \A q \in owed'[e] : wants(q, outbox[e].type) => wants(q, outbox[e].type)'
    BY <1>2, <2>3, <2>4
  <2> HIDE DEF Rows
  <2>6. endpoint' \in [Endpoints -> Rows]
    BY <1>3, <2>1, <2>2
  <2>7. QED
    BY <1>2, <2>3, <2>5, <2>6, EndpointKept DEF Rows
<1>8. QED
  BY <1>5, <1>6, <1>7

-----------------------------------------------------------------------------
\* A step of the deliveries in which a thread takes nothing into its hands.
LEMMA QuietRun ==
  ASSUME OutboxInv, NEW t \in Threads, NEW q, ThreadRow(q), thread[t].pc # "claim",
         q.pc = "idle" \/ (q.pc = "deliver" /\ q.rows = {}), thread' = [thread EXCEPT ![t] = q],
         delivery' \in [Keys -> DeliveryRows],
         \A k \in Keys : delivery[k].status # "none" => delivery'[k].status # "none",
         \A k \in Keys : delivery'[k].status = "DELIVERED" => delivery[k].status = "DELIVERED",
         UNCHANGED <<outbox, endpoint, sent, accepted, unclear, overlap, owed>>
  PROVE  OutboxInv'
<1>1. /\ OutboxTypes /\ LocksHold /\ MailsCount /\ OwedIsWanted /\ EventsTrue
      /\ DeliveriesTrue /\ RunsNoticed
  BY DEF OutboxInv
<1>2. /\ thread' = [u \in Threads |-> thread'[u]]
      /\ \A u \in Threads : thread'[u] = IF u = t THEN q ELSE thread[u]
      /\ \A u \in Threads : ThreadRow(thread'[u])
  BY <1>1, ThreadMove
<1>3. OutboxTypes'
  BY <1>1, <1>2 DEF OutboxTypes
<1>4. \A u \in Threads : thread[u].pc = "claim" \/ thread'[u].pc = "claim" => thread'[u] = thread[u]
  BY <1>2
<1>5. (LocksHold /\ MailsCount /\ OwedIsWanted /\ EventsTrue)'
  BY <1>1, <1>4, EventSide
<1>6. /\ \A u \in Threads : heldBy(u)' \subseteq heldBy(u) /\ heldBy(u)' \subseteq Keys
      /\ \A u \in Threads : thread'[u].pc = "record" => thread'[u] = thread[u]
  BY <1>1, HandsEmpty
<1>7. (DeliveriesTrue /\ RunsNoticed)'
  BY <1>1, <1>6, DeliverySide
<1>8. QED
  BY <1>3, <1>5, <1>7 DEF OutboxInv

LEMMA RetryKept ==
  ASSUME OutboxInv, NEW t \in Threads,
         retryFailedDeliveries(t) \/ \E k \in Keys : retryDelivery(t, k)
  PROVE  OutboxInv'
<1>1. PICK ks \in SUBSET Keys :
        /\ \A k \in ks : delivery[k].status \in {"FAILED", "RETRYING"}
        /\ delivery' = Requeued(ks)
  <2>1. CASE retryFailedDeliveries(t)
    BY <2>1 DEF retryFailedDeliveries
  <2>2. ASSUME NEW k \in Keys, retryDelivery(t, k)
        PROVE  {k} \in SUBSET Keys /\ delivery[k].status \in {"FAILED", "RETRYING"} /\ delivery' = Requeued({k})
    BY <2>2 DEF retryDelivery, retryable
  <2>3. QED
    BY <2>1, <2>2
<1> DEFINE q == [pc |-> "deliver", rows |-> {}, read |-> FALSE]
<1>2. /\ thread[t] = Idle /\ thread' = [thread EXCEPT ![t] = q]
      /\ UNCHANGED <<outbox, endpoint, sent, accepted, unclear, overlap, owed>>
  BY DEF retryFailedDeliveries, retryDelivery
<1>3. ThreadRow(q) /\ q.pc = "deliver" /\ q.rows = {}
  BY EmptyRuns
<1> HIDE DEF q
<1>4. thread[t].pc # "claim"
  BY <1>2 DEF Idle
<1>5. delivery \in [Keys -> DeliveryRows]
  BY DEF OutboxInv, OutboxTypes
<1>6. ASSUME NEW k \in Keys
      PROVE  /\ delivery'[k] \in DeliveryRows
             /\ k \in ks => delivery'[k].status = "PENDING"
             /\ k \notin ks => delivery'[k] = delivery[k]
  <2>1. CASE k \in ks
    <3>1. delivery'[k] = [delivery[k] EXCEPT !.status = "PENDING", !.due = TRUE]
      BY <1>1, <2>1 DEF Requeued
    <3>2. QED
      BY <1>5, <2>1, <3>1 DEF DeliveryRows
  <2>2. CASE k \notin ks
    BY <1>1, <1>5, <2>2 DEF Requeued
  <2>3. QED
    BY <2>1, <2>2
<1>7. delivery' \in [Keys -> DeliveryRows]
  BY <1>1, <1>6 DEF Requeued
<1>8. QED
  BY <1>2, <1>3, <1>4, <1>6, <1>7, QuietRun

LEMMA RunEnds ==
  ASSUME OutboxInv, NEW t \in Threads, Finish(t) \/ LoseThread(t)
  PROVE  OutboxInv'
<1>1. /\ thread[t].pc # "claim" /\ thread' = [thread EXCEPT ![t] = Idle]
      /\ UNCHANGED <<outbox, endpoint, delivery, sent, accepted, unclear, overlap, owed>>
  BY DEF Finish, LoseThread
<1>2. delivery \in [Keys -> DeliveryRows]
  BY DEF OutboxInv, OutboxTypes
<1>3. QED
  BY <1>1, <1>2, EmptyRuns, QuietRun

\* A run reads what is due: rows of deliveries that are not delivered, one of
\* each, and those another run has in hand are noticed.
LEMMA ReadKept ==
  ASSUME OutboxInv, NEW t \in Threads, deliverPending(t)
  PROVE  OutboxInv'
<1> DEFINE due == {k \in Keys : dueDelivery(k)}
           read == {[key |-> k, attempt |-> delivery[k].attempt] : k \in due}
           q == [pc |-> "deliver", read |-> TRUE, rows |-> read]
<1>1. /\ OutboxTypes /\ LocksHold /\ MailsCount /\ OwedIsWanted /\ EventsTrue
      /\ DeliveriesTrue /\ RunsNoticed
  BY DEF OutboxInv
<1>2. /\ thread[t].pc = "deliver" /\ thread' = [thread EXCEPT ![t] = q]
      /\ overlap' = overlap \cup {k \in due : \E u \in Threads \ {t} : k \in heldBy(u)}
      /\ UNCHANGED <<outbox, endpoint, delivery, sent, accepted, unclear, owed>>
  BY DEF deliverPending
<1>3. due \subseteq Keys /\ \A k \in due : delivery[k].status # "DELIVERED"
  BY DEF dueDelivery
<1>4. /\ read \subseteq ReadRows
      /\ \A r, s \in read : r.key = s.key => r = s
      /\ {r.key : r \in read} = due
  <2> HIDE DEF due
  <2>1. \A k \in due : delivery[k].attempt \in Int
    BY <1>1, <1>3 DEF OutboxTypes, DeliveryRows
  <2>2. ASSUME NEW r \in read
        PROVE  r \in ReadRows /\ r.key \in due /\ r.attempt = delivery[r.key].attempt
    BY <1>3, <2>1 DEF ReadRows
  <2>3. ASSUME NEW k \in due PROVE \E r \in read : r.key = k
    <3>1. [key |-> k, attempt |-> delivery[k].attempt] \in read
      OBVIOUS
    <3> HIDE DEF read
    <3>2. QED
      BY <3>1
  <2> HIDE DEF read
  <2>4. \A r, s \in read : r.key = s.key => r = s
    BY <2>2 DEF ReadRows
  <2>5. {r.key : r \in read} = due
    BY <2>2, <2>3
  <2>6. QED
    BY <2>2, <2>4, <2>5
<1> HIDE DEF read, due
<1>5. ThreadRow(q) /\ q.pc = "deliver" /\ q.rows = read
  BY <1>4 DEF ThreadRow, RunRow
<1> HIDE DEF q
<1>6. /\ thread' = [u \in Threads |-> thread'[u]]
      /\ \A u \in Threads : thread'[u] = IF u = t THEN q ELSE thread[u]
      /\ \A u \in Threads : ThreadRow(thread'[u])
  BY <1>1, <1>2, <1>5, ThreadMove
<1>7. OutboxTypes'
  BY <1>1, <1>2, <1>6 DEF OutboxTypes
<1>8. \A u \in Threads : thread[u].pc = "claim" \/ thread'[u].pc = "claim" => thread'[u] = thread[u]
  BY <1>2, <1>5, <1>6
<1>9. (LocksHold /\ MailsCount /\ OwedIsWanted /\ EventsTrue)'
  BY <1>1, <1>2, <1>8, EventSide
<1>10. heldBy(t)' = due /\ \A u \in Threads : u # t => heldBy(u)' = heldBy(u)
  BY <1>4, <1>5, <1>6 DEF heldBy
<1>11. DeliveriesTrue'
  BY <1>1, <1>2, <1>5, <1>6 DEF DeliveriesTrue
<1>12. RunsNoticed'
  <2>1. \A u \in Threads : u # t => heldBy(u) \cap due \subseteq overlap'
    BY <1>2
  <2>2. \A u, v \in Threads : u # v => heldBy(u)' \cap heldBy(v)' \subseteq overlap'
    BY <1>1, <1>2, <1>10, <2>1 DEF RunsNoticed
  <2>3. \A u \in Threads : \A k \in heldBy(u)' : delivery[k].status = "DELIVERED" => k \in overlap'
    BY <1>1, <1>2, <1>3, <1>10 DEF RunsNoticed
  <2>4. QED
    BY <1>2, <2>2, <2>3 DEF RunsNoticed
<1>13. QED
  BY <1>7, <1>9, <1>11, <1>12 DEF OutboxInv

\* A run lets go of an endpoint it cannot sign for, or posts and has the answer.
LEMMA PostKept ==
  ASSUME OutboxInv, NEW t \in Threads, deliverOne(t)
  PROVE  OutboxInv'
<1>1. /\ OutboxTypes /\ LocksHold /\ MailsCount /\ OwedIsWanted /\ EventsTrue
      /\ DeliveriesTrue /\ RunsNoticed
  BY DEF OutboxInv
<1>2. /\ thread[t].pc = "deliver" /\ RunRow(thread[t])
      /\ UNCHANGED <<outbox, endpoint, sent, unclear, overlap, owed>>
  BY <1>1 DEF deliverOne, OutboxTypes, ThreadRow
<1>3. PICK r \in thread[t].rows : Post(t, r) \/ Undecryptable(t, r)
  BY DEF deliverOne
<1>4. /\ r.key \in Keys /\ r \in ReadRows /\ r.key \in heldBy(t)
      /\ RunRow([pc |-> "deliver", rows |-> thread[t].rows \ {r}, read |-> TRUE])
      /\ thread[t].rows \ {r} \subseteq thread[t].rows
      /\ \A s \in thread[t].rows \ {r} : s.key # r.key
      /\ heldBy(t) = {s.key : s \in thread[t].rows}
  <2>1. /\ r \in ReadRows /\ thread[t].rows \ {r} \subseteq ReadRows
        /\ \A x, y \in thread[t].rows : x.key = y.key => x = y
    BY <1>2 DEF RunRow
  <2>2. r.key \in Keys
    BY <2>1 DEF ReadRows
  <2>3. heldBy(t) = {s.key : s \in thread[t].rows}
    BY <1>2 DEF heldBy
  <2>4. RunRow([pc |-> "deliver", rows |-> thread[t].rows \ {r}, read |-> TRUE])
    BY <2>1 DEF RunRow
  <2>5. QED
    BY <2>1, <2>2, <2>3, <2>4
<1>5. CASE Undecryptable(t, r)
  <2> DEFINE q == [pc |-> "deliver", rows |-> thread[t].rows \ {r}, read |-> TRUE]
             n == IF delivery[r.key].attempt < DeliveryAttempts
                  THEN delivery[r.key].attempt + 1 ELSE delivery[r.key].attempt
             row == [status |-> "FAILED", due |-> delivery[r.key].due, attempt |-> n]
  <2>1. thread' = [thread EXCEPT ![t] = q] /\ delivery' = [delivery EXCEPT ![r.key] = row] /\ accepted' = accepted
    BY <1>5 DEF Undecryptable
  <2>2. delivery[r.key].attempt \in Int /\ delivery[r.key].due \in BOOLEAN
    BY <1>1, <1>4 DEF OutboxTypes, DeliveryRows
  <2>3. n \in Int
    BY <2>2
  <2> HIDE DEF n
  <2>4. row \in DeliveryRows /\ row.status = "FAILED"
    BY <2>2, <2>3 DEF DeliveryRows
  <2> HIDE DEF row
  <2>5. /\ delivery' \in [Keys -> DeliveryRows]
        /\ \A k \in Keys : delivery'[k] = IF k = r.key THEN row ELSE delivery[k]
    BY <1>1, <1>4, <2>1, <2>4, Zenon DEF OutboxTypes
  <2>6. ThreadRow(q) /\ q.pc = "deliver" /\ q.rows = thread[t].rows \ {r}
    BY <1>4 DEF ThreadRow
  <2> HIDE DEF q
  <2>7. /\ thread' = [u \in Threads |-> thread'[u]]
        /\ \A u \in Threads : thread'[u] = IF u = t THEN q ELSE thread[u]
        /\ \A u \in Threads : ThreadRow(thread'[u])
    BY <1>1, <2>1, <2>6, ThreadMove
  <2>8. OutboxTypes'
    BY <1>1, <1>2, <2>5, <2>7 DEF OutboxTypes
  <2>9. \A u \in Threads : thread[u].pc = "claim" \/ thread'[u].pc = "claim" => thread'[u] = thread[u]
    BY <1>2, <2>6, <2>7
  <2>10. (LocksHold /\ MailsCount /\ OwedIsWanted /\ EventsTrue)'
    BY <1>1, <1>2, <2>4, <2>5, <2>9, EventSide
  <2>11. \A u \in Threads : heldBy(u)' \subseteq heldBy(u)
    <3>1. heldBy(t)' = {s.key : s \in thread[t].rows \ {r}}
      BY <2>6, <2>7 DEF heldBy
    <3>2. \A u \in Threads : u # t => heldBy(u)' = heldBy(u)
      BY <2>7 DEF heldBy
    <3>3. QED
      BY <1>4, <3>1, <3>2
  <2>12. \A u \in Threads : heldBy(u)' \subseteq Keys
    BY <2>7, HeldKeysNext
  <2>13. \A u \in Threads : thread'[u].pc = "record" => thread'[u] = thread[u]
    BY <2>6, <2>7
  <2>14. (DeliveriesTrue /\ RunsNoticed)'
    BY <1>1, <1>2, <2>1, <2>4, <2>5, <2>11, <2>12, <2>13, DeliverySide
  <2>15. QED
    BY <2>8, <2>10, <2>14 DEF OutboxInv
<1>6. CASE Post(t, r)
  <2>1. PICK answer \in {"ok", "rejected", "error"} :
          /\ thread' = [thread EXCEPT ![t] = [pc |-> "record", rows |-> thread[t].rows \ {r},
                                              row |-> r, answer |-> answer, read |-> TRUE]]
          /\ accepted \subseteq accepted'
          /\ answer = "ok" => r.key \in accepted'
          /\ delivery' = delivery
    BY <1>6 DEF Post
  <2> DEFINE q == [pc |-> "record", rows |-> thread[t].rows \ {r}, row |-> r,
                   answer |-> answer, read |-> TRUE]
  <2>2. thread' = [thread EXCEPT ![t] = q]
    BY <2>1
  <2>3. /\ q.pc = "record" /\ q.row = r /\ q.answer = answer /\ q.rows = thread[t].rows \ {r}
        /\ ThreadRow(q)
    <3>1. RunRow(q)
      BY <1>4 DEF RunRow
    <3>2. QED
      BY <1>4, <3>1 DEF ThreadRow, RecordRow
  <2> HIDE DEF q
  <2>4. /\ thread' = [u \in Threads |-> thread'[u]]
        /\ \A u \in Threads : thread'[u] = IF u = t THEN q ELSE thread[u]
        /\ \A u \in Threads : ThreadRow(thread'[u])
    BY <1>1, <2>2, <2>3, ThreadMove
  <2>5. OutboxTypes'
    BY <1>1, <1>2, <2>1, <2>4 DEF OutboxTypes
  <2>6. \A u \in Threads : thread[u].pc = "claim" \/ thread'[u].pc = "claim" => thread'[u] = thread[u]
    BY <1>2, <2>3, <2>4
  <2>7. (LocksHold /\ MailsCount /\ OwedIsWanted /\ EventsTrue)'
    BY <1>1, <1>2, <2>1, <2>6, EventSide
  <2>8. DeliveriesTrue'
    BY <1>1, <2>1, <2>3, <2>4 DEF DeliveriesTrue
  <2>9. \A u \in Threads : heldBy(u)' \subseteq heldBy(u)
    <3>1. heldBy(t)' = {r.key} \cup {s.key : s \in thread[t].rows \ {r}}
      BY <2>3, <2>4 DEF heldBy
    <3>2. \A u \in Threads : u # t => heldBy(u)' = heldBy(u)
      BY <2>4 DEF heldBy
    <3>3. QED
      BY <1>4, <3>1, <3>2
  <2>10. RunsNoticed'
    BY <1>1, <1>2, <2>1, <2>9 DEF RunsNoticed
  <2>11. QED
    BY <2>5, <2>7, <2>8, <2>10 DEF OutboxInv
<1>7. QED
  BY <1>3, <1>5, <1>6

\* What is recorded as delivered was accepted, and no other run has it in hand
\* unnoticed.
LEMMA RecordKept ==
  ASSUME OutboxInv, NEW t \in Threads, RecordDelivery(t)
  PROVE  OutboxInv'
<1> DEFINE k == thread[t].row.key
           n == IF thread[t].row.attempt < DeliveryAttempts
                THEN thread[t].row.attempt + 1 ELSE DeliveryAttempts
           row == [status |-> deliveryStatus(thread[t].answer, n), attempt |-> n, due |-> FALSE]
           q == [pc |-> "deliver", rows |-> thread[t].rows, read |-> TRUE]
<1>1. /\ OutboxTypes /\ LocksHold /\ MailsCount /\ OwedIsWanted /\ EventsTrue
      /\ DeliveriesTrue /\ RunsNoticed
  BY DEF OutboxInv
<1>2. /\ thread[t].pc = "record" /\ delivery' = [delivery EXCEPT ![k] = row]
      /\ thread' = [thread EXCEPT ![t] = q]
      /\ UNCHANGED <<outbox, endpoint, sent, accepted, unclear, overlap, owed>>
  BY DEF RecordDelivery
<1>3. RecordRow(thread[t])
  BY <1>1, <1>2 DEF OutboxTypes, ThreadRow
<1>4. k \in Keys /\ thread[t].row.attempt \in Int
  BY <1>3 DEF RecordRow, ReadRows
<1>5. n \in Int
  BY <1>4, OutboxAssumption DEF OutboxAssumption
<1> HIDE DEF n
<1>6. /\ row \in DeliveryRows /\ row.status # "none"
      /\ row.status = "DELIVERED" => thread[t].answer = "ok"
  <2>1. deliveryStatus(thread[t].answer, n) \in {"DELIVERED", "FAILED", "RETRYING"}
    BY DEF deliveryStatus
  <2>2. deliveryStatus(thread[t].answer, n) = "DELIVERED" => thread[t].answer = "ok"
    BY DEF deliveryStatus
  <2> HIDE DEF k
  <2>3. QED
    BY <1>5, <2>1, <2>2 DEF DeliveryRows
<1>7. ThreadRow(q) /\ q.pc = "deliver" /\ q.rows = thread[t].rows
  <2>1. RunRow(q)
    BY <1>3 DEF RecordRow, RunRow
  <2>2. QED
    BY <2>1 DEF ThreadRow
<1>8. heldBy(t) = {k} \cup {r.key : r \in thread[t].rows} /\ k \notin {r.key : r \in thread[t].rows}
  BY <1>2, <1>3 DEF heldBy, RecordRow
<1> HIDE DEF row, q
<1>9. /\ delivery' \in [Keys -> DeliveryRows]
      /\ \A j \in Keys : delivery'[j] = IF j = k THEN row ELSE delivery[j]
  <2> HIDE DEF k
  <2>1. QED
    BY <1>1, <1>2, <1>4, <1>6, Zenon DEF OutboxTypes
<1>10. /\ thread' = [u \in Threads |-> thread'[u]]
       /\ \A u \in Threads : thread'[u] = IF u = t THEN q ELSE thread[u]
       /\ \A u \in Threads : ThreadRow(thread'[u])
  BY <1>1, <1>2, <1>7, ThreadMove
<1>11. OutboxTypes'
  BY <1>1, <1>2, <1>9, <1>10 DEF OutboxTypes
<1>12. \A u \in Threads : thread[u].pc = "claim" \/ thread'[u].pc = "claim" => thread'[u] = thread[u]
  BY <1>2, <1>7, <1>10
<1>13. (LocksHold /\ MailsCount /\ OwedIsWanted /\ EventsTrue)'
  BY <1>1, <1>2, <1>6, <1>9, <1>12, EventSide
<1>14. DeliveriesTrue'
  <2>1. thread[t].answer = "ok" => k \in accepted
    BY <1>1, <1>2 DEF DeliveriesTrue
  <2> HIDE DEF k
  <2>2. \A u \in Threads : thread'[u].pc = "record" => thread'[u] = thread[u]
    BY <1>7, <1>10
  <2>3. QED
    BY <1>1, <1>2, <1>6, <1>9, <2>1, <2>2 DEF DeliveriesTrue
<1>15. RunsNoticed'
  <2>1. heldBy(t)' = {r.key : r \in thread[t].rows}
    BY <1>7, <1>10 DEF heldBy
  <2>2. \A u \in Threads : u # t => heldBy(u)' = heldBy(u)
    BY <1>10 DEF heldBy
  <2>3. \A u \in Threads : heldBy(u)' \subseteq heldBy(u) /\ heldBy(u)' \subseteq Keys
    BY <1>8, <1>10, <2>1, <2>2, HeldKeysNext
  <2>4. \A u \in Threads : k \in heldBy(u)' => k \in overlap
    BY <1>1, <1>8, <2>1, <2>2 DEF RunsNoticed
  <2> HIDE DEF k
  <2>5. \A u \in Threads : \A j \in heldBy(u)' : delivery'[j].status = "DELIVERED" => j \in overlap
    BY <1>1, <1>9, <2>3, <2>4 DEF RunsNoticed
  <2>6. QED
    BY <1>1, <1>2, <2>3, <2>5 DEF RunsNoticed
<1>16. QED
  BY <1>11, <1>13, <1>14, <1>15 DEF OutboxInv

-----------------------------------------------------------------------------
\* The mails a claim has sent are among its events, and none that is left.
LEMMA Claimed ==
  ASSUME OutboxTypes, NEW t \in Threads
  PROVE  /\ lockedBy(t) \subseteq Events /\ mailedBy(t) \subseteq lockedBy(t)
         /\ thread[t].pc = "claim" => ClaimRow(thread[t]) /\ mailedBy(t) \cap thread[t].left = {}
  BY DEF OutboxTypes, ThreadRow, ClaimRow, lockedBy, mailedBy

LEMMA ClaimKept ==
  ASSUME OutboxInv, NEW t \in Threads, Claim(t)
  PROVE  OutboxInv'
<1> DEFINE batch == {e \in Events : claimable(e)}
           row == [e \in batch |-> outbox[e]]
           q == [pc |-> "claim", batch |-> batch, left |-> batch, row |-> row,
                 queued |-> {}, mailed |-> {}]
<1>1. /\ OutboxTypes /\ LocksHold /\ MailsCount /\ OwedIsWanted /\ EventsTrue
      /\ DeliveriesTrue /\ RunsNoticed
  BY DEF OutboxInv
<1>2. /\ thread[t] = Idle
      /\ thread' = [thread EXCEPT ![t] = IF batch = {}
                      THEN [pc |-> "deliver", rows |-> {}, read |-> FALSE] ELSE q]
      /\ UNCHANGED <<outbox, endpoint, delivery, sent, accepted, unclear, overlap, owed>>
  BY DEF Claim
<1>3. thread[t].pc = "idle"
  BY <1>2 DEF Idle
<1>4. CASE batch = {}
  <2>1. thread' = [thread EXCEPT ![t] = [pc |-> "deliver", rows |-> {}, read |-> FALSE]]
    BY <1>2, <1>4
  <2>2. delivery \in [Keys -> DeliveryRows]
    BY <1>1 DEF OutboxTypes
  <2>3. QED
    BY <1>2, <1>3, <2>1, <2>2, EmptyRuns, QuietRun
<1>5. CASE batch # {}
  <2>1. thread' = [thread EXCEPT ![t] = q]
    BY <1>2, <1>5
  <2>2. /\ batch \subseteq Events
        /\ \A e \in batch : outbox[e].status = "PENDING" /\ outbox[e].available
                            /\ \A u \in Threads : e \notin lockedBy(u)
    BY DEF claimable
  <2> HIDE DEF batch
  <2>3. row \in [batch -> EventRows] /\ \A e \in batch : row[e] = outbox[e]
    BY <1>1, <2>2 DEF OutboxTypes
  <2> HIDE DEF row
  <2>4. /\ q.pc = "claim" /\ q.batch = batch /\ q.row = row /\ q.queued = {} /\ q.mailed = {}
        /\ ThreadRow(q)
    <3>1. ClaimRow(q)
      BY <2>2, <2>3 DEF ClaimRow
    <3>2. QED
      BY <3>1 DEF ThreadRow
  <2> HIDE DEF q
  <2>5. /\ thread' = [u \in Threads |-> thread'[u]]
        /\ \A u \in Threads : thread'[u] = IF u = t THEN q ELSE thread[u]
        /\ \A u \in Threads : ThreadRow(thread'[u])
    BY <1>1, <2>1, <2>4, ThreadMove
  <2>6. OutboxTypes'
    BY <1>1, <1>2, <2>5 DEF OutboxTypes
  <2>7. /\ lockedBy(t) = {} /\ mailedBy(t) = {} /\ lockedBy(t)' = batch /\ mailedBy(t)' = {}
        /\ \A u \in Threads : u # t => lockedBy(u)' = lockedBy(u) /\ mailedBy(u)' = mailedBy(u)
    BY <1>3, <2>4, <2>5 DEF lockedBy, mailedBy
  <2>8. LocksHold'
    BY <1>1, <1>2, <2>2, <2>3, <2>4, <2>5, <2>7 DEF LocksHold
  <2>9. MailsCount'
    BY <1>1, <1>2, <2>5, <2>7 DEF MailsCount
  <2>10. OwedIsWanted'
    BY <1>1, <1>2 DEF OwedIsWanted, wants, subscribes
  <2>11. EventsTrue'
    <3>1. \A f \in Events : \A w, queued : EventTrue(f, w, queued) => EventTrue(f, w, queued)'
      BY <1>2 DEF EventTrue
    <3>2. \A u \in Threads : lockedBy(u) \subseteq Events
      BY <1>1, Claimed
    <3>3. \A f \in Events : EventTrue(f, outbox[f], {})'
      BY <1>1, <1>2, <3>1 DEF EventsTrue
    <3>4. ASSUME NEW f \in batch PROVE EventTrue(f, thread[t].row[f], thread[t].queued)'
      <4>1. thread'[t].row[f] = outbox[f] /\ outbox'[f].status = "PENDING" /\ outbox' = outbox
        BY <1>2, <2>2, <2>3, <2>4, <2>5
      <4>2. QED
        BY <4>1 DEF EventTrue
    <3>5. ASSUME NEW u \in Threads, u # t, NEW f \in lockedBy(u)
          PROVE  EventTrue(f, thread[u].row[f], thread[u].queued)'
      <4>1. thread'[u] = thread[u] /\ EventTrue(f, thread[u].row[f], thread[u].queued) /\ f \in Events
        BY <1>1, <2>5, <3>2, <3>5 DEF EventsTrue
      <4>2. QED
        BY <3>1, <4>1
    <3>6. QED
      BY <2>7, <3>3, <3>4, <3>5 DEF EventsTrue
  <2>12. (DeliveriesTrue /\ RunsNoticed)'
    BY <1>1, <1>2, <2>1, <2>4, HandsEmpty, DeliverySide
  <2>13. QED
    BY <2>6, <2>8, <2>9, <2>10, <2>11, <2>12 DEF OutboxInv
<1>6. QED
  BY <1>4, <1>5

\* What each way of handling an event has in common: its mail leaves with a
\* record or is unclear, and a row that says PROCESSED says what was done.
LEMMA HandledKept ==
  ASSUME OutboxInv, NEW t \in Threads, thread[t].pc = "claim", NEW e \in thread[t].left,
         NEW row \in EventRows, NEW queued \in SUBSET Keys, NEW mailed \in {{}, {e}},
         Handled(t, e, row, queued, mailed),
         row.type = thread[t].row[e].type, row.complete = thread[t].row[e].complete,
         mailed = {e} => row.status = "PROCESSED",
         sent' \in [Events -> Nat], \A f \in Events : f # e => sent'[f] = sent[f],
         sent'[e] = sent[e] \/ sent'[e] = sent[e] + 1,
         unclear \subseteq unclear', e \notin unclear' /\ sent'[e] # sent[e] => mailed = {e},
         row.status = "PROCESSED" =>
           /\ isDeliverableEmailEvent(row.type) /\ row.complete => sent'[e] # sent[e]
           /\ \A p \in Endpoints : wants(p, row.type) => <<p, e>> \in queued,
         UNCHANGED <<outbox, endpoint, delivery, accepted, overlap, owed>>
  PROVE  OutboxInv'
<1> DEFINE c == thread[t]
           q == [pc |-> "claim", batch |-> c.batch, left |-> c.left \ {e},
                 row |-> [c.row EXCEPT ![e] = row],
                 queued |-> c.queued \cup queued, mailed |-> c.mailed \cup mailed]
<1>1. /\ OutboxTypes /\ LocksHold /\ MailsCount /\ OwedIsWanted /\ EventsTrue
      /\ DeliveriesTrue /\ RunsNoticed
  BY DEF OutboxInv
<1>2. thread' = [thread EXCEPT ![t] = q]
  BY DEF Handled
<1>3. ClaimRow(c)
  BY <1>1, Claimed
<1>4. /\ e \in c.batch /\ c.batch \subseteq Events /\ e \in Events /\ e \in c.left
      /\ c.queued \subseteq Keys /\ c.mailed \subseteq c.batch \ c.left
      /\ [c.row EXCEPT ![e] = row] \in [c.batch -> EventRows]
      /\ \A f \in c.batch : [c.row EXCEPT ![e] = row][f] = IF f = e THEN row ELSE c.row[f]
  <2>1. /\ c.batch \subseteq Events /\ c.left \subseteq c.batch /\ c.row \in [c.batch -> EventRows]
        /\ c.queued \subseteq Keys /\ c.mailed \subseteq c.batch \ c.left
    BY <1>3 DEF ClaimRow
  <2>2. e \in c.batch /\ e \in c.left
    BY <2>1
  <2> HIDE DEF c
  <2>3. QED
    BY <2>1, <2>2
<1>5. /\ q.pc = "claim" /\ q.batch = c.batch /\ q.left = c.left \ {e}
      /\ q.row = [c.row EXCEPT ![e] = row] /\ q.queued = c.queued \cup queued
      /\ q.mailed = c.mailed \cup mailed
  BY Zenon
<1>6. ThreadRow(q)
  <2>1. q.left \subseteq q.batch /\ q.mailed \subseteq q.batch \ q.left
    <3>1. c.left \subseteq c.batch
      BY <1>3 DEF ClaimRow
    <3> HIDE DEF c, q
    <3>2. QED
      BY <1>4, <1>5, <3>1
  <2>2. ClaimRow(q)
    <3> HIDE DEF c, q
    <3>1. QED
      BY <1>4, <1>5, <2>1 DEF ClaimRow
  <2> HIDE DEF c, q
  <2>3. QED
    BY <1>5, <2>2 DEF ThreadRow
<1> HIDE DEF q
<1>7. /\ thread' = [u \in Threads |-> thread'[u]]
      /\ \A u \in Threads : thread'[u] = IF u = t THEN q ELSE thread[u]
      /\ \A u \in Threads : ThreadRow(thread'[u])
  BY <1>1, <1>2, <1>6, ThreadMove
<1>8. /\ lockedBy(t) = c.batch /\ mailedBy(t) = c.mailed
      /\ lockedBy(t)' = c.batch /\ mailedBy(t)' = c.mailed \cup mailed
      /\ \A u \in Threads : u # t => lockedBy(u)' = lockedBy(u) /\ mailedBy(u)' = mailedBy(u)
      /\ \A u \in Threads : lockedBy(u)' = lockedBy(u)
  BY <1>5, <1>7 DEF lockedBy, mailedBy
<1>9. \A u \in Threads : lockedBy(u) \subseteq Events /\ mailedBy(u) \subseteq lockedBy(u)
  BY <1>1, Claimed
<1>10. /\ thread'[t].queued = c.queued \cup queued
       /\ \A f \in c.batch : thread'[t].row[f] = IF f = e THEN row ELSE c.row[f]
       /\ \A u \in Threads : u # t => thread'[u] = thread[u]
  <2> HIDE DEF c
  <2>1. QED
    BY <1>4, <1>5, <1>7
<1>11. row.type = c.row[e].type /\ row.complete = c.row[e].complete
  OBVIOUS
<1>12. c.row = thread[t].row /\ c.queued = thread[t].queued
  OBVIOUS
<1> HIDE DEF c
<1>13. /\ sent' \in [Events -> Nat] /\ sent[e] \in Nat
       /\ \A f \in Events : sent'[f] = sent[f] \/ (f = e /\ sent'[f] = sent[f] + 1)
  BY <1>1, <1>4 DEF OutboxTypes
<1>14. OutboxTypes'
  BY <1>1, <1>7, <1>13 DEF OutboxTypes
<1>15. LocksHold'
  BY <1>1, <1>4, <1>8, <1>10, <1>11, <1>12 DEF LocksHold
<1>16. e \in unclear \/ sent[e] = 0
  <2> SUFFICES ASSUME e \notin unclear, sent[e] > 0 PROVE FALSE
    BY <1>13
  <2>1. outbox[e].status = "PENDING"
    BY <1>1, <1>4, <1>8 DEF LocksHold
  <2>2. PICK u \in Threads : e \in mailedBy(u)
    BY <1>1, <1>4, <2>1 DEF MailsCount
  <2>3. u = t
    BY <1>1, <1>4, <1>8, <1>9, <2>2 DEF LocksHold
  <2>4. QED
    BY <1>4, <1>8, <2>2, <2>3
<1>17. MailsCount'
  <2>1. ASSUME NEW f \in Events \ unclear', sent'[f] > 0
        PROVE  sent'[f] = 1 /\ (outbox'[f].status = "PROCESSED" \/ \E u \in Threads : f \in mailedBy(u)')
    <3>1. CASE f = e
      BY <1>8, <1>13, <1>16, <2>1, <3>1
    <3>2. CASE f # e
      <4>1. sent[f] = 1 /\ (outbox[f].status = "PROCESSED" \/ \E u \in Threads : f \in mailedBy(u))
        BY <1>1, <1>13, <2>1, <3>2 DEF MailsCount
      <4>2. \A u \in Threads : mailedBy(u) \subseteq mailedBy(u)'
        BY <1>8
      <4>3. QED
        BY <1>13, <3>2, <4>1, <4>2
    <3>3. QED
      BY <3>1, <3>2
  <2>2. ASSUME NEW u \in Threads, NEW f \in mailedBy(u)'
        PROVE  thread'[u].row[f].status = "PROCESSED"
    BY <1>1, <1>4, <1>8, <1>10, <1>12, <2>2 DEF MailsCount
  <2>3. QED
    BY <2>1, <2>2 DEF MailsCount
<1>18. OwedIsWanted'
  BY <1>1 DEF OwedIsWanted, wants, subscribes
<1>19. EventsTrue'
  <2> DEFINE After(f, w, a) ==
        w.status = "PROCESSED" =>
          /\ isDeliverableEmailEvent(w.type) /\ w.complete => sent'[f] > 0
          /\ \A p \in owed[f] : <<p, f>> \in a \/ delivery[<<p, f>>].status # "none"
  <2>1. \A f \in Events : \A w, a, b : a \subseteq b /\ EventTrue(f, w, a) => After(f, w, b)
    <3>1. \A f \in Events : sent[f] > 0 => sent'[f] > 0
      <4>1. \A f \in Events : sent[f] \in Nat
        BY <1>1 DEF OutboxTypes
      <4>2. QED
        BY <1>13, <4>1
    <3>2. QED
      BY <3>1 DEF EventTrue
  <2>2. After(e, row, c.queued \cup queued)
    <3>1. row.type = outbox[e].type
      BY <1>1, <1>4, <1>8, <1>11, <1>12 DEF LocksHold
    <3>2. \A p \in owed[e] : p \in Endpoints /\ wants(p, row.type)
      BY <1>1, <1>4, <3>1 DEF OwedIsWanted, OutboxTypes
    <3>3. sent'[e] # sent[e] => sent'[e] > 0
      BY <1>13
    <3>4. QED
      BY <3>2, <3>3
  <2>3. \A f \in Events : After(f, outbox[f], {})
    <3>1. \A f \in Events : EventTrue(f, outbox[f], {})
      BY <1>1 DEF EventsTrue
    <3> HIDE DEF After
    <3>2. QED
      BY <2>1, <3>1
  <2>4. ASSUME NEW u \in Threads, NEW f \in lockedBy(u)'
        PROVE  After(f, thread'[u].row[f], thread'[u].queued)
    <3>1. CASE u = t /\ f = e
      <4>1. thread'[u].row[f] = row /\ thread'[u].queued = c.queued \cup queued
        BY <1>4, <1>10, <3>1
      <4> HIDE DEF After
      <4>2. QED
        BY <2>2, <3>1, <4>1
    <3>2. CASE u = t /\ f # e
      <4>1. f \in c.batch /\ f \in Events
        BY <1>4, <1>8, <2>4, <3>2
      <4>2. EventTrue(f, c.row[f], c.queued)
        BY <1>1, <1>8, <1>12, <4>1 DEF EventsTrue
      <4>3. thread'[u].row[f] = c.row[f] /\ thread'[u].queued = c.queued \cup queued
        BY <1>10, <3>2, <4>1
      <4>4. c.queued \subseteq c.queued \cup queued
        OBVIOUS
      <4> HIDE DEF After
      <4>5. QED
        BY <2>1, <4>1, <4>2, <4>3, <4>4
    <3>3. CASE u # t
      <4>1. f \in lockedBy(u) /\ f \in Events /\ thread'[u] = thread[u]
        BY <1>8, <1>9, <1>10, <2>4, <3>3
      <4>2. EventTrue(f, thread[u].row[f], thread[u].queued)
        BY <1>1, <4>1 DEF EventsTrue
      <4> HIDE DEF After
      <4>3. QED
        BY <2>1, <4>1, <4>2
    <3>4. QED
      BY <3>1, <3>2, <3>3
  <2>5. QED
    BY <2>3, <2>4 DEF EventsTrue, EventTrue
<1>20. (DeliveriesTrue /\ RunsNoticed)'
  BY <1>1, <1>2, <1>5, <1>6, HandsEmpty, DeliverySide
<1>21. QED
  BY <1>14, <1>15, <1>17, <1>18, <1>19, <1>20 DEF OutboxInv

LEMMA NothingSent ==
  ASSUME OutboxInv, NEW t \in Threads, thread[t].pc = "claim", NEW e \in thread[t].left,
         NEW row \in EventRows, NEW queued \in SUBSET Keys,
         Handled(t, e, row, queued, {}),
         row.type = thread[t].row[e].type, row.complete = thread[t].row[e].complete,
         row.status = "PROCESSED" =>
           /\ ~(isDeliverableEmailEvent(row.type) /\ row.complete)
           /\ \A p \in Endpoints : wants(p, row.type) => <<p, e>> \in queued,
         UNCHANGED <<outbox, endpoint, delivery, sent, accepted, unclear, overlap, owed>>
  PROVE  OutboxInv'
<1> DEFINE none == {}
<1>1. e \in Events /\ sent \in [Events -> Nat]
  BY Claimed DEF OutboxInv, OutboxTypes, ClaimRow
<1>2. sent' \in [Events -> Nat] /\ \A f \in Events : sent'[f] = sent[f]
  BY <1>1
<1>3. none \in {{}, {e}} /\ none = {} /\ none # {e}
  OBVIOUS
<1> HIDE DEF none
<1>4. Handled(t, e, row, queued, none) /\ unclear \subseteq unclear'
  BY <1>3
<1>5. QED
  BY <1>1, <1>2, <1>3, <1>4, HandledKept

LEMMA HandleKept ==
  ASSUME OutboxInv, NEW t \in Threads, Handle(t)
  PROVE  OutboxInv'
<1>1. OutboxTypes /\ LocksHold
  BY DEF OutboxInv
<1>2. /\ thread[t].pc = "claim"
      /\ UNCHANGED <<outbox, endpoint, delivery, accepted, overlap, owed>>
  BY DEF Handle
<1>3. PICK e \in thread[t].left : HandleEmail(t, e) \/ enqueueFromOutbox(t, e) \/ Retain(t, e)
  BY DEF Handle
<1> DEFINE row == thread[t].row[e]
<1>4. /\ e \in Events /\ row \in EventRows
      /\ sent \in [Events -> Nat] /\ sent[e] \in Nat
  BY <1>1, <1>2, Claimed DEF OutboxTypes, ClaimRow
<1>5. /\ Processed(row) \in EventRows /\ AfterError(row) \in EventRows
      /\ Processed(row).type = row.type /\ AfterError(row).type = row.type
      /\ Processed(row).complete = row.complete /\ AfterError(row).complete = row.complete
      /\ Processed(row).status = "PROCESSED" /\ AfterError(row).status # "PROCESSED"
  <2> HIDE DEF row
  <2>1. row.attempts \in Int
    BY <1>4 DEF EventRows
  <2> DEFINE n == row.attempts + 1
             s == eventStatusAfterError(n)
  <2>2. n \in Int /\ s \in {"FAILED", "PENDING"}
    BY <2>1 DEF eventStatusAfterError
  <2>3. /\ Processed(row) = [row EXCEPT !.attempts = n, !.status = "PROCESSED"]
        /\ AfterError(row) = [row EXCEPT !.attempts = n, !.status = s, !.available = FALSE]
    BY DEF Processed, AfterError
  <2> HIDE DEF n, s
  <2>4. QED
    BY <1>4, <2>2, <2>3 DEF EventRows
<1>6. \A type : isDeliverableEmailEvent(type) => ~isMerchantDeliverableEvent(type)
  BY DEF isDeliverableEmailEvent, isMerchantDeliverableEvent, EmailTypes, MERCHANT_WEBHOOK_EVENT_TYPES
<1>7. \A p \in Endpoints, type \in EventTypes : wants(p, type) => isMerchantDeliverableEvent(type)
  BY DEF wants
<1>8. row.type \in EventTypes
  BY <1>4 DEF EventRows
<1> DEFINE done == Processed(row)
           failed == AfterError(row)
<1>9. row.complete = thread[t].row[e].complete /\ row.type = thread[t].row[e].type
  OBVIOUS
<1>10. ASSUME sent' = [sent EXCEPT ![e] = sent[e] + 1]
       PROVE  /\ sent' \in [Events -> Nat] /\ sent'[e] = sent[e] + 1 /\ sent'[e] # sent[e]
              /\ \A f \in Events : f # e => sent'[f] = sent[f]
  <2> DEFINE n == sent[e] + 1
  <2>1. n \in Nat /\ n # sent[e] /\ sent' = [sent EXCEPT ![e] = n]
    BY <1>4, <1>10
  <2>2. n = sent[e] + 1
    OBVIOUS
  <2> HIDE DEF n, row
  <2>3. QED
    BY <1>4, <2>1, <2>2
<1>11. ASSUME isDeliverableEmailEvent(row.type), emailOutcome(row.type, row.complete) = "drop",
              Handled(t, e, done, {}, {}), UNCHANGED <<sent, unclear>>
       PROVE  OutboxInv'
  <2>1. ~row.complete
    BY <1>11 DEF emailOutcome
  <2> HIDE DEF row
  <2>2. QED
    BY <1>2, <1>3, <1>5, <1>6, <1>7, <1>8, <1>9, <1>11, <2>1, NothingSent
<1>12. ASSUME Handled(t, e, failed, {}, {}), UNCHANGED <<sent, unclear>>
       PROVE  OutboxInv'
  <2> HIDE DEF row
  <2>1. QED
    BY <1>2, <1>3, <1>5, <1>9, <1>12, NothingSent
<1>13. ASSUME isDeliverableEmailEvent(row.type), sent' = [sent EXCEPT ![e] = sent[e] + 1],
              Handled(t, e, done, {}, {e}), UNCHANGED unclear
       PROVE  OutboxInv'
  <2> HIDE DEF row
  <2>1. QED
    BY <1>2, <1>3, <1>5, <1>6, <1>7, <1>8, <1>9, <1>13, <1>10, HandledKept
<1>14. ASSUME sent' = [sent EXCEPT ![e] = sent[e] + 1],
              Handled(t, e, failed, {}, {}), unclear' = unclear \cup {e}
       PROVE  OutboxInv'
  <2> HIDE DEF row
  <2>1. QED
    BY <1>2, <1>3, <1>5, <1>9, <1>14, <1>10, HandledKept
<1>15. CASE HandleEmail(t, e)
  BY <1>11, <1>12, <1>13, <1>14, <1>15 DEF HandleEmail
<1>16. CASE enqueueFromOutbox(t, e)
  <2> DEFINE queued == {p \in Endpoints : wants(p, row.type)} \X {e}
  <2>1. /\ isMerchantDeliverableEvent(row.type) /\ Handled(t, e, done, queued, {})
        /\ UNCHANGED <<sent, unclear>>
    BY <1>16 DEF enqueueFromOutbox
  <2>2. ~isDeliverableEmailEvent(row.type)
    BY <1>6, <2>1
  <2> HIDE DEF row
  <2>3. queued \in SUBSET Keys /\ \A p \in Endpoints : wants(p, row.type) => <<p, e>> \in queued
    BY <1>4 DEF Keys
  <2> HIDE DEF queued
  <2>4. QED
    BY <1>2, <1>3, <1>5, <1>9, <2>1, <2>2, <2>3, NothingSent
<1>17. CASE Retain(t, e)
  <2>1. /\ ~isMerchantDeliverableEvent(row.type) /\ Handled(t, e, done, {}, {})
        /\ ~isDeliverableEmailEvent(row.type) /\ UNCHANGED <<sent, unclear>>
    BY <1>17 DEF Retain
  <2> HIDE DEF row
  <2>2. QED
    BY <1>2, <1>3, <1>5, <1>7, <1>8, <1>9, <2>1, NothingSent
<1>18. QED
  BY <1>3, <1>15, <1>16, <1>17

\* The rows and the queued deliveries are there at once.
LEMMA CommitKept ==
  ASSUME OutboxInv, NEW t \in Threads, CommitClaim(t)
  PROVE  OutboxInv'
<1> DEFINE c == thread[t]
           q == [pc |-> "deliver", rows |-> {}, read |-> FALSE]
<1>1. /\ OutboxTypes /\ LocksHold /\ MailsCount /\ OwedIsWanted /\ EventsTrue
      /\ DeliveriesTrue /\ RunsNoticed
  BY DEF OutboxInv
<1>2. /\ c.pc = "claim" /\ c.left = {} /\ thread' = [thread EXCEPT ![t] = q]
      /\ outbox' = [e \in Events |-> IF e \in c.batch THEN c.row[e] ELSE outbox[e]]
      /\ delivery' = [k \in Keys |-> IF k \in c.queued /\ delivery[k].status = "none"
                        THEN [status |-> "PENDING", attempt |-> 0, due |-> TRUE] ELSE delivery[k]]
      /\ UNCHANGED <<endpoint, sent, accepted, unclear, overlap, owed>>
  BY DEF CommitClaim
<1>3. /\ c.batch \subseteq Events /\ c.row \in [c.batch -> EventRows] /\ c.queued \subseteq Keys
  BY <1>1, <1>2, Claimed DEF ClaimRow
<1>4. /\ lockedBy(t) = c.batch /\ mailedBy(t) = c.mailed
      /\ c.row = thread[t].row /\ c.queued = thread[t].queued
  BY <1>2 DEF lockedBy, mailedBy
<1> HIDE DEF c
<1>5. ThreadRow(q) /\ q.pc = "deliver" /\ q.rows = {}
  BY EmptyRuns
<1> HIDE DEF q
<1>6. /\ thread' = [u \in Threads |-> thread'[u]]
      /\ \A u \in Threads : thread'[u] = IF u = t THEN q ELSE thread[u]
      /\ \A u \in Threads : ThreadRow(thread'[u])
  BY <1>1, <1>2, <1>5, ThreadMove
<1>7. /\ outbox' \in [Events -> EventRows]
      /\ \A e \in Events : outbox'[e] = IF e \in c.batch THEN c.row[e] ELSE outbox[e]
  BY <1>1, <1>2, <1>3 DEF OutboxTypes
<1>8. /\ delivery' \in [Keys -> DeliveryRows]
      /\ \A k \in Keys : delivery[k].status # "none" \/ k \in c.queued => delivery'[k].status # "none"
      /\ \A k \in Keys : delivery'[k].status = "DELIVERED" => delivery[k].status = "DELIVERED"
  <2> DEFINE new == [status |-> "PENDING", attempt |-> 0, due |-> TRUE]
  <2>1. new \in DeliveryRows /\ new.status = "PENDING"
    BY DEF DeliveryRows
  <2>2. \A k \in Keys : delivery'[k] = IF k \in c.queued /\ delivery[k].status = "none" THEN new ELSE delivery[k]
    BY <1>2
  <2>3. delivery' = [k \in Keys |-> delivery'[k]]
    BY <1>2
  <2> HIDE DEF new
  <2>4. \A k \in Keys : delivery[k] \in DeliveryRows
    BY <1>1 DEF OutboxTypes
  <2>5. \A k \in Keys : delivery'[k] \in DeliveryRows
    BY <2>1, <2>2, <2>4
  <2>6. delivery' \in [Keys -> DeliveryRows]
    BY <2>3, <2>5
  <2>7. QED
    BY <2>1, <2>2, <2>6
<1>9. OutboxTypes'
  BY <1>1, <1>2, <1>6, <1>7, <1>8 DEF OutboxTypes
<1>10. /\ lockedBy(t)' = {} /\ mailedBy(t)' = {}
       /\ \A u \in Threads : u # t => lockedBy(u)' = lockedBy(u) /\ mailedBy(u)' = mailedBy(u)
                                      /\ thread'[u] = thread[u]
  BY <1>5, <1>6 DEF lockedBy, mailedBy
<1>11. \A u \in Threads : lockedBy(u) \subseteq Events /\ mailedBy(u) \subseteq lockedBy(u)
  BY <1>1, Claimed
<1>12. \A u \in Threads : u # t => lockedBy(u) \cap c.batch = {}
  BY <1>1, <1>4 DEF LocksHold
<1>13. \A e \in c.batch : c.row[e].type = outbox[e].type
  BY <1>1, <1>4 DEF LocksHold
<1>14. LocksHold'
  BY <1>1, <1>7, <1>10, <1>11, <1>12 DEF LocksHold
<1>15. MailsCount'
  <2>1. ASSUME NEW e \in Events \ unclear, sent[e] > 0
        PROVE  sent[e] = 1 /\ (outbox'[e].status = "PROCESSED" \/ \E u \in Threads : e \in mailedBy(u)')
    <3>1. sent[e] = 1 /\ (outbox[e].status = "PROCESSED" \/ \E u \in Threads : e \in mailedBy(u))
      BY <1>1, <2>1 DEF MailsCount
    <3>2. CASE outbox[e].status = "PROCESSED"
      <4>1. e \notin c.batch
        BY <1>1, <1>4, <3>2 DEF LocksHold
      <4>2. QED
        BY <1>7, <3>1, <3>2, <4>1
    <3>3. ASSUME NEW u \in Threads, e \in mailedBy(u)
          PROVE  outbox'[e].status = "PROCESSED" \/ \E v \in Threads : e \in mailedBy(v)'
      <4>1. CASE u # t
        BY <1>10, <3>3, <4>1
      <4>2. CASE u = t
        <5>1. c.row[e].status = "PROCESSED" /\ e \in c.batch
          BY <1>1, <1>4, <1>11, <3>3, <4>2 DEF MailsCount
        <5>2. QED
          BY <1>7, <5>1
      <4>3. QED
        BY <4>1, <4>2
    <3>4. QED
      BY <3>1, <3>2, <3>3
  <2>2. QED
    BY <1>1, <1>2, <1>10, <2>1 DEF MailsCount
<1>16. OwedIsWanted'
  <2>1. \A e \in Events : outbox'[e].type = outbox[e].type
    BY <1>7, <1>13
  <2>2. QED
    BY <1>1, <1>2, <2>1 DEF OwedIsWanted, wants, subscribes
<1>17. EventsTrue'
  <2> DEFINE After(f, w, a) ==
        w.status = "PROCESSED" =>
          /\ isDeliverableEmailEvent(w.type) /\ w.complete => sent[f] > 0
          /\ \A p \in owed[f] : <<p, f>> \in a \/ delivery'[<<p, f>>].status # "none"
  <2>1. \A f \in Events : \A p \in owed[f] : <<p, f>> \in Keys
    BY <1>1 DEF OutboxTypes, Keys
  <2>2. \A f \in Events : \A w, a : EventTrue(f, w, a) => After(f, w, a)
    BY <1>8, <2>1 DEF EventTrue
  <2>3. \A f \in Events : \A w : EventTrue(f, w, c.queued) => After(f, w, {})
    BY <1>8, <2>1 DEF EventTrue
  <2> HIDE DEF After
  <2>4. \A f \in Events : After(f, outbox'[f], {})
    <3>1. ASSUME NEW f \in c.batch PROVE After(f, outbox'[f], {})
      <4>1. EventTrue(f, c.row[f], c.queued) /\ outbox'[f] = c.row[f] /\ f \in Events
        BY <1>1, <1>3, <1>4, <1>7 DEF EventsTrue
      <4>2. QED
        BY <2>3, <4>1
    <3>2. ASSUME NEW f \in Events \ c.batch PROVE After(f, outbox'[f], {})
      <4>1. EventTrue(f, outbox[f], {}) /\ outbox'[f] = outbox[f] /\ f \in Events
        BY <1>1, <1>7 DEF EventsTrue
      <4>2. QED
        BY <2>2, <4>1
    <3>3. QED
      BY <3>1, <3>2
  <2>5. ASSUME NEW u \in Threads, NEW f \in lockedBy(u)'
        PROVE  After(f, thread'[u].row[f], thread'[u].queued)
    <3>1. u # t /\ thread'[u] = thread[u] /\ f \in lockedBy(u) /\ f \in Events
      BY <1>10, <1>11, <2>5
    <3>2. EventTrue(f, thread[u].row[f], thread[u].queued)
      BY <1>1, <3>1 DEF EventsTrue
    <3>3. QED
      BY <2>2, <3>1, <3>2
  <2>6. QED
    BY <1>2, <2>4, <2>5 DEF EventsTrue, EventTrue, After
<1>18. (DeliveriesTrue /\ RunsNoticed)'
  BY <1>1, <1>2, <1>5, <1>8, HandsEmpty, DeliverySide
<1>19. QED
  BY <1>9, <1>14, <1>15, <1>16, <1>17, <1>18 DEF OutboxInv

\* The rows are as before the claim; the mails that left are unclear.
LEMMA AbortKept ==
  ASSUME OutboxInv, NEW t \in Threads, AbortClaim(t)
  PROVE  OutboxInv'
<1>1. /\ OutboxTypes /\ LocksHold /\ MailsCount /\ OwedIsWanted /\ EventsTrue
      /\ DeliveriesTrue /\ RunsNoticed
  BY DEF OutboxInv
<1>2. /\ thread[t].pc = "claim" /\ thread' = [thread EXCEPT ![t] = Idle]
      /\ unclear' = unclear \cup mailedBy(t)
      /\ UNCHANGED <<outbox, endpoint, delivery, sent, accepted, overlap, owed>>
  BY DEF AbortClaim, mailedBy
<1>3. /\ thread' = [u \in Threads |-> thread'[u]]
      /\ \A u \in Threads : thread'[u] = IF u = t THEN Idle ELSE thread[u]
      /\ \A u \in Threads : ThreadRow(thread'[u])
  BY <1>1, <1>2, EmptyRuns, ThreadMove
<1>4. OutboxTypes'
  BY <1>1, <1>2, <1>3 DEF OutboxTypes
<1>5. /\ lockedBy(t)' = {} /\ mailedBy(t)' = {}
      /\ \A u \in Threads : u # t => lockedBy(u)' = lockedBy(u) /\ mailedBy(u)' = mailedBy(u)
                                     /\ thread'[u] = thread[u]
  BY <1>3, EmptyRuns DEF lockedBy, mailedBy
<1>6. LocksHold'
  BY <1>1, <1>2, <1>5 DEF LocksHold
<1>7. MailsCount'
  BY <1>1, <1>2, <1>5 DEF MailsCount
<1>8. OwedIsWanted'
  BY <1>1, <1>2 DEF OwedIsWanted, wants, subscribes
<1>9. EventsTrue'
  BY <1>1, <1>2, <1>5 DEF EventsTrue, EventTrue
<1>10. (DeliveriesTrue /\ RunsNoticed)'
  BY <1>1, <1>2, EmptyRuns, HandsEmpty, DeliverySide
<1>11. QED
  BY <1>4, <1>6, <1>7, <1>8, <1>9, <1>10 DEF OutboxInv

\* A mail whose answer never ends has left unrecorded, or has not left.
LEMMA HangInMailKept ==
  ASSUME OutboxInv, NEW t \in Threads, HangInMail(t)
  PROVE  OutboxInv'
<1>1. /\ OutboxTypes /\ LocksHold /\ MailsCount /\ OwedIsWanted /\ EventsTrue
      /\ DeliveriesTrue /\ RunsNoticed
  BY DEF OutboxInv
<1>2. PICK e \in thread[t].left :
        \/ sent' = [sent EXCEPT ![e] = @ + 1] /\ unclear' = unclear \cup {e}
        \/ UNCHANGED <<sent, unclear>>
  BY DEF HangInMail
<1>3. thread[t].pc = "claim" /\ UNCHANGED <<outbox, endpoint, delivery, thread, accepted, overlap, owed>>
  BY DEF HangInMail
<1>4. e \in Events
  BY <1>1, <1>2, <1>3 DEF OutboxTypes, ThreadRow, ClaimRow
<1>5. /\ sent' \in [Events -> Nat] /\ unclear \subseteq unclear'
      /\ \A d \in Events : sent[d] > 0 => sent'[d] > 0
      /\ \A d \in Events \ unclear' : sent'[d] = sent[d]
  BY <1>1, <1>2, <1>4 DEF OutboxTypes
<1>6. OutboxTypes'
  BY <1>1, <1>3, <1>5 DEF OutboxTypes
<1>7. \A u \in Threads : /\ lockedBy(u)' = lockedBy(u) /\ mailedBy(u)' = mailedBy(u)
                         /\ heldBy(u)' = heldBy(u)
  BY <1>3 DEF lockedBy, mailedBy, heldBy
<1>8. LocksHold' /\ OwedIsWanted' /\ DeliveriesTrue' /\ RunsNoticed'
  BY <1>1, <1>3, <1>7 DEF LocksHold, OwedIsWanted, DeliveriesTrue, RunsNoticed, wants, subscribes
<1>9. MailsCount'
  BY <1>1, <1>3, <1>5, <1>7 DEF MailsCount
<1>10. EventsTrue'
  <2>1. ASSUME NEW d \in Events, NEW row, NEW queued, EventTrue(d, row, queued)
        PROVE  EventTrue(d, row, queued)'
    BY <1>3, <1>5, <2>1 DEF EventTrue
  <2>2. \A u \in Threads : lockedBy(u) \subseteq Events
    BY <1>1 DEF lockedBy, OutboxTypes, ThreadRow, ClaimRow
  <2>3. QED
    BY <1>1, <1>3, <1>7, <2>1, <2>2 DEF EventsTrue
<1>11. QED
  BY <1>6, <1>8, <1>9, <1>10 DEF OutboxInv

\* A run that hangs has nothing more in hand; the post may have been accepted.
LEMMA HangInPostKept ==
  ASSUME OutboxInv, NEW t \in Threads, HangInPost(t)
  PROVE  OutboxInv'
<1> DEFINE q == [pc |-> "deliver", rows |-> {}, read |-> TRUE]
<1>1. /\ OutboxTypes /\ LocksHold /\ MailsCount /\ OwedIsWanted /\ EventsTrue
      /\ DeliveriesTrue /\ RunsNoticed
  BY DEF OutboxInv
<1>2. /\ thread[t].pc = "deliver" /\ thread' = [thread EXCEPT ![t] = q]
      /\ accepted \subseteq accepted'
      /\ UNCHANGED <<outbox, endpoint, delivery, sent, unclear, overlap, owed>>
  BY DEF HangInPost
<1>3. ThreadRow(q) /\ q.pc = "deliver" /\ q.rows = {}
  BY EmptyRuns
<1> HIDE DEF q
<1>4. /\ thread' = [u \in Threads |-> thread'[u]]
      /\ \A u \in Threads : thread'[u] = IF u = t THEN q ELSE thread[u]
      /\ \A u \in Threads : ThreadRow(thread'[u])
  BY <1>1, <1>2, <1>3, ThreadMove
<1>5. OutboxTypes'
  BY <1>1, <1>2, <1>4 DEF OutboxTypes
<1>6. \A u \in Threads : thread[u].pc = "claim" \/ thread'[u].pc = "claim" => thread'[u] = thread[u]
  BY <1>2, <1>3, <1>4
<1>7. (LocksHold /\ MailsCount /\ OwedIsWanted /\ EventsTrue)'
  BY <1>1, <1>2, <1>6, EventSide
<1>8. /\ \A u \in Threads : heldBy(u)' \subseteq heldBy(u) /\ heldBy(u)' \subseteq Keys
      /\ \A u \in Threads : thread'[u].pc = "record" => thread'[u] = thread[u]
  BY <1>1, <1>2, <1>3, HandsEmpty
<1>9. (DeliveriesTrue /\ RunsNoticed)'
  BY <1>1, <1>2, <1>8, DeliverySide
<1>10. QED
  BY <1>5, <1>7, <1>9 DEF OutboxInv

LEMMA DelaysKept ==
  ASSUME OutboxInv, Delays
  PROVE  OutboxInv'
<1>1. /\ OutboxTypes /\ LocksHold /\ MailsCount /\ OwedIsWanted /\ EventsTrue
      /\ DeliveriesTrue /\ RunsNoticed
  BY DEF OutboxInv
<1>2. ASSUME NEW e \in Events, EventDelayPasses(e) PROVE OutboxInv'
  <2> DEFINE row == [outbox[e] EXCEPT !.available = TRUE]
  <2>1. /\ outbox' = [outbox EXCEPT ![e] = row] /\ ~outbox[e].available
        /\ UNCHANGED <<endpoint, delivery, thread, sent, accepted, unclear, overlap, owed>>
    BY <1>2 DEF EventDelayPasses
  <2>2. /\ row \in EventRows /\ row.status = outbox[e].status /\ row.type = outbox[e].type
        /\ row.complete = outbox[e].complete
    <3>1. outbox[e] \in EventRows
      BY <1>1 DEF OutboxTypes
    <3> DEFINE r == outbox[e]
    <3> HIDE DEF r
    <3>2. r \in EventRows => /\ [r EXCEPT !.available = TRUE] \in EventRows
                             /\ [r EXCEPT !.available = TRUE].status = r.status
                             /\ [r EXCEPT !.available = TRUE].type = r.type
                             /\ [r EXCEPT !.available = TRUE].complete = r.complete
      BY DEF EventRows
    <3>3. QED
      BY <3>1, <3>2 DEF r
  <2> HIDE DEF row
  <2>3. /\ outbox' \in [Events -> EventRows]
        /\ \A f \in Events : outbox'[f] = IF f = e THEN row ELSE outbox[f]
    BY <1>1, <2>1, <2>2, Zenon DEF OutboxTypes
  <2>4. \A f \in Events : /\ outbox'[f].status = outbox[f].status /\ outbox'[f].type = outbox[f].type
                          /\ outbox'[f].complete = outbox[f].complete
    BY <2>2, <2>3
  <2>5. OutboxTypes'
    BY <1>1, <2>1, <2>3 DEF OutboxTypes
  <2>6. /\ \A u \in Threads : lockedBy(u)' = lockedBy(u) /\ mailedBy(u)' = mailedBy(u)
        /\ \A u \in Threads : heldBy(u)' = heldBy(u)
    BY <2>1 DEF lockedBy, mailedBy, heldBy
  <2>7. \A u \in Threads : e \notin lockedBy(u) /\ lockedBy(u) \subseteq Events
    BY <1>1, <2>1, Claimed DEF LocksHold
  <2>8. LocksHold'
    BY <1>1, <2>1, <2>3, <2>6, <2>7 DEF LocksHold
  <2>9. MailsCount'
    BY <1>1, <2>1, <2>4, <2>6 DEF MailsCount
  <2>10. OwedIsWanted'
    BY <1>1, <2>1, <2>4 DEF OwedIsWanted, wants, subscribes
  <2>11. EventsTrue'
    BY <1>1, <2>1, <2>4, <2>6 DEF EventsTrue, EventTrue
  <2>12. DeliveriesTrue' /\ RunsNoticed'
    BY <1>1, <2>1, <2>6 DEF DeliveriesTrue, RunsNoticed
  <2>13. QED
    BY <2>5, <2>8, <2>9, <2>10, <2>11, <2>12 DEF OutboxInv
<1>3. ASSUME NEW k \in Keys, DeliveryDelayPasses(k) PROVE OutboxInv'
  <2> DEFINE row == [delivery[k] EXCEPT !.due = TRUE]
  <2>1. /\ delivery' = [delivery EXCEPT ![k] = row]
        /\ UNCHANGED <<outbox, endpoint, thread, sent, accepted, unclear, overlap, owed>>
    BY <1>3 DEF DeliveryDelayPasses
  <2>2. row \in DeliveryRows /\ row.status = delivery[k].status
    BY <1>1 DEF OutboxTypes, DeliveryRows
  <2> HIDE DEF row
  <2>3. /\ delivery' \in [Keys -> DeliveryRows]
        /\ \A j \in Keys : delivery'[j].status = delivery[j].status
    BY <1>1, <2>1, <2>2 DEF OutboxTypes
  <2>4. OutboxTypes'
    BY <1>1, <2>1, <2>3 DEF OutboxTypes
  <2>5. (LocksHold /\ MailsCount /\ OwedIsWanted /\ EventsTrue)'
    BY <1>1, <2>1, <2>3, EventSide
  <2>6. /\ \A u \in Threads : heldBy(u)' = heldBy(u)
        /\ \A u \in Threads : heldBy(u) \subseteq Keys
    BY <1>1, <2>1, HeldKeys DEF heldBy, OutboxTypes
  <2>7. (DeliveriesTrue /\ RunsNoticed)'
    BY <1>1, <2>1, <2>3, <2>6, DeliverySide
  <2>8. QED
    BY <2>4, <2>5, <2>7 DEF OutboxInv
<1>4. QED
  BY <1>2, <1>3 DEF Delays

-----------------------------------------------------------------------------
LEMMA OutboxBegins == OutboxInit => OutboxInv
<1> SUFFICES ASSUME OutboxInit PROVE OutboxInv
  OBVIOUS
<1>1. \A t \in Threads : thread[t].pc = "idle"
  BY DEF OutboxInit, Idle
<1>2. /\ \A t \in Threads : lockedBy(t) = {} /\ mailedBy(t) = {} /\ heldBy(t) = {}
  BY <1>1 DEF lockedBy, mailedBy, heldBy
<1>3. OutboxTypes
  <2> DEFINE event == [status |-> "none", type |-> "payment_link.created",
                       complete |-> TRUE, attempts |-> 0, available |-> FALSE]
  <2>1. event \in EventRows
    BY DEF EventRows, EventTypes
  <2>2. outbox = [e \in Events |-> event]
    BY DEF OutboxInit
  <2> HIDE DEF event
  <2>3. outbox \in [Events -> EventRows]
    BY <2>1, <2>2
  <2>4. endpoint \in [Endpoints -> [status : {"none", "ACTIVE", "DISABLED"}, readable : BOOLEAN,
                                    events : SUBSET (MERCHANT_WEBHOOK_EVENT_TYPES \cup {"*"})]]
    BY DEF OutboxInit
  <2>5. NoDelivery \in DeliveryRows
    BY DEF NoDelivery, DeliveryRows
  <2>6. delivery \in [Keys -> DeliveryRows]
    BY <2>5 DEF OutboxInit
  <2>7. sent \in [Events -> Nat] /\ owed \in [Events -> SUBSET Endpoints]
    BY DEF OutboxInit
  <2>8. thread = [t \in Threads |-> thread[t]]
    BY DEF OutboxInit
  <2>9. \A t \in Threads : ThreadRow(thread[t])
    BY <1>1 DEF ThreadRow
  <2>10. QED
    BY <2>3, <2>4, <2>6, <2>7, <2>8, <2>9 DEF OutboxTypes
<1>4. LocksHold
  BY <1>2 DEF LocksHold
<1>5. MailsCount
  BY <1>2 DEF MailsCount, OutboxInit
<1>6. OwedIsWanted
  BY DEF OwedIsWanted, OutboxInit
<1>7. EventsTrue
  BY <1>2 DEF EventsTrue, EventTrue, OutboxInit
<1>8. DeliveriesTrue /\ RunsNoticed
  BY <1>1, <1>2 DEF DeliveriesTrue, RunsNoticed, OutboxInit, NoDelivery
<1>9. QED
  BY <1>3, <1>4, <1>5, <1>6, <1>7, <1>8 DEF OutboxInv

LEMMA OutboxStep == OutboxInv /\ [OutboxNext]_outboxVars => OutboxInv'
<1> SUFFICES ASSUME OutboxInv, [OutboxNext]_outboxVars PROVE OutboxInv'
  OBVIOUS
<1>1. CASE UNCHANGED outboxVars
  BY <1>1 DEF outboxVars, OutboxInv, OutboxTypes, LocksHold, MailsCount, OwedIsWanted, EventsTrue,
     EventTrue, DeliveriesTrue, RunsNoticed, lockedBy, mailedBy, heldBy, wants, subscribes
<1>2. ASSUME Request PROVE OutboxInv'
  BY <1>2, EmitKept, EndpointSteps, RetryKept, Zenon DEF Request
<1>3. ASSUME NEW t \in Threads,
             Work(t) \/ HangInMail(t) \/ HangInPost(t) \/ AbortClaim(t) \/ LoseThread(t)
      PROVE  OutboxInv'
  BY <1>3, ClaimKept, HandleKept, CommitKept, ReadKept, PostKept, RecordKept, RunEnds, AbortKept,
     HangInMailKept, HangInPostKept, Zenon DEF Work
<1>4. QED
  BY <1>1, <1>2, <1>3, DelaysKept, Zenon DEF OutboxNext

\* However many processes tick, and whatever aborts their claims, a mail leaves
\* once unless the record of a sending was lost (OutboxWorker.tick): the row lock
\* keeps an event with one claim until it is no longer pending.
THEOREM MailsOnce == OutboxInit /\ [][OutboxNext]_outboxVars => []OneMailPerEvent
<1>1. OutboxInv => OneMailPerEvent
  <2> SUFFICES ASSUME OutboxInv, NEW e \in Events, sent[e] > 1, e \notin unclear PROVE FALSE
    BY DEF OneMailPerEvent
  <2>1. sent[e] \in Nat /\ (sent[e] > 0 => sent[e] = 1)
    BY DEF OutboxInv, OutboxTypes, MailsCount
  <2>2. QED
    BY <2>1
<1>2. QED
  BY <1>1, OutboxBegins, OutboxStep, PTL

\* A PROCESSED event has left as a mail or stands as a delivery of every
\* endpoint that has wanted it all along, and DELIVERED means that the
\* merchant's server accepted it (enqueueFromOutbox, deliverOne).
THEOREM TrueRecords == OutboxInit /\ [][OutboxNext]_outboxVars => []RecordsAreTrue
<1>1. OutboxInv => RecordsAreTrue
  BY DEF OutboxInv, EventsTrue, EventTrue, DeliveriesTrue, RecordsAreTrue
<1>2. QED
  BY <1>1, OutboxBegins, OutboxStep, PTL

\* DELIVERED is taken back only by a second run that had read the delivery
\* before the first recorded its answer (deliverPending claims nothing).
THEOREM DeliveredStays == OutboxInit /\ [][OutboxNext]_outboxVars => DeliveredStaysAlone
<1> DEFINE Stays == \A k \in Keys :
              delivery[k].status = "DELIVERED" /\ delivery'[k].status # "DELIVERED" => k \in overlap
<1>1. OutboxInv /\ [OutboxNext]_outboxVars => [Stays]_outboxVars
  <2> SUFFICES ASSUME OutboxInv, OutboxNext PROVE Stays
    OBVIOUS
  <2>1. /\ delivery \in [Keys -> DeliveryRows] /\ OutboxTypes
        /\ \A t \in Threads : \A k \in heldBy(t) : delivery[k].status = "DELIVERED" => k \in overlap
    BY DEF OutboxInv, OutboxTypes, RunsNoticed
  <2>2. ASSUME \A k \in Keys : delivery[k].status = "DELIVERED" => delivery'[k] = delivery[k] PROVE Stays
    BY <2>2
  <2>3. ASSUME NEW t \in Threads, NEW k \in heldBy(t),
               \A j \in Keys : j # k => delivery'[j] = delivery[j]
        PROVE  Stays
    BY <2>1, <2>3
  <2>4. ASSUME NEW t \in Threads, retryFailedDeliveries(t) \/ \E k \in Keys : retryDelivery(t, k)
        PROVE  Stays
    BY <2>2, <2>4 DEF retryFailedDeliveries, retryDelivery, Requeued, retryable
  <2>5. ASSUME NEW t \in Threads, deliverOne(t) PROVE Stays
    <3>1. PICK r \in thread[t].rows : Post(t, r) \/ Undecryptable(t, r)
      BY <2>5 DEF deliverOne
    <3>2. r.key \in heldBy(t)
      BY <2>5 DEF deliverOne, heldBy
    <3>3. \A j \in Keys : j # r.key => delivery'[j] = delivery[j]
      BY <2>1, <3>1 DEF Post, Undecryptable
    <3> HIDE DEF Stays
    <3>4. QED
      BY <2>3, <3>2, <3>3
  <2>6. ASSUME NEW t \in Threads, RecordDelivery(t) PROVE Stays
    <3>1. thread[t].row.key \in heldBy(t)
      BY <2>6 DEF RecordDelivery, heldBy
    <3>2. \A j \in Keys : j # thread[t].row.key => delivery'[j] = delivery[j]
      BY <2>1, <2>6 DEF RecordDelivery
    <3> HIDE DEF Stays
    <3>3. QED
      BY <2>3, <3>1, <3>2
  <2>7. ASSUME NEW t \in Threads, CommitClaim(t) PROVE Stays
    BY <2>2, <2>7 DEF CommitClaim
  <2>8. ASSUME NEW k \in Keys, DeliveryDelayPasses(k) PROVE Stays
    BY <2>1, <2>2, <2>8 DEF DeliveryDelayPasses
  <2>9. ASSUME NEW t \in Threads,
               \/ Claim(t) \/ Handle(t) \/ deliverPending(t) \/ Finish(t)
               \/ HangInMail(t) \/ HangInPost(t) \/ AbortClaim(t) \/ LoseThread(t)
        PROVE  Stays
    BY <2>2, <2>9 DEF Claim, Handle, deliverPending, Finish, HangInMail, HangInPost,
       AbortClaim, LoseThread
  <2>10. ASSUME \/ \E e \in Events, type \in EventTypes, complete \in BOOLEAN :
                     emitOutboxEvent(e, type, complete)
                \/ \E p \in Endpoints, events \in Subscriptions :
                     createEndpoint(p, events) \/ \E s \in {"ACTIVE", "DISABLED"} : updateEndpoint(p, events, s)
                \/ \E p \in Endpoints : RotateEncryptionKey(p)
                \/ \E e \in Events : EventDelayPasses(e)
         PROVE  Stays
    BY <2>2, <2>10 DEF emitOutboxEvent, createEndpoint, updateEndpoint, RotateEncryptionKey, EventDelayPasses
  <2> HIDE DEF Stays
  <2>11. QED
    BY <2>4, <2>5, <2>6, <2>7, <2>8, <2>9, <2>10, Zenon DEF OutboxNext, Request, Delays, Work
<1>2. QED
  BY <1>1, OutboxBegins, OutboxStep, PTL DEF DeliveredStaysAlone
=============================================================================
