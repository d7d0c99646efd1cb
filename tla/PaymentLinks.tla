---------------------------- MODULE PaymentLinks ----------------------------
(***************************************************************************)
(* The merchant's payment links: apps/api/src/payments/                    *)
(* payment-links-service.ts.                                               *)
(*                                                                         *)
(* Every operation of the service runs in one transaction that holds the   *)
(* link's row lock (SELECT ... FOR UPDATE) from its first read, so each    *)
(* one is a single action.  A throw rolls the transaction back: an         *)
(* operation that first marks a lapsed link EXPIRED and then throws leaves *)
(* the link ACTIVE in the database, so it is no action at all.             *)
(*                                                                         *)
(* This module holds the link table and what the merchant and the public   *)
(* page do to it; Checkout, which extends it, adds the payments.           *)
(***************************************************************************)
EXTENDS Naturals

CONSTANTS Links,         \* payment_links rows
          MaxUsesBound   \* largest max_uses a merchant asks for

ASSUME MaxUsesAssumption == MaxUsesBound \in Nat

VARIABLES link,         \* the row of each link
          lapsedLinks   \* links whose expires_at is set and in the past

linkVars == <<link, lapsedLinks>>

NoLimit == 0            \* max_uses IS NULL

LinkStatus == {"DRAFT", "ACTIVE", "INACTIVE", "EXPIRED", "CANCELLED"}

LINK_TRANSITIONS ==
  [DRAFT     |-> {"ACTIVE", "CANCELLED"},
   ACTIVE    |-> {"INACTIVE", "EXPIRED", "CANCELLED"},
   INACTIVE  |-> {"ACTIVE", "CANCELLED", "EXPIRED"},
   EXPIRED   |-> {},
   CANCELLED |-> {}]

\* "ABSENT" is a row that has not been inserted yet.
LinkRow == [status   : LinkStatus \union {"ABSENT"},
            oneTime  : BOOLEAN,
            reusable : BOOLEAN,
            maxUses  : Nat,
            useCount : Nat]

LinkTypeOK == /\ link \in [Links -> LinkRow]
              /\ lapsedLinks \subseteq Links

LinkInit ==
  /\ link = [l \in Links |-> [status |-> "ABSENT", oneTime |-> FALSE,
                              reusable |-> FALSE, maxUses |-> NoLimit,
                              useCount |-> 0]]
  /\ lapsedLinks = {}

-----------------------------------------------------------------------------
LimitReached(row) == row.maxUses # NoLimit /\ row.useCount >= row.maxUses

\* What maybeExpireLink finds: the status the rest of the operation acts on.
EffectiveStatus(l) ==
  IF link[l].status = "ACTIVE" /\ l \in lapsedLinks THEN "EXPIRED"
                                                    ELSE link[l].status

\* Mutant: only an ACTIVE link is closed.
RecordSuccessfulUse_IfActive(row) ==
  LET used == [row EXCEPT !.useCount = @ + 1]
  IN  IF row.status = "ACTIVE" /\ (LimitReached(used) \/ row.oneTime)
      THEN [used EXCEPT !.status = "EXPIRED"]
      ELSE used

\* recordSuccessfulUse: the row after one more successful payment, whatever
\* the status it had.
RecordSuccessfulUse(row) ==
  LET used == [row EXCEPT !.useCount = @ + 1]
  IN  IF LimitReached(used) \/ row.oneTime
      THEN [used EXCEPT !.status = "EXPIRED"]
      ELSE used

-----------------------------------------------------------------------------
\* create: a one-time link is never reusable and always limited to one use.
CreateLink(l) ==
  /\ link[l].status = "ABSENT"
  /\ \E oneTime, reusable, activate \in BOOLEAN, maxUses \in 0..MaxUsesBound :
       link' = [link EXCEPT ![l] =
                  [status   |-> IF activate THEN "ACTIVE" ELSE "DRAFT",
                   oneTime  |-> oneTime,
                   reusable |-> reusable /\ ~oneTime,
                   maxUses  |-> IF oneTime THEN 1 ELSE maxUses,
                   useCount |-> 0]]
  /\ UNCHANGED lapsedLinks

\* getByPublicToken: the one operation whose expiry commits.
GetByPublicToken(l) ==
  /\ link[l].status # EffectiveStatus(l)
  /\ link' = [link EXCEPT ![l].status = EffectiveStatus(l)]
  /\ UNCHANGED lapsedLinks

\* update: max_uses may be raised, lowered (below use_count too) or cleared and
\* expires_at moved; the table's CHECK keeps a one-time link at one use or NULL.
UpdateLink(l) ==
  /\ link[l].status # "ABSENT"
  /\ EffectiveStatus(l) \notin {"CANCELLED", "EXPIRED"}
  /\ \E maxUses \in {link[l].maxUses} \union 0..MaxUsesBound :
       /\ link[l].oneTime => maxUses \in {NoLimit, 1}
       /\ link' = [link EXCEPT ![l].maxUses = maxUses]
  /\ lapsedLinks' \in {lapsedLinks, lapsedLinks \ {l}}

\* transition: activate, deactivate, cancel and expire by the merchant.
TransitionLink(l, to) ==
  /\ link[l].status # "ABSENT"
  /\ to \in LINK_TRANSITIONS[EffectiveStatus(l)]
  /\ link' = [link EXCEPT ![l].status = to]
  /\ UNCHANGED lapsedLinks

\* reuse: only an INACTIVE, reusable link that has uses left.
ReuseLink(l) ==
  /\ link[l].status = "INACTIVE"
  /\ ~link[l].oneTime
  /\ link[l].reusable
  /\ ~LimitReached(link[l])
  /\ link' = [link EXCEPT ![l].status = "ACTIVE"]
  /\ UNCHANGED lapsedLinks

\* The clock passes expires_at.
LinkLapses(l) ==
  /\ link[l].status \in {"DRAFT", "ACTIVE", "INACTIVE"}
  /\ l \notin lapsedLinks
  /\ lapsedLinks' = lapsedLinks \union {l}
  /\ UNCHANGED link

LinkNext ==
  \E l \in Links :
    \/ CreateLink(l)
    \/ GetByPublicToken(l)
    \/ UpdateLink(l)
    \/ \E to \in LinkStatus : TransitionLink(l, to)
    \/ ReuseLink(l)
    \/ LinkLapses(l)
=============================================================================
