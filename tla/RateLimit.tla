----------------------------- MODULE RateLimit -----------------------------
(***************************************************************************)
(* The fixed-window counters of one bucket.  A call is checked against the *)
(* counters of its address, its organization and its user, in this order,  *)
(* and each is bumped before the next is looked at.  The counters are in   *)
(* the memory of each process, or in a Redis all processes share, where a  *)
(* bump is an INCR, a PEXPIRE for the first of a window and a PTTL that    *)
(* finds a counter without expiry, with other processes between them.      *)
(***************************************************************************)
EXTENDS Integers, Sequences

CONSTANTS
  Processes,      \* the API processes, one call at a time each
  StoreSettings,  \* [store |-> RATE_LIMIT_STORE, production |-> NODE_ENV]
  Buckets,        \* the buckets followed
  WindowLimit,    \* what every limit of the plan is scaled down to
  LimitFaults     \* bound on processes lost within a bump

ASSUME RateLimitAssumption ==
  /\ WindowLimit \in Nat \ {0}
  /\ LimitFaults \in Nat
  /\ "shared" \notin Processes
  /\ \A s \in StoreSettings : s.store \in {"redis", "memory", ""} /\ s.production \in BOOLEAN

VARIABLES
  setting,    \* the environment the processes were started in
  bucket,     \* the bucket all calls are for
  counter,    \* by store and subject: the count and whether it expires
  proc,       \* the local state of each process
  passed,     \* history: bumps let through since the subject's last expiry
  limitFaults

limitVars == <<setting, bucket, counter, proc, passed, limitFaults>>

-----------------------------------------------------------------------------
(* The plan: the counters a bucket has beside the one of the address.      *)

RATE_LIMIT_PLAN ==
  [b \in {"checkout.read", "checkout.session", "checkout.payment", "payment_links.write",
          "payments.read", "api_keys.manage", "webhooks.ingress", "providers.read",
          "auth.login", "auth.register", "auth.password_reset", "auth.email_verification",
          "auth.mfa", "users.invite"} |->
     CASE b \in {"payment_links.write", "payments.read", "api_keys.manage",
                 "providers.read", "users.invite"} -> <<"ip", "org">>
       [] b = "auth.mfa" -> <<"ip", "user">>
       [] OTHER -> <<"ip">>]

Subjects == {"ip", "org", "user"}

\* Mutant: production falls back to the memory of each process.
resolveRateLimitBackend_Memory(s) == IF s.store = "redis" THEN "redis" ELSE "memory"

\* Memory is refused in production; without a setting production takes Redis.
resolveRateLimitBackend(s) ==
  CASE s.store = "redis" -> "redis"
    [] s.store = "memory" -> IF s.production THEN "refused" ELSE "memory"
    [] OTHER -> IF s.production THEN "redis" ELSE "memory"

backend == resolveRateLimitBackend(setting)

\* bootstrapRateLimitStore: one store, or one in each process.
StoreOf(p) == IF backend = "redis" THEN "shared" ELSE p
Stores == Processes \cup {"shared"}

-----------------------------------------------------------------------------
Waiting == [pc |-> "idle", checks |-> <<>>]
NoCounter == [count |-> 0, expires |-> FALSE]

RateLimitTypeOK ==
  /\ setting \in StoreSettings
  /\ bucket \in Buckets
  /\ counter \in [Stores -> [Subjects -> [count : 0..(WindowLimit + 1), expires : BOOLEAN]]]
  /\ \A p \in Processes : proc[p].pc \in {"idle", "bump", "expire", "ttl", "answer"}
  /\ passed \in [Subjects -> Nat]
  /\ limitFaults \in 0..LimitFaults

RateLimitInit ==
  /\ setting \in {s \in StoreSettings : resolveRateLimitBackend(s) # "refused"}
  /\ bucket \in Buckets
  /\ counter = [s \in Stores |-> [u \in Subjects |-> NoCounter]]
  /\ proc = [p \in Processes |-> Waiting]
  /\ passed = [u \in Subjects |-> 0]
  /\ limitFaults = 0

\* A call with the organization and the user its session has, or none.
ArriveAtLimit(p, known) ==
  /\ proc[p] = Waiting
  /\ proc' = [proc EXCEPT ![p] =
       [pc |-> "bump", checks |-> SelectSeq(RATE_LIMIT_PLAN[bucket],
                                            LAMBDA u : u = "ip" \/ u \in known)]]
  /\ UNCHANGED <<setting, bucket, counter, passed, limitFaults>>

\* A count above the limit by one stands for all counts above it.
Bumped(c) == [c EXCEPT !.count = IF @ > WindowLimit THEN @ ELSE @ + 1]

allowed(count) == count <= WindowLimit

Answered(p, u, count) ==
  /\ passed' = IF allowed(count) THEN [passed EXCEPT ![u] = @ + 1] ELSE passed

\* The Map of the process: count and window in one step.
BumpMemory(p) ==
  LET u == Head(proc[p].checks)
      c == Bumped(counter[p][u])
  IN /\ proc[p].pc = "bump"
     /\ backend = "memory"
     /\ counter' = [counter EXCEPT ![p][u] = [count |-> c.count, expires |-> TRUE]]
     /\ Answered(p, u, c.count)
     /\ proc' = [proc EXCEPT ![p] = [pc |-> "answer", checks |-> @.checks, ok |-> allowed(c.count)]]
     /\ UNCHANGED <<setting, bucket, limitFaults>>

Incr(p) ==
  LET u == Head(proc[p].checks)
      c == Bumped(counter["shared"][u])
  IN /\ proc[p].pc = "bump"
     /\ backend = "redis"
     /\ counter' = [counter EXCEPT !["shared"][u] = c]
     /\ Answered(p, u, c.count)
     /\ proc' = [proc EXCEPT ![p] = [pc |-> IF c.count = 1 THEN "expire" ELSE "ttl",
                                     checks |-> @.checks, ok |-> allowed(c.count)]]
     /\ UNCHANGED <<setting, bucket, limitFaults>>

\* PEXPIRE of a key that is gone does nothing.
Expiring(u) ==
  counter' = [counter EXCEPT !["shared"][u].expires = counter["shared"][u].count > 0]

PExpire(p) ==
  /\ proc[p].pc = "expire"
  /\ Expiring(Head(proc[p].checks))
  /\ proc' = [proc EXCEPT ![p].pc = "ttl"]
  /\ UNCHANGED <<setting, bucket, passed, limitFaults>>

\* Mutant: a counter without expiry is taken for one that has just expired.
repairs_Never(u) == FALSE

\* pTTL is negative for a counter without expiry and for one that is gone.
repairs(u) == ~counter["shared"][u].expires

PTtl(p) ==
  LET u == Head(proc[p].checks) IN
  /\ proc[p].pc = "ttl"
  /\ IF repairs(u) THEN Expiring(u) ELSE UNCHANGED counter
  /\ proc' = [proc EXCEPT ![p].pc = "answer"]
  /\ UNCHANGED <<setting, bucket, passed, limitFaults>>

\* The next counter, or the hook's end: RATE_LIMITED at the first that is full.
Answer(p) ==
  /\ proc[p].pc = "answer"
  /\ proc' = [proc EXCEPT ![p] =
       IF proc[p].ok /\ Len(proc[p].checks) > 1
       THEN [pc |-> "bump", checks |-> Tail(@.checks)] ELSE Waiting]
  /\ UNCHANGED <<setting, bucket, counter, passed, limitFaults>>

\* The window of a counter ends.
Expire(s, u) ==
  /\ counter[s][u].expires
  /\ counter' = [counter EXCEPT ![s][u] = NoCounter]
  /\ passed' = [passed EXCEPT ![u] = 0]
  /\ UNCHANGED <<setting, bucket, proc, limitFaults>>

\* A process is lost in a call and started again, its own counters with it.
LoseProcess(p) ==
  /\ limitFaults < LimitFaults
  /\ proc[p] # Waiting
  /\ proc' = [proc EXCEPT ![p] = Waiting]
  /\ counter' = [counter EXCEPT ![p] = [u \in Subjects |-> NoCounter]]
  /\ limitFaults' = limitFaults + 1
  /\ UNCHANGED <<setting, bucket, passed>>

Bump(p) == BumpMemory(p) \/ Incr(p) \/ PExpire(p) \/ PTtl(p) \/ Answer(p)

RateLimitNext ==
  \/ \E p \in Processes :
       \/ \E known \in SUBSET {"org", "user"} : ArriveAtLimit(p, known)
       \/ Bump(p)
       \/ LoseProcess(p)
  \/ \E s \in Stores, u \in Subjects : Expire(s, u)

-----------------------------------------------------------------------------
(* Properties.                                                             *)

\* In production the processes together let no more calls through in a window
\* than the plan says.
ProductionLimitHolds ==
  setting.production => \A u \in Subjects : passed[u] <= WindowLimit

\* A full counter empties, although a process may be lost between the INCR and
\* the PEXPIRE of a window.
FullCountersEmpty ==
  \A s \in Stores, u \in Subjects :
    counter[s][u].count > WindowLimit ~> counter[s][u].count = 0
=============================================================================
