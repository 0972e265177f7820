---------------------------- MODULE RateLimiter -----------------------------
(***************************************************************************)
(* The rate limiter: a token bucket per key in Redis (L2, token_bucket.lua)*)
(* and, when Redis does not answer, one per key and process (L1).          *)
(*                                                                         *)
(* Tokens are counted in units: a call takes Cost of them, a tick brings   *)
(* Refill, and a bucket holds Capacity. Redis reads its own clock, which   *)
(* may be corrected; a process measures with a monotonic clock.            *)
(* The operators here are the halves of Allow; Edge composes them into the *)
(* handlers that call it.                                                  *)
(***************************************************************************)
EXTENDS EdgeBase, Integers, FiniteSets, Functions

CONSTANTS RateKeys,     \* bucket keys
          Capacity, Cost, Refill,
          TTL,          \* ticks after which Redis drops an unused bucket
          MaxIdle,      \* ticks after which a process may drop one
          MaxItems,     \* local buckets a process keeps before it looks
          MaxTicks,     \* bound: how far time goes
          MaxBack,      \* bound: how far Redis' clock is set back
          MaxAhead      \* bound: how often it is set forward

(* An unused bucket is full again before it is dropped.                    *)
ASSUME RateAssumption ==
    /\ Capacity \in Nat /\ Cost \in Nat \ {0} /\ Refill \in Nat
    /\ TTL \in Nat /\ MaxIdle \in Nat /\ MaxItems \in Nat
    /\ MaxTicks \in Nat /\ MaxBack \in Nat /\ MaxAhead \in Nat
    /\ Refill * TTL >= Capacity
    /\ Refill * (MaxIdle + 1) >= Capacity

VARIABLES now,        \* Redis TIME
          ticks,      \* time that has passed, on the monotonic clocks
          ahead,      \* history: ticks by which Redis' clock was set forward
          l2,         \* key -> bucket in Redis
          l1,         \* process -> key -> local bucket
          admitted,   \* history: calls let through, per key
          fellBack    \* history: processes that used their own bucket, per key

rateVars == <<now, ticks, ahead, l2, l1, admitted, fellBack>>

(* exp: when Redis drops the bucket.                                       *)
L2Type == [tokens : 0..Capacity, last : Int, exp : Int]
(* last: when the limiter last let a call through; used: localBucket.last. *)
L1Type == [tokens : 0..Capacity, last : Nat, used : Nat]

(* A function from some of the keys to buckets.                            *)
BucketsOK(f, type) == DOMAIN f \subseteq RateKeys /\ \A k \in DOMAIN f : f[k] \in type

RateTypeOK ==
    /\ now \in Int /\ ticks \in 0..MaxTicks /\ ahead \in 0..MaxAhead
    /\ BucketsOK(l2, L2Type)
    /\ \A p \in Procs : BucketsOK(l1[p], L1Type)
    /\ admitted \in [RateKeys -> Nat]
    /\ fellBack \in [RateKeys -> SUBSET Procs]

RateInit ==
    /\ now = 0 /\ ticks = 0 /\ ahead = 0
    /\ l2 = [k \in {} |-> 0]
    /\ l1 = [p \in Procs |-> [k \in {} |-> 0]]
    /\ admitted = [k \in RateKeys |-> 0]
    /\ fellBack = [k \in RateKeys |-> {}]

-----------------------------------------------------------------------------
(* Redis *)

Least(a, b) == IF a < b THEN a ELSE b
Most(a, b) == IF a > b THEN a ELSE b

Put(f, k, v) == [x \in DOMAIN f \cup {k} |-> IF x = k THEN v ELSE f[x]]

(* What is in the bucket now: full without one or with one Redis has let   *)
(* expire, else what was left and the refill since. A clock that is behind *)
(* the bucket refills nothing.                                             *)
Level(k) ==
    IF k \in DOMAIN l2 /\ now < l2[k].exp
    THEN Least(Capacity, l2[k].tokens + Refill * Most(0, now - l2[k].last))
    ELSE Capacity

(* Mutant: a refused call leaves the time of the last refill as it was.    *)
RefusedKeepsTime(k, ok) ==
    /\ ok <=> Level(k) >= Cost
    /\ l2' = Put(l2, k, [tokens |-> IF ok THEN Level(k) - Cost ELSE Level(k),
                         last |-> IF ok \/ k \notin DOMAIN l2 THEN now ELSE l2[k].last,
                         exp |-> now + TTL])

(* token_bucket.lua: tokens and time are written whatever the answer.      *)
TokenBucket(k, ok) ==
    /\ ok <=> Level(k) >= Cost
    /\ l2' = Put(l2, k, [tokens |-> IF ok THEN Level(k) - Cost ELSE Level(k),
                         last |-> now, exp |-> now + TTL])

Admit(k, ok) == admitted' = IF ok THEN [admitted EXCEPT ![k] = @ + 1] ELSE admitted

(* allowL2 that is answered.                                               *)
allowL2(k, ok) ==
    /\ TokenBucket(k, ok)
    /\ Admit(k, ok)
    /\ UNCHANGED <<now, ticks, ahead, l1, fellBack>>

(* The script runs and its answer does not arrive.                         *)
unansweredL2(k) ==
    /\ \E ok \in BOOLEAN : TokenBucket(k, ok)
    /\ UNCHANGED <<now, ticks, ahead, l1, admitted, fellBack>>

-----------------------------------------------------------------------------
(* The process *)

(* The table after the sweep that starts when it is large.                 *)
Swept(p) ==
    IF Cardinality(DOMAIN l1[p]) > MaxItems
    THEN Restrict(l1[p], {k \in DOMAIN l1[p] : ticks - l1[p][k].used <= MaxIdle})
    ELSE l1[p]

(* rate.NewLimiter starts full.                                            *)
NewLimiter == [tokens |-> Capacity, last |-> ticks, used |-> ticks]

(* localRateStore.Allow with x/time/rate: a refused call moves only used.  *)
allowL1(p, k, ok) ==
    LET items == Swept(p)
        b == IF k \in DOMAIN items THEN items[k] ELSE NewLimiter
        level == Least(Capacity, b.tokens + Refill * (ticks - b.last))
    IN  /\ ok <=> level >= Cost
        /\ l1' = [l1 EXCEPT ![p] =
                    Put(items, k, IF ok THEN [tokens |-> level - Cost, last |-> ticks, used |-> ticks]
                                        ELSE [b EXCEPT !.used = ticks])]
        /\ Admit(k, ok)
        /\ fellBack' = [fellBack EXCEPT ![k] = @ \cup {p}]
        /\ UNCHANGED <<now, ticks, ahead, l2>>

-----------------------------------------------------------------------------
(* Time *)

Tick ==
    /\ ticks < MaxTicks
    /\ now' = now + 1
    /\ ticks' = ticks + 1
    /\ UNCHANGED <<ahead, l2, l1, admitted, fellBack>>

(* Redis' host sets its clock back. A bucket that had expired is back too, *)
(* unless Redis has removed it by then.                                    *)
ClockBack ==
    /\ ticks - now < MaxBack
    /\ now' = now - 1
    /\ \E gone \in SUBSET {k \in DOMAIN l2 : now >= l2[k].exp} :
          l2' = Restrict(l2, DOMAIN l2 \ gone)
    /\ UNCHANGED <<ticks, ahead, l1, admitted, fellBack>>

(* Or forward, perhaps to make up for that: buckets refill and expire      *)
(* without any time having passed.                                         *)
ClockForward ==
    /\ ahead < MaxAhead
    /\ now' = now + 1
    /\ ahead' = ahead + 1
    /\ UNCHANGED <<ticks, l2, l1, admitted, fellBack>>

-----------------------------------------------------------------------------
(* Properties *)

(* allowL2, allowL1, token_bucket.lua: over any stretch from the start, a  *)
(* key lets through no more than a full bucket and the refill of the time  *)
(* that passed, once for Redis and once for every process that had to fall *)
(* back, whatever is refused, lost, expired, swept or set back in between. *)
(* Setting Redis' clock forward gives its bucket that much refill more,    *)
(* once; setting it back and forth gains no more than the forth.           *)
RateBound ==
    \A k \in RateKeys :
        Cost * admitted[k] <=
            (1 + Cardinality(fellBack[k])) * (Capacity + Refill * ticks) + Refill * ahead
=============================================================================
