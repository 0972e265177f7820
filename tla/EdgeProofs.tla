----------------------------- MODULE EdgeProofs -----------------------------
(***************************************************************************)
(* Proofs about the edge, for any number of processes, requests, users,    *)
(* bucket keys and slots, and any capacity, refill, cost and times.        *)
(*                                                                         *)
(* TInv has the types and, per request, what its handler knows at each     *)
(* place (Shape). Four invariants rest on it, one per property:            *)
(*                                                                         *)
(*   RInv: the calls a key let through can be split among Redis and the    *)
(*         processes that fell back such that each bucket has at most the  *)
(*         rest of its own budget. The split is not in the state: it is    *)
(*         carried from state to state as an existential.                  *)
(*   SInv: slots and counter are the cardinalities of the requests at the  *)
(*         places between their updates, which are finitely many.          *)
(*   NInv: what clients were told, in terms of rows that never go.         *)
(*   KInv: a ticket in Redis has let nobody past, and whoever presents one *)
(*         presents one whose creation was answered.                       *)
(*                                                                         *)
(* A step of the edge is one of eight kinds (StepCases), each with what    *)
(* the invariants need to know of it; the limiter sees its own steps only  *)
(* (RateCases).                                                            *)
(***************************************************************************)
EXTENDS Edge, FiniteSetTheorems, TLAPS

(* What a handler knows at each of its places.                             *)
Shape(q) ==
    /\ q.pc = "none" => q = NoRequest
    /\ q.pc # "none" => q.kind # "none"
    /\ q.pc \in {"id", "insert"} =>
          q.kind = "register" /\ q.arg \in Names /\ Normalise[q.arg] \in ValidNames
    /\ q.pc = "insert" => q.user \in UserIds
    /\ q.pc = "find" => q.kind = "login"
    /\ q.pc \in {"rate", "local"} => q.kind \in {"login", "upgrade", "history"}
    /\ q.pc \in {"rate", "local"} /\ q.kind = "login" => <<"login", q.arg>> \in RateKeys
    /\ q.pc \in {"rate", "local"} /\ q.kind # "login" => q.user \in UserIds
    /\ q.pc \in {"rateUser", "localUser"} => q.kind = "upgrade" /\ q.user \in UserIds
    /\ q.pc \in {"consume", "upgrade", "open"} => q.kind = "upgrade"
    /\ q.pc = "consume" => q.arg \in Requests \cup {NoArg}
    /\ q.pc = "create" => q.kind = "ticket" /\ q.user \in UserIds
    /\ q.pc \in {"acquire", "waiting", "count", "query", "free", "uncount"} => q.kind = "history"
    /\ q.answer # "" => q.pc \in {"free", "uncount", "done"}

(* The local tables are a function of the process.                         *)
Tables == l1 = [p \in Procs |-> l1[p]]

(* A ticket in Redis is a user's.                                          *)
HeldByUser == \A t \in Requests : tickets[t].held => tickets[t].user \in UserIds

TInv ==
    /\ TypeOK
    /\ Tables
    /\ HeldByUser
    /\ \A r \in Requests : Shape(req[r])

-----------------------------------------------------------------------------
(* The request r goes on as q. *)
Moves(r, q) == req' = [req EXCEPT ![r] = q]

(* What a step of a handler may do to what is known of its request: all is *)
(* kept but the user, who is found out at three places, or it is refused.  *)
GoesOn(o, q) ==
    /\ o.pc \notin {"none", "open", "done"}
    /\ q.pc # "none"
    /\ \/ q = Refused(o.kind)
       \/ /\ q.kind = o.kind /\ q.proc = o.proc /\ q.arg = o.arg /\ q.secret = o.secret
          /\ q.user = o.user \/ o.pc \in {"id", "find", "consume"}

LEMMA NoRequestOK ==
    /\ NoRequest \in RequestType
    /\ NoRequest.pc = "none" /\ NoRequest.kind = "none" /\ NoRequest.proc \in Procs
    /\ NoRequest.arg = NoArg /\ NoRequest.user = 0 /\ NoRequest.answer = ""
    /\ NoRequest.secret \in Passwords
    /\ Shape(NoRequest)
<1>1. Passwords # {} /\ Procs # {}
  BY EdgeAssumption DEF UserType, HashPassword
<1>2. /\ NoRequest \in RequestType
      /\ NoRequest.pc = "none" /\ NoRequest.kind = "none" /\ NoRequest.proc \in Procs
      /\ NoRequest.arg = NoArg /\ NoRequest.user = 0 /\ NoRequest.answer = ""
      /\ NoRequest.secret \in Passwords
  BY <1>1 DEF NoRequest, RequestType, Kinds, Places
<1>3. Shape(NoRequest)
  BY <1>2 DEF Shape
<1> QED
  BY <1>2, <1>3

LEMMA RefusedOK ==
    ASSUME NEW k \in Kinds \ {"none"}
    PROVE  /\ Refused(k) \in RequestType
           /\ Refused(k).pc = "done" /\ Refused(k).kind = k /\ Refused(k).answer = "refused"
           /\ Refused(k).arg = NoArg /\ Refused(k).user = 0
           /\ Shape(Refused(k))
<1>1. /\ Refused(k) \in RequestType
      /\ Refused(k).pc = "done" /\ Refused(k).kind = k /\ Refused(k).answer = "refused"
      /\ Refused(k).arg = NoArg /\ Refused(k).user = 0
  BY NoRequestOK DEF Refused, RequestType, Places
<1>2. Shape(Refused(k))
  BY <1>1 DEF Shape
<1> QED
  BY <1>1, <1>2

(* The updates of a request that the handlers make. *)
LEMMA SetPc ==
    ASSUME NEW q \in RequestType, NEW x \in Places
    PROVE  LET e == [q EXCEPT !.pc = x]
           IN  /\ e \in RequestType
               /\ e.pc = x /\ e.kind = q.kind /\ e.proc = q.proc /\ e.arg = q.arg
               /\ e.secret = q.secret /\ e.user = q.user /\ e.answer = q.answer
BY DEF RequestType

(* Goto, Answer and Refuse as moves. *)
LEMMA MovesOf ==
    ASSUME TypeOK, NEW r \in Requests, NEW x, NEW a
    PROVE  /\ Goto(r, x) <=> Moves(r, [req[r] EXCEPT !.pc = x])
           /\ Answer(r, a) <=> Moves(r, [req[r] EXCEPT !.pc = "done", !.answer = a])
           /\ Refuse(r) <=> Moves(r, Refused(req[r].kind))
BY DEF TypeOK, Goto, Answer, Refuse, Moves

-----------------------------------------------------------------------------
(***************************************************************************)
(* The rate limiter                                                        *)
(***************************************************************************)

(* What the limiter sees of the edge.                                      *)
RateNext ==
    \/ \E k \in RateKeys, ok \in BOOLEAN : allowL2(k, ok)
    \/ \E k \in RateKeys : unansweredL2(k)
    \/ \E p \in Procs, k \in RateKeys, ok \in BOOLEAN : allowL1(p, k, ok)
    \/ Tick
    \/ ClockBack
    \/ ClockForward

(* What is in the bucket of p now.                                         *)
LocalLevel(p, k) ==
    IF k \in DOMAIN l1[p]
    THEN Least(Capacity, l1[p][k].tokens + Refill * (ticks - l1[p][k].last))
    ELSE Capacity

(* Redis expires a bucket TTL after it wrote it; a process never has one   *)
(* of the future, and has used it since it last let a call through.        *)
Stamps ==
    /\ \A k \in DOMAIN l2 : l2[k].exp = l2[k].last + TTL
    /\ \A p \in Procs : \A k \in DOMAIN l1[p] :
          l1[p][k].last <= l1[p][k].used /\ l1[p][k].used <= ticks

Budget == Capacity + Refill * ticks

(* What Redis' bucket has on top of it.                                    *)
Extra == Refill * ahead

(* The calls a process let through, f[p] of them, one by one.              *)
Calls(k, f) == {c \in fellBack[k] \X Nat : c[2] < f[c[1]]}

(* The calls a key let through can be split into those of Redis and those  *)
(* of each process that fell back, such that every bucket has at most the  *)
(* rest of its budget.                                                     *)
Split(k, a, f) ==
    /\ Cost * a + Level(k) <= Budget + Extra
    /\ \A p \in Procs : Cost * f[p] + LocalLevel(p, k) <= Budget
    /\ \A p \in Procs : p \notin fellBack[k] => f[p] = 0
    /\ IsFiniteSet(Calls(k, f))
    /\ admitted[k] = a + Cardinality(Calls(k, f))

Shared(k) ==
    /\ IsFiniteSet(fellBack[k])
    /\ \E a \in Nat, f \in [Procs -> Nat] : Split(k, a, f)

RInv ==
    /\ RateTypeOK
    /\ Tables
    /\ Stamps
    /\ \A k \in RateKeys : Shared(k)

(* Multiplication by the refill rate and by the cost of a call. *)
LEMMA Products ==
    ASSUME NEW x \in Nat, NEW y \in Nat
    PROVE  /\ Refill * x \in Nat /\ Cost * x \in Nat
           /\ Refill * (x + 1) = Refill * x + Refill
           /\ Cost * (x + 1) = Cost * x + Cost
           /\ x <= y => Refill * x <= Refill * y /\ Cost * x <= Cost * y
           /\ Refill * 0 = 0 /\ Cost * 0 = 0
<1>1. Refill \in Nat /\ Cost \in Nat
  BY RateAssumption
<1>2. ASSUME NEW m \in Nat
      PROVE  /\ m * x \in Nat
             /\ m * (x + 1) = m * x + m
             /\ x <= y => m * x <= m * y
             /\ m * 0 = 0
  <2>1. m * x \in Nat /\ m * (x + 1) = m * x + m /\ m * 0 = 0
    BY Z3
  <2>2. ASSUME x <= y PROVE m * x <= m * y
    <3>1. PICK z \in Nat : y = x + z
      BY <2>2
    <3>2. m * y = m * x + m * z /\ m * z \in Nat
      BY <3>1, Z3
    <3> QED
      BY <3>2, <2>1
  <2> QED
    BY <2>1, <2>2
<1> QED
  BY <1>1, <1>2

(* The parts of the type invariant in the form the proofs use. *)
LEMMA RateTypes ==
    ASSUME RateTypeOK
    PROVE  /\ now \in Int /\ ticks \in Nat /\ ticks <= MaxTicks /\ ahead \in Nat
           /\ \A k \in DOMAIN l2 : /\ k \in RateKeys
                                   /\ l2[k].tokens \in Nat /\ l2[k].tokens <= Capacity
                                   /\ l2[k].last \in Int /\ l2[k].exp \in Int
           /\ \A p \in Procs : \A k \in DOMAIN l1[p] :
                 /\ k \in RateKeys
                 /\ l1[p][k].tokens \in Nat /\ l1[p][k].tokens <= Capacity
                 /\ l1[p][k].last \in Nat /\ l1[p][k].used \in Nat
           /\ \A k \in RateKeys : admitted[k] \in Nat /\ fellBack[k] \subseteq Procs
           /\ Capacity \in Nat /\ Cost \in Nat /\ Cost > 0 /\ Refill \in Nat /\ TTL \in Nat
           /\ MaxIdle \in Nat
<1>1. \A k \in DOMAIN l2 : k \in RateKeys /\ l2[k] \in L2Type
  BY DEF RateTypeOK, BucketsOK
<1>2. \A p \in Procs : \A k \in DOMAIN l1[p] : k \in RateKeys /\ l1[p][k] \in L1Type
  BY DEF RateTypeOK, BucketsOK
<1> QED
  BY <1>1, <1>2, RateAssumption DEF RateTypeOK, L2Type, L1Type

LEMMA LevelType ==
    ASSUME RateTypeOK, NEW k \in RateKeys
    PROVE  Level(k) \in Nat /\ Level(k) <= Capacity
<1>1. CASE k \in DOMAIN l2 /\ now < l2[k].exp
  <2>1. Most(0, now - l2[k].last) \in Nat
    BY RateTypes, <1>1 DEF Most
  <2>2. Refill * Most(0, now - l2[k].last) \in Nat
    BY <2>1, Products
  <2> QED
    BY <1>1, <2>2, RateTypes DEF Level, Least
<1>2. CASE ~(k \in DOMAIN l2 /\ now < l2[k].exp)
  BY <1>2, RateTypes DEF Level
<1> QED
  BY <1>1, <1>2

LEMMA LocalLevelType ==
    ASSUME RateTypeOK, Stamps, NEW p \in Procs, NEW k \in RateKeys
    PROVE  LocalLevel(p, k) \in Nat /\ LocalLevel(p, k) <= Capacity
<1>1. CASE k \in DOMAIN l1[p]
  <2>1. ticks - l1[p][k].last \in Nat
    BY RateTypes, <1>1 DEF Stamps
  <2>2. Refill * (ticks - l1[p][k].last) \in Nat
    BY <2>1, Products
  <2> QED
    BY <1>1, <2>2, RateTypes DEF LocalLevel, Least
<1>2. CASE k \notin DOMAIN l1[p]
  BY <1>2, RateTypes DEF LocalLevel
<1> QED
  BY <1>1, <1>2

(* token_bucket.lua takes the cost of the call it lets through from the    *)
(* bucket of its key, and nothing else changes.                            *)
LEMMA BucketStep ==
    ASSUME RateTypeOK, Stamps, NEW k \in RateKeys, NEW ok \in BOOLEAN,
           TokenBucket(k, ok), now' = now
    PROVE  /\ BucketsOK(l2', L2Type)
           /\ \A x \in DOMAIN l2' : l2'[x].exp = l2'[x].last + TTL
           /\ ok <=> Level(k) >= Cost
           /\ Level(k)' = IF ok THEN Level(k) - Cost ELSE Level(k)
           /\ \A x \in RateKeys : x # k => Level(x)' = Level(x)
<1> DEFINE left == IF ok THEN Level(k) - Cost ELSE Level(k)
           b == [tokens |-> left, last |-> now, exp |-> now + TTL]
<1>1. /\ ok <=> Level(k) >= Cost
      /\ l2' = Put(l2, k, b)
  BY DEF TokenBucket
<1>2. left \in 0..Capacity
  BY <1>1, LevelType, RateTypes
<1>3. b \in L2Type /\ b.exp = b.last + TTL
  BY <1>2, RateTypes DEF L2Type
<1>4. /\ DOMAIN l2' = DOMAIN l2 \cup {k}
      /\ l2'[k] = b
      /\ \A x \in DOMAIN l2 : x # k => l2'[x] = l2[x]
  <2> HIDE DEF b
  <2> QED
    BY <1>1 DEF Put
<1>5. BucketsOK(l2', L2Type)
  BY <1>3, <1>4 DEF RateTypeOK, BucketsOK
<1>6. \A x \in DOMAIN l2' : l2'[x].exp = l2'[x].last + TTL
  BY <1>3, <1>4 DEF Stamps
<1>7. Level(k)' = left
  <2>1. l2'[k].exp = now + TTL /\ l2'[k].tokens = left /\ l2'[k].last = now
    BY <1>4
  <2>2. CASE TTL = 0
    <3>1. Capacity = 0
      BY <2>2, RateAssumption, Products
    <3> QED
      BY <3>1, <2>1, <2>2, <1>2, <1>4, RateTypes DEF Level
  <2>3. CASE TTL # 0
    <3>1. Level(k)' = Least(Capacity, left + Refill * Most(0, now - now))
      BY <2>1, <2>3, <1>4, RateTypes DEF Level
    <3>2. Most(0, now - now) = 0
      BY RateTypes DEF Most
    <3>3. Refill * Most(0, now - now) = 0
      BY <3>2, Products
    <3> QED
      BY <3>1, <3>3, <1>2, RateTypes DEF Least
  <2> QED
    BY <2>2, <2>3
<1>8. ASSUME NEW x \in RateKeys, x # k PROVE Level(x)' = Level(x)
  BY <1>4, <1>8 DEF Level
<1> QED
  BY <1>1, <1>5, <1>6, <1>7, <1>8

LEMMA ExtraType ==
    ASSUME RateTypeOK
    PROVE  Extra \in Nat
BY RateTypes, Products DEF Extra

(* A step of Redis' clock brings at most Refill, to a bucket that expires  *)
(* as well. *)
LEMMA TickLevel ==
    ASSUME RateTypeOK, Stamps, now' = now + 1, l2' = l2, NEW k \in RateKeys
    PROVE  Level(k)' \in Int /\ Level(k)' <= Level(k) + Refill
<1>1. now' = now + 1 /\ l2' = l2
  OBVIOUS
<1>2. CASE k \notin DOMAIN l2 \/ now >= l2[k].exp
  <2>1. Level(k) = Capacity
    BY <1>2, RateTypes DEF Level
  <2>2. Level(k)' = Capacity
    BY <1>1, <1>2, RateTypes DEF Level
  <2> QED
    BY <2>1, <2>2, RateTypes
<1>3. CASE k \in DOMAIN l2 /\ now < l2[k].exp
  <2> DEFINE m == Most(0, now - l2[k].last)
             n == Most(0, now + 1 - l2[k].last)
  <2>1. m \in Nat /\ n \in Nat /\ n <= m + 1
    BY <1>3, RateTypes DEF Most
  <2>2. Refill * n <= Refill * m + Refill /\ Refill * m \in Nat /\ Refill * n \in Nat
    <3>1. m + 1 \in Nat
      BY <2>1
    <3>2. Refill * n <= Refill * (m + 1) /\ Refill * n \in Nat
      BY <2>1, <3>1, Products
    <3>3. Refill * (m + 1) = Refill * m + Refill /\ Refill * m \in Nat
      BY <2>1, Products
    <3> QED
      BY <3>2, <3>3
  <2>3. Level(k) = Least(Capacity, l2[k].tokens + Refill * m)
    BY <1>3 DEF Level
  <2>4. CASE now + 1 < l2[k].exp
    <3>1. Level(k)' = Least(Capacity, l2[k].tokens + Refill * Most(0, now' - l2[k].last))
      BY <1>1, <1>3, <2>4 DEF Level
    <3>2. Most(0, now' - l2[k].last) = n
      BY <1>1, <1>3, RateTypes DEF Most
    <3>3. Level(k)' = Least(Capacity, l2[k].tokens + Refill * n)
      BY <3>1, <3>2
    <3> HIDE DEF m, n
    <3> QED
      BY <3>3, <2>2, <2>3, <1>3, RateTypes DEF Least
  <2>5. CASE now + 1 >= l2[k].exp
    <3>1. Level(k)' = Capacity
      BY <1>1, <2>5, RateTypes, <1>3 DEF Level
    <3>2. TTL <= n
      BY <2>5, <1>3, RateTypes DEF Stamps, Most
    <3>3. Capacity <= Refill * n
      <4>1. Refill * TTL <= Refill * n /\ Refill * TTL \in Nat
        BY <3>2, <2>1, Products, RateTypes
      <4> QED
        BY <4>1, <2>2, RateTypes, RateAssumption
    <3> HIDE DEF m, n
    <3> QED
      BY <3>1, <3>3, <2>2, <2>3, <1>3, RateTypes DEF Least
  <2> QED
    BY <2>4, <2>5, <1>3, RateTypes
<1> QED
  BY <1>2, <1>3, RateTypes

LEMMA TickLocalLevel ==
    ASSUME RateTypeOK, Stamps, Tick, NEW p \in Procs, NEW k \in RateKeys
    PROVE  LocalLevel(p, k)' \in Int /\ LocalLevel(p, k)' <= LocalLevel(p, k) + Refill
<1>1. ticks' = ticks + 1 /\ l1' = l1
  BY DEF Tick
<1>2. CASE k \notin DOMAIN l1[p]
  BY <1>1, <1>2, RateTypes DEF LocalLevel
<1>3. CASE k \in DOMAIN l1[p]
  <2> DEFINE m == ticks - l1[p][k].last
  <2>1. m \in Nat /\ ticks + 1 - l1[p][k].last = m + 1
    BY <1>3, RateTypes DEF Stamps
  <2>2. Refill * (m + 1) = Refill * m + Refill /\ Refill * m \in Nat
    BY <2>1, Products
  <2>3. LocalLevel(p, k) = Least(Capacity, l1[p][k].tokens + Refill * m)
    BY <1>3 DEF LocalLevel
  <2>4. LocalLevel(p, k)' = Least(Capacity, l1[p][k].tokens + Refill * (m + 1))
    <3>1. LocalLevel(p, k)' = Least(Capacity, l1[p][k].tokens + Refill * (ticks' - l1[p][k].last))
      BY <1>1, <1>3 DEF LocalLevel
    <3>2. ticks' - l1[p][k].last = m + 1
      BY <1>1, <1>3, RateTypes
    <3> QED
      BY <3>1, <3>2
  <2> HIDE DEF m
  <2> QED
    BY <2>2, <2>3, <2>4, <1>3, RateTypes DEF Least
<1> QED
  BY <1>2, <1>3

(* A clock that is set back takes nothing into a bucket. *)
LEMMA BackLevel ==
    ASSUME RateTypeOK, Stamps, ClockBack, NEW k \in RateKeys
    PROVE  Level(k)' \in Int /\ Level(k)' <= Level(k)
<1>1. PICK gone \in SUBSET {x \in DOMAIN l2 : now >= l2[x].exp} :
         l2' = Restrict(l2, DOMAIN l2 \ gone)
  BY DEF ClockBack
<1>2. /\ DOMAIN l2' = DOMAIN l2 \ gone
      /\ \A x \in DOMAIN l2 \ gone : l2'[x] = l2[x]
  BY <1>1 DEF Restrict
<1>3. now' = now - 1
  BY DEF ClockBack
<1>4. CASE k \notin DOMAIN l2 \/ now >= l2[k].exp
  <2>1. Level(k) = Capacity
    BY <1>4, RateTypes DEF Level
  <2>2. Level(k)' \in Int /\ Level(k)' <= Capacity
    <3>1. CASE k \in DOMAIN l2' /\ now' < l2'[k].exp
      <4>1. Level(k)' = Least(Capacity, l2'[k].tokens + Refill * Most(0, now' - l2'[k].last))
        BY <3>1 DEF Level
      <4>2. l2'[k].tokens \in Nat /\ l2'[k].last \in Int
        BY <3>1, <1>2, RateTypes
      <4>3. Most(0, now' - l2'[k].last) \in Nat
        BY <4>2, <1>3, RateTypes DEF Most
      <4>4. Refill * Most(0, now' - l2'[k].last) \in Nat
        BY <4>3, Products
      <4> QED
        BY <4>1, <4>2, <4>4, RateTypes DEF Least
    <3>2. CASE ~(k \in DOMAIN l2' /\ now' < l2'[k].exp)
      BY <3>2, RateTypes DEF Level
    <3> QED
      BY <3>1, <3>2
  <2> QED
    BY <2>1, <2>2
<1>5. CASE k \in DOMAIN l2 /\ now < l2[k].exp
  <2> DEFINE m == Most(0, now - l2[k].last)
             n == Most(0, now - 1 - l2[k].last)
  <2>1. m \in Nat /\ n \in Nat /\ n <= m
    BY <1>5, RateTypes DEF Most
  <2>2. Refill * n <= Refill * m /\ Refill * m \in Nat /\ Refill * n \in Nat
    BY <2>1, Products
  <2>3. k \in DOMAIN l2' /\ l2'[k] = l2[k] /\ now' < l2'[k].exp
    BY <1>2, <1>3, <1>5, RateTypes
  <2>4. Level(k) = Least(Capacity, l2[k].tokens + Refill * m)
    BY <1>5 DEF Level
  <2>5. Level(k)' = Least(Capacity, l2[k].tokens + Refill * n)
    BY <2>3, <1>3 DEF Level
  <2> HIDE DEF m, n
  <2> QED
    BY <2>2, <2>4, <2>5, <1>5, RateTypes DEF Least
<1> QED
  BY <1>4, <1>5, RateTypes

(* The sweep keeps buckets as they are and drops full ones. *)
LEMMA SweptOK ==
    ASSUME RateTypeOK, Stamps, NEW p \in Procs
    PROVE  /\ DOMAIN Swept(p) \subseteq DOMAIN l1[p]
           /\ \A x \in DOMAIN Swept(p) : Swept(p)[x] = l1[p][x]
           /\ \A x \in DOMAIN l1[p] \ DOMAIN Swept(p) : LocalLevel(p, x) = Capacity
<1>1. CASE Swept(p) = l1[p]
  BY <1>1
<1>2. CASE Swept(p) # l1[p]
  <2> DEFINE kept == {x \in DOMAIN l1[p] : ticks - l1[p][x].used <= MaxIdle}
  <2>1. Swept(p) = Restrict(l1[p], kept)
    BY <1>2 DEF Swept
  <2>2. DOMAIN Swept(p) = kept /\ \A x \in kept : Swept(p)[x] = l1[p][x]
    BY <2>1 DEF Restrict
  <2>3. ASSUME NEW x \in DOMAIN l1[p], x \notin kept PROVE LocalLevel(p, x) = Capacity
    <3> DEFINE m == ticks - l1[p][x].last
    <3>1. m \in Nat /\ MaxIdle + 1 \in Nat /\ MaxIdle + 1 <= m
      BY <2>3, RateTypes DEF Stamps
    <3>2. Refill * (MaxIdle + 1) <= Refill * m /\ Refill * (MaxIdle + 1) \in Nat /\ Refill * m \in Nat
      BY <3>1, Products
    <3>3. LocalLevel(p, x) = Least(Capacity, l1[p][x].tokens + Refill * m)
      BY DEF LocalLevel
    <3> HIDE DEF m
    <3> QED
      BY <3>2, <3>3, RateTypes, RateAssumption DEF Least
  <2> QED
    BY <2>2, <2>3
<1> QED
  BY <1>1, <1>2

(* localRateStore.Allow likewise, for the bucket of one key in one process.*)
LEMMA LocalStep ==
    ASSUME RateTypeOK, Tables, Stamps, NEW p \in Procs, NEW k \in RateKeys, NEW ok \in BOOLEAN,
           allowL1(p, k, ok)
    PROVE  /\ Tables'
           /\ \A r \in Procs : BucketsOK(l1'[r], L1Type)
           /\ \A r \in Procs : \A x \in DOMAIN l1'[r] :
                 l1'[r][x].last <= l1'[r][x].used /\ l1'[r][x].used <= ticks
           /\ ok <=> LocalLevel(p, k) >= Cost
           /\ LocalLevel(p, k)' = IF ok THEN LocalLevel(p, k) - Cost ELSE LocalLevel(p, k)
           /\ \A x \in RateKeys : x # k => LocalLevel(p, x)' = LocalLevel(p, x)
           /\ \A r \in Procs, x \in RateKeys : r # p => LocalLevel(r, x)' = LocalLevel(r, x)
<1> DEFINE items == Swept(p)
           b == IF k \in DOMAIN items THEN items[k] ELSE NewLimiter
           level == Least(Capacity, b.tokens + Refill * (ticks - b.last))
           new == IF ok THEN [tokens |-> level - Cost, last |-> ticks, used |-> ticks]
                        ELSE [b EXCEPT !.used = ticks]
<1>1. /\ ok <=> level >= Cost
      /\ l1' = [l1 EXCEPT ![p] = Put(items, k, new)]
      /\ ticks' = ticks
  BY DEF allowL1
<1>2. b \in L1Type /\ b.last <= ticks /\ b.last \in Nat /\ b.tokens \in Nat /\ b.tokens <= Capacity
  <2>1. CASE k \in DOMAIN items
    <3>1. b = l1[p][k] /\ k \in DOMAIN l1[p]
      BY <2>1, SweptOK
    <3>2. l1[p][k] \in L1Type
      BY <3>1 DEF RateTypeOK, BucketsOK
    <3> HIDE DEF b
    <3> QED
      BY <3>1, <3>2, RateTypes DEF Stamps
  <2>2. CASE k \notin DOMAIN items
    <3>1. b = NewLimiter
      BY <2>2
    <3> HIDE DEF b
    <3> QED
      BY <3>1, RateTypes DEF NewLimiter, L1Type
  <2> QED
    BY <2>1, <2>2
<1>3. level = LocalLevel(p, k)
  <2>1. CASE k \in DOMAIN items
    <3>1. b = l1[p][k] /\ k \in DOMAIN l1[p]
      BY <2>1, SweptOK
    <3> HIDE DEF b
    <3> QED
      BY <3>1 DEF LocalLevel
  <2>2. CASE k \notin DOMAIN items
    <3>1. b.tokens = Capacity /\ b.last = ticks
      BY <2>2 DEF NewLimiter
    <3>2. Refill * (ticks - b.last) = 0
      <4>1. ticks - b.last = 0
        BY <3>1, RateTypes
      <4> QED
        BY <4>1, Products
    <3>3. level = Capacity
      <4> HIDE DEF b
      <4> QED
        BY <3>1, <3>2, RateTypes DEF Least
    <3>4. LocalLevel(p, k) = Capacity
      BY <2>2, SweptOK DEF LocalLevel
    <3> QED
      BY <3>3, <3>4
  <2> QED
    BY <2>1, <2>2
<1>4. level \in Nat /\ level <= Capacity
  BY <1>3, LocalLevelType
<1>5. /\ new \in L1Type
      /\ new.last <= new.used /\ new.used <= ticks
      /\ new.last = (IF ok THEN ticks ELSE b.last)
      /\ new.tokens = (IF ok THEN level - Cost ELSE b.tokens)
  <2> HIDE DEF b, level
  <2>1. CASE ok
    BY <2>1, <1>1, <1>4, RateTypes DEF L1Type
  <2>2. CASE ~ok
    BY <2>2, <1>2, RateTypes DEF L1Type
  <2> QED
    BY <2>1, <2>2
<1>6. /\ DOMAIN l1'[p] = DOMAIN items \cup {k}
      /\ l1'[p][k] = new
      /\ \A x \in DOMAIN items : x # k => l1'[p][x] = l1[p][x]
      /\ \A r \in Procs : r # p => l1'[r] = l1[r]
      /\ Tables'
  <2> HIDE DEF new, items
  <2>1. /\ l1'[p] = Put(items, k, new)
        /\ \A r \in Procs : r # p => l1'[r] = l1[r]
        /\ Tables'
    BY <1>1 DEF Tables
  <2> QED
    BY <2>1, SweptOK DEF Put, items
<1> HIDE DEF new
<1>7. \A r \in Procs : BucketsOK(l1'[r], L1Type)
  BY <1>5, <1>6, SweptOK DEF RateTypeOK, BucketsOK
<1>8. ASSUME NEW r \in Procs, NEW x \in DOMAIN l1'[r]
      PROVE  l1'[r][x].last <= l1'[r][x].used /\ l1'[r][x].used <= ticks
  BY <1>5, <1>6, <1>8, SweptOK DEF Stamps
<1>9. LocalLevel(p, k)' = IF ok THEN LocalLevel(p, k) - Cost ELSE LocalLevel(p, k)
  <2>1. LocalLevel(p, k)' = Least(Capacity, new.tokens + Refill * (ticks - new.last))
    BY <1>1, <1>6 DEF LocalLevel
  <2>2. CASE ok
    <3>1. new.last = ticks /\ new.tokens = level - Cost
      BY <1>5, <2>2
    <3>2. ticks - new.last = 0
      BY <3>1, RateTypes
    <3>3. Refill * (ticks - new.last) = 0
      BY <3>2, Products
    <3> HIDE DEF level
    <3> QED
      BY <2>1, <2>2, <3>1, <3>3, <1>1, <1>3, <1>4, RateTypes DEF Least
  <2>3. CASE ~ok
    BY <2>1, <2>3, <1>3, <1>5
  <2> QED
    BY <2>2, <2>3
<1>10. ASSUME NEW x \in RateKeys, x # k PROVE LocalLevel(p, x)' = LocalLevel(p, x)
  <2>1. CASE x \in DOMAIN items
    BY <2>1, <1>1, <1>6, <1>10, SweptOK DEF LocalLevel
  <2>2. CASE x \notin DOMAIN items
    <3>1. LocalLevel(p, x)' = Capacity
      BY <2>2, <1>6, <1>10 DEF LocalLevel
    <3>2. LocalLevel(p, x) = Capacity
      BY <2>2, SweptOK DEF LocalLevel
    <3> QED
      BY <3>1, <3>2
  <2> QED
    BY <2>1, <2>2
<1>11. ASSUME NEW r \in Procs, NEW x \in RateKeys, r # p PROVE LocalLevel(r, x)' = LocalLevel(r, x)
  BY <1>1, <1>6, <1>11 DEF LocalLevel
<1> HIDE DEF level
<1> QED
  BY <1>1, <1>3, <1>6, <1>7, <1>8, <1>9, <1>10, <1>11

(* A key through which no call went keeps its split, as long as its        *)
(* buckets get no more than their budgets do.                              *)
LEMMA SharedKept ==
    ASSUME RateTypeOK, Stamps, NEW k \in RateKeys, Shared(k),
           admitted'[k] = admitted[k], fellBack'[k] = fellBack[k],
           NEW more \in Nat, Budget' = Budget + more,
           Extra' \in Int, Level(k)' \in Int, Level(k)' + Extra <= Level(k) + more + Extra',
           \A p \in Procs : LocalLevel(p, k)' \in Int
                             /\ LocalLevel(p, k)' <= LocalLevel(p, k) + more
    PROVE  Shared(k)'
<1>1. PICK a \in Nat, f \in [Procs -> Nat] : Split(k, a, f)
  BY DEF Shared
<1>2. Budget \in Int
  BY RateTypes, Products DEF Budget
<1>3. (Cost * a + Level(k) <= Budget + Extra)'
  <2>1. Cost * a \in Nat /\ Level(k) \in Nat /\ Cost * a + Level(k) <= Budget + Extra
    BY <1>1, Products, LevelType DEF Split
  <2> QED
    BY <1>2, <2>1, ExtraType
<1>4. ASSUME NEW p \in Procs PROVE (Cost * f[p] + LocalLevel(p, k) <= Budget)'
  <2>1. /\ Cost * f[p] \in Nat /\ LocalLevel(p, k) \in Nat
        /\ Cost * f[p] + LocalLevel(p, k) <= Budget
    BY <1>1, Products, LocalLevelType DEF Split
  <2> QED
    BY <1>2, <2>1
<1>5. Calls(k, f)' = Calls(k, f)
  BY DEF Calls
<1>6. Split(k, a, f)'
  BY <1>1, <1>3, <1>4, <1>5 DEF Split
<1> QED
  BY <1>6 DEF Shared

(* A call that Redis let through counts for Redis. *)
LEMMA SharedL2 ==
    ASSUME RateTypeOK, Stamps, NEW k \in RateKeys, Shared(k),
           admitted'[k] = admitted[k] + 1, fellBack'[k] = fellBack[k],
           ticks' = ticks, ahead' = ahead, l1' = l1, Level(k)' = Level(k) - Cost
    PROVE  Shared(k)'
<1>1. PICK a \in Nat, f \in [Procs -> Nat] : Split(k, a, f)
  BY DEF Shared
<1>2. Budget' = Budget /\ Budget \in Int
  BY RateTypes, Products DEF Budget
<1>3. (Cost * (a + 1) + Level(k) <= Budget + Extra)'
  <2>1. Cost * a \in Nat /\ Level(k) \in Nat /\ Cost * a + Level(k) <= Budget + Extra
    BY <1>1, Products, LevelType DEF Split
  <2>2. Cost * (a + 1) = Cost * a + Cost /\ Cost \in Nat
    BY Products, RateTypes
  <2>3. Extra' = Extra /\ Extra \in Nat
    BY ExtraType DEF Extra
  <2> QED
    BY <1>2, <2>1, <2>2, <2>3
<1>4. \A p \in Procs : LocalLevel(p, k)' = LocalLevel(p, k)
  BY DEF LocalLevel
<1>5. Calls(k, f)' = Calls(k, f)
  BY DEF Calls
<1>6. Cardinality(Calls(k, f)) \in Nat
  BY <1>1, FS_CardinalityType DEF Split
<1>7. Split(k, a + 1, f)'
  <2>1. (admitted[k] = a + 1 + Cardinality(Calls(k, f)))'
    BY <1>1, <1>5, <1>6 DEF Split
  <2> QED
    BY <1>1, <1>2, <1>3, <1>4, <1>5, <2>1 DEF Split
<1>8. a + 1 \in Nat
  OBVIOUS
<1> QED
  BY <1>7, <1>8 DEF Shared

(* A call that a process let through counts for the process, which fell    *)
(* back if it had not before.                                              *)
LEMMA SharedL1 ==
    ASSUME RateTypeOK, Stamps, NEW k \in RateKeys, Shared(k),
           NEW p \in Procs, NEW ok \in BOOLEAN,
           admitted'[k] = IF ok THEN admitted[k] + 1 ELSE admitted[k],
           fellBack'[k] = fellBack[k] \cup {p},
           ticks' = ticks, ahead' = ahead, now' = now, l2' = l2,
           LocalLevel(p, k)' = IF ok THEN LocalLevel(p, k) - Cost ELSE LocalLevel(p, k),
           \A r \in Procs : r # p => LocalLevel(r, k)' = LocalLevel(r, k)
    PROVE  Shared(k)'
<1>1. PICK a \in Nat, f \in [Procs -> Nat] : Split(k, a, f)
  BY DEF Shared
<1>2. Budget' = Budget /\ Budget \in Int
  BY RateTypes, Products DEF Budget
<1>3. Level(k)' = Level(k) /\ Extra' = Extra
  BY DEF Level, Extra
<1>4. IsFiniteSet(fellBack'[k])
  BY FS_AddElement DEF Shared
<1>5. Cardinality(Calls(k, f)) \in Nat
  BY <1>1, FS_CardinalityType DEF Split
<1>6. CASE ok
  <2> DEFINE g == [f EXCEPT ![p] = @ + 1]
  <2>1. g \in [Procs -> Nat]
    OBVIOUS
  <2>2. ASSUME NEW r \in Procs PROVE (Cost * g[r] + LocalLevel(r, k) <= Budget)'
    <3>1. /\ Cost * f[r] \in Nat /\ LocalLevel(r, k) \in Nat
          /\ Cost * f[r] + LocalLevel(r, k) <= Budget
      BY <1>1, Products, LocalLevelType DEF Split
    <3>2. CASE r = p
      <4>1. Cost * (f[p] + 1) = Cost * f[p] + Cost /\ Cost \in Nat
        BY Products, RateTypes
      <4>2. g[r] = f[p] + 1
        BY <3>2
      <4> HIDE DEF g
      <4> QED
        BY <1>2, <1>6, <3>1, <3>2, <4>1, <4>2
    <3>3. CASE r # p
      BY <1>1, <1>2, <3>3 DEF Split
    <3> QED
      BY <3>2, <3>3
  <2>3. Calls(k, g)' = Calls(k, f) \cup {<<p, f[p]>>}
    <3>1. ASSUME NEW r \in Procs, NEW n \in Nat
          PROVE  /\ <<r, n>> \in Calls(k, g)' <=> r \in fellBack'[k] /\ n < g[r]
                 /\ <<r, n>> \in Calls(k, f) <=> r \in fellBack[k] /\ n < f[r]
      BY DEF Calls
    <3>2. Calls(k, g)' \subseteq Procs \X Nat /\ Calls(k, f) \subseteq Procs \X Nat
      BY RateTypes DEF Calls
    <3>3. ASSUME NEW r \in Procs, NEW n \in Nat
          PROVE  <<r, n>> \in Calls(k, g)' <=> <<r, n>> \in Calls(k, f) \/ (r = p /\ n = f[p])
      <4>1. CASE r = p
        <5>1. g[r] = f[p] + 1 /\ r \in fellBack'[k]
          BY <4>1
        <5>2. p \notin fellBack[k] => f[p] = 0
          BY <1>1 DEF Split
        <5> HIDE DEF g
        <5> QED
          BY <3>1, <4>1, <5>1, <5>2
      <4>2. CASE r # p
        <5>1. g[r] = f[r] /\ (r \in fellBack'[k] <=> r \in fellBack[k])
          BY <4>2
        <5> HIDE DEF g
        <5> QED
          BY <3>1, <4>2, <5>1
      <4> QED
        BY <4>1, <4>2
    <3> HIDE DEF g
    <3>4. ASSUME NEW c \in Procs \X Nat
          PROVE  c \in Calls(k, g)' <=> c \in Calls(k, f) \cup {<<p, f[p]>>}
      <4>1. PICK r \in Procs, n \in Nat : c = <<r, n>>
        OBVIOUS
      <4> QED
        BY <4>1, <3>3
    <3>5. <<p, f[p]>> \in Procs \X Nat
      OBVIOUS
    <3> QED
      BY <3>2, <3>4, <3>5
  <2>4. <<p, f[p]>> \notin Calls(k, f)
    BY DEF Calls
  <2>5. /\ IsFiniteSet(Calls(k, g)')
        /\ Cardinality(Calls(k, g)') = Cardinality(Calls(k, f)) + 1
    <3> DEFINE S == Calls(k, f)
               T == Calls(k, g)'
    <3>1. IsFiniteSet(S) /\ <<p, f[p]>> \notin S /\ T = S \cup {<<p, f[p]>>}
      BY <1>1, <2>3, <2>4 DEF Split
    <3> HIDE DEF S, T
    <3>2. IsFiniteSet(T) /\ Cardinality(T) = Cardinality(S) + 1
      BY <3>1, FS_AddElement
    <3> QED
      BY <3>2 DEF S, T
  <2>6. \A r \in Procs : r \notin fellBack'[k] => g[r] = 0
    BY <1>1 DEF Split
  <2> HIDE DEF g
  <2>7. (admitted[k] = a + Cardinality(Calls(k, g)))'
    BY <1>1, <1>5, <1>6, <2>5 DEF Split
  <2>8. Split(k, a, g)'
    BY <1>1, <1>2, <1>3, <2>2, <2>5, <2>6, <2>7 DEF Split
  <2> QED
    BY <1>4, <2>1, <2>8 DEF Shared
<1>7. CASE ~ok
  <2>1. Calls(k, f)' = Calls(k, f)
    BY <1>1 DEF Calls, Split
  <2>2. Split(k, a, f)'
    BY <1>1, <1>2, <1>3, <1>7, <2>1 DEF Split
  <2> QED
    BY <1>4, <2>2 DEF Shared
<1> QED
  BY <1>6, <1>7

LEMMA RateInitRInv == RateInit => RInv
<1> SUFFICES ASSUME RateInit PROVE RInv
  OBVIOUS
<1>1. RateTypeOK /\ Tables /\ Stamps
  BY RateAssumption DEF RateInit, RateTypeOK, BucketsOK, Tables, Stamps
<1>2. ASSUME NEW k \in RateKeys PROVE Shared(k)
  <2> DEFINE f == [p \in Procs |-> 0]
  <2>1. Calls(k, f) = {}
    BY <1>2 DEF Calls, RateInit
  <2>2. fellBack[k] = {} /\ admitted[k] = 0
    BY <1>2 DEF RateInit
  <2>3. IsFiniteSet({}) /\ Cardinality({}) = 0
    BY FS_EmptySet
  <2>4. Budget = Capacity /\ Extra = 0 /\ Cost * 0 = 0 /\ Capacity \in Nat
    BY Products, RateAssumption DEF Budget, Extra, RateInit
  <2>5. Level(k) = Capacity /\ \A p \in Procs : LocalLevel(p, k) = Capacity
    BY DEF Level, LocalLevel, RateInit
  <2>6. f \in [Procs -> Nat] /\ \A p \in Procs : f[p] = 0
    OBVIOUS
  <2> HIDE DEF f
  <2>7. Split(k, 0, f)
    BY <2>1, <2>2, <2>3, <2>4, <2>5, <2>6 DEF Split
  <2> QED
    BY <2>2, <2>3, <2>6, <2>7 DEF Shared
<1> QED
  BY <1>1, <1>2 DEF RInv

(* The limiter keeps its invariant, whatever calls it. *)
LEMMA RateStep ==
    ASSUME RInv, RateNext
    PROVE  RInv'
<1>0. RateTypeOK /\ Tables /\ Stamps /\ \A k \in RateKeys : Shared(k)
  BY DEF RInv
<1>1. Budget \in Int /\ Refill \in Nat
  BY <1>0, RateTypes, Products DEF Budget
<1>2. /\ \A k \in RateKeys : Level(k) \in Nat /\ \A p \in Procs : LocalLevel(p, k) \in Nat
      /\ Extra \in Nat
  BY <1>0, LevelType, LocalLevelType, ExtraType
<1>3. ASSUME NEW k \in RateKeys, NEW ok \in BOOLEAN, TokenBucket(k, ok),
             admitted' \in {admitted, IF ok THEN [admitted EXCEPT ![k] = @ + 1] ELSE admitted},
             UNCHANGED <<now, ticks, ahead, l1, fellBack>>
      PROVE  RInv'
  <2>1. /\ BucketsOK(l2', L2Type)
        /\ \A x \in DOMAIN l2' : l2'[x].exp = l2'[x].last + TTL
        /\ Level(k)' = IF ok THEN Level(k) - Cost ELSE Level(k)
        /\ \A x \in RateKeys : x # k => Level(x)' = Level(x)
    BY <1>0, <1>3, BucketStep
  <2>2. RateTypeOK' /\ Tables' /\ Stamps'
    BY <1>0, <1>3, <2>1 DEF RateTypeOK, Tables, Stamps
  <2>3. Budget' = Budget + 0 /\ Extra' = Extra
    BY <1>1, <1>3 DEF Budget, Extra
  <2>4. \A x \in RateKeys, p \in Procs : LocalLevel(p, x)' = LocalLevel(p, x)
    BY <1>3 DEF LocalLevel
  <2>5. ASSUME NEW x \in RateKeys, admitted'[x] = admitted[x] PROVE Shared(x)'
    <3>1. Level(x)' \in Int /\ Level(x)' <= Level(x) + 0
      BY <1>2, <1>3, <2>1, RateTypes, <1>0
    <3>2. \A p \in Procs : LocalLevel(p, x)' \in Int /\ LocalLevel(p, x)' <= LocalLevel(p, x) + 0
      BY <1>2, <2>4
    <3>3. Level(x)' + Extra <= Level(x) + 0 + Extra'
      BY <1>2, <2>3, <3>1
    <3> QED
      BY <1>0, <1>2, <1>3, <2>3, <2>5, <3>1, <3>2, <3>3, SharedKept
  <2>6. ASSUME NEW x \in RateKeys, admitted'[x] # admitted[x] PROVE Shared(x)'
    <3>1. x = k /\ ok /\ admitted'[k] = admitted[k] + 1
      BY <1>0, <1>3, <2>6 DEF RateTypeOK
    <3> QED
      BY <1>0, <1>3, <2>1, <3>1, SharedL2
  <2> QED
    BY <2>2, <2>5, <2>6 DEF RInv
<1>4. ASSUME NEW k \in RateKeys, NEW ok \in BOOLEAN, allowL2(k, ok) PROVE RInv'
  BY <1>3, <1>4 DEF allowL2, Admit
<1>5. ASSUME NEW k \in RateKeys, unansweredL2(k) PROVE RInv'
  <2>1. PICK ok \in BOOLEAN : TokenBucket(k, ok)
    BY <1>5 DEF unansweredL2
  <2> QED
    BY <1>3, <1>5, <2>1 DEF unansweredL2
<1>6. ASSUME NEW p \in Procs, NEW k \in RateKeys, NEW ok \in BOOLEAN, allowL1(p, k, ok)
      PROVE  RInv'
  <2>1. /\ Tables'
        /\ \A r \in Procs : BucketsOK(l1'[r], L1Type)
        /\ \A r \in Procs : \A x \in DOMAIN l1'[r] :
              l1'[r][x].last <= l1'[r][x].used /\ l1'[r][x].used <= ticks
        /\ LocalLevel(p, k)' = IF ok THEN LocalLevel(p, k) - Cost ELSE LocalLevel(p, k)
        /\ \A x \in RateKeys : x # k => LocalLevel(p, x)' = LocalLevel(p, x)
        /\ \A r \in Procs, x \in RateKeys : r # p => LocalLevel(r, x)' = LocalLevel(r, x)
    BY <1>0, <1>6, LocalStep
  <2>2. /\ admitted' = IF ok THEN [admitted EXCEPT ![k] = @ + 1] ELSE admitted
        /\ fellBack' = [fellBack EXCEPT ![k] = @ \cup {p}]
        /\ now' = now /\ ticks' = ticks /\ ahead' = ahead /\ l2' = l2
    BY <1>6 DEF allowL1, Admit
  <2>3. RateTypeOK' /\ Stamps'
    BY <1>0, <2>1, <2>2 DEF RateTypeOK, Stamps
  <2>4. Shared(k)'
    <3>1. /\ admitted'[k] = IF ok THEN admitted[k] + 1 ELSE admitted[k]
          /\ fellBack'[k] = fellBack[k] \cup {p}
      BY <1>0, <2>2 DEF RateTypeOK
    <3>2. \A r \in Procs : r # p => LocalLevel(r, k)' = LocalLevel(r, k)
      BY <2>1
    <3> QED
      BY <1>0, <2>1, <2>2, <3>1, <3>2, SharedL1
  <2>5. ASSUME NEW x \in RateKeys, x # k PROVE Shared(x)'
    <3>1. admitted'[x] = admitted[x] /\ fellBack'[x] = fellBack[x]
      BY <1>0, <2>2, <2>5 DEF RateTypeOK
    <3>2. Level(x)' = Level(x) /\ Budget' = Budget + 0 /\ Extra' = Extra
      BY <1>1, <2>2 DEF Level, Budget, Extra
    <3>3. \A r \in Procs : LocalLevel(r, x)' = LocalLevel(r, x)
      BY <2>1, <2>5
    <3>4. /\ Extra' \in Int /\ Level(x)' \in Int
          /\ Level(x)' + Extra <= Level(x) + 0 + Extra'
      BY <1>2, <3>2
    <3>5. \A r \in Procs : LocalLevel(r, x)' \in Int /\ LocalLevel(r, x)' <= LocalLevel(r, x) + 0
      BY <1>2, <3>3
    <3> QED
      BY <1>0, <3>1, <3>2, <3>4, <3>5, SharedKept
  <2> QED
    BY <2>1, <2>3, <2>4, <2>5 DEF RInv
<1>7. CASE Tick
  <2>1. /\ now' = now + 1 /\ ticks' = ticks + 1 /\ ticks < MaxTicks
        /\ UNCHANGED <<ahead, l2, l1, admitted, fellBack>>
    BY <1>7 DEF Tick
  <2>2. RateTypeOK' /\ Tables' /\ Stamps'
    <3>1. now' \in Int /\ ticks' \in 0..MaxTicks /\ ticks <= ticks' /\ ticks \in Nat
      BY <1>0, <2>1, RateTypes, RateAssumption
    <3>2. RateTypeOK' /\ Tables'
      BY <1>0, <2>1, <3>1 DEF RateTypeOK, Tables
    <3>3. ASSUME NEW p \in Procs, NEW k \in DOMAIN l1[p]
          PROVE  l1[p][k].last <= l1[p][k].used /\ l1[p][k].used <= ticks'
      BY <1>0, <3>1, RateTypes DEF Stamps
    <3> QED
      BY <1>0, <2>1, <3>2, <3>3 DEF Stamps
  <2>3. Budget' = Budget + Refill
    <3>1. Refill * (ticks + 1) = Refill * ticks + Refill /\ Refill * ticks \in Nat
      BY <1>0, RateTypes, Products
    <3> QED
      BY <1>0, <2>1, <3>1, RateTypes DEF Budget
  <2>4. ASSUME NEW x \in RateKeys PROVE Shared(x)'
    <3>1. /\ Extra' \in Int /\ Level(x)' \in Int
          /\ Level(x)' + Extra <= Level(x) + Refill + Extra'
      <4>1. Level(x)' \in Int /\ Level(x)' <= Level(x) + Refill
        BY <1>0, <2>1, TickLevel
      <4>2. Extra' = Extra
        BY <2>1 DEF Extra
      <4> QED
        BY <1>1, <1>2, <4>1, <4>2
    <3>2. \A r \in Procs : LocalLevel(r, x)' \in Int
                           /\ LocalLevel(r, x)' <= LocalLevel(r, x) + Refill
      BY <1>0, <1>7, TickLocalLevel
    <3> QED
      BY <1>0, <1>1, <2>1, <2>3, <3>1, <3>2, SharedKept
  <2> QED
    BY <2>2, <2>4 DEF RInv
<1>8. CASE ClockBack
  <2>1. now' = now - 1 /\ UNCHANGED <<ticks, ahead, l1, admitted, fellBack>>
    BY <1>8 DEF ClockBack
  <2>2. DOMAIN l2' \subseteq DOMAIN l2 /\ \A x \in DOMAIN l2' : l2'[x] = l2[x]
    BY <1>8 DEF ClockBack, Restrict
  <2>3. RateTypeOK' /\ Tables' /\ Stamps'
    <3>1. now' \in Int
      BY <1>0, <2>1, RateTypes
    <3>2. BucketsOK(l2', L2Type)
      BY <1>0, <2>2 DEF RateTypeOK, BucketsOK
    <3> QED
      BY <1>0, <2>1, <2>2, <3>1, <3>2 DEF RateTypeOK, Tables, Stamps
  <2>4. Budget' = Budget + 0 /\ Extra' = Extra
    BY <1>1, <2>1 DEF Budget, Extra
  <2>5. ASSUME NEW x \in RateKeys PROVE Shared(x)'
    <3>1. /\ Extra' \in Int /\ Level(x)' \in Int
          /\ Level(x)' + Extra <= Level(x) + 0 + Extra'
      <4>1. Level(x)' \in Int /\ Level(x)' <= Level(x)
        BY <1>0, <1>8, BackLevel
      <4> QED
        BY <1>2, <2>4, <4>1
    <3>2. \A r \in Procs : LocalLevel(r, x)' = LocalLevel(r, x)
      BY <2>1 DEF LocalLevel
    <3>3. \A r \in Procs : LocalLevel(r, x)' \in Int /\ LocalLevel(r, x)' <= LocalLevel(r, x) + 0
      BY <1>2, <3>2
    <3> QED
      BY <1>0, <2>1, <2>4, <3>1, <3>3, SharedKept
  <2> QED
    BY <2>3, <2>5 DEF RInv
<1>9. CASE ClockForward
  <2>1. /\ now' = now + 1 /\ ahead' = ahead + 1 /\ ahead < MaxAhead
        /\ UNCHANGED <<ticks, l2, l1, admitted, fellBack>>
    BY <1>9 DEF ClockForward
  <2>2. RateTypeOK' /\ Tables' /\ Stamps'
    <3>1. now' \in Int /\ ahead' \in 0..MaxAhead
      BY <1>0, <2>1, RateTypes, RateAssumption
    <3> QED
      BY <1>0, <2>1, <3>1 DEF RateTypeOK, Tables, Stamps
  <2>3. Budget' = Budget + 0 /\ Extra' = Extra + Refill
    <3>1. Refill * (ahead + 1) = Refill * ahead + Refill
      BY <1>0, RateTypes, Products
    <3> QED
      BY <1>1, <2>1, <3>1 DEF Budget, Extra
  <2>4. ASSUME NEW x \in RateKeys PROVE Shared(x)'
    <3>1. /\ Extra' \in Int /\ Level(x)' \in Int
          /\ Level(x)' + Extra <= Level(x) + 0 + Extra'
      <4>1. Level(x)' \in Int /\ Level(x)' <= Level(x) + Refill
        BY <1>0, <2>1, TickLevel
      <4> QED
        BY <1>1, <1>2, <2>3, <4>1
    <3>2. \A r \in Procs : LocalLevel(r, x)' = LocalLevel(r, x)
      BY <2>1 DEF LocalLevel
    <3>3. \A r \in Procs : LocalLevel(r, x)' \in Int /\ LocalLevel(r, x)' <= LocalLevel(r, x) + 0
      BY <1>2, <3>2
    <3> QED
      BY <1>0, <2>1, <2>3, <3>1, <3>3, SharedKept
  <2> QED
    BY <2>2, <2>4 DEF RInv
<1> QED
  BY <1>4, <1>5, <1>6, <1>7, <1>8, <1>9 DEF RateNext

(* How many calls a budget is worth. *)
LEMMA Worth ==
    ASSUME NEW b \in Nat
    PROVE  \E m \in Nat : Cost * m <= b /\ \A x \in Nat : Cost * x <= b => x <= m
<1>0. Cost \in Nat /\ Cost > 0
  BY RateAssumption
<1> DEFINE m == b \div Cost
<1>1. m \in Nat /\ Cost * m <= b /\ b < Cost * (m + 1)
  BY <1>0, Z3
<1>2. ASSUME NEW x \in Nat, Cost * x <= b PROVE x <= m
  <2>1. m + 1 \in Nat
    BY <1>1
  <2>2. m + 1 <= x => Cost * (m + 1) <= Cost * x
    BY <2>1, Products
  <2> HIDE DEF m
  <2>3. Cost * x \in Nat /\ Cost * (m + 1) \in Nat
    BY <2>1, Products
  <2> QED
    BY <1>1, <1>2, <2>2, <2>3
<1> HIDE DEF m
<1> QED
  BY <1>1, <1>2

LEMMA RateBoundHolds == RInv => RateBound
<1> SUFFICES ASSUME RInv, NEW k \in RateKeys
             PROVE  Cost * admitted[k] <= (1 + Cardinality(fellBack[k])) * Budget + Extra
  BY DEF RateBound, Budget, Extra
<1>0. RateTypeOK /\ Stamps /\ Shared(k)
  BY DEF RInv
<1>1. PICK a \in Nat, f \in [Procs -> Nat] : Split(k, a, f)
  BY <1>0 DEF Shared
<1>2. Budget \in Nat
  <2>1. ticks \in Nat /\ Capacity \in Nat
    BY <1>0, RateTypes
  <2>2. Refill * ticks \in Nat
    BY <2>1, Products
  <2> QED
    BY <2>1, <2>2 DEF Budget
<1>3. PICK m \in Nat : Cost * m <= Budget /\ \A x \in Nat : Cost * x <= Budget => x <= m
  BY <1>2, Worth
<1>4. Cost * a <= Budget + Extra /\ Cost * a \in Nat /\ Extra \in Nat
  <2>1. /\ Cost * a \in Nat /\ Level(k) \in Nat /\ Extra \in Nat
        /\ Cost * a + Level(k) <= Budget + Extra
    BY <1>0, <1>1, Products, LevelType, ExtraType DEF Split
  <2> QED
    BY <1>2, <2>1
<1>5. ASSUME NEW p \in Procs PROVE f[p] <= m
  <2>1. /\ Cost * f[p] \in Nat /\ LocalLevel(p, k) \in Nat
        /\ Cost * f[p] + LocalLevel(p, k) <= Budget
    BY <1>0, <1>1, Products, LocalLevelType DEF Split
  <2>2. Cost * f[p] <= Budget
    BY <1>2, <2>1
  <2> QED
    BY <1>3, <2>2
<1> DEFINE n == Cardinality(fellBack[k])
           c == Cardinality(Calls(k, f))
<1>6. n \in Nat /\ c \in Nat
  BY <1>0, <1>1, FS_CardinalityType DEF Shared, Split
<1>7. c <= n * m
  <2> DEFINE I == 0..(m - 1)
             S == fellBack[k]
             T == Calls(k, f)
  <2>1. IsFiniteSet(I) /\ Cardinality(I) = m
    BY FS_Interval
  <2>2. IsFiniteSet(S)
    BY <1>0 DEF Shared
  <2>3. T \subseteq S \X I
    <3>1. ASSUME NEW x \in T PROVE x \in S \X I
      <4>1. x \in fellBack[k] \X Nat /\ x[2] < f[x[1]]
        BY DEF Calls
      <4>2. PICK p \in fellBack[k], i \in Nat : x = <<p, i>>
        BY <4>1
      <4>3. p \in Procs /\ i < f[p]
        BY <4>1, <4>2, <1>0, RateTypes
      <4>4. f[p] \in Nat /\ f[p] <= m
        BY <4>3, <1>5
      <4> QED
        BY <4>2, <4>3, <4>4
    <3> QED
      BY <3>1
  <2> HIDE DEF I, S, T
  <2>4. IsFiniteSet(S \X I) /\ Cardinality(S \X I) = Cardinality(S) * m
    BY <2>1, <2>2, FS_Product
  <2>5. Cardinality(T) <= Cardinality(S \X I)
    BY <2>3, <2>4, FS_Subset
  <2> QED
    BY <2>4, <2>5 DEF S, T
<1>8. admitted[k] = a + c
  BY <1>1 DEF Split
<1> HIDE DEF n, c
<1>9. Cost * c <= n * (Cost * m) /\ Cost * c \in Nat
  <2>1. n * m \in Nat /\ Cost * (n * m) = n * (Cost * m)
    BY <1>6, RateAssumption, Z3
  <2>2. Cost * c <= Cost * (n * m) /\ Cost * c \in Nat
    BY <1>6, <1>7, <2>1, Products
  <2> QED
    BY <2>1, <2>2
<1>10. n * (Cost * m) <= n * Budget /\ n * (Cost * m) \in Nat /\ n * Budget \in Nat
  <2> DEFINE x == Cost * m
             z == Budget - x
  <2>1. x \in Nat /\ z \in Nat /\ Budget = x + z
    BY <1>2, <1>3, Products
  <2> HIDE DEF x, z
  <2>2. n * (x + z) = n * x + n * z /\ n * z \in Nat /\ n * x \in Nat
    BY <1>6, <2>1, Z3
  <2>3. n * x <= n * Budget /\ n * x \in Nat /\ n * Budget \in Nat
    BY <2>1, <2>2
  <2> QED
    BY <2>3 DEF x
<1>11. Cost * (a + c) = Cost * a + Cost * c /\ (1 + n) * Budget = Budget + n * Budget
  BY <1>2, <1>6, RateAssumption, Z3
<1> DEFINE t == Cost * a
           u == Cost * c
           v == n * (Cost * m)
           w == n * Budget
<1>12. /\ t \in Nat /\ u \in Nat /\ v \in Nat /\ w \in Nat
       /\ t <= Budget + Extra /\ u <= v /\ v <= w
  BY <1>4, <1>9, <1>10
<1> HIDE DEF t, u, v, w
<1>13. t + u <= Budget + w + Extra
  BY <1>2, <1>4, <1>12
<1> QED
  BY <1>8, <1>11, <1>13 DEF n, t, u, w

-----------------------------------------------------------------------------
(***************************************************************************)
(* What the handlers do to their requests                                  *)
(***************************************************************************)

(* The request r of a handler goes on as q.                                *)
StepOK(r, q) == q \in RequestType /\ Shape(q) /\ Moves(r, q) /\ GoesOn(req[r], q)

(* The places between the first part of Acquire and the last of Release.   *)
Slotted == {"count", "query", "free", "uncount"}

LEMMA ReqTypes ==
    ASSUME TInv, NEW r \in Requests
    PROVE  /\ req[r] \in RequestType
           /\ Shape(req[r])
           /\ req[r].pc \in Places /\ req[r].kind \in Kinds /\ req[r].proc \in Procs
           /\ req[r].arg \in Names \cup Requests \cup {NoArg} /\ req[r].secret \in Passwords
           /\ req[r].user \in UserIds \cup {0}
           /\ req[r].answer \in {"", "ok", "conflict", "refused"}
<1>1. req[r] \in RequestType /\ Shape(req[r])
  BY DEF TInv, TypeOK
<1> QED
  BY <1>1 DEF RequestType

(* A move that is well typed and in shape keeps the requests so. *)
LEMMA MoveKeeps ==
    ASSUME TInv, NEW r \in Requests, NEW q \in RequestType, Shape(q), Moves(r, q)
    PROVE  /\ req' \in [Requests -> RequestType]
           /\ \A s \in Requests : Shape(req'[s])
           /\ req'[r] = q
           /\ \A s \in Requests : s # r => req'[s] = req[s]
<1>1. req \in [Requests -> RequestType] /\ \A s \in Requests : Shape(req[s])
  BY DEF TInv, TypeOK
<1>2. req' = [req EXCEPT ![r] = q]
  BY DEF Moves
<1>3. req'[r] = q /\ \A s \in Requests : s # r => req'[s] = req[s]
  BY <1>1, <1>2
<1>4. req' \in [Requests -> RequestType]
  BY <1>1, <1>2
<1> QED
  BY <1>1, <1>3, <1>4

LEMMA RefuseDoes ==
    ASSUME TInv, NEW r \in Requests, Refuse(r), req[r].pc \notin {"none", "open", "done"}
    PROVE  StepOK(r, Refused(req[r].kind))
<1>1. Moves(r, Refused(req[r].kind))
  BY MovesOf DEF TInv
<1>2. req[r].kind \in Kinds \ {"none"}
  BY ReqTypes DEF Shape
<1> QED
  BY <1>1, <1>2, RefusedOK DEF StepOK, GoesOn

LEMMA GotoDoes ==
    ASSUME TInv, NEW r \in Requests, NEW x \in Places \ {"none"}, Goto(r, x),
           req[r].pc \notin {"none", "open", "done"}
    PROVE  \E q \in RequestType :
              /\ Moves(r, q) /\ GoesOn(req[r], q)
              /\ q.pc = x /\ q.kind = req[r].kind /\ q.proc = req[r].proc
              /\ q.arg = req[r].arg /\ q.user = req[r].user /\ q.answer = req[r].answer
<1> DEFINE q == [req[r] EXCEPT !.pc = x]
<1>1. /\ q \in RequestType /\ q.pc = x /\ q.kind = req[r].kind /\ q.proc = req[r].proc
      /\ q.arg = req[r].arg /\ q.secret = req[r].secret /\ q.user = req[r].user
      /\ q.answer = req[r].answer
  BY ZenonT(40), ReqTypes, SetPc
<1>2. Moves(r, q)
  BY MovesOf DEF TInv
<1> HIDE DEF q
<1>3. GoesOn(req[r], q)
  BY <1>1 DEF GoesOn
<1> QED
  BY <1>1, <1>2, <1>3

LEMMA AnswerDoes ==
    ASSUME TInv, NEW r \in Requests, NEW a \in {"ok", "conflict", "refused"}, Answer(r, a),
           req[r].pc \notin {"none", "open", "done"}
    PROVE  \E q : StepOK(r, q) /\ q.pc = "done" /\ q.answer = a
                  /\ q.kind = req[r].kind /\ q.proc = req[r].proc
                  /\ q.arg = req[r].arg /\ q.secret = req[r].secret /\ q.user = req[r].user
<1> DEFINE q == [req[r] EXCEPT !.pc = "done", !.answer = a]
<1>1. /\ q \in RequestType /\ q.pc = "done" /\ q.kind = req[r].kind /\ q.proc = req[r].proc
      /\ q.arg = req[r].arg /\ q.secret = req[r].secret /\ q.user = req[r].user
      /\ q.answer = a
  <2>1. req[r] \in RequestType /\ "done" \in Places /\ a \in {"", "ok", "conflict", "refused"}
    BY ReqTypes DEF Places
  <2> QED
    BY <2>1 DEF RequestType
<1>2. Moves(r, q)
  BY MovesOf DEF TInv
<1>3. q.kind # "none"
  BY <1>1, ReqTypes DEF Shape
<1> HIDE DEF q
<1>4. Shape(q)
  BY <1>1, <1>3 DEF Shape
<1> QED
  BY <1>1, <1>2, <1>4 DEF StepOK, GoesOn

(* The limiter's keys, and where it lets handlers go on. *)
LEMMA KeyOK ==
    ASSUME TInv, NEW r \in Requests,
           req[r].pc \in {"rate", "local", "rateUser", "localUser"}
    PROVE  RateKeyOf(req[r]) \in RateKeys
<1>1. req[r].kind \in {"login", "upgrade", "history"}
  BY ReqTypes DEF Shape
<1>2. CASE req[r].kind = "login"
  <2>1. <<"login", req[r].arg>> \in RateKeys
    BY <1>2, ReqTypes DEF Shape
  <2> QED
    BY <1>2, <2>1 DEF RateKeyOf
<1>3. CASE req[r].kind \in {"upgrade", "history"}
  <2>1. req[r].user \in UserIds
    BY <1>3, ReqTypes DEF Shape
  <2>2. <<"history", req[r].user>> \in RateKeys /\ <<"user", req[r].user>> \in RateKeys
    BY <2>1, RateKeysAssumption
  <2> QED
    BY <1>3, <2>2, RateKeysAssumption DEF RateKeyOf
<1> QED
  BY <1>1, <1>2, <1>3

LEMMA DecideDoes ==
    ASSUME TInv, NEW r \in Requests, NEW ok \in BOOLEAN, Decide(r, ok),
           req[r].pc \in {"rate", "local", "rateUser", "localUser"}
    PROVE  \E q : StepOK(r, q) /\ q.pc \notin Slotted /\ q.answer \in {"", "refused"}
<1>1. req[r].kind \in {"login", "upgrade", "history"} /\ req[r].answer = ""
  BY ReqTypes DEF Shape
<1>2. CASE ok
  <2> DEFINE x == Admitted(req[r])
  <2>1. Goto(r, x)
    BY <1>2 DEF Decide
  <2>2. x \in {"find", "acquire", "rateUser", "upgrade"}
    BY <1>1 DEF Admitted
  <2>3. /\ x = "find" => req[r].kind = "login"
        /\ x = "acquire" => req[r].kind = "history"
        /\ x = "rateUser" => req[r].kind = "upgrade" /\ req[r].user \in UserIds
        /\ x = "upgrade" => req[r].kind = "upgrade"
    BY <1>1, ReqTypes DEF Admitted, Shape
  <2> HIDE DEF x
  <2>4. x \in Places \ {"none"}
    BY <2>2 DEF Places
  <2>5. PICK q \in RequestType :
           /\ Moves(r, q) /\ GoesOn(req[r], q)
           /\ q.pc = x /\ q.kind = req[r].kind /\ q.user = req[r].user /\ q.answer = req[r].answer
    BY <2>1, <2>4, GotoDoes
  <2>6. Shape(q)
    BY <1>1, <2>2, <2>3, <2>5 DEF Shape
  <2> QED
    BY <1>1, <2>2, <2>5, <2>6 DEF Slotted, StepOK
<1>3. CASE ~ok /\ req[r].kind = "upgrade"
  <2>1. Answer(r, "refused")
    BY <1>3 DEF Decide
  <2>2. PICK q : StepOK(r, q) /\ q.pc = "done" /\ q.answer = "refused"
    BY <2>1, AnswerDoes
  <2> QED
    BY <2>2 DEF Slotted
<1>4. CASE ~ok /\ req[r].kind # "upgrade"
  <2>1. Refuse(r)
    BY <1>4 DEF Decide
  <2>2. StepOK(r, Refused(req[r].kind))
    BY <2>1, RefuseDoes
  <2>3. Refused(req[r].kind).pc = "done" /\ Refused(req[r].kind).answer = "refused"
    BY <1>1, RefusedOK DEF Kinds
  <2> QED
    BY <2>2, <2>3 DEF Slotted
<1> QED
  BY <1>2, <1>3, <1>4

-----------------------------------------------------------------------------
(* Requests that arrive *)

(* The request that made the ticket t was told so.                         *)
Granted(t) == req[t].kind = "ticket" /\ req[t].answer = "ok"

(* r arrives as q, with a ticket that its client was given if it has one.  *)
Arrives(r, q) ==
    /\ req[r].pc = "none"
    /\ q \in RequestType /\ Shape(q) /\ Moves(r, q)
    /\ q.pc \notin Slotted /\ q.answer \in {"", "refused"}
    /\ q.kind = "upgrade" =>
          /\ q.user = 0
          /\ q.arg # NoArg => q.arg \in Requests /\ Granted(q.arg)
    /\ UNCHANGED <<rateVars, bulkheadVars, tickets, accountVars, tokens, server, faults>>

LEMMA ArriveDoes ==
    ASSUME TInv, NEW r \in Requests, NEW p \in Procs, NEW q \in RequestType, Shape(q),
           q.pc \notin Slotted \cup {"none"}, q.answer \in {"", "refused"},
           q.kind = "upgrade" =>
              /\ q.user = 0
              /\ q.arg # NoArg => q.arg \in Requests /\ Granted(q.arg),
           Arrive(r, p, q)
    PROVE  \E e : Arrives(r, e)
<1> DEFINE e == IF q.pc = "done" THEN q ELSE [q EXCEPT !.proc = p]
<1>1. /\ e \in RequestType /\ e.pc = q.pc /\ e.kind = q.kind /\ e.arg = q.arg
      /\ e.user = q.user /\ e.answer = q.answer
  BY DEF RequestType
<1>2. Moves(r, e) /\ req[r].pc = "none"
  BY DEF Arrive, Moves
<1>3. UNCHANGED <<rateVars, bulkheadVars, tickets, accountVars, tokens, server, faults>>
  BY DEF Arrive
<1> HIDE DEF e
<1>4. Shape(e)
  BY <1>1 DEF Shape
<1> QED
  BY <1>1, <1>2, <1>3, <1>4 DEF Arrives

LEMMA RegisterDoes ==
    ASSUME TInv, NEW r \in Requests, NEW p \in Procs, NEW c \in Registrations,
           Register(r, p, c[1], c[2])
    PROVE  \E e : Arrives(r, e)
<1>1. c[1] \in Names /\ c[2] \in Passwords
  BY EdgeAssumption
<1>2. CASE Normalise[c[1]] \in ValidNames /\ c[2] \in ValidPasswords
  <2> DEFINE q == [NoRequest EXCEPT !.pc = "id", !.kind = "register", !.arg = c[1],
                                    !.secret = c[2]]
  <2>1. /\ q \in RequestType /\ q.pc = "id" /\ q.kind = "register" /\ q.arg = c[1]
        /\ q.answer = ""
    BY <1>1, NoRequestOK DEF RequestType, Kinds, Places
  <2>2. Arrive(r, p, q)
    BY <1>2 DEF Register
  <2> HIDE DEF q
  <2>3. Shape(q)
    BY <1>1, <1>2, <2>1 DEF Shape
  <2> QED
    BY <2>1, <2>2, <2>3, ArriveDoes DEF Slotted
<1>3. CASE ~ (Normalise[c[1]] \in ValidNames /\ c[2] \in ValidPasswords)
  <2> DEFINE q == Refused("register")
  <2>1. /\ q \in RequestType /\ q.pc = "done" /\ q.kind = "register" /\ q.answer = "refused"
        /\ Shape(q)
    BY RefusedOK DEF Kinds
  <2>2. Arrive(r, p, q)
    BY <1>3 DEF Register
  <2> HIDE DEF q
  <2> QED
    BY <2>1, <2>2, ArriveDoes DEF Slotted
<1> QED
  BY <1>2, <1>3

LEMMA LoginDoes ==
    ASSUME TInv, NEW r \in Requests, NEW p \in Procs, NEW c \in Logins,
           Login(r, p, c[1], c[2])
    PROVE  \E e : Arrives(r, e)
<1>1. c[1] \in Names /\ c[2] \in Passwords /\ <<"login", c[1]>> \in RateKeys
  BY EdgeAssumption, RateKeysAssumption
<1> DEFINE q == [NoRequest EXCEPT !.pc = "rate", !.kind = "login", !.arg = c[1],
                                  !.secret = c[2]]
<1>2. /\ q \in RequestType /\ q.pc = "rate" /\ q.kind = "login" /\ q.arg = c[1]
      /\ q.answer = ""
  BY <1>1, NoRequestOK DEF RequestType, Kinds, Places
<1>3. Arrive(r, p, q)
  BY DEF Login
<1> HIDE DEF q
<1>4. Shape(q)
  BY <1>1, <1>2 DEF Shape
<1> QED
  BY <1>2, <1>3, <1>4, ArriveDoes DEF Slotted

LEMMA AuthorizedDoes ==
    ASSUME TInv, NEW r \in Requests, NEW p \in Procs, NEW token \in tokens,
           NEW kind, NEW x, Authorized(r, p, token, kind, x),
           (kind = "ticket" /\ x = "create") \/ (kind = "history" /\ x = "rate")
    PROVE  \E e : Arrives(r, e)
<1>1. token.user \in UserIds
  BY DEF TInv, TypeOK
<1>2. CASE Expired(token, ticks)
  <2> DEFINE q == Refused(kind)
  <2>1. /\ q \in RequestType /\ q.pc = "done" /\ q.kind = kind /\ q.answer = "refused"
        /\ Shape(q)
    BY RefusedOK DEF Kinds
  <2>2. Arrive(r, p, q)
    BY <1>2 DEF Authorized
  <2> HIDE DEF q
  <2> QED
    BY <2>1, <2>2, ArriveDoes DEF Slotted
<1>3. CASE ~Expired(token, ticks)
  <2> DEFINE q == [NoRequest EXCEPT !.pc = x, !.kind = kind, !.user = token.user]
  <2>1. /\ q \in RequestType /\ q.pc = x /\ q.kind = kind /\ q.user = token.user
        /\ q.answer = ""
    BY <1>1, NoRequestOK DEF RequestType, Kinds, Places
  <2>2. Arrive(r, p, q)
    BY <1>3 DEF Authorized
  <2> HIDE DEF q
  <2>3. Shape(q)
    BY <1>1, <2>1 DEF Shape
  <2> QED
    BY <2>1, <2>2, <2>3, ArriveDoes DEF Slotted
<1> QED
  BY <1>2, <1>3

LEMMA GetWSDoes ==
    ASSUME TInv, NEW r \in Requests, NEW p \in Procs, NEW t \in Requests \cup {NoArg},
           GetWS(r, p, t)
    PROVE  \E e : Arrives(r, e)
<1> DEFINE q == [NoRequest EXCEPT !.pc = "consume", !.kind = "upgrade", !.arg = t]
<1>1. /\ q \in RequestType /\ q.pc = "consume" /\ q.kind = "upgrade" /\ q.arg = t
      /\ q.answer = "" /\ q.user = 0
  BY NoRequestOK DEF RequestType, Kinds, Places
<1>2. Arrive(r, p, q) /\ (t # NoArg => t \in Requests /\ Granted(t))
  BY DEF GetWS, Granted
<1> HIDE DEF q
<1>3. Shape(q)
  BY <1>1 DEF Shape
<1> QED
  BY <1>1, <1>2, <1>3, ArriveDoes DEF Slotted

-----------------------------------------------------------------------------
(* Handlers that go on *)

(* A step that touches neither slots nor tickets nor rows, and tells the   *)
(* client nothing it could rely on.                                        *)
QuietStep(r, q) ==
    /\ StepOK(r, q)
    /\ req[r].pc \notin Slotted \cup {"insert", "find", "create", "consume"}
    /\ q.pc \notin Slotted /\ q.answer \in {"", "refused"}
    /\ UNCHANGED <<bulkheadVars, tickets, users, tokens, server>>
    /\ lastUserId' \in 0..MaxUserIds /\ faults' \in 0..MaxFaults

LEMMA FaultsOK ==
    ASSUME TInv, Fail \/ NoFault
    PROVE  faults' \in 0..MaxFaults
BY EdgeAssumption DEF TInv, TypeOK, Fail, NoFault

LEMMA RegisterIdDoes ==
    ASSUME TInv, NEW r \in Requests, RegisterId(r)
    PROVE  \E q : QuietStep(r, q)
<1>0. /\ req[r].pc = "id" /\ req[r].kind = "register" /\ req[r].answer = ""
      /\ req[r].arg \in Names /\ Normalise[req[r].arg] \in ValidNames
      /\ UNCHANGED <<bulkheadVars, tickets, tokens, server>>
  BY ReqTypes DEF RegisterId, Shape
<1>1. faults' \in 0..MaxFaults
  BY FaultsOK DEF RegisterId
<1>2. ASSUME NEW id \in UserIds, NEW repeats \in BOOLEAN, NextUserId(id, repeats),
             req' = [req EXCEPT ![r] = [@ EXCEPT !.pc = "insert", !.user = id]]
      PROVE  \E q : QuietStep(r, q)
  <2> DEFINE q == [req[r] EXCEPT !.pc = "insert", !.user = id]
  <2>1. /\ q \in RequestType /\ q.pc = "insert" /\ q.kind = req[r].kind /\ q.proc = req[r].proc
        /\ q.arg = req[r].arg /\ q.secret = req[r].secret /\ q.user = id
        /\ q.answer = req[r].answer
    BY ReqTypes DEF RequestType, Places
  <2>2. Moves(r, q)
    BY <1>2 DEF Moves, TInv, TypeOK
  <2>3. users' = users /\ lastUserId' \in 0..MaxUserIds
    BY <1>2 DEF NextUserId, accountVars, UserIds, TInv, TypeOK, AccountsTypeOK
  <2> HIDE DEF q
  <2>4. StepOK(r, q)
    BY <1>0, <2>1, <2>2 DEF StepOK, Shape, GoesOn
  <2> QED
    BY <1>0, <1>1, <2>1, <2>3, <2>4 DEF QuietStep, Slotted
<1>3. ASSUME Refuse(r), UNCHANGED accountVars PROVE \E q : QuietStep(r, q)
  <2>1. StepOK(r, Refused(req[r].kind))
    BY <1>0, <1>3, RefuseDoes
  <2>2. Refused(req[r].kind).pc = "done" /\ Refused(req[r].kind).answer = "refused"
    BY <1>0, RefusedOK DEF Kinds
  <2>3. users' = users /\ lastUserId' \in 0..MaxUserIds
    BY <1>3 DEF accountVars, TInv, TypeOK, AccountsTypeOK
  <2> QED
    BY <1>0, <1>1, <2>1, <2>2, <2>3 DEF QuietStep, Slotted
<1> QED
  BY <1>2, <1>3 DEF RegisterId

LEMMA AllowDoes ==
    ASSUME TInv, NEW r \in Requests, AllowL2(r) \/ AllowL1(r)
    PROVE  \E q : QuietStep(r, q)
<1>1. req[r].pc \in {"rate", "local", "rateUser", "localUser"}
  BY DEF AllowL2, AllowL1
<1>2. PICK ok \in BOOLEAN : Decide(r, ok)
  BY DEF AllowL2, AllowL1
<1>3. PICK q : StepOK(r, q) /\ q.pc \notin Slotted /\ q.answer \in {"", "refused"}
  BY <1>1, <1>2, DecideDoes
<1>4. UNCHANGED <<bulkheadVars, tickets, users, lastUserId, tokens, server, faults>>
  BY DEF AllowL2, AllowL1, accountVars
<1>5. lastUserId \in 0..MaxUserIds /\ faults \in 0..MaxFaults
  BY DEF TInv, TypeOK, AccountsTypeOK
<1> QED
  BY <1>1, <1>3, <1>4, <1>5 DEF QuietStep, Slotted

LEMMA FallbackDoes ==
    ASSUME TInv, NEW r \in Requests, Fallback(r)
    PROVE  \E q : QuietStep(r, q)
<1>1. /\ req[r].pc \in {"rate", "rateUser"} /\ req[r].answer = ""
      /\ UNCHANGED <<bulkheadVars, tickets, users, lastUserId, tokens, server>>
  BY ReqTypes DEF Fallback, Shape, accountVars
<1>2. lastUserId' \in 0..MaxUserIds /\ faults' \in 0..MaxFaults
  BY <1>1, FaultsOK DEF Fallback, CallFails, TInv, TypeOK, AccountsTypeOK
<1> DEFINE x == IF req[r].pc = "rate" THEN "local" ELSE "localUser"
<1>3. Goto(r, x) /\ x \in Places \ {"none"}
  BY DEF Fallback, Places
<1>4. /\ x \in {"local", "localUser"}
      /\ x = "local" <=> req[r].pc = "rate"
  BY <1>1
<1> HIDE DEF x
<1>5. PICK q \in RequestType :
         /\ Moves(r, q) /\ GoesOn(req[r], q)
         /\ q.pc = x /\ q.kind = req[r].kind
         /\ q.arg = req[r].arg /\ q.user = req[r].user /\ q.answer = req[r].answer
  BY <1>1, <1>3, GotoDoes
<1>6. Shape(q)
  BY <1>1, <1>4, <1>5, ReqTypes DEF Shape
<1> QED
  BY <1>1, <1>2, <1>4, <1>5, <1>6 DEF QuietStep, Slotted, StepOK

LEMMA UpgradeDoes ==
    ASSUME TInv, NEW r \in Requests, Upgrade(r)
    PROVE  \E q : QuietStep(r, q)
<1>1. /\ req[r].pc = "upgrade" /\ req[r].kind = "upgrade" /\ req[r].answer = ""
      /\ UNCHANGED <<bulkheadVars, tickets, users, lastUserId, tokens, server>>
  BY ReqTypes DEF Upgrade, Shape, accountVars
<1>2. lastUserId' \in 0..MaxUserIds /\ faults' \in 0..MaxFaults
  BY <1>1, FaultsOK DEF Upgrade, TInv, TypeOK, AccountsTypeOK
<1>3. CASE Goto(r, "open")
  <2>1. "open" \in Places \ {"none"}
    BY DEF Places
  <2>2. PICK q \in RequestType :
           /\ Moves(r, q) /\ GoesOn(req[r], q)
           /\ q.pc = "open" /\ q.kind = req[r].kind /\ q.answer = req[r].answer
    BY ZenonT(40), <1>1, <1>3, <2>1, GotoDoes
  <2>3. Shape(q)
    BY <1>1, <2>2 DEF Shape
  <2> QED
    BY <1>1, <1>2, <2>2, <2>3 DEF QuietStep, Slotted, StepOK
<1>4. CASE Answer(r, "refused")
  <2>1. PICK q : StepOK(r, q) /\ q.pc = "done" /\ q.answer = "refused"
    BY ZenonT(40), <1>1, <1>4, AnswerDoes
  <2> QED
    BY <1>1, <1>2, <2>1 DEF QuietStep, Slotted
<1> QED
  BY <1>3, <1>4 DEF Upgrade

(* The row a registration or a login speaks of.                            *)
Row(q) == [id |-> q.user, name |-> Normalise[q.arg], hash |-> HashPassword(q.secret)]

(* What the client of a request was told is so.                            *)
Told(q, rows) ==
    /\ q.kind = "register" /\ q.answer = "ok" => Row(q) \in rows
    /\ q.kind = "register" /\ q.answer = "conflict" =>
          \E u \in rows : u.name = Normalise[q.arg] \/ u.id = q.user
    /\ q.kind = "login" /\ q.answer = "ok" => Row(q) \in rows

InsertStep(r, q) ==
    /\ StepOK(r, q) /\ Told(q, users')
    /\ req[r].pc = "insert" /\ q.pc = "done"
    /\ \/ users' = users
       \/ /\ users' = users \cup {Row(req[r])}
          /\ \A u \in users : u.name # Normalise[req[r].arg]
    /\ UNCHANGED <<bulkheadVars, tickets, tokens, server, lastUserId>>
    /\ faults' \in 0..MaxFaults

LEMMA RegisterInsertDoes ==
    ASSUME TInv, NEW r \in Requests, RegisterInsert(r)
    PROVE  \E q : InsertStep(r, q)
<1>0. /\ req[r].pc = "insert" /\ req[r].kind = "register"
      /\ UNCHANGED <<bulkheadVars, tickets, tokens, server>>
  BY ReqTypes DEF RegisterInsert, Shape
<1>1. PICK result \in {"ok", "conflict", "error"} :
         /\ CreateUser(req[r].user, Normalise[req[r].arg], req[r].secret, result)
         /\ IF result = "error" THEN Refuse(r) ELSE Answer(r, result)
         /\ IF result = "error" THEN Fail ELSE NoFault
  BY DEF RegisterInsert
<1>2. faults' \in 0..MaxFaults
  BY <1>1, FaultsOK
<1>3. /\ lastUserId' = lastUserId
      /\ \/ users' = users
         \/ /\ users' = users \cup {Row(req[r])}
            /\ \A u \in users : u.name # Normalise[req[r].arg]
      /\ result = "ok" => Row(req[r]) \in users'
      /\ result = "conflict" =>
            \E u \in users' : u.name = Normalise[req[r].arg] \/ u.id = req[r].user
  BY <1>1 DEF CreateUser, InsertUser, isDuplicateUser, accountVars, Row
<1>4. CASE result = "error"
  <2>1. StepOK(r, Refused(req[r].kind))
    BY <1>0, <1>1, <1>4, RefuseDoes
  <2>2. /\ Refused(req[r].kind).pc = "done" /\ Refused(req[r].kind).answer = "refused"
    BY <1>0, RefusedOK DEF Kinds
  <2>3. Told(Refused(req[r].kind), users')
    BY <2>2 DEF Told
  <2> QED
    BY <1>0, <1>2, <1>3, <2>1, <2>2, <2>3 DEF InsertStep
<1>5. CASE result # "error"
  <2>1. PICK q : /\ StepOK(r, q) /\ q.pc = "done" /\ q.answer = result
                 /\ q.kind = req[r].kind /\ q.arg = req[r].arg /\ q.secret = req[r].secret
                 /\ q.user = req[r].user
    BY <1>0, <1>1, <1>5, AnswerDoes
  <2>2. Row(q) = Row(req[r])
    BY <2>1 DEF Row
  <2>3. Told(q, users')
    BY <1>0, <1>3, <2>1, <2>2 DEF Told
  <2> QED
    BY <1>0, <1>2, <1>3, <2>1, <2>3 DEF InsertStep
<1> QED
  BY <1>4, <1>5

LoginStep(r, q) ==
    /\ StepOK(r, q) /\ Told(q, users)
    /\ req[r].pc = "find" /\ q.pc = "done"
    /\ tokens' \subseteq [user : UserIds, exp : Nat]
    /\ UNCHANGED <<bulkheadVars, tickets, users, lastUserId, server>>
    /\ faults' \in 0..MaxFaults

LEMMA LoginFindDoes ==
    ASSUME TInv, NEW r \in Requests, LoginFind(r)
    PROVE  \E q : LoginStep(r, q)
<1>0. /\ req[r].pc = "find" /\ req[r].kind = "login"
      /\ UNCHANGED <<bulkheadVars, tickets, users, lastUserId, server>>
      /\ tokens \subseteq [user : UserIds, exp : Nat]
  BY ReqTypes DEF LoginFind, Shape, accountVars, TInv, TypeOK
<1>1. faults' \in 0..MaxFaults
  BY FaultsOK DEF LoginFind
<1>2. ASSUME NEW u \in users, u.name = Normalise[req[r].arg],
             VerifyPassword(req[r].secret, u.hash),
             tokens' = tokens \cup {Issue(u.id, ticks)},
             req' = [req EXCEPT ![r] = [@ EXCEPT !.pc = "done", !.answer = "ok", !.user = u.id]]
      PROVE  \E q : LoginStep(r, q)
  <2> DEFINE q == [req[r] EXCEPT !.pc = "done", !.answer = "ok", !.user = u.id]
  <2>0. u \in UserType
    BY DEF TInv, TypeOK, AccountsTypeOK
  <2>1. u.id \in UserIds
    BY <2>0 DEF UserType
  <2>2. /\ q \in RequestType /\ q.pc = "done" /\ q.kind = req[r].kind /\ q.proc = req[r].proc
        /\ q.arg = req[r].arg /\ q.secret = req[r].secret /\ q.user = u.id
        /\ q.answer = "ok"
    BY <2>1, ReqTypes DEF RequestType, Places
  <2>3. Moves(r, q)
    BY <1>2 DEF Moves, TInv, TypeOK
  <2>4. tokens' \subseteq [user : UserIds, exp : Nat]
    <3>1. ticks + TokenTTL \in Nat
      BY AccountsAssumption, RateTypes DEF TInv, TypeOK
    <3>2. Issue(u.id, ticks) \in [user : UserIds, exp : Nat]
      BY <2>1, <3>1 DEF Issue
    <3> QED
      BY <1>0, <1>2, <3>2
  <2>5. u = [id |-> u.id, name |-> Normalise[req[r].arg], hash |-> HashPassword(req[r].secret)]
    <3>1. PICK w \in Passwords : u.hash = HashPassword(w)
      BY <2>0 DEF UserType
    <3>2. w = req[r].secret
      BY <1>2, <3>1 DEF VerifyPassword, HashPassword
    <3> QED
      BY <1>2, <2>0, <3>1, <3>2 DEF UserType
  <2> HIDE DEF q
  <2>6. StepOK(r, q)
    BY <1>0, <2>2, <2>3 DEF StepOK, Shape, GoesOn
  <2>7. Row(q) = u
    BY <2>2, <2>5 DEF Row
  <2>8. Told(q, users)
    BY <1>0, <2>2, <2>7 DEF Told
  <2> QED
    BY <1>0, <1>1, <2>2, <2>4, <2>6, <2>8 DEF LoginStep
<1>3. ASSUME Refuse(r), UNCHANGED tokens PROVE \E q : LoginStep(r, q)
  <2>1. StepOK(r, Refused(req[r].kind))
    BY <1>0, <1>3, RefuseDoes
  <2>2. /\ Refused(req[r].kind).pc = "done" /\ Refused(req[r].kind).answer = "refused"
    BY <1>0, RefusedOK DEF Kinds
  <2>3. Told(Refused(req[r].kind), users)
    BY <2>2 DEF Told
  <2> QED
    BY <1>0, <1>1, <1>3, <2>1, <2>2, <2>3 DEF LoginStep
<1>4. \/ \E u \in FindByUsername(Normalise[req[r].arg]) :
            /\ VerifyPassword(req[r].secret, u.hash)
            /\ tokens' = tokens \cup {Issue(u.id, ticks)}
            /\ req' = [req EXCEPT ![r] = [@ EXCEPT !.pc = "done", !.answer = "ok", !.user = u.id]]
      \/ Refuse(r) /\ UNCHANGED tokens
  BY DEF LoginFind
<1> QED
  BY <1>2, <1>3, <1>4 DEF FindByUsername

CreateStep(r, q) ==
    /\ StepOK(r, q)
    /\ req[r].pc = "create" /\ q.pc = "done" /\ q.kind = "ticket"
    /\ \/ SetTicket(r, req[r].user, now) /\ q.answer = "ok" /\ q.user = req[r].user
       \/ tickets' = tickets /\ q.answer = "refused"
    /\ UNCHANGED <<bulkheadVars, users, lastUserId, tokens, server>>
    /\ faults' \in 0..MaxFaults

LEMMA CreateTicketDoes ==
    ASSUME TInv, NEW r \in Requests, CreateTicket(r)
    PROVE  \E q : CreateStep(r, q)
<1>0. /\ req[r].pc = "create" /\ req[r].kind = "ticket"
      /\ UNCHANGED <<bulkheadVars, users, lastUserId, tokens, server>>
  BY ReqTypes DEF CreateTicket, Shape, accountVars
<1>1. faults' \in 0..MaxFaults
  BY FaultsOK DEF CreateTicket
<1>2. ASSUME SetTicket(r, req[r].user, now), Answer(r, "ok") PROVE \E q : CreateStep(r, q)
  <2>1. PICK q : /\ StepOK(r, q) /\ q.pc = "done" /\ q.answer = "ok"
                 /\ q.kind = req[r].kind /\ q.user = req[r].user
    BY <1>0, <1>2, AnswerDoes
  <2> QED
    BY <1>0, <1>1, <1>2, <2>1 DEF CreateStep
<1>3. ASSUME Refuse(r), UNCHANGED tickets PROVE \E q : CreateStep(r, q)
  <2>1. StepOK(r, Refused(req[r].kind))
    BY <1>0, <1>3, RefuseDoes
  <2>2. /\ Refused(req[r].kind).pc = "done" /\ Refused(req[r].kind).answer = "refused"
        /\ Refused(req[r].kind).kind = "ticket"
    BY <1>0, RefusedOK DEF Kinds
  <2> QED
    BY <1>0, <1>1, <1>3, <2>1, <2>2 DEF CreateStep
<1> QED
  BY <1>2, <1>3 DEF CreateTicket

ConsumeStep(r, q) ==
    /\ StepOK(r, q)
    /\ req[r].pc = "consume" /\ q.pc \in {"rate", "done"} /\ q.answer \in {"", "refused"}
    /\ \/ /\ req[r].arg \in Requests \ {NoArg} /\ TakeTicket(req[r].arg, now)
          /\ q.kind = "upgrade" /\ q.arg = req[r].arg /\ q.user = tickets[req[r].arg].user
       \/ tickets' = tickets /\ q = Refused("upgrade")
    /\ UNCHANGED <<bulkheadVars, users, lastUserId, tokens, server>>
    /\ faults' \in 0..MaxFaults

LEMMA ConsumeDoes ==
    ASSUME TInv, NEW r \in Requests, Consume(r)
    PROVE  \E q : ConsumeStep(r, q)
<1> DEFINE t == req[r].arg
<1>0. /\ req[r].pc = "consume" /\ req[r].kind = "upgrade" /\ req[r].answer = ""
      /\ t \in Requests \cup {NoArg}
      /\ UNCHANGED <<bulkheadVars, users, lastUserId, tokens, server>>
  BY ReqTypes DEF Consume, Shape, accountVars
<1>1. faults' \in 0..MaxFaults
  BY FaultsOK DEF Consume, CallFails
<1>2. ASSUME t # NoArg, TakeTicket(t, now),
             req' = [req EXCEPT ![r] = [@ EXCEPT !.pc = "rate", !.user = tickets[t].user]]
      PROVE  \E q : ConsumeStep(r, q)
  <2> DEFINE u == tickets[t].user
             q == [req[r] EXCEPT !.pc = "rate", !.user = u]
  <2>1. u \in UserIds
    BY <1>0, <1>2 DEF TakeTicket, Held, TInv, HeldByUser
  <2>2. Moves(r, q)
    BY <1>2 DEF Moves, TInv, TypeOK
  <2> HIDE DEF u, t
  <2>3. /\ q \in RequestType /\ q.pc = "rate" /\ q.kind = req[r].kind /\ q.proc = req[r].proc
        /\ q.arg = req[r].arg /\ q.secret = req[r].secret /\ q.user = u
        /\ q.answer = req[r].answer
    BY <2>1, ReqTypes DEF RequestType, Places
  <2> HIDE DEF q
  <2>4. StepOK(r, q)
    BY <1>0, <2>1, <2>2, <2>3 DEF StepOK, Shape, GoesOn
  <2> QED
    BY <1>0, <1>1, <1>2, <2>3, <2>4 DEF ConsumeStep, u, t
<1>3. ASSUME Refuse(r), UNCHANGED tickets PROVE \E q : ConsumeStep(r, q)
  <2>1. StepOK(r, Refused("upgrade"))
    BY <1>0, <1>3, RefuseDoes
  <2>2. Refused("upgrade").pc = "done" /\ Refused("upgrade").answer = "refused"
    BY RefusedOK DEF Kinds
  <2> QED
    BY <1>0, <1>1, <1>3, <2>1, <2>2 DEF ConsumeStep
<1> QED
  BY <1>2, <1>3 DEF Consume

LEMMA AnswerLostDoes ==
    ASSUME TInv, NEW r \in Requests, AnswerLost(r)
    PROVE  /\ UNCHANGED <<bulkheadVars, users, lastUserId, req, tokens, server>>
           /\ faults' \in 0..MaxFaults
           /\ \/ tickets' = tickets
              \/ req[r].pc = "create" /\ SetTicket(r, req[r].user, now)
              \/ \E t \in Requests : TakeTicket(t, now)
<1>1. /\ UNCHANGED <<bulkheadVars, users, lastUserId, req, tokens, server>>
      /\ faults' \in 0..MaxFaults
  BY FaultsOK DEF AnswerLost, accountVars
<1>2. req[r].pc = "consume" /\ req[r].arg # NoArg => req[r].arg \in Requests
  BY ReqTypes DEF Shape
<1> QED
  BY <1>1, <1>2 DEF AnswerLost

(* The steps of Acquire and Release that take and give, and the query.     *)
SlotStep(r, q) ==
    LET p == req[r].proc
    IN  /\ StepOK(r, q)
        /\ q.proc = p /\ q.kind = "history"
        /\ UNCHANGED <<tickets, users, lastUserId, tokens, server>>
        /\ faults' \in 0..MaxFaults
        /\ \/ req[r].pc \in {"acquire", "waiting"} /\ q.pc = "count" /\ TakeSlot(p)
           \/ req[r].pc = "count" /\ q.pc = "query" /\ AddActive(p, 1)
           \/ req[r].pc = "query" /\ q.pc = "free" /\ UNCHANGED bulkheadVars
           \/ /\ req[r].pc = "free" /\ FreeSlot(p)
              /\ q.pc = IF sem[p] > 0 THEN "uncount" ELSE "done"
           \/ req[r].pc = "uncount" /\ q.pc = "done" /\ AddActive(p, -1)

(* A history request goes on to x. *)
LEMMA HistoryGoto ==
    ASSUME TInv, NEW r \in Requests, NEW x \in {"waiting", "count", "query", "uncount", "done"},
           req[r].pc \in {"acquire", "waiting", "count", "free", "uncount"},
           req[r].pc \in {"free", "uncount"} => x \in {"uncount", "done"},
           req[r].pc \notin {"free", "uncount"} => x \in {"waiting", "count", "query"},
           Goto(r, x)
    PROVE  \E q : /\ StepOK(r, q) /\ q.pc = x /\ q.proc = req[r].proc /\ q.kind = "history"
                  /\ q.answer = req[r].answer
<1>1. x \in Places \ {"none"}
  BY DEF Places
<1>2. req[r].kind = "history" /\ (req[r].pc \notin {"free", "uncount"} => req[r].answer = "")
  BY ReqTypes DEF Shape
<1>3. PICK q \in RequestType :
         /\ Moves(r, q) /\ GoesOn(req[r], q)
         /\ q.pc = x /\ q.kind = req[r].kind /\ q.proc = req[r].proc /\ q.answer = req[r].answer
  BY <1>1, GotoDoes
<1>4. Shape(q)
  BY <1>2, <1>3 DEF Shape
<1> QED
  BY <1>2, <1>3, <1>4 DEF StepOK

LEMMA AcquireDoes ==
    ASSUME TInv, NEW r \in Requests, Acquire(r)
    PROVE  \E q : SlotStep(r, q) \/ QuietStep(r, q)
<1>0. UNCHANGED <<tickets, users, lastUserId, tokens, server, faults>>
  BY DEF Acquire, HistoryUnchanged, accountVars
<1>1. lastUserId' \in 0..MaxUserIds /\ faults' \in 0..MaxFaults
  BY <1>0 DEF TInv, TypeOK, AccountsTypeOK
<1>2. CASE req[r].pc \in {"acquire", "waiting"} /\ TakeSlot(req[r].proc) /\ Goto(r, "count")
  <2>1. PICK q : StepOK(r, q) /\ q.pc = "count" /\ q.proc = req[r].proc /\ q.kind = "history"
    BY <1>2, HistoryGoto
  <2>2. SlotStep(r, q)
    BY <1>0, <1>1, <1>2, <2>1 DEF SlotStep
  <2> QED
    BY <2>2
<1>3. CASE req[r].pc = "acquire" /\ NoSlot(req[r].proc) /\ Goto(r, "waiting")
  <2>1. PICK q : StepOK(r, q) /\ q.pc = "waiting" /\ q.answer = req[r].answer
    BY <1>3, HistoryGoto
  <2>2. req[r].answer = "" /\ UNCHANGED bulkheadVars
    BY <1>3, ReqTypes DEF Shape, NoSlot
  <2>3. QuietStep(r, q)
    BY <1>0, <1>1, <1>3, <2>1, <2>2 DEF QuietStep, Slotted
  <2> QED
    BY <2>3
<1>4. CASE req[r].pc = "waiting" /\ Rejected(req[r].proc) /\ Refuse(r)
  <2>1. StepOK(r, Refused(req[r].kind))
    BY <1>4, RefuseDoes
  <2>2. req[r].kind = "history" /\ UNCHANGED bulkheadVars
    BY <1>4, ReqTypes DEF Shape, Rejected
  <2>3. Refused(req[r].kind).pc = "done" /\ Refused(req[r].kind).answer = "refused"
    BY <2>2, RefusedOK DEF Kinds
  <2>4. QuietStep(r, Refused(req[r].kind))
    BY <1>0, <1>1, <1>4, <2>1, <2>2, <2>3 DEF QuietStep, Slotted
  <2> QED
    BY <2>4
<1>5. CASE req[r].pc = "count" /\ AddActive(req[r].proc, 1) /\ Goto(r, "query")
  <2>1. PICK q : StepOK(r, q) /\ q.pc = "query" /\ q.proc = req[r].proc /\ q.kind = "history"
    BY <1>5, HistoryGoto
  <2>2. SlotStep(r, q)
    BY <1>0, <1>1, <1>5, <2>1 DEF SlotStep
  <2> QED
    BY <2>2
<1> QED
  BY <1>2, <1>3, <1>4, <1>5 DEF Acquire

LEMMA QueryDoes ==
    ASSUME TInv, NEW r \in Requests, Query(r)
    PROVE  \E q : SlotStep(r, q)
<1>0. /\ req[r].pc = "query" /\ req[r].kind = "history"
      /\ UNCHANGED <<bulkheadVars, tickets, users, lastUserId, tokens, server>>
  BY ReqTypes DEF Query, Shape, accountVars
<1>1. PICK a \in {"ok", "refused"} :
         req' = [req EXCEPT ![r] = [@ EXCEPT !.pc = "free", !.answer = a]]
  BY DEF Query
<1>2. faults' \in 0..MaxFaults
  BY FaultsOK DEF Query
<1> DEFINE q == [req[r] EXCEPT !.pc = "free", !.answer = a]
<1>3. /\ q \in RequestType /\ q.pc = "free" /\ q.kind = req[r].kind /\ q.proc = req[r].proc
      /\ q.arg = req[r].arg /\ q.secret = req[r].secret /\ q.user = req[r].user
      /\ q.answer = a
  BY ReqTypes DEF RequestType, Places
<1>4. Moves(r, q)
  BY <1>1 DEF Moves, TInv, TypeOK
<1> HIDE DEF q
<1>5. StepOK(r, q)
  BY <1>0, <1>3, <1>4 DEF StepOK, Shape, GoesOn
<1> QED
  BY <1>0, <1>2, <1>3, <1>5 DEF SlotStep

LEMMA ReleaseDoes ==
    ASSUME TInv, NEW r \in Requests, Release(r)
    PROVE  \E q : SlotStep(r, q)
<1>0. UNCHANGED <<tickets, users, lastUserId, tokens, server, faults>>
  BY DEF Release, HistoryUnchanged, accountVars
<1>1. faults' \in 0..MaxFaults
  BY <1>0 DEF TInv, TypeOK
<1>2. CASE req[r].pc = "free"
  <2> DEFINE x == IF sem[req[r].proc] > 0 THEN "uncount" ELSE "done"
  <2>1. FreeSlot(req[r].proc) /\ Goto(r, x)
    BY <1>2 DEF Release
  <2>2. x \in {"uncount", "done"}
    OBVIOUS
  <2> HIDE DEF x
  <2>3. PICK q : StepOK(r, q) /\ q.pc = x /\ q.proc = req[r].proc /\ q.kind = "history"
    BY <1>2, <2>1, <2>2, HistoryGoto
  <2> QED
    BY <1>0, <1>1, <1>2, <2>1, <2>3 DEF SlotStep, x
<1>3. CASE req[r].pc = "uncount"
  <2>1. AddActive(req[r].proc, -1) /\ Goto(r, "done")
    BY <1>3 DEF Release
  <2>2. PICK q : StepOK(r, q) /\ q.pc = "done" /\ q.proc = req[r].proc /\ q.kind = "history"
    BY <1>3, <2>1, HistoryGoto
  <2> QED
    BY <1>0, <1>1, <1>3, <2>1, <2>2 DEF SlotStep
<1> QED
  BY <1>2, <1>3 DEF Release

LostStep(r) ==
    /\ UNCHANGED <<bulkheadVars, users, lastUserId, req, tokens, server>>
    /\ faults' \in 0..MaxFaults
    /\ \/ tickets' = tickets
       \/ req[r].pc = "create" /\ SetTicket(r, req[r].user, now)
       \/ \E t \in Requests : TakeTicket(t, now)

(* A process goes from one state to another, and takes its requests along  *)
(* when it is killed.                                                      *)
ServerStep(p) ==
    /\ server[p] \in {"up", "draining"}
    /\ \/ server' = [server EXCEPT ![p] = "draining"] /\ UNCHANGED req
       \/ server' = [server EXCEPT ![p] = "stopped"] /\ UNCHANGED req
       \/ /\ server' = [server EXCEPT ![p] = "killed"]
          /\ req' = [r \in Requests |-> IF r \in InFlight(p) THEN Refused(req[r].kind)
                                        ELSE req[r]]
    /\ UNCHANGED <<bulkheadVars, tickets, users, lastUserId, tokens, faults>>

LEMMA ServerDoes ==
    ASSUME NEW p \in Procs, Drain(p) \/ Stop(p) \/ Kill(p)
    PROVE  ServerStep(p)
BY DEF Drain, Stop, Kill, Serving, ServerStep, accountVars

Rest == <<bulkheadVars, tickets, users, lastUserId, req, tokens, server, faults>>

(* A step of the edge is one of these. *)
LEMMA StepCases ==
    ASSUME TInv, [Next]_vars
    PROVE  \/ \E r \in Requests : \E q :
                 \/ Arrives(r, q) \/ QuietStep(r, q)
                 \/ InsertStep(r, q) \/ LoginStep(r, q)
                 \/ CreateStep(r, q) \/ ConsumeStep(r, q)
                 \/ SlotStep(r, q)
           \/ \E r \in Requests : LostStep(r)
           \/ \E p \in Procs : ServerStep(p)
           \/ UNCHANGED Rest
<1>1. CASE UNCHANGED vars
  BY <1>1 DEF vars, Rest, accountVars
<1>2. ASSUME NEW r \in Requests, NEW p \in Procs,
             \/ \E c \in Registrations : Register(r, p, c[1], c[2])
             \/ \E c \in Logins : Login(r, p, c[1], c[2])
             \/ \E token \in tokens : PostTicket(r, p, token) \/ GetHistory(r, p, token)
             \/ \E t \in Requests \cup {NoArg} : GetWS(r, p, t)
      PROVE  \E q : Arrives(r, q)
  <2>1. CASE \E c \in Registrations : Register(r, p, c[1], c[2])
    BY <2>1, RegisterDoes
  <2>2. CASE \E c \in Logins : Login(r, p, c[1], c[2])
    BY <2>2, LoginDoes
  <2>3. ASSUME NEW token \in tokens, PostTicket(r, p, token) PROVE \E q : Arrives(r, q)
    BY <2>3, AuthorizedDoes DEF PostTicket
  <2>4. ASSUME NEW token \in tokens, GetHistory(r, p, token) PROVE \E q : Arrives(r, q)
    BY <2>4, AuthorizedDoes DEF GetHistory
  <2>5. CASE \E t \in Requests \cup {NoArg} : GetWS(r, p, t)
    BY <2>5, GetWSDoes
  <2> QED
    BY <1>2, <2>1, <2>2, <2>3, <2>4, <2>5
<1>3. ASSUME NEW r \in Requests,
             \/ RegisterId(r) \/ RegisterInsert(r) \/ LoginFind(r)
             \/ AllowL2(r) \/ Fallback(r) \/ AllowL1(r) \/ AnswerLost(r)
             \/ CreateTicket(r) \/ Consume(r) \/ Upgrade(r)
             \/ Acquire(r) \/ Query(r) \/ Release(r)
      PROVE  \/ \E q : \/ QuietStep(r, q) \/ InsertStep(r, q) \/ LoginStep(r, q)
                       \/ CreateStep(r, q) \/ ConsumeStep(r, q) \/ SlotStep(r, q)
             \/ LostStep(r)
  <2>1. CASE RegisterId(r)
    BY <2>1, RegisterIdDoes
  <2>2. CASE RegisterInsert(r)
    BY <2>2, RegisterInsertDoes
  <2>3. CASE LoginFind(r)
    BY <2>3, LoginFindDoes
  <2>4. CASE AllowL2(r) \/ AllowL1(r)
    BY <2>4, AllowDoes
  <2>5. CASE Fallback(r)
    BY <2>5, FallbackDoes
  <2>6. CASE AnswerLost(r)
    BY <2>6, AnswerLostDoes DEF LostStep
  <2>7. CASE CreateTicket(r)
    BY <2>7, CreateTicketDoes
  <2>8. CASE Consume(r)
    BY <2>8, ConsumeDoes
  <2>9. CASE Upgrade(r)
    BY <2>9, UpgradeDoes
  <2>10. CASE Acquire(r)
    BY <2>10, AcquireDoes
  <2>11. CASE Query(r)
    BY <2>11, QueryDoes
  <2>12. CASE Release(r)
    BY <2>12, ReleaseDoes
  <2> QED
    BY <1>3, <2>1, <2>2, <2>3, <2>4, <2>5, <2>6, <2>7, <2>8, <2>9, <2>10, <2>11, <2>12
<1>4. ASSUME NEW p \in Procs, Drain(p) \/ Stop(p) \/ Kill(p) PROVE ServerStep(p)
  BY <1>4, ServerDoes
<1>5. CASE Time
  BY <1>5 DEF Time, Rest, accountVars
<1> QED
  BY <1>1, <1>2, <1>3, <1>4, <1>5 DEF Next

(* The limiter sees its own steps only. *)
LEMMA RateCases ==
    ASSUME TInv, [Next]_vars
    PROVE  RateNext \/ UNCHANGED rateVars
<1>1. CASE UNCHANGED vars
  BY <1>1 DEF vars
<1>2. ASSUME NEW r \in Requests, NEW p \in Procs,
             \/ \E c \in Registrations : Register(r, p, c[1], c[2])
             \/ \E c \in Logins : Login(r, p, c[1], c[2])
             \/ \E token \in tokens : PostTicket(r, p, token) \/ GetHistory(r, p, token)
             \/ \E t \in Requests \cup {NoArg} : GetWS(r, p, t)
      PROVE  UNCHANGED rateVars
  BY <1>2 DEF Register, Login, PostTicket, GetHistory, Authorized, GetWS, Arrive
<1>3. ASSUME NEW r \in Requests,
             \/ RegisterId(r) \/ RegisterInsert(r) \/ LoginFind(r) \/ Fallback(r)
             \/ CreateTicket(r) \/ Consume(r) \/ Upgrade(r)
             \/ Acquire(r) \/ Query(r) \/ Release(r)
      PROVE  UNCHANGED rateVars
  BY <1>3 DEF RegisterId, RegisterInsert, LoginFind, Fallback, CreateTicket, Consume, Upgrade,
              Acquire, Query, Release, HistoryUnchanged
<1>4. ASSUME NEW r \in Requests, AllowL2(r) PROVE RateNext
  <2>1. RateKeyOf(req[r]) \in RateKeys
    BY <1>4, KeyOK DEF AllowL2
  <2> QED
    BY <1>4, <2>1 DEF AllowL2, RateNext
<1>5. ASSUME NEW r \in Requests, AllowL1(r) PROVE RateNext
  <2>1. RateKeyOf(req[r]) \in RateKeys /\ req[r].proc \in Procs
    BY <1>5, KeyOK, ReqTypes DEF AllowL1
  <2> QED
    BY <1>5, <2>1 DEF AllowL1, RateNext
<1>6. ASSUME NEW r \in Requests, AnswerLost(r) PROVE RateNext \/ UNCHANGED rateVars
  <2>1. req[r].pc \in {"rate", "rateUser"} => RateKeyOf(req[r]) \in RateKeys
    BY KeyOK
  <2> QED
    BY <1>6, <2>1 DEF AnswerLost, RateNext
<1>7. ASSUME NEW p \in Procs, Drain(p) \/ Stop(p) \/ Kill(p) PROVE UNCHANGED rateVars
  BY <1>7 DEF Drain, Stop, Kill, Serving
<1>8. CASE Time
  BY <1>8 DEF Time, RateNext
<1> QED
  BY <1>1, <1>2, <1>3, <1>4, <1>5, <1>6, <1>7, <1>8 DEF Next

LEMMA RateKept ==
    ASSUME TInv, RInv, [Next]_vars
    PROVE  RInv'
<1>1. CASE RateNext
  BY <1>1, RateStep
<1>2. CASE UNCHANGED rateVars
  <2>1. /\ now' = now /\ ticks' = ticks /\ ahead' = ahead /\ l2' = l2 /\ l1' = l1
        /\ admitted' = admitted /\ fellBack' = fellBack
    BY <1>2 DEF rateVars
  <2>2. RateTypeOK'
    BY <2>1 DEF RInv, RateTypeOK, BucketsOK
  <2>3. Tables' /\ Stamps'
    BY <2>1 DEF RInv, Tables, Stamps
  <2>4. ASSUME NEW k \in RateKeys PROVE Shared(k)'
    <3>1. Shared(k)
      BY DEF RInv
    <3>2. Level(k)' = Level(k) /\ \A p \in Procs : LocalLevel(p, k)' = LocalLevel(p, k)
      BY <2>1 DEF Level, LocalLevel
    <3>3. Budget' = Budget /\ Extra' = Extra
      BY <2>1 DEF Budget, Extra
    <3>4. PICK a \in Nat, f \in [Procs -> Nat] : Split(k, a, f)
      BY <3>1 DEF Shared
    <3>5. Calls(k, f)' = Calls(k, f)
      BY <2>1 DEF Calls
    <3>6. Split(k, a, f)'
      BY <2>1, <3>2, <3>3, <3>4, <3>5 DEF Split
    <3> QED
      BY <2>1, <3>1, <3>6 DEF Shared
  <2> QED
    BY <2>2, <2>3, <2>4 DEF RInv
<1> QED
  BY <1>1, <1>2, RateCases

-----------------------------------------------------------------------------
(***************************************************************************)
(* Types                                                                   *)
(***************************************************************************)

LEMMA SetTicketTypes ==
    ASSUME TInv, NEW t \in Requests, NEW u \in UserIds, SetTicket(t, u, now)
    PROVE  TicketsTypeOK' /\ HeldByUser'
<1>1. now + TicketTTL \in Int /\ u \in Nat
  BY TicketAssumption, RateTypes, AccountsAssumption DEF TInv, TypeOK, UserIds
<1>2. [user |-> u, exp |-> now + TicketTTL, held |-> TRUE] \in TicketType
  BY <1>1 DEF TicketType
<1>3. tickets \in [Requests -> TicketType] /\ HeldByUser
  BY DEF TInv, TypeOK, TicketsTypeOK
<1> QED
  BY <1>2, <1>3 DEF SetTicket, TicketsTypeOK, HeldByUser

LEMMA TakeTicketTypes ==
    ASSUME TInv, NEW t \in Requests, TakeTicket(t, now)
    PROVE  TicketsTypeOK' /\ HeldByUser'
<1>1. Gone \in TicketType /\ ~Gone.held
  BY DEF Gone, TicketType
<1>2. tickets \in [Requests -> TicketType] /\ HeldByUser
  BY DEF TInv, TypeOK, TicketsTypeOK
<1> QED
  BY <1>1, <1>2 DEF TakeTicket, TicketsTypeOK, HeldByUser

LEMMA SlotTypes ==
    ASSUME TInv, NEW p \in Procs,
           TakeSlot(p) \/ AddActive(p, 1) \/ AddActive(p, -1) \/ FreeSlot(p)
    PROVE  BulkheadTypeOK'
<1>1. sem \in [Procs -> 0..Limit] /\ active \in [Procs -> Int] /\ Limit \in Nat
  BY BulkheadAssumption DEF TInv, TypeOK, BulkheadTypeOK
<1>2. sem[p] \in 0..Limit /\ active[p] \in Int
  BY <1>1
<1>3. CASE TakeSlot(p)
  <2>1. sem[p] + 1 \in 0..Limit
    BY <1>1, <1>2, <1>3 DEF TakeSlot
  <2> QED
    BY <1>1, <1>3, <2>1 DEF TakeSlot, BulkheadTypeOK
<1>4. CASE AddActive(p, 1)
  BY <1>1, <1>2, <1>4 DEF AddActive, BulkheadTypeOK
<1>5. CASE AddActive(p, -1)
  BY <1>1, <1>2, <1>5 DEF AddActive, BulkheadTypeOK
<1>6. CASE FreeSlot(p)
  <2>1. sem[p] > 0 => sem[p] - 1 \in 0..Limit
    BY <1>1, <1>2
  <2> QED
    BY <1>1, <1>2, <1>6, <2>1 DEF FreeSlot, BulkheadTypeOK
<1> QED
  BY <1>3, <1>4, <1>5, <1>6

(* What TInv says of everything but the limiter. *)
Types ==
    /\ BulkheadTypeOK /\ TicketsTypeOK /\ AccountsTypeOK
    /\ req \in [Requests -> RequestType]
    /\ tokens \subseteq [user : UserIds, exp : Nat]
    /\ server \in [Procs -> {"up", "draining", "stopped", "killed"}]
    /\ faults \in 0..MaxFaults
    /\ HeldByUser
    /\ \A r \in Requests : Shape(req[r])

LEMMA TypesSplit == TInv <=> RateTypeOK /\ Tables /\ Types
BY DEF TInv, TypeOK, Types

LEMMA TypesKept ==
    ASSUME TInv, [Next]_vars
    PROVE  Types'
<1>0. Types
  BY TypesSplit
<1> DEFINE BT == BulkheadTypeOK
           TT == TicketsTypeOK /\ HeldByUser
           AT == AccountsTypeOK
           ST == server \in [Procs -> {"up", "draining", "stopped", "killed"}]
           KT == tokens \subseteq [user : UserIds, exp : Nat]
<1>1. /\ UNCHANGED bulkheadVars => BT'
      /\ UNCHANGED tickets => TT'
      /\ UNCHANGED <<users, lastUserId>> => AT'
      /\ UNCHANGED users /\ lastUserId' \in 0..MaxUserIds => AT'
      /\ UNCHANGED server => ST'
      /\ UNCHANGED tokens => KT'
      /\ UNCHANGED faults => faults' \in 0..MaxFaults
  BY <1>0 DEF Types, BulkheadTypeOK, bulkheadVars, TicketsTypeOK, HeldByUser, AccountsTypeOK
<1>2. ASSUME NEW r \in Requests, NEW q, q \in RequestType, Shape(q), Moves(r, q)
      PROVE  req' \in [Requests -> RequestType] /\ \A s \in Requests : Shape(req'[s])
  BY <1>2, MoveKeeps
<1>3. ASSUME BT', TT', AT', ST', KT', faults' \in 0..MaxFaults,
             req' \in [Requests -> RequestType], \A s \in Requests : Shape(req'[s])
      PROVE  Types'
  BY <1>3 DEF Types
<1>4. ASSUME UNCHANGED req
      PROVE  req' \in [Requests -> RequestType] /\ \A s \in Requests : Shape(req'[s])
  BY <1>0, <1>4 DEF Types
<1> HIDE DEF BT, TT, AT, ST, KT
<1>5. ASSUME NEW r \in Requests, NEW q, Arrives(r, q) PROVE Types'
  BY <1>1, <1>2, <1>3, <1>5 DEF Arrives, accountVars
<1>6. ASSUME NEW r \in Requests, NEW q, QuietStep(r, q) PROVE Types'
  BY <1>1, <1>2, <1>3, <1>6 DEF QuietStep, StepOK
<1>7. ASSUME NEW r \in Requests, NEW q, InsertStep(r, q) PROVE Types'
  <2>1. Row(req[r]) \in UserType
    BY <1>7, ReqTypes DEF InsertStep, Shape, Row, UserType
  <2>2. AT'
    BY <1>0, <1>7, <2>1 DEF InsertStep, AT, AccountsTypeOK, Types
  <2> QED
    BY <1>1, <1>2, <1>3, <1>7, <2>2 DEF InsertStep, StepOK
<1>8. ASSUME NEW r \in Requests, NEW q, LoginStep(r, q) PROVE Types'
  <2>1. KT'
    BY <1>8 DEF LoginStep, KT
  <2> QED
    BY <1>1, <1>2, <1>3, <1>8, <2>1 DEF LoginStep, StepOK
<1>9. ASSUME NEW r \in Requests, req[r].pc = "create", SetTicket(r, req[r].user, now) PROVE TT'
  <2>1. req[r].user \in UserIds
    BY <1>9, ReqTypes DEF Shape
  <2> QED
    BY <1>9, <2>1, SetTicketTypes DEF TT
<1>10. ASSUME NEW r \in Requests, NEW q, CreateStep(r, q) PROVE Types'
  <2>1. TT'
    BY <1>1, <1>9, <1>10 DEF CreateStep
  <2> QED
    BY <1>1, <1>2, <1>3, <1>10, <2>1 DEF CreateStep, StepOK
<1>11. ASSUME NEW r \in Requests, NEW q, ConsumeStep(r, q) PROVE Types'
  <2>1. TT'
    BY <1>1, <1>11, TakeTicketTypes DEF ConsumeStep, TT
  <2> QED
    BY <1>1, <1>2, <1>3, <1>11, <2>1 DEF ConsumeStep, StepOK
<1>12. ASSUME NEW r \in Requests, LostStep(r) PROVE Types'
  <2>1. TT'
    BY <1>1, <1>9, <1>12, TakeTicketTypes DEF LostStep, TT
  <2> QED
    BY <1>1, <1>3, <1>4, <1>12, <2>1 DEF LostStep
<1>13. ASSUME NEW r \in Requests, NEW q, SlotStep(r, q) PROVE Types'
  <2> DEFINE p == req[r].proc
  <2>0. p \in Procs
    BY ReqTypes
  <2>1. TakeSlot(p) \/ AddActive(p, 1) \/ AddActive(p, -1) \/ FreeSlot(p) \/ UNCHANGED bulkheadVars
    BY <1>13 DEF SlotStep
  <2> HIDE DEF p
  <2>2. TakeSlot(p) \/ AddActive(p, 1) \/ AddActive(p, -1) \/ FreeSlot(p) => BulkheadTypeOK'
    BY <2>0, SlotTypes
  <2>7. BT'
    BY <1>1, <2>1, <2>2 DEF BT
  <2> QED
    BY <1>1, <1>2, <1>3, <1>13, <2>7 DEF SlotStep, StepOK
<1>14. ASSUME NEW p \in Procs, ServerStep(p) PROVE Types'
  <2>1. ST'
    BY <1>0, <1>14 DEF ServerStep, ST, Types
  <2>2. req' \in [Requests -> RequestType] /\ \A s \in Requests : Shape(req'[s])
    <3>1. ASSUME NEW s \in Requests, s \in InFlight(p)
          PROVE  Refused(req[s].kind) \in RequestType /\ Shape(Refused(req[s].kind))
      <4>1. req[s].kind \in Kinds \ {"none"}
        BY <3>1, ReqTypes DEF InFlight, Shape
      <4> QED
        BY <4>1, RefusedOK
    <3>2. CASE UNCHANGED req
      BY <1>4, <3>2
    <3>3. CASE req' = [r \in Requests |-> IF r \in InFlight(p) THEN Refused(req[r].kind)
                                          ELSE req[r]]
      BY <1>0, <3>1, <3>3 DEF Types
    <3> QED
      BY <1>14, <3>2, <3>3 DEF ServerStep
  <2> QED
    BY <1>1, <1>3, <1>14, <2>1, <2>2 DEF ServerStep
<1>15. CASE UNCHANGED Rest
  BY <1>1, <1>3, <1>4, <1>15 DEF Rest
<1> QED
  BY <1>5, <1>6, <1>7, <1>8, <1>10, <1>11, <1>12, <1>13, <1>14, <1>15, StepCases

(* TInv and RInv are inductive together. *)
LEMMA TInvKept ==
    ASSUME TInv, RInv, [Next]_vars
    PROVE  TInv' /\ RInv'
<1>1. RInv'
  BY RateKept
<1>2. (RateTypeOK /\ Tables)'
  BY <1>1 DEF RInv
<1>3. Types'
  BY TypesKept
<1> QED
  BY <1>1, <1>2, <1>3 DEF TInv, TypeOK, Types

LEMMA InitTInv == Init => TInv /\ RInv
<1> SUFFICES ASSUME Init PROVE TInv /\ RInv
  OBVIOUS
<1>1. RInv
  BY RateInitRInv DEF Init
<1>2. BulkheadTypeOK
  BY BulkheadAssumption DEF Init, BulkheadInit, BulkheadTypeOK
<1>3. TicketsTypeOK /\ HeldByUser
  BY DEF Init, TicketsInit, TicketsTypeOK, HeldByUser, Gone, TicketType
<1>4. FirstUser.id \in UserIds
  BY EdgeAssumption DEF UserType
<1>5. AccountsTypeOK
  BY <1>4, EdgeAssumption, AccountsAssumption DEF Init, AccountsTypeOK, UserIds
<1>6. req \in [Requests -> RequestType] /\ \A r \in Requests : Shape(req[r])
  BY NoRequestOK DEF Init
<1>7. tokens \subseteq [user : UserIds, exp : Nat]
  <2>1. Issue(FirstUser.id, 0) \in [user : UserIds, exp : Nat]
    BY <1>4, AccountsAssumption DEF Issue
  <2> QED
    BY <2>1 DEF Init
<1>8. /\ server \in [Procs -> {"up", "draining", "stopped", "killed"}]
      /\ faults \in 0..MaxFaults
  BY EdgeAssumption DEF Init
<1> QED
  BY <1>1, <1>2, <1>3, <1>5, <1>6, <1>7, <1>8 DEF TInv, TypeOK, RInv

(* Every reachable state of the edge is well typed: no handler loses the   *)
(* shape of its request, no slot count, bucket, ticket or row leaves its   *)
(* range.                                                                  *)
THEOREM TypeCorrect == Spec => []TypeOK
<1>1. TInv /\ RInv /\ [Next]_vars => (TInv /\ RInv)'
  BY TInvKept
<1>2. TInv => TypeOK
  BY DEF TInv
<1> QED
  BY InitTInv, <1>1, <1>2, PTL DEF Spec

(* Allow: whatever a key let through, over Redis and over the local buckets *)
(* of the processes that fell back to them, stays within the capacity and  *)
(* the refill of the buckets that were used.                               *)
THEOREM RateBounded == Spec => []RateBound
<1>1. TInv /\ RInv /\ [Next]_vars => (TInv /\ RInv)'
  BY TInvKept
<1>2. TInv /\ RInv => RateBound
  BY RateBoundHolds
<1> QED
  BY InitTInv, <1>1, <1>2, PTL DEF Spec

-----------------------------------------------------------------------------
(***************************************************************************)
(* The bulkhead                                                            *)
(***************************************************************************)

Holding == {"count", "query", "free"}
Counted == {"query", "free", "uncount"}

(* The channel holds a slot for each request that has one, the counter     *)
(* counts each request between its two updates, and both are finitely many.*)
Balanced(p) ==
    /\ IsFiniteSet(At(p, Holding)) /\ sem[p] = Cardinality(At(p, Holding))
    /\ IsFiniteSet(At(p, Counted)) /\ active[p] = Cardinality(At(p, Counted))

SInv == \A p \in Procs : server[p] # "killed" => Balanced(p)

LEMMA SlotsBalancedHolds == TInv /\ SInv => SlotsBalanced
<1> SUFFICES ASSUME TInv, SInv, NEW p \in Procs, server[p] # "killed"
             PROVE  /\ sem[p] <= Limit
                    /\ sem[p] = Cardinality(At(p, Holding))
                    /\ active[p] = Cardinality(At(p, Counted))
  BY DEF SlotsBalanced, Holding, Counted
<1>1. sem[p] <= Limit
  BY BulkheadAssumption DEF TInv, TypeOK, BulkheadTypeOK
<1> QED
  BY <1>1 DEF SInv, Balanced

(* What a move of one request does to the requests at some places.         *)
LEMMA AtSame ==
    ASSUME TInv, NEW r \in Requests, NEW q \in RequestType, Moves(r, q), NEW p, NEW S,
           q.proc = p /\ q.pc \in S <=> req[r].proc = p /\ req[r].pc \in S
    PROVE  At(p, S)' = At(p, S)
<1>1. req'[r] = q /\ \A s \in Requests : s # r => req'[s] = req[s]
  BY DEF TInv, TypeOK, Moves
<1> QED
  BY <1>1 DEF At

LEMMA AtAdds ==
    ASSUME TInv, NEW r \in Requests, NEW q \in RequestType, Moves(r, q), NEW p, NEW S,
           q.proc = p, q.pc \in S, req[r].pc \notin S, IsFiniteSet(At(p, S))
    PROVE  IsFiniteSet(At(p, S)') /\ Cardinality(At(p, S)') = Cardinality(At(p, S)) + 1
<1>1. req'[r] = q /\ \A s \in Requests : s # r => req'[s] = req[s]
  BY DEF TInv, TypeOK, Moves
<1> DEFINE A == At(p, S)
<1>2. At(p, S)' = A \cup {r} /\ r \notin A
  BY <1>1 DEF At
<1>3. IsFiniteSet(A)
  OBVIOUS
<1> HIDE DEF A
<1>4. IsFiniteSet(A \cup {r}) /\ Cardinality(A \cup {r}) = Cardinality(A) + 1
  BY <1>2, <1>3, FS_AddElement
<1> QED
  BY <1>2, <1>4 DEF A

LEMMA AtDrops ==
    ASSUME TInv, NEW r \in Requests, NEW q \in RequestType, Moves(r, q), NEW p, NEW S,
           req[r].proc = p, req[r].pc \in S, q.pc \notin S, IsFiniteSet(At(p, S))
    PROVE  /\ IsFiniteSet(At(p, S)') /\ Cardinality(At(p, S)') = Cardinality(At(p, S)) - 1
           /\ Cardinality(At(p, S)) \in Nat \ {0}
<1>1. req'[r] = q /\ \A s \in Requests : s # r => req'[s] = req[s]
  BY DEF TInv, TypeOK, Moves
<1> DEFINE A == At(p, S)
<1>2. At(p, S)' = A \ {r} /\ r \in A
  BY <1>1 DEF At
<1>3. IsFiniteSet(A)
  OBVIOUS
<1> HIDE DEF A
<1>4. IsFiniteSet(A \ {r}) /\ Cardinality(A \ {r}) = Cardinality(A) - 1
  BY <1>2, <1>3, FS_RemoveElement
<1>5. Cardinality(A) \in Nat /\ Cardinality(A) # 0
  BY <1>2, <1>3, FS_CardinalityType, FS_EmptySet
<1> QED
  BY <1>2, <1>4, <1>5 DEF A

LEMMA BalancedKept ==
    ASSUME NEW p \in Procs, Balanced(p), sem'[p] = sem[p], active'[p] = active[p],
           At(p, Holding)' = At(p, Holding), At(p, Counted)' = At(p, Counted)
    PROVE  Balanced(p)'
BY DEF Balanced

(* A request that is at no place with a slot before or after. *)
LEMMA NoSlotMoves ==
    ASSUME TInv, SInv, NEW r \in Requests, NEW q \in RequestType, Moves(r, q),
           req[r].pc \notin Slotted, q.pc \notin Slotted, UNCHANGED <<bulkheadVars, server>>
    PROVE  SInv'
<1> SUFFICES ASSUME NEW p \in Procs, server'[p] # "killed" PROVE Balanced(p)'
  BY DEF SInv
<1>1. Balanced(p) /\ sem' = sem /\ active' = active
  BY DEF SInv, bulkheadVars
<1>2. /\ req[r].pc \notin Holding /\ q.pc \notin Holding
      /\ req[r].pc \notin Counted /\ q.pc \notin Counted
  BY DEF Slotted, Holding, Counted
<1>3. At(p, Holding)' = At(p, Holding)
  BY <1>2, AtSame
<1>4. At(p, Counted)' = At(p, Counted)
  BY <1>2, AtSame
<1> QED
  BY <1>1, <1>3, <1>4, BalancedKept

LEMMA SlotStepKeeps ==
    ASSUME TInv, SInv, NEW r \in Requests, NEW q, SlotStep(r, q)
    PROVE  SInv'
<1> DEFINE o == req[r].proc
<1>1. q \in RequestType /\ Moves(r, q) /\ q.proc = o /\ server' = server
  BY DEF SlotStep, StepOK
<1>2. o \in Procs /\ sem \in [Procs -> 0..Limit] /\ active \in [Procs -> Int]
  BY ReqTypes DEF TInv, TypeOK, BulkheadTypeOK
<1>3. \/ req[r].pc \in {"acquire", "waiting"} /\ q.pc = "count" /\ TakeSlot(o)
      \/ req[r].pc = "count" /\ q.pc = "query" /\ AddActive(o, 1)
      \/ req[r].pc = "query" /\ q.pc = "free" /\ UNCHANGED bulkheadVars
      \/ /\ req[r].pc = "free" /\ FreeSlot(o)
         /\ q.pc = IF sem[o] > 0 THEN "uncount" ELSE "done"
      \/ req[r].pc = "uncount" /\ q.pc = "done" /\ AddActive(o, -1)
  BY DEF SlotStep
<1> SUFFICES ASSUME NEW p \in Procs, server[p] # "killed" PROVE Balanced(p)'
  BY <1>1 DEF SInv
<1>4. Balanced(p)
  BY DEF SInv
<1>5. CASE p # o
  <2>1. sem'[p] = sem[p] /\ active'[p] = active[p]
    BY <1>2, <1>3, <1>5 DEF TakeSlot, AddActive, FreeSlot, bulkheadVars
  <2>2. At(p, Holding)' = At(p, Holding)
    BY <1>1, <1>5, AtSame
  <2>3. At(p, Counted)' = At(p, Counted)
    BY <1>1, <1>5, AtSame
  <2> QED
    BY <1>4, <2>1, <2>2, <2>3, BalancedKept
<1>6. CASE p = o
  <2>1. /\ IsFiniteSet(At(p, Holding)) /\ sem[p] = Cardinality(At(p, Holding))
        /\ IsFiniteSet(At(p, Counted)) /\ active[p] = Cardinality(At(p, Counted))
    BY <1>4 DEF Balanced
  <2>2. CASE req[r].pc \in {"acquire", "waiting"} /\ q.pc = "count" /\ TakeSlot(o)
    <3>1. sem'[p] = sem[p] + 1 /\ active'[p] = active[p]
      BY <1>2, <1>6, <2>2 DEF TakeSlot
    <3>2. At(p, Counted)' = At(p, Counted)
      BY <1>1, <2>2, AtSame DEF Counted
    <3>3. /\ IsFiniteSet(At(p, Holding)')
          /\ Cardinality(At(p, Holding)') = Cardinality(At(p, Holding)) + 1
      <4>1. q.pc \in Holding /\ req[r].pc \notin Holding
        BY <2>2 DEF Holding
      <4> QED
        BY <1>1, <1>6, <2>1, <4>1, AtAdds
    <3> QED
      BY <2>1, <3>1, <3>2, <3>3 DEF Balanced
  <2>3. CASE req[r].pc = "count" /\ q.pc = "query" /\ AddActive(o, 1)
    <3>1. sem'[p] = sem[p] /\ active'[p] = active[p] + 1
      BY <1>2, <1>6, <2>3 DEF AddActive
    <3>2. At(p, Holding)' = At(p, Holding)
      BY <1>1, <2>3, AtSame DEF Holding
    <3>3. /\ IsFiniteSet(At(p, Counted)')
          /\ Cardinality(At(p, Counted)') = Cardinality(At(p, Counted)) + 1
      <4>1. q.pc \in Counted /\ req[r].pc \notin Counted
        BY <2>3 DEF Counted
      <4> QED
        BY <1>1, <1>6, <2>1, <4>1, AtAdds
    <3> QED
      BY <2>1, <3>1, <3>2, <3>3 DEF Balanced
  <2>4. CASE req[r].pc = "query" /\ q.pc = "free" /\ UNCHANGED bulkheadVars
    <3>1. At(p, Holding)' = At(p, Holding)
      BY <1>1, <2>4, AtSame DEF Holding
    <3>2. At(p, Counted)' = At(p, Counted)
      BY <1>1, <2>4, AtSame DEF Counted
    <3> QED
      BY <1>4, <2>4, <3>1, <3>2, BalancedKept DEF bulkheadVars
  <2>5. CASE /\ req[r].pc = "free" /\ FreeSlot(o)
             /\ q.pc = IF sem[o] > 0 THEN "uncount" ELSE "done"
    <3>1. q.pc \notin Holding /\ req[r].pc \in Holding
      BY <2>5 DEF Holding
    <3>2. /\ IsFiniteSet(At(p, Holding)')
          /\ Cardinality(At(p, Holding)') = Cardinality(At(p, Holding)) - 1
          /\ Cardinality(At(p, Holding)) \in Nat \ {0}
      BY <1>1, <1>6, <2>1, <3>1, AtDrops
    <3>3. sem[o] > 0
      BY <1>6, <2>1, <3>2
    <3>4. sem'[p] = sem[p] - 1 /\ active'[p] = active[p]
      BY <1>2, <1>6, <2>5, <3>3 DEF FreeSlot
    <3>5. At(p, Counted)' = At(p, Counted)
      BY <1>1, <2>5, <3>3, AtSame DEF Counted
    <3> QED
      BY <2>1, <3>2, <3>4, <3>5 DEF Balanced
  <2>6. CASE req[r].pc = "uncount" /\ q.pc = "done" /\ AddActive(o, -1)
    <3>1. sem'[p] = sem[p] /\ active'[p] = active[p] - 1
      BY <1>2, <1>6, <2>6 DEF AddActive
    <3>2. At(p, Holding)' = At(p, Holding)
      BY <1>1, <2>6, AtSame DEF Holding
    <3>3. /\ IsFiniteSet(At(p, Counted)')
          /\ Cardinality(At(p, Counted)') = Cardinality(At(p, Counted)) - 1
      <4>1. req[r].pc \in Counted /\ q.pc \notin Counted
        BY <2>6 DEF Counted
      <4> QED
        BY <1>1, <1>6, <2>1, <4>1, AtDrops
    <3> QED
      BY <2>1, <3>1, <3>2, <3>3 DEF Balanced
  <2> QED
    BY <1>3, <2>2, <2>3, <2>4, <2>5, <2>6
<1> QED
  BY <1>5, <1>6

(* A process that dies takes its requests and its slots along; the others  *)
(* keep theirs.                                                            *)
LEMMA ServerKeepsSlots ==
    ASSUME TInv, SInv, NEW o \in Procs, ServerStep(o)
    PROVE  SInv'
<1>1. /\ server \in [Procs -> {"up", "draining", "stopped", "killed"}]
      /\ sem' = sem /\ active' = active /\ server[o] # "killed"
  BY DEF TInv, TypeOK, ServerStep, bulkheadVars
<1> SUFFICES ASSUME NEW p \in Procs, server'[p] # "killed" PROVE Balanced(p)'
  BY DEF SInv
<1>2. server[p] # "killed"
  BY <1>1 DEF ServerStep
<1>3. Balanced(p)
  BY <1>2 DEF SInv
<1>4. CASE UNCHANGED req
  BY <1>1, <1>3, <1>4, BalancedKept DEF At
<1>5. CASE /\ server' = [server EXCEPT ![o] = "killed"]
           /\ req' = [r \in Requests |-> IF r \in InFlight(o) THEN Refused(req[r].kind)
                                         ELSE req[r]]
  <2>1. p # o
    BY <1>1, <1>5
  <2>2. ASSUME NEW s \in Requests, s \in InFlight(o)
        PROVE  req'[s].pc = "done" /\ req[s].proc = o
    <3>1. req[s].kind \in Kinds \ {"none"} /\ req[s].proc = o
      BY <2>2, ReqTypes DEF InFlight, Shape
    <3> QED
      BY <1>5, <2>2, <3>1, RefusedOK
  <2>3. \A s \in Requests : s \notin InFlight(o) => req'[s] = req[s]
    BY <1>5
  <2>4. At(p, Holding)' = At(p, Holding)
    BY <2>1, <2>2, <2>3 DEF At, Holding
  <2>5. At(p, Counted)' = At(p, Counted)
    BY <2>1, <2>2, <2>3 DEF At, Counted
  <2> QED
    BY <1>1, <1>3, <2>4, <2>5, BalancedKept
<1> QED
  BY <1>4, <1>5 DEF ServerStep

LEMMA SInvKept ==
    ASSUME TInv, SInv, [Next]_vars
    PROVE  SInv'
<1>1. ASSUME NEW r \in Requests, NEW q, Arrives(r, q) PROVE SInv'
  BY <1>1, NoSlotMoves DEF Arrives, Slotted
<1>2. ASSUME NEW r \in Requests, NEW q, QuietStep(r, q) PROVE SInv'
  BY <1>2, NoSlotMoves DEF QuietStep, StepOK, Slotted
<1>3. ASSUME NEW r \in Requests, NEW q,
             InsertStep(r, q) \/ LoginStep(r, q) \/ CreateStep(r, q) \/ ConsumeStep(r, q)
      PROVE  SInv'
  BY <1>3, NoSlotMoves DEF InsertStep, LoginStep, CreateStep, ConsumeStep, StepOK, Slotted
<1>4. ASSUME NEW r \in Requests, LostStep(r) PROVE SInv'
  BY <1>4 DEF LostStep, SInv, Balanced, At, bulkheadVars
<1>5. CASE UNCHANGED Rest
  BY <1>5 DEF Rest, SInv, Balanced, At, bulkheadVars
<1> QED
  BY <1>1, <1>2, <1>3, <1>4, <1>5, SlotStepKeeps, ServerKeepsSlots, StepCases

LEMMA InitSInv == Init => SInv
<1> SUFFICES ASSUME Init, NEW p \in Procs PROVE Balanced(p)
  BY DEF SInv
<1>1. At(p, Holding) = {} /\ At(p, Counted) = {}
  BY NoRequestOK DEF Init, At, Holding, Counted
<1> QED
  BY <1>1, FS_EmptySet DEF Init, BulkheadInit, Balanced

(* Acquire, Release: with any number of queries on any number of processes *)
(* there are never more than Limit at work on one of them, a slot is held  *)
(* by exactly the queries between taking and giving it back, and the       *)
(* counter of the metrics is off by no more than those in between; Release *)
(* never meets an empty channel.                                           *)
THEOREM SlotsBalance == Spec => []SlotsBalanced
<1>1. Init => TInv /\ RInv /\ SInv
  BY InitTInv, InitSInv
<1>2. TInv /\ RInv /\ SInv /\ [Next]_vars => (TInv /\ RInv /\ SInv)'
  BY TInvKept, SInvKept
<1>3. TInv /\ RInv /\ SInv => SlotsBalanced
  BY SlotsBalancedHolds
<1> QED
  BY <1>1, <1>2, <1>3, PTL DEF Spec

-----------------------------------------------------------------------------
(***************************************************************************)
(* Accounts                                                                *)
(***************************************************************************)

NInv ==
    /\ \A u, v \in users : u.name = v.name => u = v
    /\ \A r \in Requests : Told(req[r], users)

LEMMA OneOwnerHolds == NInv => OneOwnerPerName
BY DEF NInv, Told, Row, OneOwnerPerName

(* Rows stay, so what was so when a client was told it stays so. *)
LEMMA ToldGrows ==
    ASSUME NEW q, NEW rows, NEW more, rows \subseteq more, Told(q, rows)
    PROVE  Told(q, more)
BY DEF Told

(* A client that was told nothing it could rely on. *)
LEMMA ToldNothing ==
    ASSUME NEW q, NEW rows, q.answer \in {"", "refused"} \/ q.kind \in {"ticket", "history"}
    PROVE  Told(q, rows)
BY DEF Told

LEMMA NInvMoves ==
    ASSUME TInv, NInv, NEW r \in Requests, NEW q \in RequestType, Moves(r, q),
           users \subseteq users', Told(q, users'),
           \A u, v \in users' : u.name = v.name => u = v
    PROVE  NInv'
<1>1. req'[r] = q /\ \A s \in Requests : s # r => req'[s] = req[s]
  BY DEF TInv, TypeOK, Moves
<1>2. ASSUME NEW s \in Requests, s # r PROVE Told(req'[s], users')
  <2>1. Told(req[s], users)
    BY DEF NInv
  <2> QED
    BY <1>1, <1>2, <2>1, ToldGrows
<1>3. \A s \in Requests : Told(req'[s], users')
  BY <1>1, <1>2
<1> QED
  BY <1>3 DEF NInv

LEMMA NInvKept ==
    ASSUME TInv, NInv, [Next]_vars
    PROVE  NInv'
<1>1. \A u, v \in users : u.name = v.name => u = v
  BY DEF NInv
<1>2. ASSUME NEW r \in Requests, NEW q, Arrives(r, q) PROVE NInv'
  <2>1. q \in RequestType /\ Moves(r, q) /\ users' = users /\ Told(q, users')
    BY <1>2, ToldNothing DEF Arrives, accountVars
  <2> QED
    BY <1>1, <2>1, NInvMoves
<1>3. ASSUME NEW r \in Requests, NEW q,
             QuietStep(r, q) \/ CreateStep(r, q) \/ ConsumeStep(r, q) \/ SlotStep(r, q)
      PROVE  NInv'
  <2>1. q \in RequestType /\ Moves(r, q) /\ users' = users /\ Told(q, users')
    BY <1>3, ToldNothing DEF QuietStep, CreateStep, ConsumeStep, SlotStep, StepOK
  <2> QED
    BY <1>1, <2>1, NInvMoves
<1>4. ASSUME NEW r \in Requests, NEW q, LoginStep(r, q) PROVE NInv'
  <2>1. q \in RequestType /\ Moves(r, q) /\ users' = users /\ Told(q, users')
    BY <1>4 DEF LoginStep, StepOK
  <2> QED
    BY <1>1, <2>1, NInvMoves
<1>5. ASSUME NEW r \in Requests, NEW q, InsertStep(r, q) PROVE NInv'
  <2>1. q \in RequestType /\ Moves(r, q) /\ users \subseteq users' /\ Told(q, users')
    BY <1>5 DEF InsertStep, StepOK
  <2>2. \A u, v \in users' : u.name = v.name => u = v
    <3>1. Row(req[r]).name = Normalise[req[r].arg]
      BY DEF Row
    <3> QED
      BY <1>1, <1>5, <3>1 DEF InsertStep
  <2> QED
    BY <2>1, <2>2, NInvMoves
<1>6. ASSUME NEW r \in Requests, LostStep(r) PROVE NInv'
  BY <1>6 DEF LostStep, NInv
<1>7. ASSUME NEW p \in Procs, ServerStep(p) PROVE NInv'
  <2>1. users' = users
    BY <1>7 DEF ServerStep
  <2>2. ASSUME NEW s \in Requests PROVE Told(req'[s], users)
    <3>1. Told(req[s], users)
      BY DEF NInv
    <3>2. CASE req'[s] = req[s]
      BY <3>1, <3>2
    <3>3. CASE s \in InFlight(p) /\ req'[s] = Refused(req[s].kind)
      <4>1. req[s].kind \in Kinds \ {"none"}
        BY <3>3, ReqTypes DEF InFlight, Shape
      <4>2. req'[s].answer = "refused"
        BY <3>3, <4>1, RefusedOK
      <4> QED
        BY <4>2 DEF Told
    <3> QED
      BY <1>7, <3>2, <3>3 DEF ServerStep
  <2> QED
    BY <2>1, <2>2 DEF NInv
<1>8. CASE UNCHANGED Rest
  BY <1>8 DEF Rest, NInv
<1> QED
  BY <1>2, <1>3, <1>4, <1>5, <1>6, <1>7, <1>8, StepCases

LEMMA InitNInv == Init => NInv
<1> SUFFICES ASSUME Init, NEW r \in Requests PROVE Told(req[r], users)
  BY DEF Init, NInv
<1> QED
  BY NoRequestOK, ToldNothing DEF Init

(* UserRepository.Create, Login: however registrations and logins overlap, *)
(* whichever processes serve them, and whether or not ids repeat, commits  *)
(* fail or answers are lost, a name has one owner; whoever was told of a   *)
(* registration owns the row, whoever was told of a conflict met another,  *)
(* and whoever was let in has the owner's password.                        *)
THEOREM NamesOwned == Spec => []OneOwnerPerName
<1>1. Init => TInv /\ RInv /\ NInv
  BY InitTInv, InitNInv
<1>2. TInv /\ RInv /\ NInv /\ [Next]_vars => (TInv /\ RInv /\ NInv)'
  BY TInvKept, NInvKept
<1>3. TInv /\ RInv /\ NInv => OneOwnerPerName
  BY OneOwnerHolds
<1> QED
  BY <1>1, <1>2, <1>3, PTL DEF Spec

-----------------------------------------------------------------------------
(***************************************************************************)
(* Tickets                                                                 *)
(***************************************************************************)

(* A ticket in Redis has let nobody past, and is its maker's.              *)
Unused(t) ==
    /\ req[t].kind = "ticket"
    /\ PastTicket(t) = {}
    /\ req[t].pc = "create" \/ req[t].answer = "ok" => req[t].user = tickets[t].user

(* An upgrade has a ticket that was given out, and is past none before.    *)
Presents(r) ==
    /\ req[r].arg # NoArg => req[r].arg \in Requests /\ Granted(req[r].arg)
    /\ req[r].user # 0 => req[r].arg # NoArg

KInv ==
    /\ \A t \in Requests : tickets[t].held => Unused(t)
    /\ \A r \in Requests : req[r].kind = "upgrade" => Presents(r)
    /\ TicketOnce

(* A request that made a ticket is at its insertion or done with it. *)
LEMMA TicketPlaces ==
    ASSUME TInv, NEW r \in Requests, req[r].kind = "ticket"
    PROVE  req[r].pc \in {"create", "done"} /\ (req[r].pc = "create" => req[r].answer = "")
<1>1. Shape(req[r]) /\ req[r].pc \in Places
  BY ReqTypes
<1>2. req[r].pc # "none"
  BY <1>1, NoRequestOK DEF Shape
<1>3. req[r].pc \notin {"id", "insert", "find", "rate", "local", "rateUser", "localUser"}
  BY <1>1 DEF Shape
<1>4. req[r].pc \notin {"consume", "upgrade", "open", "acquire", "waiting", "count", "query",
                        "free", "uncount"}
  BY <1>1 DEF Shape
<1>5. req[r].pc = "create" => req[r].answer = ""
  BY <1>1 DEF Shape
<1> QED
  BY <1>1, <1>2, <1>3, <1>4, <1>5 DEF Places

(* Whoever is past a ticket has one that was given out. *)
LEMMA PastGranted ==
    ASSUME KInv, NEW t \in Requests, NEW r \in PastTicket(t)
    PROVE  Granted(t) /\ t # NoArg
BY DEF KInv, PastTicket, Presents

(* A step of another handler: it makes nobody pass. *)
LEMMA KInvMoves ==
    ASSUME TInv, KInv, NEW r \in Requests, NEW q \in RequestType, Moves(r, q),
           UNCHANGED tickets, req[r].kind # "ticket",
           q.kind = "upgrade" =>
              /\ q.arg # NoArg => q.arg \in Requests /\ Granted(q.arg)
              /\ q.user # 0 => /\ req[r].kind = "upgrade" /\ q.arg = req[r].arg
                               /\ q.user = req[r].user
    PROVE  KInv'
<1>1. req'[r] = q /\ \A s \in Requests : s # r => req'[s] = req[s]
  BY DEF TInv, TypeOK, Moves
<1>2. ASSUME NEW t \in Requests, Granted(t) PROVE t # r /\ Granted(t)'
  BY <1>1, <1>2 DEF Granted
<1>3. ASSUME NEW t \in Requests PROVE PastTicket(t)' \subseteq PastTicket(t)
  BY <1>1 DEF PastTicket
<1>4. ASSUME NEW t \in Requests, tickets'[t].held PROVE Unused(t)'
  <2>1. Unused(t) /\ t # r
    BY <1>4 DEF KInv, Unused
  <2>2. PastTicket(t)' = {}
    BY <1>3, <2>1 DEF Unused
  <2> QED
    BY <1>1, <2>1, <2>2 DEF Unused
<1>5. ASSUME NEW s \in Requests, req'[s].kind = "upgrade" PROVE Presents(s)'
  <2>1. CASE s = r
    <3>1. req'[s] = q /\ q.kind = "upgrade"
      BY <1>1, <1>5, <2>1
    <3>2. q.arg # NoArg => q.arg \in Requests /\ Granted(q.arg)'
      BY <1>2, <3>1
    <3>3. q.user # 0 => q.arg # NoArg
      BY <3>1 DEF KInv, Presents
    <3> QED
      BY <3>1, <3>2, <3>3 DEF Presents, Granted
  <2>2. CASE s # r
    <3>1. req'[s] = req[s] /\ Presents(s)
      BY <1>1, <1>5, <2>2 DEF KInv
    <3>2. req[s].arg # NoArg => req[s].arg \in Requests /\ Granted(req[s].arg)'
      BY <1>2, <3>1 DEF Presents
    <3> QED
      BY <3>1, <3>2 DEF Presents, Granted
  <2> QED
    BY <2>1, <2>2
<1>6. ASSUME NEW t \in Requests, NEW s \in PastTicket(t)'
      PROVE  /\ PastTicket(t)' = {s} /\ ~tickets'[t].held
             /\ req'[t].answer = "ok" /\ req'[s].user = req'[t].user
  <2>1. s \in PastTicket(t) /\ s \in Requests
    BY <1>3, <1>6 DEF PastTicket
  <2>2. /\ PastTicket(t) = {s} /\ ~tickets[t].held
        /\ req[t].answer = "ok" /\ req[s].user = req[t].user
    BY <2>1 DEF KInv, TicketOnce
  <2>3. t # r
    BY <1>2, <2>1, PastGranted
  <2>4. req'[s].user = req[s].user
    BY <1>1, <1>6 DEF PastTicket
  <2> QED
    BY <1>1, <1>3, <1>6, <2>2, <2>3, <2>4
<1> QED
  BY <1>4, <1>5, <1>6 DEF KInv, TicketOnce

(* A ticket is written while its request is at the insertion: nobody can   *)
(* have passed with it.                                                    *)
LEMMA Unpassed ==
    ASSUME TInv, KInv, NEW r \in Requests, req[r].pc = "create"
    PROVE  req[r].kind = "ticket" /\ ~Granted(r) /\ PastTicket(r) = {}
<1>1. req[r].kind = "ticket" /\ req[r].answer = ""
  BY ReqTypes DEF Shape
<1>2. ~Granted(r)
  BY <1>1 DEF Granted
<1>3. ASSUME NEW s \in PastTicket(r) PROVE FALSE
  BY <1>2, PastGranted
<1> QED
  BY <1>1, <1>2, <1>3

LEMMA CreateKeeps ==
    ASSUME TInv, KInv, NEW r \in Requests, NEW q, CreateStep(r, q)
    PROVE  KInv'
<1>1. req'[r] = q /\ \A s \in Requests : s # r => req'[s] = req[s]
  BY DEF TInv, TypeOK, Moves, CreateStep, StepOK
<1>2. req[r].kind = "ticket" /\ ~Granted(r) /\ PastTicket(r) = {} /\ q.kind = "ticket"
  BY Unpassed DEF CreateStep
<1>3. \A t \in Requests : PastTicket(t)' = PastTicket(t)
  BY <1>1, <1>2 DEF PastTicket
<1>4. ASSUME NEW t \in Requests, t # r PROVE tickets'[t] = tickets[t]
  BY <1>4 DEF CreateStep, SetTicket, TInv, TypeOK, TicketsTypeOK
<1>5. ASSUME NEW t \in Requests, Granted(t) PROVE t # r /\ Granted(t)'
  BY <1>1, <1>2, <1>5 DEF Granted
<1>6. ASSUME NEW t \in Requests, tickets'[t].held PROVE Unused(t)'
  <2>1. CASE t # r
    <3>1. Unused(t) /\ tickets'[t] = tickets[t]
      BY <1>4, <1>6, <2>1 DEF KInv
    <3> QED
      BY <1>1, <1>3, <2>1, <3>1 DEF Unused
  <2>2. CASE t = r
    <3>1. CASE SetTicket(r, req[r].user, now) /\ q.answer = "ok" /\ q.user = req[r].user
      <4>1. tickets'[r].user = req[r].user
        BY <3>1 DEF SetTicket, TInv, TypeOK, TicketsTypeOK
      <4> QED
        BY <1>1, <1>2, <1>3, <2>2, <3>1, <4>1 DEF Unused
    <3>2. CASE tickets' = tickets /\ q.answer = "refused"
      BY <1>1, <1>2, <1>3, <2>2, <3>2 DEF Unused, CreateStep
    <3> QED
      BY <3>1, <3>2 DEF CreateStep
  <2> QED
    BY <2>1, <2>2
<1>7. ASSUME NEW s \in Requests, req'[s].kind = "upgrade" PROVE Presents(s)'
  <2>1. s # r /\ req'[s] = req[s] /\ Presents(s)
    BY <1>1, <1>2, <1>7 DEF KInv
  <2>2. req[s].arg # NoArg => req[s].arg \in Requests /\ Granted(req[s].arg)'
    BY <1>5, <2>1 DEF Presents
  <2> QED
    BY <2>1, <2>2 DEF Presents, Granted
<1>8. ASSUME NEW t \in Requests, NEW s \in PastTicket(t)'
      PROVE  /\ PastTicket(t)' = {s} /\ ~tickets'[t].held
             /\ req'[t].answer = "ok" /\ req'[s].user = req'[t].user
  <2>1. s \in PastTicket(t) /\ s \in Requests
    BY <1>3, <1>8 DEF PastTicket
  <2>2. t # r
    BY <1>2, <2>1
  <2>3. s # r
    BY <1>2, <2>1 DEF PastTicket
  <2> QED
    BY <1>1, <1>3, <1>4, <2>1, <2>2, <2>3 DEF KInv, TicketOnce
<1> QED
  BY <1>6, <1>7, <1>8 DEF KInv, TicketOnce

(* The script takes the ticket and lets its one upgrade past. *)
LEMMA ConsumeKeeps ==
    ASSUME TInv, KInv, NEW r \in Requests, NEW q, ConsumeStep(r, q)
    PROVE  KInv'
<1>1. /\ q \in RequestType /\ Moves(r, q)
      /\ req'[r] = q /\ \A s \in Requests : s # r => req'[s] = req[s]
  BY DEF TInv, TypeOK, Moves, ConsumeStep, StepOK
<1>2. req[r].pc = "consume" /\ req[r].kind = "upgrade"
  BY ReqTypes DEF ConsumeStep, Shape
<1>3. CASE tickets' = tickets /\ q = Refused("upgrade")
  <2>1. q.arg = NoArg /\ q.user = 0
    BY <1>3, RefusedOK DEF Kinds
  <2> QED
    BY <1>1, <1>2, <1>3, <2>1, KInvMoves
<1>4. CASE /\ req[r].arg \in Requests \ {NoArg} /\ TakeTicket(req[r].arg, now)
           /\ q.kind = "upgrade" /\ q.arg = req[r].arg /\ q.user = tickets[req[r].arg].user
  <2>0. PICK t \in Requests : t = req[r].arg
    BY <1>4
  <2>1. /\ t \in Requests /\ t # NoArg /\ tickets[t].held
        /\ tickets'[t] = Gone /\ \A x \in Requests : x # t => tickets'[x] = tickets[x]
    BY <1>4, <2>0 DEF TakeTicket, Held, TInv, TypeOK, TicketsTypeOK
  <2>2. Granted(t) /\ Unused(t)
    BY <1>2, <1>4, <2>0, <2>1 DEF KInv, Presents
  <2>3. t # r /\ req'[t] = req[t] /\ req[t].answer = "ok" /\ PastTicket(t) = {}
        /\ q.user = req[t].user
    BY <1>1, <1>2, <1>4, <2>0, <2>2 DEF Granted, Unused
  <2>4. q.arg = t /\ q.kind = "upgrade"
    BY <1>4, <2>0
  <2>6. \A x \in Requests : x # t => PastTicket(x)' = PastTicket(x)
    BY <1>1, <2>0, <2>4 DEF PastTicket
  <2>7. PastTicket(t)' \subseteq {r}
    BY <1>1, <2>3 DEF PastTicket
  <2>8. ASSUME NEW x \in Requests, Granted(x) PROVE x # r /\ Granted(x)'
    BY <1>1, <1>2, <2>8 DEF Granted
  <2>9. ASSUME NEW x \in Requests, tickets'[x].held PROVE Unused(x)'
    <3>1. x # t
      BY <2>1, <2>9 DEF Gone
    <3>2. Unused(x) /\ tickets'[x] = tickets[x]
      BY <2>1, <2>9, <3>1 DEF KInv
    <3>3. x # r
      BY <1>2, <3>2 DEF Unused
    <3> QED
      BY <1>1, <2>6, <3>1, <3>2, <3>3 DEF Unused
  <2>10. ASSUME NEW s \in Requests, req'[s].kind = "upgrade" PROVE Presents(s)'
    <3>1. CASE s = r
      BY <1>1, <2>1, <2>2, <2>4, <2>8, <3>1 DEF Presents, Granted
    <3>2. CASE s # r
      <4>1. req'[s] = req[s] /\ Presents(s)
        BY <1>1, <2>10, <3>2 DEF KInv
      <4>2. req[s].arg # NoArg => req[s].arg \in Requests /\ Granted(req[s].arg)'
        BY <2>8, <4>1 DEF Presents
      <4> QED
        BY <4>1, <4>2 DEF Presents, Granted
    <3> QED
      BY <3>1, <3>2
  <2>11. ASSUME NEW x \in Requests, NEW s \in PastTicket(x)'
         PROVE  /\ PastTicket(x)' = {s} /\ ~tickets'[x].held
                /\ req'[x].answer = "ok" /\ req'[s].user = req'[x].user
    <3>1. CASE x = t
      <4>1. s = r /\ PastTicket(x)' = {s}
        BY <2>7, <2>11, <3>1
      <4> QED
        BY <1>1, <2>1, <2>3, <3>1, <4>1 DEF Gone
    <3>2. CASE x # t
      <4>1. s \in PastTicket(x) /\ s \in Requests
        BY <2>6, <2>11, <3>2 DEF PastTicket
      <4>2. x # r
        BY <2>8, <4>1, PastGranted
      <4>3. s # r
        BY <2>0, <3>2, <4>1 DEF PastTicket
      <4> QED
        BY <1>1, <2>1, <2>6, <3>2, <4>1, <4>2, <4>3 DEF KInv, TicketOnce
    <3> QED
      BY <3>1, <3>2
  <2> QED
    BY <2>9, <2>10, <2>11 DEF KInv, TicketOnce
<1> QED
  BY <1>3, <1>4 DEF ConsumeStep

(* A command of which no answer arrives: the ticket is written again, or   *)
(* taken from its upgrade, which will then be refused.                     *)
LEMMA LostKeeps ==
    ASSUME TInv, KInv, NEW r \in Requests, LostStep(r)
    PROVE  KInv'
<1>1. req' = req
  BY DEF LostStep
<1>2. tickets \in [Requests -> TicketType]
  BY DEF TInv, TypeOK, TicketsTypeOK
<1>3. \A t \in Requests : PastTicket(t)' = PastTicket(t)
  BY <1>1 DEF PastTicket
<1>4. \A s \in Requests : req'[s].kind = "upgrade" => Presents(s)'
  BY <1>1 DEF KInv, Presents, Granted
<1>5. ASSUME \A t \in Requests : tickets'[t].held => Unused(t)'
      PROVE  KInv'
  <2>1. ASSUME NEW t \in Requests, NEW s \in PastTicket(t)'
        PROVE  /\ PastTicket(t)' = {s} /\ ~tickets'[t].held
               /\ req'[t].answer = "ok" /\ req'[s].user = req'[t].user
    <3>1. s \in PastTicket(t)
      BY <1>3, <2>1
    <3>2. ~tickets'[t].held
      BY <1>5, <2>1 DEF Unused
    <3> QED
      BY <1>1, <1>3, <3>1, <3>2 DEF KInv, TicketOnce
  <2> QED
    BY <1>4, <1>5, <2>1 DEF KInv, TicketOnce
<1>6. ASSUME NEW t \in Requests, tickets'[t] = tickets[t], tickets'[t].held
      PROVE  Unused(t)'
  BY <1>1, <1>3, <1>6 DEF KInv, Unused
<1>7. CASE tickets' = tickets
  BY <1>5, <1>6, <1>7
<1>8. CASE req[r].pc = "create" /\ SetTicket(r, req[r].user, now)
  <2>1. /\ tickets'[r].user = req[r].user
        /\ \A t \in Requests : t # r => tickets'[t] = tickets[t]
    BY <1>2, <1>8 DEF SetTicket
  <2>2. Unused(r)'
    BY <1>1, <1>3, <1>8, <2>1, Unpassed DEF Unused
  <2> QED
    BY <1>5, <1>6, <2>1, <2>2
<1>9. ASSUME NEW t \in Requests, TakeTicket(t, now) PROVE KInv'
  <2>1. /\ ~tickets'[t].held
        /\ \A x \in Requests : x # t => tickets'[x] = tickets[x]
    BY <1>2, <1>9 DEF TakeTicket, Gone
  <2> QED
    BY <1>5, <1>6, <2>1
<1> QED
  BY <1>7, <1>8, <1>9 DEF LostStep

LEMMA ServerKeepsTickets ==
    ASSUME TInv, KInv, NEW p \in Procs, ServerStep(p)
    PROVE  KInv'
<1>1. tickets' = tickets
  BY DEF ServerStep
<1>2. ASSUME NEW s \in Requests
      PROVE  \/ req'[s] = req[s]
             \/ /\ s \in InFlight(p) /\ req'[s].kind = req[s].kind /\ req'[s].pc = "done"
                /\ req'[s].answer = "refused" /\ req'[s].arg = NoArg /\ req'[s].user = 0
  <2>1. CASE s \in InFlight(p) /\ req'[s] = Refused(req[s].kind)
    <3>1. req[s].kind \in Kinds \ {"none"}
      BY <2>1, ReqTypes DEF InFlight, Shape
    <3> QED
      BY <2>1, <3>1, RefusedOK
  <2> QED
    BY <2>1 DEF ServerStep
<1>3. ASSUME NEW t \in Requests, Granted(t) PROVE req'[t] = req[t] /\ Granted(t)'
  <2>1. t \notin InFlight(p)
    BY <1>3, TicketPlaces DEF Granted, InFlight
  <2> QED
    BY <1>2, <1>3, <2>1 DEF Granted
<1>4. \A t \in Requests : PastTicket(t)' \subseteq PastTicket(t)
  BY <1>2 DEF PastTicket
<1>5. ASSUME NEW t \in Requests, tickets'[t].held PROVE Unused(t)'
  <2>1. Unused(t)
    BY <1>1, <1>5 DEF KInv
  <2>2. PastTicket(t)' = {}
    BY <1>4, <2>1 DEF Unused
  <2> QED
    BY <1>1, <1>2, <2>1, <2>2 DEF Unused
<1>6. ASSUME NEW s \in Requests, req'[s].kind = "upgrade" PROVE Presents(s)'
  <2>1. CASE req'[s] = req[s]
    <3>1. Presents(s)
      BY <1>6, <2>1 DEF KInv
    <3>2. req[s].arg # NoArg => req[s].arg \in Requests /\ Granted(req[s].arg)'
      <4>1. ASSUME req[s].arg # NoArg PROVE req[s].arg \in Requests /\ Granted(req[s].arg)
        BY <3>1, <4>1 DEF Presents
      <4> QED
        BY <1>3, <2>1, <4>1 DEF Granted
    <3> QED
      BY <2>1, <3>1, <3>2 DEF Presents, Granted
  <2>2. CASE req'[s].arg = NoArg /\ req'[s].user = 0
    BY <2>2 DEF Presents
  <2> QED
    BY <1>2, <2>1, <2>2
<1>7. ASSUME NEW t \in Requests, NEW s \in PastTicket(t)'
      PROVE  /\ PastTicket(t)' = {s} /\ ~tickets'[t].held
             /\ req'[t].answer = "ok" /\ req'[s].user = req'[t].user
  <2>1. s \in PastTicket(t) /\ s \in Requests
    BY <1>4, <1>7 DEF PastTicket
  <2>2. req'[s] = req[s]
    BY <1>2, <1>7, <2>1 DEF PastTicket
  <2>3. req'[t] = req[t]
    BY <1>3, <2>1, PastGranted
  <2>4. PastTicket(t) = {s} /\ ~tickets[t].held /\ req[t].answer = "ok" /\ req[s].user = req[t].user
    BY <2>1 DEF KInv, TicketOnce
  <2> QED
    BY <1>1, <1>4, <1>7, <2>2, <2>3, <2>4
<1> QED
  BY <1>5, <1>6, <1>7 DEF KInv, TicketOnce

LEMMA KInvKept ==
    ASSUME TInv, KInv, [Next]_vars
    PROVE  KInv'
<1>1. ASSUME NEW r \in Requests, NEW q, Arrives(r, q) PROVE KInv'
  <2>1. req[r].kind # "ticket"
    BY <1>1, ReqTypes, NoRequestOK DEF Arrives, Shape
  <2> QED
    BY <1>1, <2>1, KInvMoves DEF Arrives
<1>2. ASSUME NEW r \in Requests, NEW q, StepOK(r, q), UNCHANGED tickets,
             req[r].pc \notin {"create", "consume"}
      PROVE  KInv'
  <2>1. q \in RequestType /\ Moves(r, q) /\ GoesOn(req[r], q) /\ Shape(req[r])
    BY <1>2, ReqTypes DEF StepOK
  <2>2. req[r].kind # "ticket"
    BY <1>2, <2>1, TicketPlaces DEF GoesOn
  <2>3. ASSUME q.kind = "upgrade"
        PROVE  /\ q.arg # NoArg => q.arg \in Requests /\ Granted(q.arg)
               /\ q.user # 0 => /\ req[r].kind = "upgrade" /\ q.arg = req[r].arg
                                /\ q.user = req[r].user
    <3>1. CASE q = Refused(req[r].kind)
      <4>1. req[r].kind \in Kinds \ {"none"}
        BY <2>1, ReqTypes DEF GoesOn, Shape
      <4>2. q.arg = NoArg /\ q.user = 0
        BY <3>1, <4>1, RefusedOK
      <4> QED
        BY <4>2
    <3>2. CASE /\ q.kind = req[r].kind /\ q.arg = req[r].arg
               /\ q.user = req[r].user \/ req[r].pc \in {"id", "find", "consume"}
      <4>1. q.user = req[r].user
        BY <1>2, <2>1, <2>3, <3>2 DEF Shape
      <4>2. Presents(r)
        BY <2>3, <3>2 DEF KInv
      <4> QED
        BY <2>3, <3>2, <4>1, <4>2 DEF Presents
    <3> QED
      BY <2>1, <3>1, <3>2 DEF GoesOn
  <2> QED
    BY <1>2, <2>1, <2>2, <2>3, KInvMoves
<1>3. ASSUME NEW r \in Requests, NEW q,
             QuietStep(r, q) \/ InsertStep(r, q) \/ LoginStep(r, q) \/ SlotStep(r, q)
      PROVE  KInv'
  <2>1. StepOK(r, q) /\ UNCHANGED tickets /\ req[r].pc \notin {"create", "consume"}
    BY <1>3 DEF QuietStep, InsertStep, LoginStep, SlotStep
  <2> QED
    BY <1>2, <2>1
<1>4. CASE UNCHANGED Rest
  <2>1. req' = req /\ tickets' = tickets
    BY <1>4 DEF Rest
  <2> QED
    BY <2>1 DEF KInv, Unused, Presents, Granted, TicketOnce, PastTicket
<1> QED
  BY <1>1, <1>3, <1>4, CreateKeeps, ConsumeKeeps, LostKeeps, ServerKeepsTickets, StepCases

LEMMA InitKInv == Init => KInv
<1> SUFFICES ASSUME Init PROVE KInv
  OBVIOUS
<1>1. \A r \in Requests : req[r].kind = "none"
  BY NoRequestOK DEF Init
<1>2. \A t \in Requests : ~tickets[t].held
  BY DEF Init, TicketsInit, Gone
<1> QED
  BY <1>1, <1>2 DEF KInv, TicketOnce, PastTicket

(* Create, Consume, Upgrade: however many upgrades present a ticket, on    *)
(* whatever processes, and whether or not the commands of Redis are        *)
(* repeated, it lets at most one past, as the user who asked for it, and   *)
(* is then gone.                                                           *)
THEOREM TicketsOnce == Spec => []TicketOnce
<1>1. Init => TInv /\ RInv /\ KInv
  BY InitTInv, InitKInv
<1>2. TInv /\ RInv /\ KInv /\ [Next]_vars => (TInv /\ RInv /\ KInv)'
  BY TInvKept, KInvKept
<1>3. TInv /\ RInv /\ KInv => TicketOnce
  BY DEF KInv
<1> QED
  BY <1>1, <1>2, <1>3, PTL DEF Spec
=============================================================================
