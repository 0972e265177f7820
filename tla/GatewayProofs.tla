--------------------------- MODULE GatewayProofs ----------------------------
(***************************************************************************)
(* Proofs about the two tables a gateway keeps in Redis: the routes of its *)
(* connections (Presence) and the entries of the messages its clients send *)
(* (SendGateway).                                                          *)
(*                                                                         *)
(* Presence, for any number of connections and all values of the heartbeat *)
(* parameters that satisfy the assumptions. The inductive invariant ties   *)
(* the three clocks of a connection together. Timing bounds the age of the *)
(* last pong by the distance to the next heartbeat, Kept says what the     *)
(* route key and the member have left in terms of that age, and Looking    *)
(* carries both through the pipelines of a lookup.                         *)
(*                                                                         *)
(* Service.Send on any number of gateways, with or without the Redis       *)
(* fallback, through any number of crashes. That accepted is never a lie   *)
(* rests on Backed: each of the three ways to that answer (the mark after  *)
(* a publish, an accepted entry, a publish without a nonce) has the        *)
(* record, or the swallowed error, behind it. That one request publishes a *)
(* message at a time rests on HolderIsTaker: as long as the entry did not  *)
(* expire under it, the request that holds a nonce is the one that took    *)
(* the entry last, and the entry is still its own, so no other request can *)
(* have found it free. And that a late Mark or Release spares the entries  *)
(* of others rests on Issued: without restarts, the nonces of a gateway    *)
(* are issued once.                                                        *)
(***************************************************************************)
EXTENDS Presence, SendGateway, TLAPS

(* Every write of the connection went through.                             *)
Sound(c) ==
    /\ st[c] = "open"
    /\ c \notin overtook
    /\ \A w \in Writes : <<w, c>> \notin failed

(* Nothing in Redis, in flight or in a lookup names an id not yet in use.  *)
Unborn ==
    \A c \in Conns : st[c] = "none" =>
        /\ routeTTL[c] = 0
        /\ c \notin member
        /\ c \notin removed
        /\ c \notin look.ids
        /\ \A w \in Writes : <<w, c>> \notin late

(* Only the end of a connection removes its entries.                       *)
Gone ==
    \A c \in Conns : c \in removed \/ <<"remove", c>> \in late => st[c] = "gone"

(* The heartbeat loop never lets the last pong get older than this.        *)
Timing ==
    \A c \in Conns : st[c] = "open" => pongAge[c] + phase[c] <= Missed * Interval + Interval

(* The entries of a connection count down from its last pong.              *)
Kept ==
    \A c \in Conns : Sound(c) =>
        /\ routeTTL[c] = HashTTL - pongAge[c]
        /\ score[c] = HashTTL - pongAge[c]
        /\ pongAge[c] < HashTTL => c \in member

(* What a lookup has read stays true of the connections it concerns.       *)
Looking ==
    /\ look.pc = "routes" => look.steady \subseteq look.ids
    /\ look.pc = "cleanup" =>
          /\ look.steady \subseteq look.found
          /\ \A c \in look.ids \ look.found :
                /\ routeTTL[c] > 0 => <<"register", c>> \in failed
                /\ Sound(c) => pongAge[c] >= HashTTL

IInv ==
    /\ TypeOK
    /\ late \subseteq failed
    /\ Unborn
    /\ Gone
    /\ Timing
    /\ Kept
    /\ Looking
    /\ RemovedStaysRemoved

-----------------------------------------------------------------------------
(* The constants as the arithmetic needs them.                             *)
LEMMA Constants ==
    /\ Interval \in Nat /\ Interval > 0
    /\ HashTTL \in Nat /\ MaxFaults \in Nat
    /\ Missed * Interval \in Nat
    /\ HashTTL >= Missed * Interval + Interval
BY PresenceConstants, TTLCoversHeartbeats

(* The initial states. *)
LEMMA InitIInv == Init => IInv
BY Constants DEF Init, IInv, TypeOK, Unborn, Gone, Timing, Kept, Looking, Sound, RemovedStaysRemoved,
                 NoLookup, LookupType, Writes

(* A steady connection has all its entries: the arithmetic of the clocks.  *)
LEMMA SteadyIsListed ==
    ASSUME IInv, NEW c \in Conns, Steady(c)
    PROVE  routeTTL[c] > 0 /\ score[c] > 0 /\ c \in member
<1>1. Sound(c) /\ phase[c] > 0
  BY DEF Steady, Sound
<1>2. pongAge[c] \in Nat /\ phase[c] \in Nat
  BY Constants DEF IInv, TypeOK
<1>3. pongAge[c] < HashTTL
  BY <1>1, <1>2, Constants DEF IInv, Timing, Sound
<1>4. QED
  BY <1>1, <1>2, <1>3, Constants DEF IInv, Kept

(* Connect, its registration gone through. *)
LEMMA ConnectKeeps ==
    ASSUME IInv, NEW c \in Conns, Connect(c), Run("register", c), UNCHANGED <<late, failed, faults>>
    PROVE  IInv'
<1> USE Constants DEF IInv, TypeOK, Writes, Connect, Run, Register, AddMember, connVars, redisVars
<1>1. TypeOK'
  BY DEF LookupType
<1>2. late' \subseteq failed'
  OBVIOUS
<1>3. Unborn'
  BY DEF Unborn, LookupType
<1>4. Gone'
  BY DEF Gone, Unborn
<1>5. Timing'
  BY DEF Timing
<1>6. Kept'
  BY DEF Kept, Timing, Sound, Unborn
<1>7. Looking'
  BY DEF Looking, Kept, Sound, Unborn, LookupType
<1>8. RemovedStaysRemoved'
  BY DEF RemovedStaysRemoved, Gone, Unborn
<1>9. QED
  BY <1>1, <1>2, <1>3, <1>4, <1>5, <1>6, <1>7, <1>8 DEF IInv

(* Connect, its registration failed. *)
LEMMA ConnectFailsKeeps ==
    ASSUME IInv, NEW c \in Conns, Connect(c), Fails("register", c)
    PROVE  IInv'
<1> USE Constants DEF IInv, TypeOK, Writes, Connect, Fails, FirstCommand, connVars, redisVars
<1>1. TypeOK'
  BY DEF LookupType
<1>2. late' \subseteq failed'
  OBVIOUS
<1>3. Unborn'
  BY DEF Unborn, LookupType
<1>4. Gone'
  BY DEF Gone, Unborn
<1>5. Timing'
  BY DEF Timing
<1>6. Kept'
  BY DEF Kept, Timing, Sound, Unborn
<1>7. Looking'
  BY DEF Looking, Kept, Sound, Unborn, LookupType
<1>8. RemovedStaysRemoved'
  BY DEF RemovedStaysRemoved, Gone, Unborn
<1>9. QED
  BY <1>1, <1>2, <1>3, <1>4, <1>5, <1>6, <1>7, <1>8 DEF IInv

(* A pong whose heartbeat went through. *)
LEMMA PongKeeps ==
    ASSUME IInv, NEW c \in Conns, Pong(c), Run("heartbeat", c), UNCHANGED <<late, failed, faults>>
    PROVE  IInv'
<1> USE Constants DEF IInv, TypeOK, Writes, Pong, Run, Heartbeat, AddMember, connVars, redisVars
<1>1. TypeOK'
  BY DEF LookupType
<1>2. late' \subseteq failed'
  OBVIOUS
<1>3. Unborn'
  BY DEF Unborn, LookupType
<1>4. Gone'
  BY DEF Gone, Unborn
<1>5. Timing'
  BY DEF Timing
<1>6. Kept'
  BY DEF Kept, Timing, Sound, Unborn
<1>7. Looking'
  BY DEF Looking, Kept, Sound, Unborn, LookupType
<1>8. RemovedStaysRemoved'
  BY DEF RemovedStaysRemoved, Gone, Unborn
<1>9. QED
  BY <1>1, <1>2, <1>3, <1>4, <1>5, <1>6, <1>7, <1>8 DEF IInv

(* A pong whose heartbeat failed. *)
LEMMA PongFailsKeeps ==
    ASSUME IInv, NEW c \in Conns, Pong(c), Fails("heartbeat", c)
    PROVE  IInv'
<1> USE Constants DEF IInv, TypeOK, Writes, Pong, Fails, FirstCommand, connVars, redisVars
<1>1. TypeOK'
  BY DEF LookupType
<1>2. late' \subseteq failed'
  OBVIOUS
<1>3. Unborn'
  BY DEF Unborn, LookupType
<1>4. Gone'
  BY DEF Gone, Unborn
<1>5. Timing'
  BY DEF Timing
<1>6. Kept'
  BY DEF Kept, Timing, Sound, Unborn
<1>7. Looking'
  BY DEF Looking, Kept, Sound, Unborn, LookupType
<1>8. RemovedStaysRemoved'
  BY DEF RemovedStaysRemoved, Gone, Unborn
<1>9. QED
  BY <1>1, <1>2, <1>3, <1>4, <1>5, <1>6, <1>7, <1>8 DEF IInv

(* The end of a connection, its entries removed. *)
LEMMA DisconnectKeeps ==
    ASSUME IInv, NEW c \in Conns, Disconnect(c), Run("remove", c), UNCHANGED <<late, failed, faults>>
    PROVE  IInv'
<1> USE Constants DEF IInv, TypeOK, Writes, Disconnect, Run, Remove, connVars, redisVars
<1>1. TypeOK'
  BY DEF LookupType
<1>2. late' \subseteq failed'
  OBVIOUS
<1>3. Unborn'
  BY DEF Unborn, LookupType
<1>4. Gone'
  BY DEF Gone, Unborn
<1>5. Timing'
  BY DEF Timing
<1>6. Kept'
  BY DEF Kept, Timing, Sound, Unborn
<1>7. Looking'
  BY DEF Looking, Kept, Sound, Unborn, LookupType
<1>8. RemovedStaysRemoved'
  BY DEF RemovedStaysRemoved, Gone, Unborn
<1>9. QED
  BY <1>1, <1>2, <1>3, <1>4, <1>5, <1>6, <1>7, <1>8 DEF IInv

(* The end of a connection, its Remove failed. *)
LEMMA DisconnectFailsKeeps ==
    ASSUME IInv, NEW c \in Conns, Disconnect(c), Fails("remove", c)
    PROVE  IInv'
<1> USE Constants DEF IInv, TypeOK, Writes, Disconnect, Fails, FirstCommand, connVars, redisVars
<1>1. TypeOK'
  BY DEF LookupType
<1>2. late' \subseteq failed'
  OBVIOUS
<1>3. Unborn'
  BY DEF Unborn, LookupType
<1>4. Gone'
  BY DEF Gone, Unborn
<1>5. Timing'
  BY DEF Timing
<1>6. Kept'
  BY DEF Kept, Timing, Sound, Unborn
<1>7. Looking'
  BY DEF Looking, Kept, Sound, Unborn, LookupType
<1>8. RemovedStaysRemoved'
  BY DEF RemovedStaysRemoved, Gone, Unborn
<1>9. QED
  BY <1>1, <1>2, <1>3, <1>4, <1>5, <1>6, <1>7, <1>8 DEF IInv

(* A heartbeat that is due. *)
LEMMA HeartbeatDueKeeps ==
    ASSUME IInv, NEW c \in Conns, HeartbeatDue(c)
    PROVE  IInv'
<1> USE Constants DEF IInv, TypeOK, Writes, HeartbeatDue, connVars, redisVars
<1>1. TypeOK'
  BY DEF LookupType
<1>2. late' \subseteq failed'
  OBVIOUS
<1>3. Unborn'
  BY DEF Unborn, LookupType
<1>4. Gone'
  BY DEF Gone, Unborn
<1>5. Timing'
  BY DEF Timing
<1>6. Kept'
  BY DEF Kept, Timing, Sound, Unborn
<1>7. Looking'
  BY DEF Looking, Kept, Sound, Unborn, LookupType
<1>8. RemovedStaysRemoved'
  BY DEF RemovedStaysRemoved, Gone, Unborn
<1>9. QED
  BY <1>1, <1>2, <1>3, <1>4, <1>5, <1>6, <1>7, <1>8 DEF IInv

(* A write that reaches Redis late. *)
LEMMA LandKeeps ==
    ASSUME IInv, NEW c \in Conns, NEW w \in Writes, Land(w, c)
    PROVE  IInv'
<1> USE Constants DEF IInv, TypeOK, Writes, Land, Run, Register, Heartbeat, Remove, AddMember,
                     connVars, redisVars
<1>1. TypeOK'
  BY DEF LookupType
<1>2. late' \subseteq failed'
  OBVIOUS
<1>3. Unborn'
  BY DEF Unborn, LookupType
<1>4. Gone'
  BY DEF Gone, Unborn
<1>5. Timing'
  BY DEF Timing
<1>6. Kept'
  BY DEF Kept, Timing, Sound, Unborn
<1>7. Looking'
  BY DEF Looking, Kept, Sound, Unborn, LookupType
<1>8. RemovedStaysRemoved'
  BY DEF RemovedStaysRemoved, Gone, Unborn
<1>9. QED
  BY <1>1, <1>2, <1>3, <1>4, <1>5, <1>6, <1>7, <1>8 DEF IInv

(* Gateways that die. *)
LEMMA CrashKeeps ==
    ASSUME IInv, NEW cs \in SUBSET Conns, Crash(cs)
    PROVE  IInv'
<1> USE Constants DEF IInv, TypeOK, Writes, Crash, connVars, redisVars
<1>1. TypeOK'
  BY DEF LookupType
<1>2. late' \subseteq failed'
  OBVIOUS
<1>3. Unborn'
  BY DEF Unborn, LookupType
<1>4. Gone'
  BY DEF Gone, Unborn
<1>5. Timing'
  BY DEF Timing
<1>6. Kept'
  BY DEF Kept, Timing, Sound, Unborn
<1>7. Looking'
  BY DEF Looking, Kept, Sound, Unborn, LookupType
<1>8. RemovedStaysRemoved'
  BY DEF RemovedStaysRemoved, Gone, Unborn
<1>9. QED
  BY <1>1, <1>2, <1>3, <1>4, <1>5, <1>6, <1>7, <1>8 DEF IInv

(* Time. *)
LEMMA TickKeeps ==
    ASSUME IInv, Tick
    PROVE  IInv'
<1> USE Constants DEF IInv, TypeOK, Writes, Tick, Down, connVars, redisVars
<1>1. TypeOK'
  BY DEF LookupType
<1>2. late' \subseteq failed'
  OBVIOUS
<1>3. Unborn'
  BY DEF Unborn, LookupType
<1>4. Gone'
  BY DEF Gone, Unborn
<1>5. Timing'
  BY DEF Timing
<1>6. Kept'
  BY DEF Kept, Timing, Sound, Unborn
<1>7. Looking'
  BY DEF Looking, Kept, Sound, Unborn, LookupType
<1>8. RemovedStaysRemoved'
  BY DEF RemovedStaysRemoved, Gone, Unborn
<1>9. QED
  BY <1>1, <1>2, <1>3, <1>4, <1>5, <1>6, <1>7, <1>8 DEF IInv

(* The first pipeline of a lookup. *)
LEMMA ReadMembersKeeps ==
    ASSUME IInv, ReadMembers
    PROVE  IInv'
<1> USE Constants DEF IInv, TypeOK, Writes, ReadMembers, Steady, connVars, redisVars
<1>1. TypeOK'
  BY DEF LookupType
<1>2. late' \subseteq failed'
  OBVIOUS
<1>3. Unborn'
  BY DEF Unborn, LookupType
<1>4. Gone'
  BY DEF Gone, Unborn
<1>5. Timing'
  BY DEF Timing
<1>6. Kept'
  BY DEF Kept, Timing, Sound, Unborn
<1>7. Looking'
  <2>1. \A c \in Conns : Steady(c) => c \in member /\ score[c] > 0
    BY SteadyIsListed
  <2>2. look'.pc = "routes" /\ look'.steady \subseteq look'.ids
    BY <2>1 DEF ReadMembers
  <2>3. QED
    BY <2>2 DEF Looking
<1>8. RemovedStaysRemoved'
  BY DEF RemovedStaysRemoved, Gone, Unborn
<1>9. QED
  BY <1>1, <1>2, <1>3, <1>4, <1>5, <1>6, <1>7, <1>8 DEF IInv

(* The second pipeline of a lookup. *)
LEMMA ReadRoutesKeeps ==
    ASSUME IInv, ReadRoutes
    PROVE  IInv'
<1> USE Constants DEF IInv, TypeOK, Writes, ReadRoutes, Steady, connVars, redisVars
<1>1. TypeOK'
  BY DEF LookupType
<1>2. late' \subseteq failed'
  OBVIOUS
<1>3. Unborn'
  BY DEF Unborn, LookupType
<1>4. Gone'
  BY DEF Gone, Unborn
<1>5. Timing'
  BY DEF Timing
<1>6. Kept'
  BY DEF Kept, Timing, Sound, Unborn
<1>7. Looking'
  <2>1. \A c \in Conns : Steady(c) => routeTTL[c] > 0
    BY SteadyIsListed
  <2>2. look'.pc = "cleanup" /\ look'.ids = look.ids
    BY DEF ReadRoutes, IInv, TypeOK, LookupType
  <2>3. look'.steady \subseteq look'.found
    BY <2>1 DEF ReadRoutes, IInv, Looking, TypeOK, LookupType
  <2>4. ASSUME NEW c \in look'.ids \ look'.found
        PROVE  routeTTL'[c] = 0 /\ (Sound(c)' => pongAge'[c] >= HashTTL)
    <3>1. c \in Conns /\ routeTTL[c] = 0
      BY <2>4, Constants DEF ReadRoutes, IInv, TypeOK, LookupType
    <3>2. Sound(c)' => Sound(c)
      BY DEF ReadRoutes, connVars, Sound
    <3>3. Sound(c) => pongAge[c] >= HashTTL
      BY <3>1, Constants DEF IInv, TypeOK, Kept
    <3>4. QED
      BY <3>1, <3>2, <3>3 DEF ReadRoutes, connVars, redisVars
  <2>5. QED
    BY <2>2, <2>3, <2>4 DEF Looking
<1>8. RemovedStaysRemoved'
  BY DEF RemovedStaysRemoved, Gone, Unborn
<1>9. QED
  BY <1>1, <1>2, <1>3, <1>4, <1>5, <1>6, <1>7, <1>8 DEF IInv

(* The cleanup of a lookup. *)
LEMMA CleanUpKeeps ==
    ASSUME IInv, CleanUp
    PROVE  IInv'
<1> USE Constants DEF IInv, TypeOK, Writes, CleanUp, NoLookup, connVars, redisVars
<1>1. TypeOK'
  BY DEF LookupType
<1>2. late' \subseteq failed'
  OBVIOUS
<1>3. Unborn'
  BY DEF Unborn, LookupType
<1>4. Gone'
  BY DEF Gone, Unborn
<1>5. Timing'
  BY DEF Timing
<1>6. Kept'
  BY DEF Kept, Timing, Sound, Unborn, Looking, LookupType
<1>7. Looking'
  BY DEF Looking, Kept, Sound, Unborn, LookupType
<1>8. RemovedStaysRemoved'
  BY DEF RemovedStaysRemoved, Gone, Unborn
<1>9. QED
  BY <1>1, <1>2, <1>3, <1>4, <1>5, <1>6, <1>7, <1>8 DEF IInv

(* A lookup that fails. *)
LEMMA LookupFailsKeeps ==
    ASSUME IInv, LookupFails
    PROVE  IInv'
<1> USE Constants DEF IInv, TypeOK, Writes, LookupFails, NoLookup, connVars, redisVars
<1>1. TypeOK'
  BY DEF LookupType
<1>2. late' \subseteq failed'
  OBVIOUS
<1>3. Unborn'
  BY DEF Unborn, LookupType
<1>4. Gone'
  BY DEF Gone, Unborn
<1>5. Timing'
  BY DEF Timing
<1>6. Kept'
  BY DEF Kept, Timing, Sound, Unborn
<1>7. Looking'
  BY DEF Looking, Kept, Sound, Unborn, LookupType
<1>8. RemovedStaysRemoved'
  BY DEF RemovedStaysRemoved, Gone, Unborn
<1>9. QED
  BY <1>1, <1>2, <1>3, <1>4, <1>5, <1>6, <1>7, <1>8 DEF IInv

(* No change. *)
LEMMA StutterKeeps ==
    ASSUME IInv, UNCHANGED vars
    PROVE  IInv'
<1> USE Constants DEF IInv, TypeOK, Writes, vars, connVars, redisVars
<1>1. TypeOK'
  BY DEF LookupType
<1>2. late' \subseteq failed'
  OBVIOUS
<1>3. Unborn'
  BY DEF Unborn, LookupType
<1>4. Gone'
  BY DEF Gone, Unborn
<1>5. Timing'
  BY DEF Timing
<1>6. Kept'
  BY DEF Kept, Timing, Sound, Unborn
<1>7. Looking'
  BY DEF Looking, Kept, Sound, Unborn, LookupType
<1>8. RemovedStaysRemoved'
  BY DEF RemovedStaysRemoved, Gone, Unborn
<1>9. QED
  BY <1>1, <1>2, <1>3, <1>4, <1>5, <1>6, <1>7, <1>8 DEF IInv

(* Every step keeps the invariant.                                         *)
LEMMA NextIInv == IInv /\ [Next]_vars => IInv'
<1> SUFFICES ASSUME IInv, [Next]_vars PROVE IInv'
  OBVIOUS
<1>1. ASSUME NEW c \in Conns, Connect(c) PROVE IInv'
  <2>1. Write("register", c)
    BY <1>1 DEF Connect
  <2>2. QED
    BY <1>1, <2>1, ConnectKeeps, ConnectFailsKeeps DEF Write
<1>2. ASSUME NEW c \in Conns, Pong(c) PROVE IInv'
  <2>1. Write("heartbeat", c)
    BY <1>2 DEF Pong
  <2>2. QED
    BY <1>2, <2>1, PongKeeps, PongFailsKeeps DEF Write
<1>3. ASSUME NEW c \in Conns, Disconnect(c) PROVE IInv'
  <2>1. Write("remove", c)
    BY <1>3 DEF Disconnect
  <2>2. QED
    BY <1>3, <2>1, DisconnectKeeps, DisconnectFailsKeeps DEF Write
<1>4. ASSUME NEW c \in Conns, HeartbeatDue(c) PROVE IInv'
  BY <1>4, HeartbeatDueKeeps
<1>5. ASSUME NEW c \in Conns, NEW w \in Writes, Land(w, c) PROVE IInv'
  BY <1>5, LandKeeps
<1>6. ASSUME NEW cs \in SUBSET Conns, Crash(cs) PROVE IInv'
  BY <1>6, CrashKeeps
<1>7. CASE Tick
  BY <1>7, TickKeeps
<1>8. CASE ReadMembers \/ ReadRoutes \/ CleanUp \/ LookupFails
  BY <1>8, ReadMembersKeeps, ReadRoutesKeeps, CleanUpKeeps, LookupFailsKeeps
<1>9. CASE UNCHANGED vars
  BY <1>9, StutterKeeps
<1>10. QED
  BY <1>1, <1>2, <1>3, <1>4, <1>5, <1>6, <1>7, <1>8, <1>9 DEF Next

(* The invariant holds in every reachable state. *)
LEMMA AlwaysIInv == Spec => []IInv
BY InitIInv, NextIInv, PTL DEF Spec

-----------------------------------------------------------------------------
(* The entries in Redis, the clocks and the lookups keep their types.      *)
THEOREM TypeCorrect == Spec => []TypeOK
<1>1. IInv => TypeOK
  BY DEF IInv
<1>2. QED
  BY <1>1, AlwaysIInv, PTL

(* As long as Redis takes every write of a connection, the connection is   *)
(* never open without its route key: heartbeatLoop closes it first, for    *)
(* every interval, threshold and TTL that covers threshold and interval.   *)
THEOREM RoutesOutliveConns == Spec => []RouteOutlivesConn
<1>1. IInv => RouteOutlivesConn
  BY SteadyIsListed DEF RouteOutlivesConn
<1>2. QED
  BY <1>1, AlwaysIInv, PTL

(* OnlineConnectionsBatch finds every connection that was open and         *)
(* undisturbed while it ran.                                               *)
THEOREM LookupsFindOnline == Spec => []OnlineIsFound
<1>1. IInv => OnlineIsFound
  BY DEF IInv, Looking, OnlineIsFound
<1>2. QED
  BY <1>1, AlwaysIInv, PTL

(* Remove is final, whatever heartbeats reach Redis after it.              *)
THEOREM RemoveIsFinal == Spec => []RemovedStaysRemoved
<1>1. IInv => RemovedStaysRemoved
  BY DEF IInv
<1>2. QED
  BY <1>1, AlwaysIInv, PTL

(* The cleanup of a lookup spares every connection with a route key.       *)
THEOREM CleanupIsSafe == Spec => CleanupSparesRouted
<1>1. ASSUME IInv, CleanUp, NEW c \in member, routeTTL[c] > 0, <<"register", c>> \notin failed
      PROVE  c \in member'
  BY <1>1 DEF CleanUp, IInv, Looking
<1>2. IInv => (CleanUp => \A c \in member : routeTTL[c] > 0 /\ <<"register", c>> \notin failed
                                                => c \in member')
  BY <1>1
<1>3. QED
  BY <1>2, AlwaysIInv, PTL DEF CleanupSparesRouted

-----------------------------------------------------------------------------
(***************************************************************************)
(* Service.Send                                                            *)
(***************************************************************************)

(* Whatever leads to the answer accepted has its record or its swallowed   *)
(* publish.                                                                *)
Backed ==
    /\ \A k \in Keys : idem[k].st = "accepted" => k \in inbox \cup swallowed
    /\ \A r \in Reqs : pc[r] = "mark" => key[r] \in inbox \cup swallowed

(* A request has its nonce from Acquire, and only to mark or release with. *)
NonceKnown ==
    \A r \in Reqs :
        /\ pc[r] = "acquire" => nonce[r] = 0
        /\ pc[r] \in {"mark", "release"} => nonce[r] # 0

(* A request that holds a nonce still owns the entry it took with it.      *)
HolderIsTaker ==
    \A r \in Reqs : Holds(r) /\ key[r] \notin overran =>
        /\ taker[key[r]] = r
        /\ idem[key[r]] = Processing(nonce[r])

(* Until the first crash a gateway issues each nonce once: the entry that  *)
(* carries it and the request that knows it are the same acquisition.      *)
Issued ==
    crashes = 0 =>
        /\ \A r \in Reqs : nonce[r] <= nonceSeq[r[1]]
        /\ \A k \in Keys : idem[k].st = "processing" =>
              taker[k] \in Reqs /\ idem[k].nonce <= nonceSeq[taker[k][1]]
        /\ \A r \in Reqs, k \in Keys :
              Holds(r) /\ idem[k] = Processing(nonce[r]) /\ taker[k][1] = r[1] => taker[k] = r

SendIInv ==
    /\ SendTypeOK
    /\ AcceptedUnlessSwallowed
    /\ Backed
    /\ NonceKnown
    /\ HolderIsTaker
    /\ Issued

-----------------------------------------------------------------------------
(* The values an entry can get. *)
LEMMA EntriesOK ==
    /\ NoEntry \in Entries /\ Accepted \in Entries
    /\ \A n \in 0..MaxNonce : Processing(n) \in Entries
BY SendBounds DEF NoEntry, Accepted, Processing, Entries

LEMMA SendInitIInv == SendInit => SendIInv
BY SendBounds, NoReqAssumption
   DEF SendInit, SendIInv, SendTypeOK, AcceptedUnlessSwallowed, Backed, NonceKnown, HolderIsTaker, Issued,
       Holds, InFlight, Reqs, Entries, NoEntry, Processing, Steps

(* A request starts, with no nonce. *)
LEMMA SendKeeps ==
    ASSUME SendIInv, NEW r \in Reqs, NEW k \in Keys, Send(r, k)
    PROVE  SendIInv'
<1> USE SendBounds DEF SendIInv, SendTypeOK, Send, Goto, history
<1>1. SendTypeOK'
  BY DEF Entries, Steps, NoEntry, Accepted, Processing, Reqs
<1>2. AcceptedUnlessSwallowed'
  BY DEF AcceptedUnlessSwallowed, Backed
<1>3. Backed'
  BY DEF AcceptedUnlessSwallowed, Backed, Accepted, NoEntry, Processing
<1>4. NonceKnown'
  BY DEF NonceKnown, Reqs
<1>5. HolderIsTaker'
  BY DEF HolderIsTaker, NonceKnown, Holds, InFlight, Accepted, NoEntry, Processing
<1>6. Issued'
  BY DEF Issued, NonceKnown, Holds, InFlight, Accepted, NoEntry, Processing, Reqs
<1>7. QED
  BY <1>1, <1>2, <1>3, <1>4, <1>5, <1>6

(* The entry is taken, or answers for itself. *)
LEMMA AcquireKeeps ==
    ASSUME SendIInv, NEW r \in Reqs, Acquire(r)
    PROVE  SendIInv'
<1> USE SendBounds DEF SendIInv, SendTypeOK, Acquire, newNonce, Goto
<1>0. /\ r[1] \in Gateways
      /\ nonceSeq[r[1]] + 1 \in 0..MaxNonce
      /\ Processing(nonceSeq[r[1]] + 1) \in Entries
      /\ key[r] \in Keys
  BY EntriesOK DEF Reqs
<1>1. SendTypeOK'
  <2>1. idem' \in [Keys -> Entries]
    BY <1>0
  <2>2. nonceSeq' \in [Gateways -> 0..MaxNonce] /\ nonce' \in [Reqs -> 0..MaxNonce]
    BY <1>0
  <2>3. pc' \in [Reqs -> Steps]
    BY DEF Steps
  <2>4. taker' \in [Keys -> Reqs \cup {NoReq}] /\ accepted' \subseteq Keys
    BY <1>0
  <2>5. QED
    BY <2>1, <2>2, <2>3, <2>4
<1>2. AcceptedUnlessSwallowed'
  BY DEF AcceptedUnlessSwallowed, Backed
<1>3. Backed'
  BY DEF AcceptedUnlessSwallowed, Backed, Accepted, NoEntry, Processing
<1>4. NonceKnown'
  BY DEF NonceKnown, Reqs
<1>5. HolderIsTaker'
  BY DEF HolderIsTaker, NonceKnown, Holds, InFlight, Accepted, NoEntry, Processing
<1>6. Issued'
  <2> SUFFICES ASSUME crashes = 0
               PROVE  /\ \A x \in Reqs : nonce'[x] <= nonceSeq'[x[1]]
                      /\ \A k \in Keys : idem'[k].st = "processing" =>
                            taker'[k] \in Reqs /\ idem'[k].nonce <= nonceSeq'[taker'[k][1]]
                      /\ \A x \in Reqs, k \in Keys :
                            Holds(x)' /\ idem'[k] = Processing(nonce'[x]) /\ taker'[k][1] = x[1]
                            => taker'[k] = x
    BY DEF Issued, Processing
  <2> DEFINE n == nonceSeq[r[1]] + 1
  <2>0. /\ \A x \in Reqs : x[1] \in Gateways
        /\ \A g \in Gateways : nonceSeq[g] \in Nat /\ nonceSeq'[g] \in Nat
                               /\ nonceSeq[g] <= nonceSeq'[g]
        /\ nonceSeq'[r[1]] = n /\ n \in Nat
        /\ \A x \in Reqs : nonce[x] \in Nat /\ nonce[x] <= nonceSeq[x[1]]
        /\ \A k \in Keys : idem[k].nonce \in Nat
    BY <1>0 DEF Issued, Reqs, Entries
  <2>a. \A x \in Reqs : x # r => nonce'[x] = nonce[x] /\ pc'[x] = pc[x]
    OBVIOUS
  <2>b. \A k \in Keys : \/ idem'[k] = idem[k] /\ taker'[k] = taker[k]
                        \/ idem'[k] = Processing(n) /\ taker'[k] = r
    OBVIOUS
  <2>c. nonce'[r] \in {nonce[r], n} /\ (Holds(r)' => nonce'[r] = n)
    BY DEF NonceKnown, Holds, InFlight
  <2>1. \A x \in Reqs : nonce'[x] <= nonceSeq'[x[1]]
    BY <2>0, <2>a, <2>c
  <2>2. ASSUME NEW k \in Keys, idem'[k].st = "processing"
        PROVE  taker'[k] \in Reqs /\ idem'[k].nonce <= nonceSeq'[taker'[k][1]]
    <3>1. CASE idem'[k] = idem[k] /\ taker'[k] = taker[k]
      BY <2>0, <2>2, <3>1 DEF Issued
    <3>2. CASE idem'[k] = Processing(n) /\ taker'[k] = r
      BY <2>0, <3>2 DEF Processing
    <3>3. QED
      BY <2>b, <3>1, <3>2
  <2>3. ASSUME NEW x \in Reqs, NEW k \in Keys, Holds(x)', idem'[k] = Processing(nonce'[x]),
               taker'[k][1] = x[1]
        PROVE  taker'[k] = x
    <3>1. CASE x = r
      <4>1. nonce'[x] = n
        BY <2>3, <2>c, <3>1
      <4>2. ~ (idem'[k] = idem[k] /\ taker'[k] = taker[k])
        <5> SUFFICES ASSUME idem'[k] = idem[k], taker'[k] = taker[k] PROVE FALSE
          OBVIOUS
        <5>1. idem[k].st = "processing" /\ idem[k].nonce = n
          BY <2>3, <4>1 DEF Processing
        <5>2. idem[k].nonce <= nonceSeq[r[1]]
          BY <2>3, <3>1, <5>1 DEF Issued
        <5>3. QED
          BY <2>0, <5>1, <5>2
      <4>3. QED
        BY <2>b, <3>1, <4>2
    <3>2. CASE x # r
      <4>1. nonce'[x] = nonce[x] /\ Holds(x)
        BY <2>3, <2>a, <3>2 DEF Holds, InFlight
      <4>2. CASE idem'[k] = idem[k] /\ taker'[k] = taker[k]
        BY <2>3, <4>1, <4>2 DEF Issued
      <4>3. CASE idem'[k] = Processing(n) /\ taker'[k] = r
        <5>1. nonce[x] = n
          BY <2>3, <4>1, <4>3 DEF Processing
        <5>2. nonce[x] <= nonceSeq[r[1]]
          BY <2>0, <2>3, <4>3
        <5>3. QED
          BY <2>0, <5>1, <5>2
      <4>4. QED
        BY <2>b, <4>2, <4>3
    <3>3. QED
      BY <3>1, <3>2
  <2>4. QED
    BY <2>1, <2>2, <2>3
<1>7. QED
  BY <1>1, <1>2, <1>3, <1>4, <1>5, <1>6

(* The script may have run for a request that does not know it. *)
LEMMA AcquireFailsKeeps ==
    ASSUME SendIInv, NEW r \in Reqs, AcquireFails(r)
    PROVE  SendIInv'
<1> USE SendBounds DEF SendIInv, SendTypeOK, AcquireFails, newNonce, Goto
<1>0. /\ r[1] \in Gateways
      /\ nonceSeq[r[1]] + 1 \in 0..MaxNonce
      /\ Processing(nonceSeq[r[1]] + 1) \in Entries
      /\ key[r] \in Keys
  BY EntriesOK DEF Reqs
<1>1. SendTypeOK'
  <2>1. idem' \in [Keys -> Entries]
    BY <1>0
  <2>2. nonceSeq' \in [Gateways -> 0..MaxNonce] /\ nonce' \in [Reqs -> 0..MaxNonce]
    BY <1>0
  <2>3. pc' \in [Reqs -> Steps]
    BY DEF Steps
  <2>4. taker' \in [Keys -> Reqs \cup {NoReq}] /\ accepted' \subseteq Keys
    BY <1>0
  <2>5. QED
    BY <2>1, <2>2, <2>3, <2>4
<1>2. AcceptedUnlessSwallowed'
  BY DEF AcceptedUnlessSwallowed, Backed
<1>3. Backed'
  BY DEF AcceptedUnlessSwallowed, Backed, Accepted, NoEntry, Processing
<1>4. NonceKnown'
  BY DEF NonceKnown, Reqs
<1>5. HolderIsTaker'
  BY DEF HolderIsTaker, NonceKnown, Holds, InFlight, Accepted, NoEntry, Processing
<1>6. Issued'
  <2> SUFFICES ASSUME crashes = 0
               PROVE  /\ \A x \in Reqs : nonce'[x] <= nonceSeq'[x[1]]
                      /\ \A k \in Keys : idem'[k].st = "processing" =>
                            taker'[k] \in Reqs /\ idem'[k].nonce <= nonceSeq'[taker'[k][1]]
                      /\ \A x \in Reqs, k \in Keys :
                            Holds(x)' /\ idem'[k] = Processing(nonce'[x]) /\ taker'[k][1] = x[1]
                            => taker'[k] = x
    BY DEF Issued, Processing
  <2> DEFINE n == nonceSeq[r[1]] + 1
  <2>0. /\ \A x \in Reqs : x[1] \in Gateways
        /\ \A g \in Gateways : nonceSeq[g] \in Nat /\ nonceSeq'[g] \in Nat
                               /\ nonceSeq[g] <= nonceSeq'[g]
        /\ nonceSeq'[r[1]] = n /\ n \in Nat
        /\ \A x \in Reqs : nonce[x] \in Nat /\ nonce[x] <= nonceSeq[x[1]]
        /\ \A k \in Keys : idem[k].nonce \in Nat
    BY <1>0 DEF Issued, Reqs, Entries
  <2>a. \A x \in Reqs : x # r => nonce'[x] = nonce[x] /\ pc'[x] = pc[x]
    OBVIOUS
  <2>b. \A k \in Keys : \/ idem'[k] = idem[k] /\ taker'[k] = taker[k]
                        \/ idem'[k] = Processing(n) /\ taker'[k] = r
    OBVIOUS
  <2>c. nonce'[r] \in {nonce[r], n} /\ (Holds(r)' => nonce'[r] = n)
    BY DEF NonceKnown, Holds, InFlight
  <2>1. \A x \in Reqs : nonce'[x] <= nonceSeq'[x[1]]
    BY <2>0, <2>a, <2>c
  <2>2. ASSUME NEW k \in Keys, idem'[k].st = "processing"
        PROVE  taker'[k] \in Reqs /\ idem'[k].nonce <= nonceSeq'[taker'[k][1]]
    <3>1. CASE idem'[k] = idem[k] /\ taker'[k] = taker[k]
      BY <2>0, <2>2, <3>1 DEF Issued
    <3>2. CASE idem'[k] = Processing(n) /\ taker'[k] = r
      BY <2>0, <3>2 DEF Processing
    <3>3. QED
      BY <2>b, <3>1, <3>2
  <2>3. ASSUME NEW x \in Reqs, NEW k \in Keys, Holds(x)', idem'[k] = Processing(nonce'[x]),
               taker'[k][1] = x[1]
        PROVE  taker'[k] = x
    <3>1. CASE x = r
      <4>1. nonce'[x] = n
        BY <2>3, <2>c, <3>1
      <4>2. ~ (idem'[k] = idem[k] /\ taker'[k] = taker[k])
        <5> SUFFICES ASSUME idem'[k] = idem[k], taker'[k] = taker[k] PROVE FALSE
          OBVIOUS
        <5>1. idem[k].st = "processing" /\ idem[k].nonce = n
          BY <2>3, <4>1 DEF Processing
        <5>2. idem[k].nonce <= nonceSeq[r[1]]
          BY <2>3, <3>1, <5>1 DEF Issued
        <5>3. QED
          BY <2>0, <5>1, <5>2
      <4>3. QED
        BY <2>b, <3>1, <4>2
    <3>2. CASE x # r
      <4>1. nonce'[x] = nonce[x] /\ Holds(x)
        BY <2>3, <2>a, <3>2 DEF Holds, InFlight
      <4>2. CASE idem'[k] = idem[k] /\ taker'[k] = taker[k]
        BY <2>3, <4>1, <4>2 DEF Issued
      <4>3. CASE idem'[k] = Processing(n) /\ taker'[k] = r
        <5>1. nonce[x] = n
          BY <2>3, <4>1, <4>3 DEF Processing
        <5>2. nonce[x] <= nonceSeq[r[1]]
          BY <2>0, <2>3, <4>3
        <5>3. QED
          BY <2>0, <5>1, <5>2
      <4>4. QED
        BY <2>b, <4>2, <4>3
    <3>3. QED
      BY <3>1, <3>2
  <2>4. QED
    BY <2>1, <2>2, <2>3
<1>7. QED
  BY <1>1, <1>2, <1>3, <1>4, <1>5, <1>6

(* The publish is acknowledged. *)
LEMMA PublishKeeps ==
    ASSUME SendIInv, NEW r \in Reqs, PublishIngress(r)
    PROVE  SendIInv'
<1> USE SendBounds DEF SendIInv, SendTypeOK, PublishIngress, Published, Goto, history
<1>1. SendTypeOK'
  BY DEF Entries, Steps, NoEntry, Accepted, Processing, Reqs
<1>2. AcceptedUnlessSwallowed'
  BY DEF AcceptedUnlessSwallowed, Backed
<1>3. Backed'
  BY DEF AcceptedUnlessSwallowed, Backed, Accepted, NoEntry, Processing
<1>4. NonceKnown'
  BY DEF NonceKnown, Reqs
<1>5. HolderIsTaker'
  BY DEF HolderIsTaker, NonceKnown, Holds, InFlight, Accepted, NoEntry, Processing
<1>6. Issued'
  BY DEF Issued, NonceKnown, Holds, InFlight, Accepted, NoEntry, Processing, Reqs
<1>7. QED
  BY <1>1, <1>2, <1>3, <1>4, <1>5, <1>6

(* Or its error is swallowed. *)
LEMMA SwallowedKeeps ==
    ASSUME SendIInv, NEW r \in Reqs, PublishSwallowed(r)
    PROVE  SendIInv'
<1> USE SendBounds DEF SendIInv, SendTypeOK, PublishSwallowed, Published, Goto
<1>1. SendTypeOK'
  BY DEF Entries, Steps, NoEntry, Accepted, Processing, Reqs
<1>2. AcceptedUnlessSwallowed'
  BY DEF AcceptedUnlessSwallowed, Backed
<1>3. Backed'
  BY DEF AcceptedUnlessSwallowed, Backed, Accepted, NoEntry, Processing
<1>4. NonceKnown'
  BY DEF NonceKnown, Reqs
<1>5. HolderIsTaker'
  BY DEF HolderIsTaker, NonceKnown, Holds, InFlight, Accepted, NoEntry, Processing
<1>6. Issued'
  BY DEF Issued, NonceKnown, Holds, InFlight, Accepted, NoEntry, Processing, Reqs
<1>7. QED
  BY <1>1, <1>2, <1>3, <1>4, <1>5, <1>6

(* Or it fails. *)
LEMMA PublishFailsKeeps ==
    ASSUME SendIInv, NEW r \in Reqs, PublishFails(r)
    PROVE  SendIInv'
<1> USE SendBounds DEF SendIInv, SendTypeOK, PublishFails, Goto, history
<1>1. SendTypeOK'
  BY DEF Entries, Steps, NoEntry, Accepted, Processing, Reqs
<1>2. AcceptedUnlessSwallowed'
  BY DEF AcceptedUnlessSwallowed, Backed
<1>3. Backed'
  BY DEF AcceptedUnlessSwallowed, Backed, Accepted, NoEntry, Processing
<1>4. NonceKnown'
  BY DEF NonceKnown, Reqs
<1>5. HolderIsTaker'
  BY DEF HolderIsTaker, NonceKnown, Holds, InFlight, Accepted, NoEntry, Processing
<1>6. Issued'
  BY DEF Issued, NonceKnown, Holds, InFlight, Accepted, NoEntry, Processing, Reqs
<1>7. QED
  BY <1>1, <1>2, <1>3, <1>4, <1>5, <1>6

(* The entry is marked only if it is the request's own. *)
LEMMA MarkKeeps ==
    ASSUME SendIInv, NEW r \in Reqs, MarkAccepted(r)
    PROVE  SendIInv'
<1> USE SendBounds DEF SendIInv, SendTypeOK, MarkAccepted, ReplaceOwn, Owns, Goto, history
<1>1. SendTypeOK'
  <2>1. idem' \in [Keys -> Entries]
    BY EntriesOK
  <2>2. pc' \in [Reqs -> Steps]
    BY DEF Steps
  <2>3. QED
    BY <2>1, <2>2
<1>2. AcceptedUnlessSwallowed'
  BY DEF AcceptedUnlessSwallowed, Backed
<1>3. Backed'
  BY DEF AcceptedUnlessSwallowed, Backed, Accepted, NoEntry, Processing
<1>4. NonceKnown'
  BY DEF NonceKnown, Reqs
<1>5. HolderIsTaker'
  BY DEF HolderIsTaker, NonceKnown, Holds, InFlight, Accepted, NoEntry, Processing
<1>6. Issued'
  <2>1. ASSUME NEW x \in Keys
        PROVE  idem'[x] = idem[x] \/ idem'[x].st # "processing"
    BY DEF NoEntry, Accepted
  <2>2. \A x \in Reqs : Holds(x)' => Holds(x)
    BY DEF Holds, InFlight
  <2>3. QED
    BY <2>1, <2>2 DEF Issued, Processing
<1>7. QED
  BY <1>1, <1>2, <1>3, <1>4, <1>5, <1>6

(* And released only then. *)
LEMMA ReleaseKeeps ==
    ASSUME SendIInv, NEW r \in Reqs, Release(r)
    PROVE  SendIInv'
<1> USE SendBounds DEF SendIInv, SendTypeOK, Release, ReplaceOwn, Owns, Goto, history
<1>1. SendTypeOK'
  <2>1. idem' \in [Keys -> Entries]
    BY EntriesOK
  <2>2. pc' \in [Reqs -> Steps]
    BY DEF Steps
  <2>3. QED
    BY <2>1, <2>2
<1>2. AcceptedUnlessSwallowed'
  BY DEF AcceptedUnlessSwallowed, Backed
<1>3. Backed'
  BY DEF AcceptedUnlessSwallowed, Backed, Accepted, NoEntry, Processing
<1>4. NonceKnown'
  BY DEF NonceKnown, Reqs
<1>5. HolderIsTaker'
  BY DEF HolderIsTaker, NonceKnown, Holds, InFlight, Accepted, NoEntry, Processing
<1>6. Issued'
  <2>1. ASSUME NEW x \in Keys
        PROVE  idem'[x] = idem[x] \/ idem'[x].st # "processing"
    BY DEF NoEntry, Accepted
  <2>2. \A x \in Reqs : Holds(x)' => Holds(x)
    BY DEF Holds, InFlight
  <2>3. QED
    BY <2>1, <2>2 DEF Issued, Processing
<1>7. QED
  BY <1>1, <1>2, <1>3, <1>4, <1>5, <1>6

(* An entry that expires under its holder is in overran. *)
LEMMA ExpireKeeps ==
    ASSUME SendIInv, NEW k \in Keys, Expire(k)
    PROVE  SendIInv'
<1> USE SendBounds DEF SendIInv, SendTypeOK, Expire
<1>1. SendTypeOK'
  BY DEF Entries, Steps, NoEntry, Accepted, Processing, Reqs
<1>2. AcceptedUnlessSwallowed'
  BY DEF AcceptedUnlessSwallowed, Backed
<1>3. Backed'
  BY DEF AcceptedUnlessSwallowed, Backed, Accepted, NoEntry, Processing
<1>4. NonceKnown'
  BY DEF NonceKnown, Reqs
<1>5. HolderIsTaker'
  BY DEF HolderIsTaker, NonceKnown, Holds, InFlight, Accepted, NoEntry, Processing
<1>6. Issued'
  <2>1. ASSUME NEW x \in Keys
        PROVE  idem'[x] = idem[x] \/ idem'[x].st # "processing"
    BY DEF NoEntry, Accepted
  <2>2. \A x \in Reqs : Holds(x)' => Holds(x)
    BY DEF Holds, InFlight
  <2>3. QED
    BY <2>1, <2>2 DEF Issued, Processing
<1>7. QED
  BY <1>1, <1>2, <1>3, <1>4, <1>5, <1>6

(* A crash leaves nobody in the process who holds a nonce. *)
LEMMA GatewayCrashKeeps ==
    ASSUME SendIInv, NEW g \in Gateways, GatewayCrash(g)
    PROVE  SendIInv'
<1> USE SendBounds DEF SendIInv, SendTypeOK, GatewayCrash, history
<1>1. SendTypeOK'
  BY DEF Entries, Steps, NoEntry, Accepted, Processing, Reqs
<1>2. AcceptedUnlessSwallowed'
  BY DEF AcceptedUnlessSwallowed, Backed
<1>3. Backed'
  BY DEF AcceptedUnlessSwallowed, Backed, Accepted, NoEntry, Processing
<1>4. NonceKnown'
  BY DEF NonceKnown, Reqs
<1>5. HolderIsTaker'
  BY DEF HolderIsTaker, NonceKnown, Holds, InFlight, Accepted, NoEntry, Processing
<1>6. Issued'
  BY DEF Issued, NonceKnown, Holds, InFlight, Accepted, NoEntry, Processing, Reqs
<1>7. QED
  BY <1>1, <1>2, <1>3, <1>4, <1>5, <1>6

-----------------------------------------------------------------------------
LEMMA NextKeeps == SendIInv /\ [SendNext]_sendVars => SendIInv'
<1> SUFFICES ASSUME SendIInv, [SendNext]_sendVars PROVE SendIInv'
  OBVIOUS
<1>1. CASE UNCHANGED sendVars
  BY <1>1 DEF sendVars, history, SendIInv, SendTypeOK, AcceptedUnlessSwallowed, Backed, NonceKnown,
              HolderIsTaker, Issued, Holds, InFlight
<1>2. CASE SendNext
  BY <1>2, SendKeeps, AcquireKeeps, AcquireFailsKeeps, PublishKeeps, SwallowedKeeps,
     PublishFailsKeeps, MarkKeeps, ReleaseKeeps, ExpireKeeps, GatewayCrashKeeps DEF SendNext
<1>3. QED
  BY <1>1, <1>2

LEMMA Inductive == SendSpec => []SendIInv
<1>1. QED
  BY SendInitIInv, NextKeeps, PTL DEF SendSpec

(* Types of the Redis entries, the requests and the topics.                *)
THEOREM SendTypeCorrect == SendSpec => []SendTypeOK
<1>1. SendIInv => SendTypeOK
  BY DEF SendIInv
<1>2. QED
  BY <1>1, Inductive, PTL

(* Send answers accepted only for messages Kafka has, or whose publish     *)
(* error Breaker.Execute swallowed, whatever Redis and the gateways do.    *)
THEOREM AcceptedIsInbox == SendSpec => []AcceptedUnlessSwallowed
<1>1. SendIInv => AcceptedUnlessSwallowed
  BY DEF SendIInv
<1>2. QED
  BY <1>1, Inductive, PTL

(* The entry in Redis is a lock as long as it does not expire: of the      *)
(* requests that hold a nonce one at a time publishes a given message.     *)
THEOREM SendersExclude == SendSpec => []OneSender
<1>1. SendIInv => OneSender
  BY DEF SendIInv, SendTypeOK, HolderIsTaker, OneSender
<1>2. QED
  BY <1>1, Inductive, PTL

(* The nonce comparison of the Lua scripts: without restarts, a late Mark  *)
(* or Release changes no entry another request of the gateway has taken.   *)
THEOREM EntriesAreOwn == SendSpec => OwnEntryOnly
<1> DEFINE Own == \A r \in Reqs :
              /\ pc[r] \in {"mark", "release"} /\ pc'[r] = "idle"
              /\ idem'[key[r]] # idem[key[r]]
              /\ crashes' = 0 /\ taker[key[r]][1] = r[1]
              => taker[key[r]] = r
<1>1. ASSUME SendIInv, SendNext PROVE Own
  <2> SUFFICES ASSUME NEW r \in Reqs, pc[r] \in {"mark", "release"}, pc'[r] = "idle",
                      idem'[key[r]] # idem[key[r]], crashes' = 0, taker[key[r]][1] = r[1]
               PROVE  taker[key[r]] = r
    OBVIOUS
  <2> USE <1>1
  <2>1. crashes = 0
    BY SendBounds
       DEF SendIInv, SendTypeOK, SendNext, Send, Acquire, AcquireFails, PublishIngress, PublishSwallowed,
           PublishFails, MarkAccepted, Release, Expire, GatewayCrash, history
  <2>2. MarkAccepted(r) \/ Release(r)
    BY <2>1 DEF SendIInv, SendTypeOK, SendNext, Send, Acquire, AcquireFails, PublishIngress, PublishSwallowed,
                PublishFails, MarkAccepted, Release, Expire, GatewayCrash, Published, Goto
  <2>3. idem[key[r]] = Processing(nonce[r])
    BY <2>2 DEF MarkAccepted, Release, ReplaceOwn, Owns
  <2>4. Holds(r) /\ key[r] \in Keys
    BY DEF SendIInv, SendTypeOK, NonceKnown, Holds, InFlight
  <2>5. QED
    BY <2>1, <2>3, <2>4 DEF SendIInv, Issued
<1>2. SendIInv /\ [SendNext]_sendVars => [Own]_sendVars
  BY <1>1
<1>3. QED
  BY <1>2, Inductive, PTL DEF SendSpec, OwnEntryOnly
=============================================================================
