------------------------------ MODULE Presence ------------------------------
(***************************************************************************)
(* The presence registry in Redis (PresenceRegistry), the connections that *)
(* keep their entries alive through heartbeats (heartbeatLoop, dispatch of *)
(* heartbeat.pong, Register and Unregister of the ConnectionManager) and   *)
(* the lookup the outbox publisher makes for each message                  *)
(* (OnlineConnectionsBatch).                                               *)
(*                                                                         *)
(* A connection has a route key with a TTL and is a member, scored with    *)
(* the moment it expires, of its user's sorted set. A write whose caller   *)
(* gave up on it may have reached Redis, be lost, or reach it later.       *)
(*                                                                         *)
(* Time advances for everyone together, in units of which Interval make a  *)
(* heartbeat interval; the clocks of gateways and publishers agree. A      *)
(* heartbeat that is due runs before time goes on. The set's own TTL is    *)
(* longer than its members' and plays no part.                             *)
(***************************************************************************)
EXTENDS Integers

CONSTANTS Conns,      \* connection ids, never reused
          Interval,   \* ws_heartbeat_interval
          Missed,     \* ws_missed_heartbeat
          HashTTL,    \* conn_hash_ttl
          MaxFaults   \* bound: writes to Redis that fail, gateways that crash

(* Defaults: 30 s, 2 and 90 s.                                             *)
ASSUME PresenceConstants ==
    /\ Interval \in Nat \ {0}
    /\ Missed \in Nat
    /\ HashTTL \in Nat
    /\ MaxFaults \in Nat
ASSUME TTLCoversHeartbeats == HashTTL >= Missed * Interval + Interval

VARIABLES st,        \* per connection: "none", "open", "closed", "gone"
          phase,     \* per connection: time to its next heartbeat
          pongAge,   \* per connection: time since its last pong
          routeTTL,  \* per connection: what its route key has left, 0 without a key
          member,    \* connections in the sorted sets
          score,     \* per connection: how far its member's score is ahead of now
          late,      \* writes to Redis under way that their callers gave up on
          look,      \* the lookup of a publisher
          failed,    \* history: the writes, <<write, connection>>, that failed for their callers
          overtook,  \* history: connections that answered when the heartbeat to close them was due
          removed,   \* history: connections whose Remove has deleted the route key
          faults

redisVars == <<routeTTL, member, score>>
connVars  == <<st, phase, pongAge>>
vars == <<connVars, redisVars, late, look, failed, overtook, removed, faults>>

Writes == {"register", "heartbeat", "remove"}

(* steady is history: the connections that were open all along.            *)
LookupType == [pc : {"idle", "routes", "cleanup"}, ids : SUBSET Conns, found : SUBSET Conns,
               steady : SUBSET Conns]

NoLookup == [pc |-> "idle", ids |-> {}, found |-> {}, steady |-> {}]

Init ==
    /\ st = [c \in Conns |-> "none"]
    /\ phase = [c \in Conns |-> 0]
    /\ pongAge = [c \in Conns |-> 0]
    /\ routeTTL = [c \in Conns |-> 0]
    /\ member = {}
    /\ score = [c \in Conns |-> 0]
    /\ late = {}
    /\ look = NoLookup
    /\ failed = {} /\ overtook = {} /\ removed = {}
    /\ faults = 0

-----------------------------------------------------------------------------
(* The pipelines in Redis *)

(* Mutant: the member is scored with the longer TTL of the whole set.      *)
AddMemberUserSetTTL(c) ==
    /\ member' = member \cup {c}
    /\ score' = [score EXCEPT ![c] = HashTTL + Interval]

(* ZADD with the moment the route expires as score. *)
AddMember(c) ==
    /\ member' = member \cup {c}
    /\ score' = [score EXCEPT ![c] = HashTTL]

(* SET with TTL, ZADD. *)
Register(c) ==
    /\ routeTTL' = [routeTTL EXCEPT ![c] = HashTTL]
    /\ AddMember(c)
    /\ UNCHANGED removed

(* Mutant: the heartbeat writes the route as Register does.                *)
HeartbeatSets(c) == Register(c)

(* EXPIRE, ZADD: a route key that is gone stays gone. *)
Heartbeat(c) ==
    /\ routeTTL' = IF routeTTL[c] > 0 THEN [routeTTL EXCEPT ![c] = HashTTL] ELSE routeTTL
    /\ AddMember(c)
    /\ UNCHANGED removed

(* DEL, ZREM. *)
Remove(c) ==
    /\ routeTTL' = [routeTTL EXCEPT ![c] = 0]
    /\ member' = member \ {c}
    /\ score' = [score EXCEPT ![c] = 0]
    /\ removed' = removed \cup {c}

Run(w, c) ==
    \/ w = "register" /\ Register(c)
    \/ w = "heartbeat" /\ Heartbeat(c)
    \/ w = "remove" /\ Remove(c)

(* The first command alone: pipelines are not transactions.                *)
FirstCommand(w, c) ==
    /\ routeTTL' = [routeTTL EXCEPT ![c] = IF w = "remove" \/ (w = "heartbeat" /\ @ = 0)
                                           THEN 0 ELSE HashTTL]
    /\ removed' = IF w = "remove" THEN removed \cup {c} ELSE removed
    /\ UNCHANGED <<member, score>>

(* A pipeline whose error the caller ignores.                              *)
Fails(w, c) ==
    /\ faults < MaxFaults
    /\ faults' = faults + 1
    /\ failed' = failed \cup {<<w, c>>}
    /\ \/ late' = late \cup {<<w, c>>} /\ UNCHANGED <<redisVars, removed>>
       \/ UNCHANGED <<redisVars, removed, late>>
       \/ FirstCommand(w, c) /\ UNCHANGED late

Write(w, c) ==
    \/ Run(w, c) /\ UNCHANGED <<late, failed, faults>>
    \/ Fails(w, c)

(* What a caller gave up on reaches Redis.                                 *)
Land(w, c) ==
    /\ <<w, c>> \in late
    /\ late' = late \ {<<w, c>>}
    /\ Run(w, c)
    /\ UNCHANGED <<connVars, look, failed, overtook, faults>>

-----------------------------------------------------------------------------
(* A connection *)

(* Upgrade: NewConn counts as a pong, Register, then the heartbeat starts. *)
Connect(c) ==
    /\ st[c] = "none"
    /\ st' = [st EXCEPT ![c] = "open"]
    /\ phase' = [phase EXCEPT ![c] = Interval]
    /\ pongAge' = [pongAge EXCEPT ![c] = 0]
    /\ Write("register", c)
    /\ UNCHANGED <<look, overtook>>

(* dispatch of heartbeat.pong: MarkPong, refreshPresence. *)
Pong(c) ==
    /\ st[c] = "open"
    /\ pongAge' = [pongAge EXCEPT ![c] = 0]
    /\ Write("heartbeat", c)
    /\ overtook' = IF pongAge[c] >= HashTTL THEN overtook \cup {c} ELSE overtook
    /\ UNCHANGED <<st, phase, look>>

(* Mutant: the threshold counts one interval more.                         *)
HeartbeatDueLate(c) ==
    /\ st[c] = "open"
    /\ phase[c] = 0
    /\ IF pongAge[c] > (Missed + 1) * Interval
       THEN st' = [st EXCEPT ![c] = "closed"] /\ UNCHANGED phase
       ELSE phase' = [phase EXCEPT ![c] = Interval] /\ UNCHANGED st
    /\ UNCHANGED <<pongAge, redisVars, late, look, failed, overtook, removed, faults>>

(* heartbeatLoop: close after missedThreshold without a pong, or ping.     *)
HeartbeatDue(c) ==
    /\ st[c] = "open"
    /\ phase[c] = 0
    /\ IF pongAge[c] > Missed * Interval
       THEN st' = [st EXCEPT ![c] = "closed"] /\ UNCHANGED phase
       ELSE phase' = [phase EXCEPT ![c] = Interval] /\ UNCHANGED st
    /\ UNCHANGED <<pongAge, redisVars, late, look, failed, overtook, removed, faults>>

(* The reader returns, after a Close or because the peer has gone:         *)
(* Unregister removes the entries.                                         *)
Disconnect(c) ==
    /\ st[c] \in {"open", "closed"}
    /\ st' = [st EXCEPT ![c] = "gone"]
    /\ Write("remove", c)
    /\ UNCHANGED <<phase, pongAge, look, overtook>>

(* The gateways of the connections cs, all of them, die.                   *)
Crash(cs) ==
    /\ faults < MaxFaults
    /\ faults' = faults + 1
    /\ st' = [c \in Conns |-> IF c \in cs /\ st[c] # "none" THEN "gone" ELSE st[c]]
    /\ UNCHANGED <<phase, pongAge, redisVars, late, look, failed, overtook, removed>>

-----------------------------------------------------------------------------
Down(n) == IF n = 0 THEN 0 ELSE n - 1

(* Time goes on; Redis drops route keys whose TTL is over.                 *)
Tick ==
    /\ \A c \in Conns : st[c] = "open" => phase[c] > 0
    /\ phase' = [c \in Conns |-> Down(phase[c])]
    /\ pongAge' = [c \in Conns |-> IF st[c] = "open" THEN pongAge[c] + 1 ELSE pongAge[c]]
    /\ routeTTL' = [c \in Conns |-> Down(routeTTL[c])]
    /\ score' = [c \in Conns |-> Down(score[c])]
    /\ UNCHANGED <<st, member, late, look, failed, overtook, removed, faults>>

-----------------------------------------------------------------------------
(* OnlineConnectionsBatch, one step per pipeline *)

(* Open, with every write gone through, and no heartbeat due now. With     *)
(* HashTTL = (Missed + 1) * Interval, the defaults, the heartbeat that     *)
(* closes a silent connection can be due when its route has just expired;  *)
(* a pong handled before it then keeps the connection, without a route.    *)
Steady(c) ==
    /\ st[c] = "open"
    /\ c \notin overtook
    /\ \A w \in Writes : <<w, c>> \notin failed
    /\ phase[c] > 0

(* Mutant: the purge takes members that are about to expire as well.       *)
ReadMembersEarly ==
    /\ look.pc = "idle"
    /\ member' = {c \in member : score[c] > 1}
    /\ look' = [pc |-> "routes", ids |-> member', found |-> {},
                steady |-> {c \in Conns : Steady(c)}]
    /\ UNCHANGED <<connVars, routeTTL, score, late, failed, overtook, removed, faults>>

(* ZREMRANGEBYSCORE up to now, then ZRANGE. *)
ReadMembers ==
    /\ look.pc = "idle"
    /\ member' = {c \in member : score[c] > 0}
    /\ look' = [pc |-> "routes", ids |-> member', found |-> {},
                steady |-> {c \in Conns : Steady(c)}]
    /\ UNCHANGED <<connVars, routeTTL, score, late, failed, overtook, removed, faults>>

(* GET of every route. *)
ReadRoutes ==
    /\ look.pc = "routes"
    /\ look' = [look EXCEPT !.pc = "cleanup",
                            !.found = {c \in look.ids : routeTTL[c] > 0},
                            !.steady = {c \in @ : Steady(c)}]
    /\ UNCHANGED <<connVars, redisVars, late, failed, overtook, removed, faults>>

(* ZREM of the members found without a route; its error is ignored.        *)
CleanUp ==
    /\ look.pc = "cleanup"
    /\ member' \in {member, member \ (look.ids \ look.found)}
    /\ look' = NoLookup
    /\ UNCHANGED <<connVars, routeTTL, score, late, failed, overtook, removed, faults>>

(* Redis fails the GETs, and the publisher its attempt.                    *)
LookupFails ==
    /\ look.pc = "routes"
    /\ look' = NoLookup
    /\ UNCHANGED <<connVars, redisVars, late, failed, overtook, removed, faults>>

-----------------------------------------------------------------------------
Next ==
    \/ \E c \in Conns :
          \/ Connect(c) \/ Pong(c) \/ HeartbeatDue(c) \/ Disconnect(c)
          \/ \E w \in Writes : Land(w, c)
    \/ \E cs \in SUBSET Conns : cs # {} /\ Crash(cs)
    \/ Tick
    \/ ReadMembers \/ ReadRoutes \/ CleanUp \/ LookupFails

Spec == Init /\ [][Next]_vars

-----------------------------------------------------------------------------
(* Types of the connections and of their entries in Redis.                 *)
TypeOK ==
    /\ st \in [Conns -> {"none", "open", "closed", "gone"}]
    /\ phase \in [Conns -> 0..Interval]
    /\ pongAge \in [Conns -> Nat]
    /\ routeTTL \in [Conns -> 0..HashTTL]
    /\ member \subseteq Conns
    /\ score \in [Conns -> 0..HashTTL]
    /\ late \subseteq Writes \X Conns
    /\ look \in LookupType
    /\ failed \subseteq Writes \X Conns
    /\ overtook \subseteq Conns
    /\ removed \subseteq Conns
    /\ faults \in 0..MaxFaults

(* "ConnHashTTL ... 心跳周期 ~30s，建议 90s": as long as every write of a      *)
(* connection reached Redis, its route key outlives the connection: the    *)
(* heartbeat loop closes one that stopped answering before its route can   *)
(* expire, wherever its last pong fell between two heartbeats.             *)
RouteOutlivesConn ==
    \A c \in Conns : Steady(c) => routeTTL[c] > 0

(* OnlineConnectionsBatch returns every connection that was open and       *)
(* undisturbed while the lookup ran, through expiry, purges of the sorted  *)
(* sets and cleanups of earlier lookups.                                   *)
OnlineIsFound ==
    look.pc = "cleanup" => look.steady \subseteq look.found

(* "缺失或损坏的成员只清理并忽略": a cleanup acts on routes read earlier, yet   *)
(* it never takes a connection that has a route key out of its user's set, *)
(* because a heartbeat does not bring back a key that was missing; only a  *)
(* registration that its caller gave up on does.                           *)
CleanupSparesRouted ==
    [][CleanUp => \A c \in member : routeTTL[c] > 0 /\ <<"register", c>> \notin failed
                                        => c \in member']_vars

(* Remove is final: a connection whose entries were removed is not routed  *)
(* to again, unless its registration was given up on. A heartbeat that     *)
(* reaches Redis after Remove brings back a member, never a route.         *)
RemovedStaysRemoved ==
    \A c \in removed : routeTTL[c] > 0 => <<"register", c>> \in failed
=============================================================================
