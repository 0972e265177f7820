-------------------------- MODULE SegmentGenerator --------------------------
(***************************************************************************)
(* The double-buffered id generator (internal/infrastructure/idgen/segment)*)
(* of several processes that share one row of id_generator, which          *)
(* SegmentRepository.Allocate advances by compare-and-swap.                *)
(*                                                                         *)
(* Callers of one generator are goroutines inside Next. The mutex mu       *)
(* guards current; loading, nextReady, nextMin and nextMax are atomics     *)
(* that the background loader writes without it, so each access to them    *)
(* is a step of its own:                                                   *)
(*                                                                         *)
(*   caller: try -> (id | exhausted) -> loading? -> ready? -> start loader *)
(*                          \-> swap: min -> max -> ready                  *)
(*   loader: read -> cas -> min -> max -> ready -> done                    *)
(***************************************************************************)
EXTENDS Integers, Sequences

CONSTANTS Gens,      \* processes, each with its generator
          Callers,   \* goroutines that call Next, in every process
          NoCaller,  \* the mutex is free
          Step,      \* id_generator.step
          RatioNum, RatioDen,  \* prefetchRatio
          MaxId      \* bound: the row's max_id

ASSUME NoCallerAssumption == NoCaller \notin Callers
ASSUME StepAssumption == Step \in Nat \ {0}
ASSUME RatioAssumption == RatioNum \in Nat /\ RatioDen \in Nat \ {0}
ASSUME MaxIdAssumption == MaxId \in Nat

VARIABLES db,        \* the row: max_id and version
          up,        \* per process: NewGenerator has returned
          cur,       \* per process: min, max and cursor of the current segment
          next,      \* per process: min, max and ready of the next one
          loading,   \* per process
          load,      \* per process: the loader's step, the row it read, its segment's min
          mu,        \* per process: holder of the mutex
          pc,        \* per process and caller
          tmp,       \* per process and caller: nextMin as swapToNext read it
          granted,   \* history, per process: first ids of the segments it was allocated
          issued,    \* history, per process: the ids Next returned, in order
          reloaded   \* history: processes that began to load a next segment over a ready one

bufferVars == <<cur, next, loading, load>>
vars == <<db, up, bufferVars, mu, pc, tmp, granted, issued, reloaded>>

Ids == 0..MaxId

LoadSteps   == {"none", "read", "cas", "min", "max", "ready", "done"}
CallerSteps == {"idle", "try", "switch", "isLoading", "isReady", "start", "wait",
                "swapMin", "swapMax", "swapReady", "preLoading", "preReady", "preStart"}

CurType  == [min : Ids, max : Ids, cursor : 0..(MaxId + 1)]
NextType == [min : Ids, max : Ids, ready : BOOLEAN]
LoadType == [pc : LoadSteps, maxId : Ids, version : Nat, seg : Ids]

NoLoad    == [pc |-> "none", maxId |-> 0, version |-> 0, seg |-> 0]
LoadStart == [NoLoad EXCEPT !.pc = "read"]

Init ==
    /\ db = [maxId |-> 0, version |-> 0]
    /\ up = [g \in Gens |-> FALSE]
    /\ cur = [g \in Gens |-> [min |-> 0, max |-> 0, cursor |-> 0]]
    /\ next = [g \in Gens |-> [min |-> 0, max |-> 0, ready |-> FALSE]]
    /\ loading = [g \in Gens |-> FALSE]
    /\ load = [g \in Gens |-> LoadStart]
    /\ mu = [g \in Gens |-> NoCaller]
    /\ pc = [g \in Gens |-> [c \in Callers |-> "idle"]]
    /\ tmp = [g \in Gens |-> [c \in Callers |-> 0]]
    /\ granted = [g \in Gens |-> {}]
    /\ issued = [g \in Gens |-> <<>>]
    /\ reloaded = {}

-----------------------------------------------------------------------------
(* loadNext, of the background loader or, before the generator is up, of   *)
(* NewGenerator.                                                           *)

LoadAt(g, step) == load[g].pc = step

(* Allocate's read of the row.                                             *)
AllocateRead(g) ==
    /\ LoadAt(g, "read")
    /\ load' = [load EXCEPT ![g] = [@ EXCEPT !.pc = "cas", !.maxId = db.maxId,
                                              !.version = db.version]]
    /\ UNCHANGED <<db, up, cur, next, loading, mu, pc, tmp, granted, issued, reloaded>>

(* Mutant: the update does not compare.                                    *)
Blind(g) == load[g].maxId <= db.maxId

(* The WHERE clause of Allocate's update.                                  *)
Unchanged(g) == db.maxId = load[g].maxId /\ db.version = load[g].version

(* Allocate's conditional update takes effect: the segment is              *)
(* [maxId + 1, maxId + Step] of what was read.                             *)
AllocateCAS(g) ==
    /\ LoadAt(g, "cas")
    /\ Unchanged(g)
    /\ db.maxId + Step <= MaxId
    /\ db' = [maxId |-> load[g].maxId + Step, version |-> db.version + 1]
    /\ \/ /\ load' = [load EXCEPT ![g] = [@ EXCEPT !.pc = "min", !.seg = load[g].maxId + 1]]
          /\ granted' = [granted EXCEPT ![g] = @ \cup {load[g].maxId + 1}]
          /\ UNCHANGED loading
       \/ \* the answer is lost: a segment nobody has
          /\ load' = [load EXCEPT ![g] = IF up[g] THEN NoLoad ELSE LoadStart]
          /\ loading' = [loading EXCEPT ![g] = FALSE]
          /\ UNCHANGED granted
    /\ UNCHANGED <<up, cur, next, mu, pc, tmp, issued, reloaded>>

(* Zero rows affected: ErrSegmentConflict, and loadNext tries again.       *)
AllocateConflict(g) ==
    /\ LoadAt(g, "cas")
    /\ ~ Unchanged(g)
    /\ load' = [load EXCEPT ![g] = LoadStart]
    /\ UNCHANGED <<db, up, cur, next, loading, mu, pc, tmp, granted, issued, reloaded>>

(* A statement fails, the context ends or the retries are used up. A       *)
(* process whose NewGenerator fails exits and is started again.            *)
LoadFails(g) ==
    /\ LoadAt(g, "read") \/ LoadAt(g, "cas")
    /\ load' = [load EXCEPT ![g] = IF up[g] THEN NoLoad ELSE LoadStart]
    /\ loading' = [loading EXCEPT ![g] = FALSE]
    /\ UNCHANGED <<db, up, cur, next, mu, pc, tmp, granted, issued, reloaded>>

(* The three stores of loadNext, and loading.Store(false).                 *)
StoreNextMin(g) ==
    /\ LoadAt(g, "min")
    /\ next' = [next EXCEPT ![g].min = load[g].seg]
    /\ load' = [load EXCEPT ![g].pc = "max"]
    /\ UNCHANGED <<db, up, cur, loading, mu, pc, tmp, granted, issued, reloaded>>

StoreNextMax(g) ==
    /\ LoadAt(g, "max")
    /\ next' = [next EXCEPT ![g].max = load[g].seg + Step - 1]
    /\ load' = [load EXCEPT ![g].pc = "ready"]
    /\ UNCHANGED <<db, up, cur, loading, mu, pc, tmp, granted, issued, reloaded>>

StoreNextReady(g) ==
    /\ LoadAt(g, "ready")
    /\ next' = [next EXCEPT ![g].ready = TRUE]
    /\ load' = [load EXCEPT ![g].pc = "done"]
    /\ UNCHANGED <<db, up, cur, loading, mu, pc, tmp, granted, issued, reloaded>>

LoadDone(g) ==
    /\ LoadAt(g, "done")
    /\ up[g]
    /\ loading' = [loading EXCEPT ![g] = FALSE]
    /\ load' = [load EXCEPT ![g] = NoLoad]
    /\ UNCHANGED <<db, up, cur, next, mu, pc, tmp, granted, issued, reloaded>>

(* NewGenerator's swapToNext: nobody else has the generator yet.           *)
NewGenerator(g) ==
    /\ LoadAt(g, "done")
    /\ ~ up[g]
    /\ up' = [up EXCEPT ![g] = TRUE]
    /\ cur' = [cur EXCEPT ![g] = [min |-> next[g].min, max |-> next[g].max,
                                  cursor |-> next[g].min]]
    /\ next' = [next EXCEPT ![g].ready = FALSE]
    /\ load' = [load EXCEPT ![g] = NoLoad]
    /\ UNCHANGED <<db, loading, mu, pc, tmp, granted, issued, reloaded>>

(* The process dies and starts over; what it had allocated is a hole.      *)
Restart(g) ==
    /\ up[g]
    /\ up' = [up EXCEPT ![g] = FALSE]
    /\ cur' = [cur EXCEPT ![g] = [min |-> 0, max |-> 0, cursor |-> 0]]
    /\ next' = [next EXCEPT ![g] = [min |-> 0, max |-> 0, ready |-> FALSE]]
    /\ loading' = [loading EXCEPT ![g] = FALSE]
    /\ load' = [load EXCEPT ![g] = LoadStart]
    /\ mu' = [mu EXCEPT ![g] = NoCaller]
    /\ pc' = [pc EXCEPT ![g] = [c \in Callers |-> "idle"]]
    /\ tmp' = [tmp EXCEPT ![g] = [c \in Callers |-> 0]]
    /\ UNCHANGED <<db, granted, issued, reloaded>>

-----------------------------------------------------------------------------
(* Next *)

At(g, c, step) == pc[g][c] = step

Goto(g, c, step) == pc' = [pc EXCEPT ![g][c] = step]

Call(g, c) ==
    /\ up[g]
    /\ At(g, c, "idle")
    /\ Goto(g, c, "try")
    /\ UNCHANGED <<db, up, bufferVars, mu, tmp, granted, issued, reloaded>>

StartLoader(g) ==
    /\ loading' = [loading EXCEPT ![g] = TRUE]
    /\ load' = [load EXCEPT ![g] = LoadStart]
    /\ reloaded' = IF next[g].ready THEN reloaded \cup {g} ELSE reloaded

(* maybePrefetchLocked's threshold, after an id has been taken.            *)
PrefetchDue(g) ==
    LET total == cur[g].max - cur[g].min + 1
        used  == cur[g].cursor + 1 - cur[g].min
    IN  total > 0 /\ used * RatioDen >= total * RatioNum

(* tryNext takes an id; past the threshold it keeps the mutex for          *)
(* maybePrefetchLocked.                                                    *)
tryNext(g, c) ==
    /\ At(g, c, "try")
    /\ mu[g] = NoCaller
    /\ cur[g].cursor <= cur[g].max
    /\ issued' = [issued EXCEPT ![g] = Append(@, cur[g].cursor)]
    /\ cur' = [cur EXCEPT ![g].cursor = @ + 1]
    /\ IF PrefetchDue(g)
       THEN Goto(g, c, "preLoading") /\ mu' = [mu EXCEPT ![g] = c]
       ELSE Goto(g, c, "idle") /\ UNCHANGED mu
    /\ UNCHANGED <<db, up, next, loading, load, tmp, granted, reloaded>>

(* maybePrefetchLocked: the two loads and the CAS that starts a loader.    *)
PrefetchCheck(g, c) ==
    /\ \/ At(g, c, "preLoading") /\ ~ loading[g] /\ Goto(g, c, "preReady") /\ UNCHANGED mu
       \/ At(g, c, "preReady") /\ ~ next[g].ready /\ Goto(g, c, "preStart") /\ UNCHANGED mu
       \/ /\ \/ At(g, c, "preLoading") /\ loading[g]
             \/ At(g, c, "preReady") /\ next[g].ready
          /\ Goto(g, c, "idle") /\ mu' = [mu EXCEPT ![g] = NoCaller]
    /\ UNCHANGED <<db, up, bufferVars, tmp, granted, issued, reloaded>>

PrefetchStart(g, c) ==
    /\ At(g, c, "preStart")
    /\ IF loading[g] THEN UNCHANGED <<loading, load, reloaded>> ELSE StartLoader(g)
    /\ Goto(g, c, "idle")
    /\ mu' = [mu EXCEPT ![g] = NoCaller]
    /\ UNCHANGED <<db, up, cur, next, tmp, granted, issued>>

Exhausted(g, c) ==
    /\ At(g, c, "try")
    /\ mu[g] = NoCaller
    /\ cur[g].cursor > cur[g].max
    /\ Goto(g, c, "switch")
    /\ UNCHANGED <<db, up, bufferVars, mu, tmp, granted, issued, reloaded>>

(* switchSegment's critical section: current may have been refilled, next  *)
(* may be ready, or neither.                                               *)
switchSegment(g, c) ==
    /\ At(g, c, "switch")
    /\ mu[g] = NoCaller
    /\ \/ /\ cur[g].cursor <= cur[g].max
          /\ Goto(g, c, "try") /\ UNCHANGED mu
       \/ /\ cur[g].cursor > cur[g].max /\ next[g].ready
          /\ Goto(g, c, "swapMin") /\ mu' = [mu EXCEPT ![g] = c]
       \/ /\ cur[g].cursor > cur[g].max /\ ~ next[g].ready
          /\ Goto(g, c, "isLoading") /\ UNCHANGED mu
    /\ UNCHANGED <<db, up, bufferVars, tmp, granted, issued, reloaded>>

(* swapToNext, the mutex held: the loads of nextMin and nextMax and the    *)
(* store of nextReady.                                                     *)
SwapMin(g, c) ==
    /\ At(g, c, "swapMin")
    /\ tmp' = [tmp EXCEPT ![g][c] = next[g].min]
    /\ Goto(g, c, "swapMax")
    /\ UNCHANGED <<db, up, bufferVars, mu, granted, issued, reloaded>>

SwapMax(g, c) ==
    /\ At(g, c, "swapMax")
    /\ cur' = [cur EXCEPT ![g] = [min |-> tmp[g][c], max |-> next[g].max, cursor |-> tmp[g][c]]]
    /\ tmp' = [tmp EXCEPT ![g][c] = 0]
    /\ Goto(g, c, "swapReady")
    /\ UNCHANGED <<db, up, next, loading, load, mu, granted, issued, reloaded>>

(* Mutant: the swapped segment stays ready.                                *)
SwapReadyKept(g, c) ==
    /\ At(g, c, "swapReady")
    /\ mu' = [mu EXCEPT ![g] = NoCaller]
    /\ Goto(g, c, "try")
    /\ UNCHANGED <<db, up, bufferVars, tmp, granted, issued, reloaded>>

SwapReady(g, c) ==
    /\ At(g, c, "swapReady")
    /\ next' = [next EXCEPT ![g].ready = FALSE]
    /\ mu' = [mu EXCEPT ![g] = NoCaller]
    /\ Goto(g, c, "try")
    /\ UNCHANGED <<db, up, cur, loading, load, tmp, granted, issued, reloaded>>

(* Outside the mutex: loading.Load(), nextReady.Load(), and the CAS that   *)
(* starts a loader.                                                        *)
LoadingLoad(g, c) ==
    /\ At(g, c, "isLoading")
    /\ IF loading[g] THEN Goto(g, c, "wait") ELSE Goto(g, c, "isReady")
    /\ UNCHANGED <<db, up, bufferVars, mu, tmp, granted, issued, reloaded>>

ReadyLoad(g, c) ==
    /\ At(g, c, "isReady")
    /\ IF next[g].ready THEN Goto(g, c, "wait") ELSE Goto(g, c, "start")
    /\ UNCHANGED <<db, up, bufferVars, mu, tmp, granted, issued, reloaded>>

CompareAndSwap(g, c) ==
    /\ At(g, c, "start")
    /\ IF loading[g] THEN UNCHANGED <<loading, load, reloaded>> ELSE StartLoader(g)
    /\ Goto(g, c, "wait")
    /\ UNCHANGED <<db, up, cur, next, mu, tmp, granted, issued>>

(* The 2 ms pause, then another round, or an error when the deadline has   *)
(* passed or the caller's context has ended.                               *)
Wait(g, c) ==
    /\ At(g, c, "wait")
    /\ Goto(g, c, "switch") \/ Goto(g, c, "idle")
    /\ UNCHANGED <<db, up, bufferVars, mu, tmp, granted, issued, reloaded>>

-----------------------------------------------------------------------------
Load(g) ==
    \/ AllocateRead(g) \/ AllocateCAS(g) \/ AllocateConflict(g) \/ LoadFails(g)
    \/ StoreNextMin(g) \/ StoreNextMax(g) \/ StoreNextReady(g) \/ LoadDone(g)
    \/ NewGenerator(g)

NextId(g, c) ==
    \/ Call(g, c) \/ tryNext(g, c) \/ PrefetchCheck(g, c) \/ PrefetchStart(g, c)
    \/ Exhausted(g, c) \/ switchSegment(g, c)
    \/ SwapMin(g, c) \/ SwapMax(g, c) \/ SwapReady(g, c)
    \/ LoadingLoad(g, c) \/ ReadyLoad(g, c) \/ CompareAndSwap(g, c) \/ Wait(g, c)

Next == \E g \in Gens : Load(g) \/ Restart(g) \/ \E c \in Callers : NextId(g, c)

Spec == Init /\ [][Next]_vars

-----------------------------------------------------------------------------
RowOK ==
    /\ db \in [maxId : Ids, version : Nat]
    /\ granted \in [Gens -> SUBSET Ids]

BufferOK ==
    /\ up \in [Gens -> BOOLEAN]
    /\ loading \in [Gens -> BOOLEAN]
    /\ cur \in [Gens -> CurType]
    /\ next \in [Gens -> NextType]
    /\ load \in [Gens -> LoadType]

CallersOK ==
    /\ mu \in [Gens -> Callers \cup {NoCaller}]
    /\ pc \in [Gens -> [Callers -> CallerSteps]]
    /\ tmp \in [Gens -> [Callers -> Ids]]
    /\ issued \in [Gens -> Seq(Ids)]

(* Types of the row, the buffers and the callers.                          *)
TypeOK == RowOK /\ BufferOK /\ CallersOK /\ reloaded \subseteq Gens

(* "多实例共享 MySQL 时号段互不重叠（version CAS）": segments allocated to    *)
(* different processes, or twice to one, have no id in common and lie      *)
(* within the row's max_id.                                                *)
SegmentsDisjoint ==
    /\ \A g \in Gens : \A m \in granted[g] : m + Step - 1 <= db.maxId
    /\ \A g, h \in Gens : \A m \in granted[g], n \in granted[h] :
          g # h \/ m # n => m + Step <= n \/ n + Step <= m

Distinct(G) ==
    \A g, h \in G : \A i \in 1..Len(issued[g]), j \in 1..Len(issued[h]) :
        g # h \/ i # j => issued[g][i] # issued[h][j]

(* "单实例高并发无重复 ID" and "重启后…不能重复使用旧号段": no id is returned *)
(* twice, by whichever processes, before or after a restart.               *)
IdsUnique == Distinct(Gens)

(* The same of the processes in which no loader was started while the next *)
(* segment was ready, which is the one way to break it; and                *)
(* "切换边界不重复、不回退": the ids of such a process go up, restarts and   *)
(* the swap from one segment to the next included.                         *)
IdsUniqueUnlessReloaded ==
    /\ Distinct(Gens \ reloaded)
    /\ \A g \in Gens \ reloaded : \A i, j \in 1..Len(issued[g]) : i < j => issued[g][i] < issued[g][j]
=============================================================================
