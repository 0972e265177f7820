------------------------ MODULE SegmentGeneratorProofs ------------------------
(***************************************************************************)
(* Proofs about the segment id generator, for any number of processes and  *)
(* callers, every step and every prefetch ratio.                           *)
(*                                                                         *)
(* Segments are disjoint because the compare-and-swap on the row makes a   *)
(* new one start past max_id, below which all earlier ones lie. Ids are    *)
(* unique, in a process whose loader was never started over a ready next   *)
(* segment, because ready then keeps loader and swap apart: while a loader *)
(* is at work next is not ready, and a caller swaps only a ready one, the  *)
(* mutex held. So each buffer holds a whole segment of the process, later  *)
(* than every id handed out before it (Sound).                             *)
(***************************************************************************)
EXTENDS SegmentGenerator, SequenceTheorems, TLAPS

Segment(g, lo, hi) == lo \in granted[g] /\ hi = lo + Step - 1

(* All ids returned so far, and the current segment, are below m.          *)
Fresh(g, m) ==
    /\ \A i \in 1..Len(issued[g]) : issued[g][i] < m
    /\ up[g] => cur[g].max < m

(* There is at most one loader; it works on a fresh segment, and next is   *)
(* not ready before it says so.                                            *)
LoaderOK(g) ==
    /\ up[g] /\ load[g].pc # "none" => loading[g]
    /\ ~ up[g] => /\ load[g].pc # "none"
                  /\ \A c \in Callers : pc[g][c] = "idle"
    /\ load[g].pc \in {"read", "cas", "min", "max", "ready"} => ~ next[g].ready
    /\ load[g].pc \in {"min", "max", "ready"} => load[g].seg \in granted[g] /\ Fresh(g, load[g].seg)
    /\ load[g].pc \in {"max", "ready"} => next[g].min = load[g].seg
    /\ load[g].pc = "ready" => next[g].max = load[g].seg + Step - 1
    /\ load[g].pc = "done" /\ ~ up[g] => next[g].ready

(* A caller swaps with the mutex held, and what it swaps is ready.         *)
SwapOK(g) ==
    \A c \in Callers :
        /\ pc[g][c] \in {"preLoading", "preReady", "preStart", "swapMin", "swapMax", "swapReady"} =>
              mu[g] = c
        /\ pc[g][c] \in {"swapMin", "swapMax", "swapReady"} => next[g].ready
        /\ pc[g][c] = "swapMax" => tmp[g][c] = next[g].min

(* A next segment that is ready is whole, and fresh until it is swapped.   *)
NextOK(g) ==
    next[g].ready =>
        /\ Segment(g, next[g].min, next[g].max)
        /\ (\A c \in Callers : pc[g][c] # "swapReady") => Fresh(g, next[g].min)

(* So is the current one, and the cursor is past everything returned.      *)
CurOK(g) ==
    up[g] =>
        /\ Segment(g, cur[g].min, cur[g].max)
        /\ cur[g].min <= cur[g].cursor /\ cur[g].cursor <= cur[g].max + 1
        /\ \A i \in 1..Len(issued[g]) : issued[g][i] < cur[g].cursor

(* The ids returned go up and are of segments of the process.              *)
IssuedOK(g) ==
    /\ \A i \in 1..Len(issued[g]) : \E m \in granted[g] : m <= issued[g][i] /\ issued[g][i] < m + Step
    /\ \A i, j \in 1..Len(issued[g]) : i < j => issued[g][i] < issued[g][j]

Sound(g) == LoaderOK(g) /\ SwapOK(g) /\ NextOK(g) /\ CurOK(g) /\ IssuedOK(g)

(* The ends of segments under way are ids.                                 *)
Ends ==
    \A g \in Gens : load[g].pc \in {"min", "max"} => load[g].seg \in granted[g]

IInv ==
    /\ TypeOK
    /\ Ends
    /\ SegmentsDisjoint
    /\ \A g \in Gens \ reloaded : Sound(g)

-----------------------------------------------------------------------------
(* A step of process g leaves the other processes alone.                   *)
Others(g) ==
    /\ \A h \in Gens \ {g} :
          /\ up'[h] = up[h] /\ cur'[h] = cur[h] /\ next'[h] = next[h]
          /\ loading'[h] = loading[h] /\ load'[h] = load[h]
          /\ mu'[h] = mu[h] /\ pc'[h] = pc[h] /\ tmp'[h] = tmp[h]
          /\ granted'[h] = granted[h] /\ issued'[h] = issued[h]
    /\ reloaded \subseteq reloaded' /\ reloaded' \subseteq reloaded \cup {g}

LEMMA OthersStaySound ==
    ASSUME NEW g \in Gens, Others(g), NEW h \in Gens \ {g}, Sound(h)
    PROVE  Sound(h)'
BY DEF Others, Sound, LoaderOK, SwapOK, NextOK, CurOK, IssuedOK, Fresh, Segment

LEMMA Zero == 0 \in Ids /\ 0 \in 0..(MaxId + 1) /\ 0 \in Nat
BY MaxIdAssumption DEF Ids

LEMMA InitIInv == Init => IInv
<1> SUFFICES ASSUME Init PROVE IInv
  OBVIOUS
<1> USE MaxIdAssumption DEF Init, LoadStart, NoLoad
<1>1. TypeOK
  <2>1. RowOK
    BY Zero DEF RowOK
  <2>2. BufferOK
    BY Zero DEF BufferOK, LoadSteps, CurType, NextType, LoadType
  <2>3. CallersOK
    BY Zero DEF CallersOK, CallerSteps
  <2>4. QED
    BY <2>1, <2>2, <2>3 DEF TypeOK
<1>2. Ends
  BY DEF Ends
<1>3. SegmentsDisjoint
  BY DEF SegmentsDisjoint
<1>4. ASSUME NEW g \in Gens PROVE Sound(g)
  <2>1. Len(issued[g]) = 0 /\ 1..0 = {}
    OBVIOUS
  <2>2. LoaderOK(g)
    BY DEF LoaderOK
  <2>3. SwapOK(g) /\ NextOK(g) /\ CurOK(g)
    BY DEF SwapOK, NextOK, CurOK
  <2>4. IssuedOK(g)
    BY <2>1 DEF IssuedOK
  <2>5. QED
    BY <2>2, <2>3, <2>4 DEF Sound
<1>5. QED
  BY <1>1, <1>2, <1>3, <1>4 DEF IInv

LEMMA Types ==
    ASSUME IInv
    PROVE  /\ up \in [Gens -> BOOLEAN] /\ loading \in [Gens -> BOOLEAN]
           /\ cur \in [Gens -> CurType] /\ next \in [Gens -> NextType]
           /\ load \in [Gens -> LoadType]
           /\ mu \in [Gens -> Callers \cup {NoCaller}]
           /\ pc \in [Gens -> [Callers -> CallerSteps]]
           /\ tmp \in [Gens -> [Callers -> Ids]]
           /\ issued \in [Gens -> Seq(Ids)]
           /\ granted \in [Gens -> SUBSET Ids]
           /\ reloaded \subseteq Gens
BY DEF IInv, TypeOK, RowOK, BufferOK, CallersOK

(* Updates of one field keep the types. *)
LEMMA LoadUpdates ==
    ASSUME load \in [Gens -> LoadType], NEW g \in Gens
    PROVE  /\ \A x \in LoadSteps : [load EXCEPT ![g].pc = x] \in [Gens -> LoadType]
           /\ \A l \in LoadType : [load EXCEPT ![g] = l] \in [Gens -> LoadType]
           /\ NoLoad \in LoadType /\ LoadStart \in LoadType
<1>1. \A x \in LoadSteps : [load[g] EXCEPT !.pc = x] \in LoadType
  BY DEF LoadType
<1>2. NoLoad \in LoadType /\ LoadStart \in LoadType
  BY Zero DEF LoadType, NoLoad, LoadStart, LoadSteps
<1>3. QED
  BY <1>1, <1>2

LEMMA NextUpdates ==
    ASSUME next \in [Gens -> NextType], NEW g \in Gens
    PROVE  /\ \A m \in Ids : [next EXCEPT ![g].min = m] \in [Gens -> NextType]
           /\ \A m \in Ids : [next EXCEPT ![g].max = m] \in [Gens -> NextType]
           /\ \A b \in BOOLEAN : [next EXCEPT ![g].ready = b] \in [Gens -> NextType]
<1>1. next[g] \in NextType
  OBVIOUS
<1>2. /\ \A m \in Ids : [next[g] EXCEPT !.min = m] \in NextType
      /\ \A m \in Ids : [next[g] EXCEPT !.max = m] \in NextType
      /\ \A b \in BOOLEAN : [next[g] EXCEPT !.ready = b] \in NextType
  BY <1>1 DEF NextType
<1>3. QED
  BY <1>2

LEMMA CurUpdates ==
    ASSUME cur \in [Gens -> CurType], NEW g \in Gens
    PROVE  /\ \A x \in CurType : [cur EXCEPT ![g] = x] \in [Gens -> CurType]
           /\ cur[g].cursor <= cur[g].max => [cur EXCEPT ![g].cursor = @ + 1] \in [Gens -> CurType]
           /\ \A lo, hi \in Ids : [min |-> lo, max |-> hi, cursor |-> lo] \in CurType
<1>1. cur[g] \in CurType
  OBVIOUS
<1>2. cur[g].cursor <= cur[g].max => [cur[g] EXCEPT !.cursor = @ + 1] \in CurType
  BY <1>1, MaxIdAssumption DEF CurType, Ids
<1>3. \A lo, hi \in Ids : [min |-> lo, max |-> hi, cursor |-> lo] \in CurType
  BY MaxIdAssumption DEF CurType, Ids
<1>4. QED
  BY <1>2, <1>3

LEMMA CallerUpdates ==
    ASSUME pc \in [Gens -> [Callers -> CallerSteps]], NEW g \in Gens, NEW c \in Callers
    PROVE  \A x \in CallerSteps : [pc EXCEPT ![g][c] = x] \in [Gens -> [Callers -> CallerSteps]]
OBVIOUS

(* A caller's step moves no other caller. *)
LEMMA CallerMoves ==
    ASSUME IInv, NEW g \in Gens, NEW c \in Callers, NEW x, Goto(g, c, x)
    PROVE  pc'[g][c] = x /\ \A d \in Callers \ {c} : pc'[g][d] = pc[g][d]
<1>0. pc \in [Gens -> [Callers -> CallerSteps]]
  BY DEF IInv, TypeOK, CallersOK
<1>1. pc'[g] = [pc[g] EXCEPT ![c] = x] /\ pc[g] \in [Callers -> CallerSteps]
  BY <1>0 DEF Goto
<1>2. QED
  BY <1>1

(* Types of the numbers, as the arithmetic needs them. *)
LEMMA Numbers ==
    ASSUME IInv, NEW g \in Gens
    PROVE  /\ Step \in Nat /\ Step > 0 /\ MaxId \in Nat
           /\ db.maxId \in Nat /\ db.version \in Nat /\ db.maxId <= MaxId
           /\ cur[g].min \in Ids /\ cur[g].max \in Ids
           /\ cur[g].cursor \in 0..(MaxId + 1)
           /\ next[g].min \in Ids /\ next[g].max \in Ids
           /\ load[g].seg \in Ids /\ load[g].maxId \in Ids /\ load[g].version \in Nat
           /\ \A m \in granted[g] : m \in Nat /\ m + Step - 1 <= db.maxId
           /\ issued[g] \in Seq(Ids) /\ Len(issued[g]) \in Nat
           /\ \A i \in 1..Len(issued[g]) : issued[g][i] \in Int
<1>1. Step \in Nat /\ Step > 0 /\ MaxId \in Nat
  BY StepAssumption, MaxIdAssumption
<1>2. db.maxId \in Nat /\ db.version \in Nat /\ db.maxId <= MaxId
  BY <1>1 DEF IInv, TypeOK, RowOK, Ids
<1>3. /\ cur[g].min \in Ids /\ cur[g].max \in Ids
      /\ cur[g].cursor \in 0..(MaxId + 1)
      /\ next[g].min \in Ids /\ next[g].max \in Ids
      /\ load[g].seg \in Ids /\ load[g].maxId \in Ids /\ load[g].version \in Nat
  BY DEF IInv, TypeOK, BufferOK, CurType, NextType, LoadType
<1>4. \A m \in granted[g] : m \in Nat /\ m + Step - 1 <= db.maxId
  BY <1>1 DEF IInv, TypeOK, RowOK, Ids, SegmentsDisjoint
<1>5. issued[g] \in Seq(Ids)
  BY DEF IInv, TypeOK, CallersOK
<1>6. /\ Len(issued[g]) \in Nat
      /\ \A i \in 1..Len(issued[g]) : issued[g][i] \in Int
  BY <1>1, <1>5 DEF Ids
<1>7. QED
  BY <1>1, <1>2, <1>3, <1>4, <1>5, <1>6

(* A step of one process keeps the invariant if it keeps that process      *)
(* sound.                                                                  *)
LEMMA StepKeeps ==
    ASSUME IInv, NEW g \in Gens, Others(g), TypeOK', SegmentsDisjoint',
           load'[g].pc \in {"min", "max"} => load'[g].seg \in granted'[g],
           g \notin reloaded' => Sound(g)'
    PROVE  IInv'
<1>1. Ends'
  BY DEF IInv, Ends, Others
<1>2. \A h \in Gens \ reloaded' : Sound(h)'
  BY OthersStaySound DEF IInv, Others
<1>3. QED
  BY <1>1, <1>2 DEF IInv

(* The loader reads the row. *)
LEMMA AllocateReadKeeps ==
    ASSUME IInv, NEW g \in Gens, AllocateRead(g)
    PROVE  IInv'
<1>0. Others(g)
  BY Types DEF Others, AllocateRead, LoadAt
<1>1. TypeOK'
  <2>1. load' \in [Gens -> LoadType]
    <3> DEFINE l == [load[g] EXCEPT !.pc = "cas", !.maxId = db.maxId, !.version = db.version]
    <3>1. load[g] \in LoadType /\ db.maxId \in Ids /\ db.version \in Nat
      BY Types DEF IInv, TypeOK, RowOK
    <3>2. l \in LoadType
      BY <3>1 DEF LoadType, LoadSteps
    <3>3. load' = [load EXCEPT ![g] = l]
      BY DEF AllocateRead
    <3>4. QED
      BY <3>2, <3>3, Types, LoadUpdates
  <2>2. QED
    BY <2>1, <1>0 DEF Others, IInv, TypeOK, RowOK, BufferOK, CallersOK, AllocateRead, LoadAt
<1> USE DEF IInv, TypeOK, RowOK, BufferOK, CallersOK, NoLoad, LoadStart
<1>2. SegmentsDisjoint'
  BY DEF AllocateRead, LoadAt, SegmentsDisjoint
<1>3. load'[g].pc \in {"min", "max"} => load'[g].seg \in granted'[g]
  BY DEF AllocateRead, LoadAt, Ends
<1>4. ASSUME g \notin reloaded'
      PROVE  Sound(g)'
  <2>1. Sound(g)
    BY <1>4 DEF Others, AllocateRead, LoadAt
  <2> USE DEF Sound, AllocateRead, LoadAt
  <2>2. LoaderOK(g)'
    BY <1>4, <2>1, Numbers DEF LoaderOK, Fresh
  <2>3. SwapOK(g)'
    BY <1>4, <2>1 DEF SwapOK, LoaderOK
  <2>4. NextOK(g)'
    BY <1>4, <2>1 DEF NextOK, SwapOK, LoaderOK, Fresh, Segment
  <2>5. CurOK(g)'
    BY <2>1, Numbers DEF CurOK, Segment
  <2>6. IssuedOK(g)'
    BY <2>1 DEF IssuedOK
  <2>7. QED
    BY <2>2, <2>3, <2>4, <2>5, <2>6
<1>5. QED
  BY <1>0, <1>1, <1>2, <1>3, <1>4, StepKeeps

(* The update meets another one. *)
LEMMA AllocateConflictKeeps ==
    ASSUME IInv, NEW g \in Gens, AllocateConflict(g)
    PROVE  IInv'
<1>0. Others(g)
  BY Types DEF Others, AllocateConflict, LoadAt
<1>1. TypeOK'
  <2>1. load' \in [Gens -> LoadType]
    BY Types, LoadUpdates DEF AllocateConflict, LoadAt, LoadSteps
  <2>2. QED
    BY <2>1, <1>0 DEF Others, IInv, TypeOK, RowOK, BufferOK, CallersOK, AllocateConflict, LoadAt
<1> USE DEF IInv, TypeOK, RowOK, BufferOK, CallersOK, NoLoad, LoadStart
<1>2. SegmentsDisjoint'
  BY DEF AllocateConflict, LoadAt, SegmentsDisjoint
<1>3. load'[g].pc \in {"min", "max"} => load'[g].seg \in granted'[g]
  BY DEF AllocateConflict, LoadAt, Ends
<1>4. ASSUME g \notin reloaded'
      PROVE  Sound(g)'
  <2>1. Sound(g)
    BY <1>4 DEF Others, AllocateConflict, LoadAt
  <2> USE DEF Sound, AllocateConflict, LoadAt
  <2>2. LoaderOK(g)'
    BY <1>4, <2>1, Numbers DEF LoaderOK, Fresh
  <2>3. SwapOK(g)'
    BY <1>4, <2>1 DEF SwapOK, LoaderOK
  <2>4. NextOK(g)'
    BY <1>4, <2>1 DEF NextOK, SwapOK, LoaderOK, Fresh, Segment
  <2>5. CurOK(g)'
    BY <2>1, Numbers DEF CurOK, Segment
  <2>6. IssuedOK(g)'
    BY <2>1 DEF IssuedOK
  <2>7. QED
    BY <2>2, <2>3, <2>4, <2>5, <2>6
<1>5. QED
  BY <1>0, <1>1, <1>2, <1>3, <1>4, StepKeeps

(* Allocate fails. *)
LEMMA LoadFailsKeeps ==
    ASSUME IInv, NEW g \in Gens, LoadFails(g)
    PROVE  IInv'
<1>0. Others(g)
  BY Types DEF Others, LoadFails, LoadAt
<1>1. TypeOK'
  <2>1. load' \in [Gens -> LoadType]
    BY Types, LoadUpdates DEF LoadFails, LoadAt, LoadSteps
  <2>2. loading' \in [Gens -> BOOLEAN]
    BY Types DEF LoadFails, LoadAt
  <2>3. QED
    BY <2>1, <2>2, <1>0 DEF Others, IInv, TypeOK, RowOK, BufferOK, CallersOK, LoadFails, LoadAt
<1> USE DEF IInv, TypeOK, RowOK, BufferOK, CallersOK, NoLoad, LoadStart
<1>2. SegmentsDisjoint'
  BY DEF LoadFails, LoadAt, SegmentsDisjoint
<1>3. load'[g].pc \in {"min", "max"} => load'[g].seg \in granted'[g]
  BY DEF LoadFails, LoadAt, Ends
<1>4. ASSUME g \notin reloaded'
      PROVE  Sound(g)'
  <2>1. Sound(g)
    BY <1>4 DEF Others, LoadFails, LoadAt
  <2> USE DEF Sound, LoadFails, LoadAt
  <2>2. LoaderOK(g)'
    BY <1>4, <2>1, Numbers DEF LoaderOK, Fresh
  <2>3. SwapOK(g)'
    BY <1>4, <2>1 DEF SwapOK, LoaderOK
  <2>4. NextOK(g)'
    BY <1>4, <2>1 DEF NextOK, SwapOK, LoaderOK, Fresh, Segment
  <2>5. CurOK(g)'
    BY <2>1, Numbers DEF CurOK, Segment
  <2>6. IssuedOK(g)'
    BY <2>1 DEF IssuedOK
  <2>7. QED
    BY <2>2, <2>3, <2>4, <2>5, <2>6
<1>5. QED
  BY <1>0, <1>1, <1>2, <1>3, <1>4, StepKeeps

(* The loader's stores. *)
LEMMA StoreNextMinKeeps ==
    ASSUME IInv, NEW g \in Gens, StoreNextMin(g)
    PROVE  IInv'
<1>0. Others(g)
  BY Types DEF Others, StoreNextMin, LoadAt
<1>1. TypeOK'
  <2>1. load' \in [Gens -> LoadType]
    BY Types, LoadUpdates DEF StoreNextMin, LoadAt, LoadSteps
  <2>2. next' \in [Gens -> NextType]
    BY Types, NextUpdates, Numbers DEF StoreNextMin, LoadAt
  <2>3. QED
    BY <2>1, <2>2, <1>0 DEF Others, IInv, TypeOK, RowOK, BufferOK, CallersOK, StoreNextMin, LoadAt
<1> USE DEF IInv, TypeOK, RowOK, BufferOK, CallersOK, NoLoad, LoadStart
<1>2. SegmentsDisjoint'
  BY DEF StoreNextMin, LoadAt, SegmentsDisjoint
<1>3. load'[g].pc \in {"min", "max"} => load'[g].seg \in granted'[g]
  BY DEF StoreNextMin, LoadAt, Ends
<1>4. ASSUME g \notin reloaded'
      PROVE  Sound(g)'
  <2>1. Sound(g)
    BY <1>4 DEF Others, StoreNextMin, LoadAt
  <2> USE DEF Sound, StoreNextMin, LoadAt
  <2>2. LoaderOK(g)'
    BY <1>4, <2>1, Numbers DEF LoaderOK, Fresh
  <2>3. SwapOK(g)'
    BY <1>4, <2>1 DEF SwapOK, LoaderOK
  <2>4. NextOK(g)'
    BY <1>4, <2>1 DEF NextOK, SwapOK, LoaderOK, Fresh, Segment
  <2>5. CurOK(g)'
    BY <2>1, Numbers DEF CurOK, Segment
  <2>6. IssuedOK(g)'
    BY <2>1 DEF IssuedOK
  <2>7. QED
    BY <2>2, <2>3, <2>4, <2>5, <2>6
<1>5. QED
  BY <1>0, <1>1, <1>2, <1>3, <1>4, StepKeeps

(* The end of a granted segment is an id. *)
LEMMA StoreNextMaxKeeps ==
    ASSUME IInv, NEW g \in Gens, StoreNextMax(g)
    PROVE  IInv'
<1>0. Others(g)
  BY Types DEF Others, StoreNextMax, LoadAt
<1>1. TypeOK'
  <2>1. load' \in [Gens -> LoadType]
    BY Types, LoadUpdates DEF StoreNextMax, LoadAt, LoadSteps
  <2>2. next' \in [Gens -> NextType]
    <3>1. load[g].seg + Step - 1 \in Ids
      <4>1. load[g].seg \in granted[g]
        BY DEF StoreNextMax, LoadAt, IInv, Ends
      <4>2. load[g].seg \in Nat /\ load[g].seg + Step - 1 <= db.maxId
        BY <4>1, Numbers
      <4>3. QED
        BY <4>2, Numbers DEF Ids
    <3>2. next' = [next EXCEPT ![g].max = load[g].seg + Step - 1]
      BY DEF StoreNextMax
    <3>3. QED
      BY <3>1, <3>2, Types, NextUpdates
  <2>3. QED
    BY <2>1, <2>2, <1>0 DEF Others, IInv, TypeOK, RowOK, BufferOK, CallersOK, StoreNextMax, LoadAt
<1> USE DEF IInv, TypeOK, RowOK, BufferOK, CallersOK, NoLoad, LoadStart
<1>2. SegmentsDisjoint'
  BY DEF StoreNextMax, LoadAt, SegmentsDisjoint
<1>3. load'[g].pc \in {"min", "max"} => load'[g].seg \in granted'[g]
  BY DEF StoreNextMax, LoadAt, Ends
<1>4. ASSUME g \notin reloaded'
      PROVE  Sound(g)'
  <2>1. Sound(g)
    BY <1>4 DEF Others, StoreNextMax, LoadAt
  <2> USE DEF Sound, StoreNextMax, LoadAt
  <2>2. LoaderOK(g)'
    BY <1>4, <2>1, Numbers DEF LoaderOK, Fresh
  <2>3. SwapOK(g)'
    BY <1>4, <2>1 DEF SwapOK, LoaderOK
  <2>4. NextOK(g)'
    BY <1>4, <2>1 DEF NextOK, SwapOK, LoaderOK, Fresh, Segment
  <2>5. CurOK(g)'
    BY <2>1, Numbers DEF CurOK, Segment
  <2>6. IssuedOK(g)'
    BY <2>1 DEF IssuedOK
  <2>7. QED
    BY <2>2, <2>3, <2>4, <2>5, <2>6
<1>5. QED
  BY <1>0, <1>1, <1>2, <1>3, <1>4, StepKeeps

(* From here on the next segment may be swapped. *)
LEMMA StoreNextReadyKeeps ==
    ASSUME IInv, NEW g \in Gens, StoreNextReady(g)
    PROVE  IInv'
<1>0. Others(g)
  BY Types DEF Others, StoreNextReady, LoadAt
<1>1. TypeOK'
  <2>1. load' \in [Gens -> LoadType]
    BY Types, LoadUpdates DEF StoreNextReady, LoadAt, LoadSteps
  <2>2. next' \in [Gens -> NextType]
    BY Types, NextUpdates, Numbers DEF StoreNextReady, LoadAt
  <2>3. QED
    BY <2>1, <2>2, <1>0 DEF Others, IInv, TypeOK, RowOK, BufferOK, CallersOK, StoreNextReady, LoadAt
<1> USE DEF IInv, TypeOK, RowOK, BufferOK, CallersOK, NoLoad, LoadStart
<1>2. SegmentsDisjoint'
  BY DEF StoreNextReady, LoadAt, SegmentsDisjoint
<1>3. load'[g].pc \in {"min", "max"} => load'[g].seg \in granted'[g]
  BY DEF StoreNextReady, LoadAt, Ends
<1>4. ASSUME g \notin reloaded'
      PROVE  Sound(g)'
  <2>1. Sound(g)
    BY <1>4 DEF Others, StoreNextReady, LoadAt
  <2> USE DEF Sound, StoreNextReady, LoadAt
  <2>2. LoaderOK(g)'
    BY <1>4, <2>1, Numbers DEF LoaderOK, Fresh
  <2>3. SwapOK(g)'
    BY <1>4, <2>1 DEF SwapOK, LoaderOK
  <2>4. NextOK(g)'
    BY <1>4, <2>1 DEF NextOK, SwapOK, LoaderOK, Fresh, Segment
  <2>5. CurOK(g)'
    BY <2>1, Numbers DEF CurOK, Segment
  <2>6. IssuedOK(g)'
    BY <2>1 DEF IssuedOK
  <2>7. QED
    BY <2>2, <2>3, <2>4, <2>5, <2>6
<1>5. QED
  BY <1>0, <1>1, <1>2, <1>3, <1>4, StepKeeps

(* The loader ends. *)
LEMMA LoadDoneKeeps ==
    ASSUME IInv, NEW g \in Gens, LoadDone(g)
    PROVE  IInv'
<1>0. Others(g)
  BY Types DEF Others, LoadDone, LoadAt
<1>1. TypeOK'
  <2>1. load' \in [Gens -> LoadType]
    BY Types, LoadUpdates DEF LoadDone, LoadAt, LoadSteps
  <2>2. loading' \in [Gens -> BOOLEAN]
    BY Types DEF LoadDone, LoadAt
  <2>3. QED
    BY <2>1, <2>2, <1>0 DEF Others, IInv, TypeOK, RowOK, BufferOK, CallersOK, LoadDone, LoadAt
<1> USE DEF IInv, TypeOK, RowOK, BufferOK, CallersOK, NoLoad, LoadStart
<1>2. SegmentsDisjoint'
  BY DEF LoadDone, LoadAt, SegmentsDisjoint
<1>3. load'[g].pc \in {"min", "max"} => load'[g].seg \in granted'[g]
  BY DEF LoadDone, LoadAt, Ends
<1>4. ASSUME g \notin reloaded'
      PROVE  Sound(g)'
  <2>1. Sound(g)
    BY <1>4 DEF Others, LoadDone, LoadAt
  <2> USE DEF Sound, LoadDone, LoadAt
  <2>2. LoaderOK(g)'
    BY <1>4, <2>1, Numbers DEF LoaderOK, Fresh
  <2>3. SwapOK(g)'
    BY <1>4, <2>1 DEF SwapOK, LoaderOK
  <2>4. NextOK(g)'
    BY <1>4, <2>1 DEF NextOK, SwapOK, LoaderOK, Fresh, Segment
  <2>5. CurOK(g)'
    BY <2>1, Numbers DEF CurOK, Segment
  <2>6. IssuedOK(g)'
    BY <2>1 DEF IssuedOK
  <2>7. QED
    BY <2>2, <2>3, <2>4, <2>5, <2>6
<1>5. QED
  BY <1>0, <1>1, <1>2, <1>3, <1>4, StepKeeps

(* The first segment of a process. *)
LEMMA NewGeneratorKeeps ==
    ASSUME IInv, NEW g \in Gens, NewGenerator(g)
    PROVE  IInv'
<1>0. Others(g)
  BY Types DEF Others, NewGenerator, LoadAt
<1>1. TypeOK'
  <2>1. load' \in [Gens -> LoadType]
    BY Types, LoadUpdates DEF NewGenerator, LoadAt, LoadSteps
  <2>2. next' \in [Gens -> NextType]
    BY Types, NextUpdates, Numbers DEF NewGenerator, LoadAt
  <2>3. cur' \in [Gens -> CurType]
    BY Types, CurUpdates, Numbers DEF NewGenerator, LoadAt
  <2>4. up' \in [Gens -> BOOLEAN]
    BY Types DEF NewGenerator, LoadAt
  <2>5. QED
    BY <2>1, <2>2, <2>3, <2>4, <1>0 DEF Others, IInv, TypeOK, RowOK, BufferOK, CallersOK, NewGenerator, LoadAt
<1> USE DEF IInv, TypeOK, RowOK, BufferOK, CallersOK, NoLoad, LoadStart
<1>2. SegmentsDisjoint'
  BY DEF NewGenerator, LoadAt, SegmentsDisjoint
<1>3. load'[g].pc \in {"min", "max"} => load'[g].seg \in granted'[g]
  BY DEF NewGenerator, LoadAt, Ends
<1>4. ASSUME g \notin reloaded'
      PROVE  Sound(g)'
  <2>1. Sound(g)
    BY <1>4 DEF Others, NewGenerator, LoadAt
  <2> USE DEF Sound, NewGenerator, LoadAt
  <2>2. LoaderOK(g)'
    BY <1>4, <2>1, Numbers DEF LoaderOK, Fresh
  <2>3. SwapOK(g)'
    BY <1>4, <2>1 DEF SwapOK, LoaderOK
  <2>4. NextOK(g)'
    BY <1>4, <2>1 DEF NextOK, SwapOK, LoaderOK, Fresh, Segment
  <2>5. CurOK(g)'
    <3>1. /\ cur'[g].min = next[g].min /\ cur'[g].max = next[g].max
          /\ cur'[g].cursor = next[g].min
      BY Types
    <3>2. next[g].ready /\ \A c \in Callers : pc[g][c] # "swapReady"
      BY <2>1 DEF LoaderOK
    <3>3. Segment(g, next[g].min, next[g].max) /\ Fresh(g, next[g].min)
      BY <2>1, <3>2 DEF NextOK
    <3>4. next[g].min <= next[g].max + 1
      BY <3>3, Numbers DEF Segment, Ids
    <3>5. QED
      BY <3>1, <3>3, <3>4, Numbers DEF CurOK, Segment, Fresh, Ids
  <2>6. IssuedOK(g)'
    BY <2>1 DEF IssuedOK
  <2>7. QED
    BY <2>2, <2>3, <2>4, <2>5, <2>6
<1>5. QED
  BY <1>0, <1>1, <1>2, <1>3, <1>4, StepKeeps

(* A process starts over. *)
LEMMA RestartKeeps ==
    ASSUME IInv, NEW g \in Gens, Restart(g)
    PROVE  IInv'
<1>0. Others(g)
  BY Types DEF Others, Restart
<1>1. TypeOK'
  <2>1. up' \in [Gens -> BOOLEAN]
    BY Types DEF Restart
  <2>2. cur' \in [Gens -> CurType]
    BY Types, Numbers, Zero DEF Restart, CurType
  <2>3. next' \in [Gens -> NextType]
    BY Types, Numbers, Zero DEF Restart, NextType
  <2>4. loading' \in [Gens -> BOOLEAN]
    BY Types DEF Restart
  <2>5. load' \in [Gens -> LoadType]
    BY Types, LoadUpdates DEF Restart, LoadSteps
  <2>6. mu' \in [Gens -> Callers \cup {NoCaller}]
    BY Types DEF Restart
  <2>7. pc' \in [Gens -> [Callers -> CallerSteps]]
    BY Types DEF Restart, CallerSteps
  <2>8. tmp' \in [Gens -> [Callers -> Ids]]
    BY Types, Numbers, Zero DEF Restart
  <2>9. QED
    BY <2>1, <2>2, <2>3, <2>4, <2>5, <2>6, <2>7, <2>8, <1>0 DEF Others, IInv, TypeOK, RowOK, BufferOK, CallersOK, Restart
<1> USE DEF IInv, TypeOK, RowOK, BufferOK, CallersOK, NoLoad, LoadStart
<1>2. SegmentsDisjoint'
  BY DEF Restart, SegmentsDisjoint
<1>3. load'[g].pc \in {"min", "max"} => load'[g].seg \in granted'[g]
  BY DEF Restart, Ends
<1>4. ASSUME g \notin reloaded'
      PROVE  Sound(g)'
  <2>1. Sound(g)
    BY <1>4 DEF Others, Restart
  <2> USE DEF Sound, Restart
  <2>2. LoaderOK(g)'
    BY <1>4, <2>1, Numbers DEF LoaderOK, Fresh
  <2>3. SwapOK(g)'
    BY <1>4, <2>1 DEF SwapOK, LoaderOK
  <2>4. NextOK(g)'
    BY <1>4, <2>1 DEF NextOK, SwapOK, LoaderOK, Fresh, Segment
  <2>5. CurOK(g)'
    BY <2>1, Numbers DEF CurOK, Segment
  <2>6. IssuedOK(g)'
    BY <2>1 DEF IssuedOK
  <2>7. QED
    BY <2>2, <2>3, <2>4, <2>5, <2>6
<1>5. QED
  BY <1>0, <1>1, <1>2, <1>3, <1>4, StepKeeps

(* A caller enters Next. *)
LEMMA CallKeeps ==
    ASSUME IInv, NEW g \in Gens, NEW c \in Callers, Call(g, c)
    PROVE  IInv'
<1>0. Others(g)
  BY Types DEF Others, Call, At, Goto, bufferVars
<1>1. TypeOK'
  <2>1. pc' \in [Gens -> [Callers -> CallerSteps]]
    <3>1. \E x \in CallerSteps : pc' = [pc EXCEPT ![g][c] = x]
      BY DEF Call, At, Goto, bufferVars, CallerSteps
    <3>2. QED
      BY <3>1, Types, CallerUpdates
  <2>3. QED
    BY <2>1, <1>0 DEF Others, IInv, TypeOK, RowOK, BufferOK, CallersOK, Call, At, Goto, bufferVars
<1> USE DEF IInv, TypeOK, RowOK, BufferOK, CallersOK, NoLoad, LoadStart
<1>2. SegmentsDisjoint'
  BY DEF Call, At, Goto, bufferVars, SegmentsDisjoint
<1>3. load'[g].pc \in {"min", "max"} => load'[g].seg \in granted'[g]
  BY DEF Call, At, Goto, bufferVars, Ends
<1>4. ASSUME g \notin reloaded'
      PROVE  Sound(g)'
  <2>1. Sound(g)
    BY <1>4 DEF Others, Call, At, Goto, bufferVars
  <2> USE DEF Sound, Call, At, Goto, bufferVars
  <2>2. LoaderOK(g)'
    BY <1>4, <2>1, Numbers DEF LoaderOK, Fresh
  <2>3. SwapOK(g)'
    BY <1>4, <2>1 DEF SwapOK, LoaderOK
  <2>4. NextOK(g)'
    BY <1>4, <2>1 DEF NextOK, SwapOK, LoaderOK, Fresh, Segment
  <2>5. CurOK(g)'
    BY <2>1, Numbers DEF CurOK, Segment
  <2>6. IssuedOK(g)'
    BY <2>1 DEF IssuedOK
  <2>7. QED
    BY <2>2, <2>3, <2>4, <2>5, <2>6
<1>5. QED
  BY <1>0, <1>1, <1>2, <1>3, <1>4, StepKeeps

(* An id is returned. *)
LEMMA tryNextKeeps ==
    ASSUME IInv, NEW g \in Gens, NEW c \in Callers, tryNext(g, c)
    PROVE  IInv'
<1>0. Others(g)
  BY Types DEF Others, tryNext, At, Goto
<1>1. TypeOK'
  <2>1. issued' \in [Gens -> Seq(Ids)]
    <3>1. cur[g].cursor \in Ids /\ issued[g] \in Seq(Ids)
      BY Numbers, Types DEF tryNext, Ids
    <3>2. Append(issued[g], cur[g].cursor) \in Seq(Ids)
      BY <3>1, AppendProperties
    <3>3. QED
      BY <3>2, Types DEF tryNext
  <2>2. cur' \in [Gens -> CurType]
    BY Types, CurUpdates, Numbers DEF tryNext, At, Goto
  <2>3. pc' \in [Gens -> [Callers -> CallerSteps]]
    <3>1. \E x \in CallerSteps : pc' = [pc EXCEPT ![g][c] = x]
      BY DEF tryNext, At, Goto, CallerSteps
    <3>2. QED
      BY <3>1, Types, CallerUpdates
  <2>4. mu' \in [Gens -> Callers \cup {NoCaller}]
    <3>1. mu' = mu \/ mu' = [mu EXCEPT ![g] = c]
      BY DEF tryNext
    <3>2. QED
      BY <3>1, Types
  <2>5. QED
    BY <2>1, <2>2, <2>3, <2>4, <1>0 DEF Others, IInv, TypeOK, RowOK, BufferOK, CallersOK, tryNext, At, Goto
<1>2. SegmentsDisjoint'
  BY DEF tryNext, IInv, SegmentsDisjoint
<1>3. load'[g].pc \in {"min", "max"} => load'[g].seg \in granted'[g]
  BY DEF tryNext, IInv, Ends
<1>4. ASSUME g \notin reloaded'
      PROVE  Sound(g)'
  <2>1. Sound(g)
    BY <1>4 DEF tryNext, IInv
  <2> DEFINE id == cur[g].cursor
             n == Len(issued[g])
  <2>2. /\ up' = up /\ next' = next /\ load' = load /\ loading' = loading /\ granted' = granted
        /\ tmp' = tmp /\ mu[g] = NoCaller /\ id <= cur[g].max
        /\ cur'[g].min = cur[g].min /\ cur'[g].max = cur[g].max /\ cur'[g].cursor = id + 1
    BY Types DEF tryNext, CurType
  <2>3. /\ \A d \in Callers \ {c} : pc'[g][d] = pc[g][d]
        /\ \/ pc'[g][c] = "idle"
           \/ pc'[g][c] = "preLoading" /\ mu'[g] = c
    <3>1. \/ Goto(g, c, "preLoading") /\ mu' = [mu EXCEPT ![g] = c]
          \/ Goto(g, c, "idle")
      BY DEF tryNext
    <3>2. CASE Goto(g, c, "preLoading") /\ mu' = [mu EXCEPT ![g] = c]
      BY <3>2, Types, CallerMoves
    <3>3. CASE Goto(g, c, "idle")
      BY <3>3, CallerMoves
    <3>4. QED
      BY <3>1, <3>2, <3>3
  <2>4. \A d \in Callers : pc[g][d] \notin
            {"preLoading", "preReady", "preStart", "swapMin", "swapMax", "swapReady"}
    BY <2>1, <2>2, NoCallerAssumption DEF Sound, SwapOK
  <2>5. up[g]
    BY <2>1 DEF Sound, LoaderOK, tryNext, At
  <2>6. /\ issued[g] \in Seq(Ids) /\ id \in Ids
        /\ issued'[g] = Append(issued[g], id)
    BY <2>2, Types, Numbers DEF tryNext, Ids
  <2>7. /\ Len(issued'[g]) = n + 1 /\ n \in Nat /\ id \in Int
        /\ \A i \in 1..n : issued'[g][i] = issued[g][i] /\ issued[g][i] \in Int
        /\ issued'[g][n + 1] = id
    BY <2>6, AppendProperties, Numbers DEF Ids
  <2>8. /\ Segment(g, cur[g].min, cur[g].max)
        /\ cur[g].min <= id
        /\ \A i \in 1..n : issued[g][i] < id
    BY <2>1, <2>5 DEF Sound, CurOK
  <2> HIDE DEF id, n
  <2>a. \A i \in 1..(n + 1) : i \in 1..n \/ i = n + 1
    BY <2>7
  <2>b. ASSUME NEW m \in Int, Fresh(g, m) PROVE Fresh(g, m)'
    <3>1. \A i \in 1..n : issued[g][i] < m
      BY <2>b DEF Fresh, n
    <3>2. id < m
      BY <2>2, <2>5, <2>7, <2>b, Numbers DEF Fresh, Ids
    <3>3. QED
      BY <2>2, <2>7, <2>a, <2>b, <3>1, <3>2 DEF Fresh
  <2>9. LoaderOK(g)'
    <3>1. load[g].seg \in Int
      BY Numbers DEF Ids
    <3>2. QED
      BY <2>1, <2>2, <2>5, <2>b, <3>1 DEF Sound, LoaderOK, Fresh
  <2>10. SwapOK(g)'
    BY <2>2, <2>3, <2>4 DEF SwapOK
  <2>11. NextOK(g)'
    <3>1. next[g].min \in Int
      BY Numbers DEF Ids
    <3>2. next[g].ready => Segment(g, next[g].min, next[g].max) /\ Fresh(g, next[g].min)
      BY <2>1, <2>4 DEF Sound, NextOK
    <3>3. QED
      BY <2>2, <2>b, <3>1, <3>2 DEF NextOK, Segment, Fresh
  <2>12. CurOK(g)'
    <3>1. \A i \in 1..(n + 1) : issued'[g][i] < id + 1
      BY <2>7, <2>8, <2>a
    <3>2. QED
      BY SMTT(30), <2>2, <2>7, <2>8, <3>1, Numbers DEF CurOK, Segment, Ids
  <2>13. IssuedOK(g)'
    <3>1. \A i \in 1..n : \E m \in granted[g] : m <= issued[g][i] /\ issued[g][i] < m + Step
      BY <2>1 DEF Sound, IssuedOK, n
    <3>2. \A i, j \in 1..n : i < j => issued[g][i] < issued[g][j]
      BY <2>1 DEF Sound, IssuedOK, n
    <3>3. cur[g].min \in granted[g] /\ cur[g].min <= id /\ id < cur[g].min + Step
      BY <2>2, <2>7, <2>8, Numbers DEF Segment, Ids
    <3>4. ASSUME NEW i \in 1..(n + 1)
          PROVE  \E m \in granted[g] : m <= issued'[g][i] /\ issued'[g][i] < m + Step
      BY <2>7, <2>a, <3>1, <3>3
    <3>5. ASSUME NEW i \in 1..(n + 1), NEW j \in 1..(n + 1), i < j
          PROVE  issued'[g][i] < issued'[g][j]
      <4>1. i \in 1..n
        BY <2>7, <3>5
      <4>2. CASE j \in 1..n
        BY <2>7, <3>2, <3>5, <4>1, <4>2
      <4>3. CASE j = n + 1
        BY <2>7, <2>8, <4>1, <4>3
      <4>4. QED
        BY <2>a, <4>2, <4>3
    <3>6. QED
      BY <2>2, <2>7, <3>4, <3>5 DEF IssuedOK
  <2>14. QED
    BY <2>9, <2>10, <2>11, <2>12, <2>13 DEF Sound
<1>5. QED
  BY <1>0, <1>1, <1>2, <1>3, <1>4, StepKeeps

(* The checks of maybePrefetchLocked. *)
LEMMA PrefetchCheckKeeps ==
    ASSUME IInv, NEW g \in Gens, NEW c \in Callers, PrefetchCheck(g, c)
    PROVE  IInv'
<1>0. Others(g)
  BY Types DEF Others, PrefetchCheck, At, Goto, bufferVars
<1>1. TypeOK'
  <2>1. pc' \in [Gens -> [Callers -> CallerSteps]]
    <3>1. \E x \in CallerSteps : pc' = [pc EXCEPT ![g][c] = x]
      BY DEF PrefetchCheck, At, Goto, bufferVars, CallerSteps
    <3>2. QED
      BY <3>1, Types, CallerUpdates
  <2>2. mu' \in [Gens -> Callers \cup {NoCaller}]
    BY Types DEF PrefetchCheck, At, Goto, bufferVars
  <2>3. QED
    BY <2>1, <2>2, <1>0 DEF Others, IInv, TypeOK, RowOK, BufferOK, CallersOK, PrefetchCheck, At, Goto, bufferVars
<1> USE DEF IInv, TypeOK, RowOK, BufferOK, CallersOK, NoLoad, LoadStart
<1>2. SegmentsDisjoint'
  BY DEF PrefetchCheck, At, Goto, bufferVars, SegmentsDisjoint
<1>3. load'[g].pc \in {"min", "max"} => load'[g].seg \in granted'[g]
  BY DEF PrefetchCheck, At, Goto, bufferVars, Ends
<1>4. ASSUME g \notin reloaded'
      PROVE  Sound(g)'
  <2>1. Sound(g)
    BY <1>4 DEF Others, PrefetchCheck, At, Goto, bufferVars
  <2> USE DEF Sound, PrefetchCheck, At, Goto, bufferVars
  <2>2. LoaderOK(g)'
    BY <1>4, <2>1, Numbers DEF LoaderOK, Fresh
  <2>3. SwapOK(g)'
    BY <1>4, <2>1 DEF SwapOK, LoaderOK
  <2>4. NextOK(g)'
    BY <1>4, <2>1 DEF NextOK, SwapOK, LoaderOK, Fresh, Segment
  <2>5. CurOK(g)'
    BY <2>1, Numbers DEF CurOK, Segment
  <2>6. IssuedOK(g)'
    BY <2>1 DEF IssuedOK
  <2>7. QED
    BY <2>2, <2>3, <2>4, <2>5, <2>6
<1>5. QED
  BY <1>0, <1>1, <1>2, <1>3, <1>4, StepKeeps

(* A loader starts: over a ready segment, or soundly. *)
LEMMA PrefetchStartKeeps ==
    ASSUME IInv, NEW g \in Gens, NEW c \in Callers, PrefetchStart(g, c)
    PROVE  IInv'
<1>0. Others(g)
  BY Types DEF Others, PrefetchStart, At, Goto, StartLoader
<1>1. TypeOK'
  <2>1. loading' \in [Gens -> BOOLEAN]
    BY Types DEF PrefetchStart, At, Goto, StartLoader
  <2>2. load' \in [Gens -> LoadType]
    <3>1. load' = load \/ load' = [load EXCEPT ![g] = LoadStart]
      BY DEF PrefetchStart, StartLoader
    <3>2. QED
      BY <3>1, Types, LoadUpdates
  <2>3. pc' \in [Gens -> [Callers -> CallerSteps]]
    <3>1. \E x \in CallerSteps : pc' = [pc EXCEPT ![g][c] = x]
      BY DEF PrefetchStart, At, Goto, StartLoader, CallerSteps
    <3>2. QED
      BY <3>1, Types, CallerUpdates
  <2>4. mu' \in [Gens -> Callers \cup {NoCaller}]
    BY Types DEF PrefetchStart, At, Goto, StartLoader
  <2>5. QED
    BY <2>1, <2>2, <2>3, <2>4, <1>0 DEF Others, IInv, TypeOK, RowOK, BufferOK, CallersOK, PrefetchStart, At, Goto, StartLoader
<1> USE DEF IInv, TypeOK, RowOK, BufferOK, CallersOK, NoLoad, LoadStart
<1>2. SegmentsDisjoint'
  BY DEF PrefetchStart, At, Goto, StartLoader, SegmentsDisjoint
<1>3. load'[g].pc \in {"min", "max"} => load'[g].seg \in granted'[g]
  BY DEF PrefetchStart, At, Goto, StartLoader, Ends
<1>4. ASSUME g \notin reloaded'
      PROVE  Sound(g)'
  <2>1. Sound(g)
    BY <1>4 DEF Others, PrefetchStart, At, Goto, StartLoader
  <2> USE DEF Sound, PrefetchStart, At, Goto, StartLoader
  <2>2. LoaderOK(g)'
    BY <1>4, <2>1, Numbers DEF LoaderOK, Fresh
  <2>3. SwapOK(g)'
    BY <1>4, <2>1 DEF SwapOK, LoaderOK
  <2>4. NextOK(g)'
    BY <1>4, <2>1 DEF NextOK, SwapOK, LoaderOK, Fresh, Segment
  <2>5. CurOK(g)'
    BY <2>1, Numbers DEF CurOK, Segment
  <2>6. IssuedOK(g)'
    BY <2>1 DEF IssuedOK
  <2>7. QED
    BY <2>2, <2>3, <2>4, <2>5, <2>6
<1>5. QED
  BY <1>0, <1>1, <1>2, <1>3, <1>4, StepKeeps

(* The current segment is used up. *)
LEMMA ExhaustedKeeps ==
    ASSUME IInv, NEW g \in Gens, NEW c \in Callers, Exhausted(g, c)
    PROVE  IInv'
<1>0. Others(g)
  BY Types DEF Others, Exhausted, At, Goto, bufferVars
<1>1. TypeOK'
  <2>1. pc' \in [Gens -> [Callers -> CallerSteps]]
    <3>1. \E x \in CallerSteps : pc' = [pc EXCEPT ![g][c] = x]
      BY DEF Exhausted, At, Goto, bufferVars, CallerSteps
    <3>2. QED
      BY <3>1, Types, CallerUpdates
  <2>3. QED
    BY <2>1, <1>0 DEF Others, IInv, TypeOK, RowOK, BufferOK, CallersOK, Exhausted, At, Goto, bufferVars
<1> USE DEF IInv, TypeOK, RowOK, BufferOK, CallersOK, NoLoad, LoadStart
<1>2. SegmentsDisjoint'
  BY DEF Exhausted, At, Goto, bufferVars, SegmentsDisjoint
<1>3. load'[g].pc \in {"min", "max"} => load'[g].seg \in granted'[g]
  BY DEF Exhausted, At, Goto, bufferVars, Ends
<1>4. ASSUME g \notin reloaded'
      PROVE  Sound(g)'
  <2>1. Sound(g)
    BY <1>4 DEF Others, Exhausted, At, Goto, bufferVars
  <2> USE DEF Sound, Exhausted, At, Goto, bufferVars
  <2>2. LoaderOK(g)'
    BY <1>4, <2>1, Numbers DEF LoaderOK, Fresh
  <2>3. SwapOK(g)'
    BY <1>4, <2>1 DEF SwapOK, LoaderOK
  <2>4. NextOK(g)'
    BY <1>4, <2>1 DEF NextOK, SwapOK, LoaderOK, Fresh, Segment
  <2>5. CurOK(g)'
    BY <2>1, Numbers DEF CurOK, Segment
  <2>6. IssuedOK(g)'
    BY <2>1 DEF IssuedOK
  <2>7. QED
    BY <2>2, <2>3, <2>4, <2>5, <2>6
<1>5. QED
  BY <1>0, <1>1, <1>2, <1>3, <1>4, StepKeeps

(* A ready segment is about to be swapped. *)
LEMMA switchSegmentKeeps ==
    ASSUME IInv, NEW g \in Gens, NEW c \in Callers, switchSegment(g, c)
    PROVE  IInv'
<1>0. Others(g)
  BY Types DEF Others, switchSegment, At, Goto, bufferVars
<1>1. TypeOK'
  <2>1. pc' \in [Gens -> [Callers -> CallerSteps]]
    <3>1. \E x \in CallerSteps : pc' = [pc EXCEPT ![g][c] = x]
      BY DEF switchSegment, At, Goto, bufferVars, CallerSteps
    <3>2. QED
      BY <3>1, Types, CallerUpdates
  <2>2. mu' \in [Gens -> Callers \cup {NoCaller}]
    BY Types DEF switchSegment, At, Goto, bufferVars
  <2>3. QED
    BY <2>1, <2>2, <1>0 DEF Others, IInv, TypeOK, RowOK, BufferOK, CallersOK, switchSegment, At, Goto, bufferVars
<1> USE DEF IInv, TypeOK, RowOK, BufferOK, CallersOK, NoLoad, LoadStart
<1>2. SegmentsDisjoint'
  BY DEF switchSegment, At, Goto, bufferVars, SegmentsDisjoint
<1>3. load'[g].pc \in {"min", "max"} => load'[g].seg \in granted'[g]
  BY DEF switchSegment, At, Goto, bufferVars, Ends
<1>4. ASSUME g \notin reloaded'
      PROVE  Sound(g)'
  <2>1. Sound(g)
    BY <1>4 DEF Others, switchSegment, At, Goto, bufferVars
  <2>a. /\ \A d \in Callers \ {c} : pc'[g][d] = pc[g][d]
        /\ \/ pc'[g][c] \in {"try", "isLoading"}
           \/ pc'[g][c] = "swapMin" /\ next[g].ready /\ mu'[g] = c
    <3>1. \/ Goto(g, c, "try")
          \/ Goto(g, c, "isLoading")
          \/ Goto(g, c, "swapMin") /\ mu' = [mu EXCEPT ![g] = c] /\ next[g].ready
      BY DEF switchSegment
    <3>2. CASE Goto(g, c, "try")
      BY <3>2, CallerMoves
    <3>3. CASE Goto(g, c, "isLoading")
      BY <3>3, CallerMoves
    <3>4. CASE Goto(g, c, "swapMin") /\ mu' = [mu EXCEPT ![g] = c] /\ next[g].ready
      BY <3>4, Types, CallerMoves
    <3>5. QED
      BY <3>1, <3>2, <3>3, <3>4
  <2> USE DEF Sound, switchSegment, At, Goto, bufferVars
  <2>2. LoaderOK(g)'
    BY <1>4, <2>1, Numbers DEF LoaderOK, Fresh
  <2>3. SwapOK(g)'
    <3>1. \A d \in Callers : pc[g][d] \notin
              {"preLoading", "preReady", "preStart", "swapMin", "swapMax", "swapReady"}
      BY <2>1, NoCallerAssumption DEF SwapOK
    <3>2. next' = next
      OBVIOUS
    <3>3. QED
      BY <2>a, <3>1, <3>2 DEF SwapOK
  <2>4. NextOK(g)'
    BY <1>4, <2>1 DEF NextOK, SwapOK, LoaderOK, Fresh, Segment
  <2>5. CurOK(g)'
    BY <2>1, Numbers DEF CurOK, Segment
  <2>6. IssuedOK(g)'
    BY <2>1 DEF IssuedOK
  <2>7. QED
    BY <2>2, <2>3, <2>4, <2>5, <2>6
<1>5. QED
  BY <1>0, <1>1, <1>2, <1>3, <1>4, StepKeeps

(* The first load of swapToNext. *)
LEMMA SwapMinKeeps ==
    ASSUME IInv, NEW g \in Gens, NEW c \in Callers, SwapMin(g, c)
    PROVE  IInv'
<1>0. Others(g)
  BY Types DEF Others, SwapMin, At, Goto, bufferVars
<1>1. TypeOK'
  <2>1. pc' \in [Gens -> [Callers -> CallerSteps]]
    <3>1. \E x \in CallerSteps : pc' = [pc EXCEPT ![g][c] = x]
      BY DEF SwapMin, At, Goto, bufferVars, CallerSteps
    <3>2. QED
      BY <3>1, Types, CallerUpdates
  <2>2. tmp' \in [Gens -> [Callers -> Ids]]
    BY Types, Numbers DEF SwapMin
  <2>3. QED
    BY <2>1, <2>2, <1>0 DEF Others, IInv, TypeOK, RowOK, BufferOK, CallersOK, SwapMin, At, Goto, bufferVars
<1> USE DEF IInv, TypeOK, RowOK, BufferOK, CallersOK, NoLoad, LoadStart
<1>2. SegmentsDisjoint'
  BY DEF SwapMin, At, Goto, bufferVars, SegmentsDisjoint
<1>3. load'[g].pc \in {"min", "max"} => load'[g].seg \in granted'[g]
  BY DEF SwapMin, At, Goto, bufferVars, Ends
<1>4. ASSUME g \notin reloaded'
      PROVE  Sound(g)'
  <2>1. Sound(g)
    BY <1>4 DEF Others, SwapMin, At, Goto, bufferVars
  <2> USE DEF Sound, SwapMin, At, Goto, bufferVars
  <2>2. LoaderOK(g)'
    BY <1>4, <2>1, Numbers DEF LoaderOK, Fresh
  <2>3. SwapOK(g)'
    BY <1>4, <2>1 DEF SwapOK, LoaderOK
  <2>4. NextOK(g)'
    BY <1>4, <2>1 DEF NextOK, SwapOK, LoaderOK, Fresh, Segment
  <2>5. CurOK(g)'
    BY <2>1, Numbers DEF CurOK, Segment
  <2>6. IssuedOK(g)'
    BY <2>1 DEF IssuedOK
  <2>7. QED
    BY <2>2, <2>3, <2>4, <2>5, <2>6
<1>5. QED
  BY <1>0, <1>1, <1>2, <1>3, <1>4, StepKeeps

(* The next segment becomes the current one. *)
LEMMA SwapMaxKeeps ==
    ASSUME IInv, NEW g \in Gens, NEW c \in Callers, SwapMax(g, c)
    PROVE  IInv'
<1>0. Others(g)
  BY Types DEF Others, SwapMax, At, Goto
<1>1. TypeOK'
  <2>1. cur' \in [Gens -> CurType]
    <3>1. tmp[g][c] \in Ids /\ next[g].max \in Ids
      BY Types, Numbers
    <3>2. QED
      BY <3>1, Types, CurUpdates DEF SwapMax
  <2>2. tmp' \in [Gens -> [Callers -> Ids]]
    BY Types, Numbers, Zero DEF SwapMax, At, Goto
  <2>3. pc' \in [Gens -> [Callers -> CallerSteps]]
    <3>1. \E x \in CallerSteps : pc' = [pc EXCEPT ![g][c] = x]
      BY DEF SwapMax, At, Goto, CallerSteps
    <3>2. QED
      BY <3>1, Types, CallerUpdates
  <2>4. QED
    BY <2>1, <2>2, <2>3, <1>0 DEF Others, IInv, TypeOK, RowOK, BufferOK, CallersOK, SwapMax, At, Goto
<1> USE DEF IInv, TypeOK, RowOK, BufferOK, CallersOK, NoLoad, LoadStart
<1>2. SegmentsDisjoint'
  BY DEF SwapMax, At, Goto, SegmentsDisjoint
<1>3. load'[g].pc \in {"min", "max"} => load'[g].seg \in granted'[g]
  BY DEF SwapMax, At, Goto, Ends
<1>4. ASSUME g \notin reloaded'
      PROVE  Sound(g)'
  <2>1. Sound(g)
    BY <1>4 DEF Others, SwapMax, At, Goto
  <2> USE DEF Sound, SwapMax, At, Goto
  <2>0. /\ next[g].ready /\ tmp[g][c] = next[g].min /\ mu[g] = c
        /\ \A d \in Callers : pc[g][d] # "swapReady"
        /\ Segment(g, next[g].min, next[g].max) /\ Fresh(g, next[g].min)
        /\ load[g].pc \in {"none", "done"}
    <3>1. next[g].ready /\ tmp[g][c] = next[g].min /\ mu[g] = c
      BY <2>1 DEF SwapOK
    <3>2. \A d \in Callers : pc[g][d] # "swapReady"
      BY <2>1, <3>1 DEF SwapOK
    <3>3. load[g].pc \in {"none", "done"}
      BY <2>1, <3>1, Types DEF LoaderOK, LoadType, LoadSteps
    <3>4. QED
      BY <2>1, <3>1, <3>2, <3>3 DEF NextOK
  <2>2. LoaderOK(g)'
    <3>1. up[g] /\ load'[g] = load[g] /\ next'[g] = next[g] /\ up'[g] = up[g] /\ loading'[g] = loading[g]
      BY <2>1 DEF LoaderOK
    <3>2. QED
      BY <2>0, <2>1, <3>1 DEF LoaderOK
  <2>3. SwapOK(g)'
    BY <1>4, <2>1 DEF SwapOK, LoaderOK
  <2>4. NextOK(g)'
    BY <1>4, <2>1 DEF NextOK, SwapOK, LoaderOK, Fresh, Segment
  <2>5. CurOK(g)'
    <3>1. /\ cur'[g].min = next[g].min /\ cur'[g].max = next[g].max
          /\ cur'[g].cursor = next[g].min
      BY <2>0, Types
    <3>2. next[g].min <= next[g].max + 1
      BY <2>0, Numbers DEF Segment, Ids
    <3>3. QED
      BY <2>0, <3>1, <3>2, Numbers DEF CurOK, Segment, Fresh, Ids
  <2>6. IssuedOK(g)'
    BY <2>1 DEF IssuedOK
  <2>7. QED
    BY <2>2, <2>3, <2>4, <2>5, <2>6
<1>5. QED
  BY <1>0, <1>1, <1>2, <1>3, <1>4, StepKeeps

(* And is no longer ready. *)
LEMMA SwapReadyKeeps ==
    ASSUME IInv, NEW g \in Gens, NEW c \in Callers, SwapReady(g, c)
    PROVE  IInv'
<1>0. Others(g)
  BY Types DEF Others, SwapReady, At, Goto
<1>1. TypeOK'
  <2>1. next' \in [Gens -> NextType]
    BY Types, NextUpdates, Numbers DEF SwapReady, At, Goto
  <2>2. mu' \in [Gens -> Callers \cup {NoCaller}]
    BY Types DEF SwapReady, At, Goto
  <2>3. pc' \in [Gens -> [Callers -> CallerSteps]]
    <3>1. \E x \in CallerSteps : pc' = [pc EXCEPT ![g][c] = x]
      BY DEF SwapReady, At, Goto, CallerSteps
    <3>2. QED
      BY <3>1, Types, CallerUpdates
  <2>4. QED
    BY <2>1, <2>2, <2>3, <1>0 DEF Others, IInv, TypeOK, RowOK, BufferOK, CallersOK, SwapReady, At, Goto
<1> USE DEF IInv, TypeOK, RowOK, BufferOK, CallersOK, NoLoad, LoadStart
<1>2. SegmentsDisjoint'
  BY DEF SwapReady, At, Goto, SegmentsDisjoint
<1>3. load'[g].pc \in {"min", "max"} => load'[g].seg \in granted'[g]
  BY DEF SwapReady, At, Goto, Ends
<1>4. ASSUME g \notin reloaded'
      PROVE  Sound(g)'
  <2>1. Sound(g)
    BY <1>4 DEF Others, SwapReady, At, Goto
  <2> USE DEF Sound, SwapReady, At, Goto
  <2>2. LoaderOK(g)'
    BY <1>4, <2>1, Numbers DEF LoaderOK, Fresh
  <2>3. SwapOK(g)'
    BY <1>4, <2>1 DEF SwapOK, LoaderOK
  <2>4. NextOK(g)'
    BY <1>4, <2>1 DEF NextOK, SwapOK, LoaderOK, Fresh, Segment
  <2>5. CurOK(g)'
    BY <2>1, Numbers DEF CurOK, Segment
  <2>6. IssuedOK(g)'
    BY <2>1 DEF IssuedOK
  <2>7. QED
    BY <2>2, <2>3, <2>4, <2>5, <2>6
<1>5. QED
  BY <1>0, <1>1, <1>2, <1>3, <1>4, StepKeeps

(* The checks before a loader is started. *)
LEMMA LoadingLoadKeeps ==
    ASSUME IInv, NEW g \in Gens, NEW c \in Callers, LoadingLoad(g, c)
    PROVE  IInv'
<1>0. Others(g)
  BY Types DEF Others, LoadingLoad, At, Goto, bufferVars
<1>1. TypeOK'
  <2>1. pc' \in [Gens -> [Callers -> CallerSteps]]
    <3>1. \E x \in CallerSteps : pc' = [pc EXCEPT ![g][c] = x]
      BY DEF LoadingLoad, At, Goto, bufferVars, CallerSteps
    <3>2. QED
      BY <3>1, Types, CallerUpdates
  <2>2. QED
    BY <2>1, <1>0 DEF Others, IInv, TypeOK, RowOK, BufferOK, CallersOK, LoadingLoad, At, Goto, bufferVars
<1> USE DEF IInv, TypeOK, RowOK, BufferOK, CallersOK, NoLoad, LoadStart
<1>2. SegmentsDisjoint'
  BY DEF LoadingLoad, At, Goto, bufferVars, SegmentsDisjoint
<1>3. load'[g].pc \in {"min", "max"} => load'[g].seg \in granted'[g]
  BY DEF LoadingLoad, At, Goto, bufferVars, Ends
<1>4. ASSUME g \notin reloaded'
      PROVE  Sound(g)'
  <2>1. Sound(g)
    BY <1>4 DEF Others, LoadingLoad, At, Goto, bufferVars
  <2> USE DEF Sound, LoadingLoad, At, Goto, bufferVars
  <2>2. LoaderOK(g)'
    BY <1>4, <2>1, Numbers DEF LoaderOK, Fresh
  <2>3. SwapOK(g)'
    BY <1>4, <2>1 DEF SwapOK, LoaderOK
  <2>4. NextOK(g)'
    BY <1>4, <2>1 DEF NextOK, SwapOK, LoaderOK, Fresh, Segment
  <2>5. CurOK(g)'
    BY <2>1, Numbers DEF CurOK, Segment
  <2>6. IssuedOK(g)'
    BY <2>1 DEF IssuedOK
  <2>7. QED
    BY <2>2, <2>3, <2>4, <2>5, <2>6
<1>5. QED
  BY <1>0, <1>1, <1>2, <1>3, <1>4, StepKeeps

LEMMA ReadyLoadKeeps ==
    ASSUME IInv, NEW g \in Gens, NEW c \in Callers, ReadyLoad(g, c)
    PROVE  IInv'
<1>0. Others(g)
  BY Types DEF Others, ReadyLoad, At, Goto, bufferVars
<1>1. TypeOK'
  <2>1. pc' \in [Gens -> [Callers -> CallerSteps]]
    <3>1. \E x \in CallerSteps : pc' = [pc EXCEPT ![g][c] = x]
      BY DEF ReadyLoad, At, Goto, bufferVars, CallerSteps
    <3>2. QED
      BY <3>1, Types, CallerUpdates
  <2>2. QED
    BY <2>1, <1>0 DEF Others, IInv, TypeOK, RowOK, BufferOK, CallersOK, ReadyLoad, At, Goto, bufferVars
<1> USE DEF IInv, TypeOK, RowOK, BufferOK, CallersOK, NoLoad, LoadStart
<1>2. SegmentsDisjoint'
  BY DEF ReadyLoad, At, Goto, bufferVars, SegmentsDisjoint
<1>3. load'[g].pc \in {"min", "max"} => load'[g].seg \in granted'[g]
  BY DEF ReadyLoad, At, Goto, bufferVars, Ends
<1>4. ASSUME g \notin reloaded'
      PROVE  Sound(g)'
  <2>1. Sound(g)
    BY <1>4 DEF Others, ReadyLoad, At, Goto, bufferVars
  <2> USE DEF Sound, ReadyLoad, At, Goto, bufferVars
  <2>2. LoaderOK(g)'
    BY <1>4, <2>1, Numbers DEF LoaderOK, Fresh
  <2>3. SwapOK(g)'
    BY <1>4, <2>1 DEF SwapOK, LoaderOK
  <2>4. NextOK(g)'
    BY <1>4, <2>1 DEF NextOK, SwapOK, LoaderOK, Fresh, Segment
  <2>5. CurOK(g)'
    BY <2>1, Numbers DEF CurOK, Segment
  <2>6. IssuedOK(g)'
    BY <2>1 DEF IssuedOK
  <2>7. QED
    BY <2>2, <2>3, <2>4, <2>5, <2>6
<1>5. QED
  BY <1>0, <1>1, <1>2, <1>3, <1>4, StepKeeps

(* A loader starts: over a ready segment, or soundly. *)
LEMMA CompareAndSwapKeeps ==
    ASSUME IInv, NEW g \in Gens, NEW c \in Callers, CompareAndSwap(g, c)
    PROVE  IInv'
<1>0. Others(g)
  BY Types DEF Others, CompareAndSwap, At, Goto, StartLoader
<1>1. TypeOK'
  <2>1. loading' \in [Gens -> BOOLEAN]
    BY Types DEF CompareAndSwap, At, Goto, StartLoader
  <2>2. load' \in [Gens -> LoadType]
    <3>1. load' = load \/ load' = [load EXCEPT ![g] = LoadStart]
      BY DEF CompareAndSwap, StartLoader
    <3>2. QED
      BY <3>1, Types, LoadUpdates
  <2>3. pc' \in [Gens -> [Callers -> CallerSteps]]
    <3>1. \E x \in CallerSteps : pc' = [pc EXCEPT ![g][c] = x]
      BY DEF CompareAndSwap, At, Goto, StartLoader, CallerSteps
    <3>2. QED
      BY <3>1, Types, CallerUpdates
  <2>4. QED
    BY <2>1, <2>2, <2>3, <1>0 DEF Others, IInv, TypeOK, RowOK, BufferOK, CallersOK, CompareAndSwap, At, Goto, StartLoader
<1> USE DEF IInv, TypeOK, RowOK, BufferOK, CallersOK, NoLoad, LoadStart
<1>2. SegmentsDisjoint'
  BY DEF CompareAndSwap, At, Goto, StartLoader, SegmentsDisjoint
<1>3. load'[g].pc \in {"min", "max"} => load'[g].seg \in granted'[g]
  BY DEF CompareAndSwap, At, Goto, StartLoader, Ends
<1>4. ASSUME g \notin reloaded'
      PROVE  Sound(g)'
  <2>1. Sound(g)
    BY <1>4 DEF Others, CompareAndSwap, At, Goto, StartLoader
  <2> USE DEF Sound, CompareAndSwap, At, Goto, StartLoader
  <2>2. LoaderOK(g)'
    BY <1>4, <2>1, Numbers DEF LoaderOK, Fresh
  <2>3. SwapOK(g)'
    BY <1>4, <2>1 DEF SwapOK, LoaderOK
  <2>4. NextOK(g)'
    BY <1>4, <2>1 DEF NextOK, SwapOK, LoaderOK, Fresh, Segment
  <2>5. CurOK(g)'
    BY <2>1, Numbers DEF CurOK, Segment
  <2>6. IssuedOK(g)'
    BY <2>1 DEF IssuedOK
  <2>7. QED
    BY <2>2, <2>3, <2>4, <2>5, <2>6
<1>5. QED
  BY <1>0, <1>1, <1>2, <1>3, <1>4, StepKeeps

LEMMA WaitKeeps ==
    ASSUME IInv, NEW g \in Gens, NEW c \in Callers, Wait(g, c)
    PROVE  IInv'
<1>0. Others(g)
  BY Types DEF Others, Wait, At, Goto, bufferVars
<1>1. TypeOK'
  <2>1. pc' \in [Gens -> [Callers -> CallerSteps]]
    <3>1. \E x \in CallerSteps : pc' = [pc EXCEPT ![g][c] = x]
      BY DEF Wait, At, Goto, bufferVars, CallerSteps
    <3>2. QED
      BY <3>1, Types, CallerUpdates
  <2>2. QED
    BY <2>1, <1>0 DEF Others, IInv, TypeOK, RowOK, BufferOK, CallersOK, Wait, At, Goto, bufferVars
<1> USE DEF IInv, TypeOK, RowOK, BufferOK, CallersOK, NoLoad, LoadStart
<1>2. SegmentsDisjoint'
  BY DEF Wait, At, Goto, bufferVars, SegmentsDisjoint
<1>3. load'[g].pc \in {"min", "max"} => load'[g].seg \in granted'[g]
  BY DEF Wait, At, Goto, bufferVars, Ends
<1>4. ASSUME g \notin reloaded'
      PROVE  Sound(g)'
  <2>1. Sound(g)
    BY <1>4 DEF Others, Wait, At, Goto, bufferVars
  <2> USE DEF Sound, Wait, At, Goto, bufferVars
  <2>2. LoaderOK(g)'
    BY <1>4, <2>1, Numbers DEF LoaderOK, Fresh
  <2>3. SwapOK(g)'
    BY <1>4, <2>1 DEF SwapOK, LoaderOK
  <2>4. NextOK(g)'
    BY <1>4, <2>1 DEF NextOK, SwapOK, LoaderOK, Fresh, Segment
  <2>5. CurOK(g)'
    BY <2>1, Numbers DEF CurOK, Segment
  <2>6. IssuedOK(g)'
    BY <2>1 DEF IssuedOK
  <2>7. QED
    BY <2>2, <2>3, <2>4, <2>5, <2>6
<1>5. QED
  BY <1>0, <1>1, <1>2, <1>3, <1>4, StepKeeps

(* The compare-and-swap takes effect: the new segment starts past max_id,  *)
(* below which lie all segments and with them all ids returned.            *)
LEMMA AllocateCASKeeps ==
    ASSUME IInv, NEW g \in Gens, AllocateCAS(g)
    PROVE  IInv'
<1> DEFINE new == db.maxId + 1
<1>0. /\ load[g].maxId = db.maxId /\ load[g].pc = "cas"
      /\ db.maxId + Step <= MaxId
      /\ db' = [maxId |-> db.maxId + Step, version |-> db.version + 1]
      /\ UNCHANGED <<up, cur, next, mu, pc, tmp, issued, reloaded>>
  BY DEF AllocateCAS, LoadAt, Unchanged
<1>1. /\ Step \in Nat /\ Step > 0 /\ MaxId \in Nat
      /\ db.maxId \in Nat /\ db.version \in Nat
      /\ new \in Ids /\ db.maxId + Step \in Ids
  BY <1>0, Numbers DEF Ids
<1>2. db'.maxId = db.maxId + Step /\ db' \in [maxId : Ids, version : Nat]
  BY <1>0, <1>1
<1> DEFINE got == [load[g] EXCEPT !.pc = "min", !.seg = new]
<1>3. \/ /\ load' = [load EXCEPT ![g] = got]
         /\ granted' = [granted EXCEPT ![g] = @ \cup {new}]
         /\ loading' = loading
      \/ /\ load' = [load EXCEPT ![g] = NoLoad] \/ load' = [load EXCEPT ![g] = LoadStart]
         /\ up[g] => load' = [load EXCEPT ![g] = NoLoad]
         /\ ~ up[g] => load' = [load EXCEPT ![g] = LoadStart]
         /\ loading' = [loading EXCEPT ![g] = FALSE]
         /\ granted' = granted
  BY <1>0 DEF AllocateCAS
<1>4. got \in LoadType /\ got.pc = "min" /\ got.seg = new
  <2>1. load[g] \in LoadType
    BY Types
  <2>2. QED
    BY <1>1, <2>1 DEF LoadType, LoadSteps
<1> HIDE DEF got
<1>5. load' \in [Gens -> LoadType]
  BY <1>3, <1>4, Types, LoadUpdates
<1>6. granted' \in [Gens -> SUBSET Ids] /\ loading' \in [Gens -> BOOLEAN]
  <2>1. granted[g] \cup {new} \in SUBSET Ids
    BY <1>1, Types
  <2> HIDE DEF new
  <2>2. granted' = granted \/ granted' = [granted EXCEPT ![g] = granted[g] \cup {new}]
    BY <1>3
  <2>3. granted' \in [Gens -> SUBSET Ids]
    BY <2>1, <2>2, Types
  <2>4. loading' = loading \/ loading' = [loading EXCEPT ![g] = FALSE]
    BY <1>3
  <2>5. loading' \in [Gens -> BOOLEAN]
    BY <2>4, Types
  <2>6. QED
    BY <2>3, <2>5
<1>7. TypeOK'
  BY <1>0, <1>2, <1>5, <1>6 DEF IInv, TypeOK, RowOK, BufferOK, CallersOK
<1>8. Others(g)
  BY <1>0, <1>3, Types DEF Others
<1>9. \A h \in Gens : \A m \in granted'[h] : m \in granted[h] \/ (h = g /\ m = new)
  BY <1>3, Types
<1>10. \A h \in Gens : \A m \in granted[h] : m \in Nat /\ m + Step - 1 <= db.maxId
  BY Numbers
<1>11. SegmentsDisjoint'
  <2>1. ASSUME NEW h \in Gens, NEW m \in granted'[h]
        PROVE  m + Step - 1 <= db'.maxId
    BY <1>1, <1>2, <1>9, <1>10
  <2>2. ASSUME NEW h \in Gens, NEW k \in Gens, NEW m \in granted'[h], NEW n \in granted'[k],
               h # k \/ m # n
        PROVE  m + Step <= n \/ n + Step <= m
    <3>1. CASE m \in granted[h] /\ n \in granted[k]
      BY <2>2, <3>1 DEF IInv, SegmentsDisjoint
    <3>2. CASE m \in granted[h] /\ k = g /\ n = new
      BY <1>1, <1>10, <3>2
    <3>3. CASE h = g /\ m = new /\ n \in granted[k]
      BY <1>1, <1>10, <3>3
    <3>4. QED
      BY <1>9, <2>2, <3>1, <3>2, <3>3
  <2>3. QED
    BY <2>1, <2>2 DEF SegmentsDisjoint
<1>12. load'[g].pc \in {"min", "max"} => load'[g].seg = new /\ new \in granted'[g]
  BY <1>3, <1>4, Types DEF NoLoad, LoadStart
<1>13. ASSUME g \notin reloaded'
       PROVE  Sound(g)'
  <2>1. Sound(g)
    BY <1>0, <1>13 DEF IInv
  <2>2. granted[g] \subseteq granted'[g]
    BY <1>3, Types
  <2>3. Fresh(g, new)
    <3>1. ASSUME NEW i \in 1..Len(issued[g]) PROVE issued[g][i] < new
      <4>1. PICK m \in granted[g] : m <= issued[g][i] /\ issued[g][i] < m + Step
        BY <2>1 DEF Sound, IssuedOK
      <4>2. m + Step - 1 <= db.maxId /\ m \in Nat /\ issued[g][i] \in Int
        BY Numbers
      <4>3. QED
        BY <1>1, <4>1, <4>2
    <3>2. up[g] => cur[g].max < new
      BY SMTT(30), <1>1, <2>1, Numbers DEF Sound, CurOK, Segment, Ids
    <3>3. QED
      BY <3>1, <3>2 DEF Fresh
  <2> HIDE DEF new
  <2>4. LoaderOK(g)'
    <3>1. CASE load' = [load EXCEPT ![g] = got] /\ loading' = loading
      <4>1. load'[g].pc = "min" /\ load'[g].seg = new /\ new \in granted'[g]
        BY <1>4, <1>12, <3>1, Types
      <4>2. Fresh(g, load'[g].seg)
        BY <2>3, <4>1
      <4>3. Fresh(g, load[g].seg)'
        BY <1>0, <4>2 DEF Fresh
      <4>4. up' = up /\ pc' = pc /\ next' = next /\ load[g].pc = "cas" /\ loading' = loading
        BY <1>0, <3>1
      <4>5. load'[g].seg \in granted'[g]
        BY <4>1
      <4>6. QED
        BY <2>1, <4>1, <4>3, <4>4, <4>5 DEF Sound, LoaderOK
    <3>2. CASE /\ up[g] => load' = [load EXCEPT ![g] = NoLoad]
               /\ ~ up[g] => load' = [load EXCEPT ![g] = LoadStart]
      <4>1. load'[g].pc \in {"none", "read"} /\ (load'[g].pc = "none" <=> up[g])
        BY <3>2, Types DEF NoLoad, LoadStart
      <4>2. QED
        BY <1>0, <2>1, <4>1 DEF Sound, LoaderOK
    <3>3. QED
      BY <1>3, <3>1, <3>2
  <2>5. SwapOK(g)'
    BY <1>0, <2>1 DEF Sound, SwapOK
  <2>6. NextOK(g)'
    BY <1>0, <2>1, <2>2 DEF Sound, NextOK, Fresh, Segment
  <2>7. CurOK(g)'
    BY <1>0, <2>1, <2>2 DEF Sound, CurOK, Segment
  <2>8. IssuedOK(g)'
    BY <1>0, <2>1, <2>2 DEF Sound, IssuedOK
  <2>9. QED
    BY <2>4, <2>5, <2>6, <2>7, <2>8 DEF Sound
<1>14. QED
  BY <1>7, <1>8, <1>11, <1>12, <1>13, StepKeeps

-----------------------------------------------------------------------------
LEMMA NextKeeps == IInv /\ [Next]_vars => IInv'
<1> SUFFICES ASSUME IInv, [Next]_vars PROVE IInv'
  OBVIOUS
<1>1. CASE UNCHANGED vars
  <2> USE <1>1 DEF vars, bufferVars
  <2>1. TypeOK'
    BY DEF IInv, TypeOK, RowOK, BufferOK, CallersOK
  <2>2. Ends' /\ SegmentsDisjoint'
    BY DEF IInv, Ends, SegmentsDisjoint
  <2>3. \A g \in Gens \ reloaded : Sound(g)'
    BY DEF IInv, Sound, LoaderOK, SwapOK, NextOK, CurOK, IssuedOK, Fresh, Segment
  <2>4. QED
    BY <2>1, <2>2, <2>3 DEF IInv
<1>2. ASSUME NEW g \in Gens, Load(g) PROVE IInv'
  BY <1>2, AllocateReadKeeps, AllocateCASKeeps, AllocateConflictKeeps, LoadFailsKeeps,
     StoreNextMinKeeps, StoreNextMaxKeeps, StoreNextReadyKeeps, LoadDoneKeeps, NewGeneratorKeeps
     DEF Load
<1>3. ASSUME NEW g \in Gens, NEW c \in Callers, NextId(g, c) PROVE IInv'
  BY <1>3, CallKeeps, tryNextKeeps, PrefetchCheckKeeps, PrefetchStartKeeps, ExhaustedKeeps,
     switchSegmentKeeps, SwapMinKeeps, SwapMaxKeeps, SwapReadyKeeps, LoadingLoadKeeps,
     ReadyLoadKeeps, CompareAndSwapKeeps, WaitKeeps DEF NextId
<1>4. QED
  BY <1>1, <1>2, <1>3, RestartKeeps DEF Next

LEMMA Inductive == Spec => []IInv
<1>1. QED
  BY InitIInv, NextKeeps, PTL DEF Spec

(* Types of the row, the buffers and the callers: in particular no buffer  *)
(* of a process ever reaches past the row's max_id.                        *)
THEOREM TypeCorrect == Spec => []TypeOK
<1>1. IInv => TypeOK
  BY DEF IInv
<1>2. QED
  BY <1>1, Inductive, PTL

(* The version CAS of SegmentRepository.Allocate: the segments handed out, *)
(* to whichever processes, do not overlap.                                 *)
THEOREM AllocationsDisjoint == Spec => []SegmentsDisjoint
<1>1. IInv => SegmentsDisjoint
  BY DEF IInv
<1>2. QED
  BY <1>1, Inductive, PTL

(* No id is returned twice, and the ids of a process go up, in and between *)
(* processes that never started a loader over a ready next segment.        *)
THEOREM IdsAreUnique == Spec => []IdsUniqueUnlessReloaded
<1>1. ASSUME IInv PROVE IdsUniqueUnlessReloaded
  <2> USE <1>1
  <2>1. \A g \in Gens \ reloaded : IssuedOK(g)
    BY DEF IInv, Sound
  <2>2. ASSUME NEW g \in Gens \ reloaded, NEW h \in Gens \ reloaded,
               NEW i \in 1..Len(issued[g]), NEW j \in 1..Len(issued[h]), g # h \/ i # j
        PROVE  issued[g][i] # issued[h][j]
    <3>1. issued[g][i] \in Int /\ issued[h][j] \in Int /\ Step \in Nat
      BY Numbers
    <3>2. CASE g = h
      <4>1. Len(issued[g]) \in Nat
        BY Numbers
      <4>2. i < j \/ j < i
        BY <2>2, <3>2, <4>1
      <4>3. issued[g][i] < issued[g][j] \/ issued[g][j] < issued[g][i]
        BY <2>1, <3>2, <4>2 DEF IssuedOK
      <4>4. QED
        BY <3>1, <3>2, <4>3
    <3>3. CASE g # h
      <4>1. PICK m \in granted[g] : m <= issued[g][i] /\ issued[g][i] < m + Step
        BY <2>1 DEF IssuedOK
      <4>2. PICK n \in granted[h] : n <= issued[h][j] /\ issued[h][j] < n + Step
        BY <2>1 DEF IssuedOK
      <4>3. m + Step <= n \/ n + Step <= m
        BY <3>3 DEF IInv, SegmentsDisjoint
      <4>4. m \in Nat /\ n \in Nat
        BY Numbers
      <4>5. QED
        BY <3>1, <4>1, <4>2, <4>3, <4>4
    <3>4. QED
      BY <3>2, <3>3
  <2>3. Distinct(Gens \ reloaded)
    BY <2>2 DEF Distinct
  <2>4. QED
    BY <2>1, <2>3 DEF IdsUniqueUnlessReloaded, IssuedOK
<1>2. QED
  BY <1>1, Inductive, PTL
=============================================================================
