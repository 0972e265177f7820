------------------------------ MODULE Bulkhead ------------------------------
(***************************************************************************)
(* The bulkhead of a process: Limit slots in a buffered channel, and a     *)
(* counter of the slots in use for the metrics. The two are updated one    *)
(* after the other, with other goroutines in between.                      *)
(***************************************************************************)
EXTENDS EdgeBase, Integers

CONSTANT Limit

ASSUME BulkheadAssumption == Limit \in Nat \ {0}

VARIABLES sem,      \* len(b.sem), per process
          active    \* b.active, per process

bulkheadVars == <<sem, active>>

BulkheadTypeOK == sem \in [Procs -> 0..Limit] /\ active \in [Procs -> Int]

BulkheadInit == sem = [p \in Procs |-> 0] /\ active = [p \in Procs |-> 0]

(* b.sem <- struct{}{}                                                     *)
TakeSlot(p) ==
    /\ sem[p] < Limit
    /\ sem' = [sem EXCEPT ![p] = @ + 1]
    /\ UNCHANGED active

(* The default of the first select.                                        *)
NoSlot(p) == sem[p] = Limit /\ UNCHANGED bulkheadVars

(* Mutant: a caller that gives up releases the slot it never had.          *)
RejectedReleases(p) ==
    /\ sem' = [sem EXCEPT ![p] = IF @ > 0 THEN @ - 1 ELSE @]
    /\ UNCHANGED active

(* The time is up or the caller's context is done: nothing to give back.   *)
Rejected(p) == UNCHANGED bulkheadVars
AddActive(p, n) == active' = [active EXCEPT ![p] = @ + n] /\ UNCHANGED sem

(* <-b.sem, or the default when the channel is empty; then nothing is      *)
(* counted either.                                                         *)
FreeSlot(p) ==
    /\ sem' = [sem EXCEPT ![p] = IF @ > 0 THEN @ - 1 ELSE @]
    /\ UNCHANGED active
=============================================================================
