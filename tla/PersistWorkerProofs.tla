------------------------- MODULE PersistWorkerProofs -------------------------
(***************************************************************************)
(* Proofs about PersistWorker, for any number of processes, conversations, *)
(* records and retries.                                                    *)
(***************************************************************************)
EXTENDS PersistWorker, TLAPS

USE RecordsAssumption, DismissedAssumption, MaxInboxAssumption,
    ConsumersAssumption, BoundsAssumption

(* The partition goroutine of a process is idle exactly when it handles no *)
(* record.                                                                 *)
Busy == \A c \in Consumers : (pc[c] = "idle") <=> (cur[c] = 0)

(* A log that grows keeps the typing of sequences of its offsets.          *)
LEMMA SeqMonotone ==
    ASSUME NEW m \in Nat, NEW n \in Nat, m <= n, NEW s \in Seq(1..m)
    PROVE  s \in Seq(1..n)
OBVIOUS

(* Before anything is fetched no process is busy and all types hold.       *)
LEMMA TypeInit == Init => TypeOK /\ Busy
<1> SUFFICES ASSUME Init PROVE TypeOK /\ Busy
  OBVIOUS
<1> USE DEF Init, IngestInit
<1>1. TablesOK BY DEF TablesOK
<1>2. GroupOK BY DEF GroupOK
<1>3. QueuesOK BY DEF QueuesOK
<1>4. LocalsOK BY DEF LocalsOK, Steps
<1>5. Busy BY DEF Busy
<1>6. QED BY <1>1, <1>2, <1>3, <1>4, <1>5 DEF TypeOK

(* The record a busy process handles is one of the log.                    *)
LEMMA CurRecord ==
    ASSUME TypeOK, Busy, NEW c \in Consumers, pc[c] # "idle"
    PROVE  /\ cur[c] \in 1..Len(inbox)
           /\ inbox[cur[c]] \in Records
           /\ inbox[cur[c]].conv \in Convs
           /\ inbox[cur[c]].key \in Keys
           /\ inbox[cur[c]].valid \in BOOLEAN
<1>1. cur[c] \in 1..Len(inbox)
  BY DEF TypeOK, TablesOK, QueuesOK, Busy
<1>2. inbox[cur[c]] \in Records
  BY <1>1 DEF TypeOK, TablesOK
<1>3. QED
  BY <1>1, <1>2

(* What a failed attempt does to the goroutine's variables.                *)
LEMMA AttemptLocals ==
    ASSUME TypeOK, NEW c \in Consumers, NEW e, AttemptFailed(c, e)
    PROVE  /\ pc' \in [Consumers -> Steps]
           /\ att' \in [Consumers -> 0..MaxRetries]
           /\ pc'[c] \in {"check", "dlq"}
           /\ \A d \in Consumers \ {c} : pc'[d] = pc[d]
<1>1. LocalsOK
  BY DEF TypeOK
<1>3. CASE isTransient(PersistErrorCode(e)) /\ att[c] < MaxRetries
  BY <1>1, <1>3 DEF LocalsOK, AttemptFailed, Goto, Steps
<1>4. CASE ~ (isTransient(PersistErrorCode(e)) /\ att[c] < MaxRetries)
  BY <1>1, <1>4 DEF LocalsOK, AttemptFailed, Goto, Steps
<1>5. QED
  BY <1>3, <1>4

(* Every step of producers, coordinator and workers keeps the types.       *)
LEMMA TypeNext == TypeOK /\ Busy /\ [Next]_vars => TypeOK' /\ Busy'
<1> SUFFICES ASSUME TypeOK, Busy, [Next]_vars PROVE TypeOK' /\ Busy'
  OBVIOUS
<1>t. TablesOK /\ GroupOK /\ QueuesOK /\ LocalsOK
  BY DEF TypeOK
<1> USE DEF ingestVars, localVars
<1>1. ASSUME NEW r \in Records, Produce(r) PROVE TypeOK' /\ Busy'
  <2>1. inbox' \in Seq(Records) /\ Len(inbox') = Len(inbox) + 1
    BY <1>t, <1>1 DEF Produce, TablesOK
  <2>2. TablesOK'
    BY <1>t, <1>1, <2>1 DEF Produce, TablesOK, Row
  <2>3. queue' \in [Consumers -> Seq(1..Len(inbox'))]
    BY <1>t, <1>1, <2>1, SeqMonotone DEF Produce, TablesOK, QueuesOK
  <2>4. QueuesOK'
    BY <1>t, <1>1, <2>1, <2>3 DEF Produce, TablesOK, QueuesOK
  <2>5. GroupOK' /\ LocalsOK' /\ Busy'
    BY <1>t, <1>1 DEF Produce, GroupOK, LocalsOK, Busy
  <2>6. QED
    BY <2>2, <2>4, <2>5 DEF TypeOK
<1>2. ASSUME NEW c \in Consumers, Assign(c) PROVE TypeOK' /\ Busy'
  <2>1. TablesOK'
    BY <1>t, <1>2 DEF Assign, TablesOK, QueuesOK, LocalsOK, Busy
  <2>2. GroupOK'
    BY <1>t, <1>2 DEF Assign, GroupOK
  <2>3. QueuesOK'
    BY <1>t, <1>2 DEF Assign, TablesOK, QueuesOK
  <2>4. LocalsOK'
    BY <1>t, <1>2 DEF Assign, TablesOK, LocalsOK, Steps
  <2>5. Busy'
    BY <1>t, <1>2 DEF Assign, QueuesOK, LocalsOK, Busy
  <2>6. QED
    BY <2>1, <2>2, <2>3, <2>4, <2>5 DEF TypeOK
<1>3. ASSUME NEW c \in Consumers, Crash(c) PROVE TypeOK' /\ Busy'
  <2>1. TablesOK'
    BY <1>t, <1>3 DEF Crash, Unlocked, TablesOK, QueuesOK, LocalsOK, Busy
  <2>2. GroupOK'
    BY <1>t, <1>3 DEF Crash, Unlocked, GroupOK
  <2>3. QueuesOK'
    BY <1>t, <1>3 DEF Crash, Unlocked, TablesOK, QueuesOK
  <2>4. LocalsOK'
    BY <1>t, <1>3 DEF Crash, Unlocked, TablesOK, LocalsOK, Steps
  <2>5. Busy'
    BY <1>t, <1>3 DEF Crash, Unlocked, QueuesOK, LocalsOK, Busy
  <2>6. QED
    BY <2>1, <2>2, <2>3, <2>4, <2>5 DEF TypeOK
<1>4. ASSUME NEW c \in Consumers, FetchMessage(c) PROVE TypeOK' /\ Busy'
  <2>1. TablesOK'
    BY <1>t, <1>4 DEF FetchMessage, TablesOK, QueuesOK, LocalsOK, Busy
  <2>2. GroupOK'
    BY <1>t, <1>4 DEF FetchMessage, GroupOK
  <2>3. QueuesOK'
    BY <1>t, <1>4 DEF FetchMessage, TablesOK, QueuesOK
  <2>4. LocalsOK'
    BY <1>t, <1>4 DEF FetchMessage, TablesOK, LocalsOK, Steps
  <2>5. Busy'
    BY <1>t, <1>4 DEF FetchMessage, QueuesOK, LocalsOK, Busy
  <2>6. QED
    BY <2>1, <2>2, <2>3, <2>4, <2>5 DEF TypeOK
<1>5. ASSUME NEW c \in Consumers, FetchError(c) PROVE TypeOK' /\ Busy'
  <2>1. TablesOK'
    <3>1. pos[c] + 1 \in 1..Len(inbox) /\ dropped' = dropped \cup {pos[c] + 1}
      BY <1>t, <1>5 DEF FetchError, TablesOK, QueuesOK
    <3>2. dropped' \subseteq 1..Len(inbox) /\ inbox' = inbox
      BY <1>t, <1>5, <3>1 DEF FetchError, TablesOK
    <3>3. QED
      BY <1>t, <1>5, <3>2 DEF FetchError, TablesOK
  <2>2. GroupOK'
    BY <1>t, <1>5 DEF FetchError, GroupOK
  <2>3. QueuesOK'
    BY <1>t, <1>5 DEF FetchError, TablesOK, QueuesOK
  <2>4. LocalsOK'
    BY <1>t, <1>5 DEF FetchError, TablesOK, LocalsOK, Steps
  <2>5. Busy'
    BY <1>t, <1>5 DEF FetchError, QueuesOK, LocalsOK, Busy
  <2>6. QED
    BY <2>1, <2>2, <2>3, <2>4, <2>5 DEF TypeOK
<1>6. ASSUME NEW c \in Consumers, Take(c) PROVE TypeOK' /\ Busy'
  <2>1. TablesOK'
    BY <1>t, <1>6 DEF Take, Goto, TablesOK, QueuesOK, LocalsOK, Busy
  <2>2. GroupOK'
    BY <1>t, <1>6 DEF Take, Goto, GroupOK
  <2>3. QueuesOK'
    BY SMTT(30), <1>t, <1>6 DEF Take, Goto, TablesOK, QueuesOK
  <2>4. LocalsOK'
    BY <1>t, <1>6 DEF Take, Goto, TablesOK, LocalsOK, Steps
  <2>5. Busy'
    BY <1>t, <1>6 DEF Take, Goto, QueuesOK, LocalsOK, Busy
  <2>6. QED
    BY <2>1, <2>2, <2>3, <2>4, <2>5 DEF TypeOK
<1>7. ASSUME NEW c \in Consumers, Handle(c) PROVE TypeOK' /\ Busy'
  <2>1. TablesOK'
    BY <1>t, <1>7 DEF Handle, Goto, TablesOK, QueuesOK, LocalsOK, Busy
  <2>2. GroupOK'
    BY <1>t, <1>7 DEF Handle, Goto, GroupOK
  <2>3. QueuesOK'
    BY <1>t, <1>7 DEF Handle, Goto, TablesOK, QueuesOK
  <2>4. LocalsOK'
    <3>1. pc' \in [Consumers -> Steps]
      BY <1>t, <1>7 DEF Handle, Goto, LocalsOK, Steps
    <3>2. att' \in [Consumers -> 0..MaxRetries] /\ nextSeq' = nextSeq
      BY <1>t, <1>7 DEF Handle, LocalsOK
    <3>3. QED
      BY <1>t, <3>1, <3>2 DEF LocalsOK
  <2>5. Busy'
    BY <1>t, <1>7 DEF Handle, Goto, QueuesOK, LocalsOK, Busy
  <2>6. QED
    BY <2>1, <2>2, <2>3, <2>4, <2>5 DEF TypeOK
<1>8. ASSUME NEW c \in Consumers, PersistCheck(c) PROVE TypeOK' /\ Busy'
  <2>1. TablesOK'
    BY <1>t, <1>8 DEF PersistCheck, Goto, TablesOK, QueuesOK, LocalsOK, Busy
  <2>2. GroupOK'
    BY <1>t, <1>8 DEF PersistCheck, Goto, GroupOK
  <2>3. QueuesOK'
    BY <1>t, <1>8 DEF PersistCheck, Goto, TablesOK, QueuesOK
  <2>4. LocalsOK'
    BY <1>t, <1>8 DEF PersistCheck, Goto, TablesOK, LocalsOK, Steps
  <2>5. Busy'
    BY <1>t, <1>8 DEF PersistCheck, Goto, QueuesOK, LocalsOK, Busy
  <2>6. QED
    BY <2>1, <2>2, <2>3, <2>4, <2>5 DEF TypeOK
<1>9. ASSUME NEW c \in Consumers, PersistLock(c) PROVE TypeOK' /\ Busy'
  <2>0. inbox[cur[c]].conv \in Convs
    BY <1>9, CurRecord DEF PersistLock
  <2>1. TablesOK'
    BY <1>t, <1>9 DEF PersistLock, Goto, TablesOK, QueuesOK, LocalsOK, Busy
  <2>2. GroupOK'
    BY <1>t, <1>9 DEF PersistLock, Goto, GroupOK
  <2>3. QueuesOK'
    BY <1>t, <1>9 DEF PersistLock, Goto, TablesOK, QueuesOK
  <2>4. LocalsOK'
    BY SMTT(30), <1>t, <1>9, <2>0 DEF PersistLock, Goto, TablesOK, LocalsOK, Steps
  <2>5. Busy'
    BY <1>t, <1>9 DEF PersistLock, Goto, QueuesOK, LocalsOK, Busy
  <2>6. QED
    BY <2>1, <2>2, <2>3, <2>4, <2>5 DEF TypeOK
<1>10. ASSUME NEW c \in Consumers, PersistNotFound(c) PROVE TypeOK' /\ Busy'
  <2>1. TablesOK'
    BY <1>t, <1>10 DEF PersistNotFound, AttemptFailed, Goto, TablesOK, QueuesOK, LocalsOK, Busy
  <2>2. GroupOK'
    BY <1>t, <1>10 DEF PersistNotFound, AttemptFailed, Goto, GroupOK
  <2>3. QueuesOK'
    BY <1>t, <1>10 DEF PersistNotFound, AttemptFailed, Goto, TablesOK, QueuesOK
  <2>4. LocalsOK'
    BY <1>t, <1>10, AttemptLocals DEF PersistNotFound, LocalsOK
  <2>5. Busy'
    BY <1>t, <1>10 DEF PersistNotFound, AttemptFailed, Goto, QueuesOK, LocalsOK, Busy
  <2>6. QED
    BY <2>1, <2>2, <2>3, <2>4, <2>5 DEF TypeOK
<1>11. ASSUME NEW c \in Consumers, PersistFails(c) PROVE TypeOK' /\ Busy'
  <2>1. TablesOK'
    BY <1>t, <1>11 DEF PersistFails, AttemptFailed, Goto, Unlocked, InTx, TablesOK, QueuesOK, LocalsOK, Busy
  <2>2. GroupOK'
    BY <1>t, <1>11 DEF PersistFails, AttemptFailed, Goto, Unlocked, InTx, GroupOK
  <2>3. QueuesOK'
    BY <1>t, <1>11 DEF PersistFails, AttemptFailed, Goto, Unlocked, InTx, TablesOK, QueuesOK
  <2>4. LocalsOK'
    BY <1>t, <1>11, AttemptLocals DEF PersistFails, LocalsOK
  <2>5. Busy'
    BY <1>t, <1>11 DEF PersistFails, AttemptFailed, Goto, Unlocked, InTx, QueuesOK, LocalsOK, Busy
  <2>6. QED
    BY <2>1, <2>2, <2>3, <2>4, <2>5 DEF TypeOK
<1>12. ASSUME NEW c \in Consumers, PersistCommit(c) PROVE TypeOK' /\ Busy'
  <2>0. /\ cur[c] \in 1..Len(inbox)
        /\ inbox[cur[c]].conv \in Convs
        /\ inbox[cur[c]].key \in Keys
    BY <1>12, CurRecord DEF PersistCommit
  <2>1. TablesOK'
    <3>1. CASE Persisted(inbox[cur[c]].key)
      BY <1>t, <1>12, <3>1 DEF PersistCommit, TablesOK
    <3>2. CASE ~ Persisted(inbox[cur[c]].key)
      <4> DEFINE row == [conv |-> inbox[cur[c]].conv, seq |-> nextSeq[c],
                         key |-> inbox[cur[c]].key, off |-> cur[c]]
      <4>1. row \in Row
        BY <1>t, <2>0 DEF LocalsOK, TablesOK, Row
      <4>2. /\ messages' = messages \cup {row} /\ outbox' = outbox \cup {row}
            /\ lastSeq' = [lastSeq EXCEPT ![inbox[cur[c]].conv] = nextSeq[c]]
            /\ UNCHANGED <<inbox, committed, dlq, dropped>>
        BY <1>12, <3>2 DEF PersistCommit
      <4>3. lastSeq' \in [Convs -> Nat]
        BY <1>t, <2>0, <4>2 DEF LocalsOK, TablesOK
      <4>4. messages' \subseteq Row /\ outbox' \subseteq Row
        BY <1>t, <4>1, <4>2 DEF TablesOK
      <4>5. QED
        BY <1>t, <4>2, <4>3, <4>4 DEF TablesOK
    <3>3. QED
      BY <3>1, <3>2
  <2>2. GroupOK'
    BY <1>t, <1>12 DEF PersistCommit, AttemptFailed, Goto, Unlocked, Row, GroupOK
  <2>3. QueuesOK'
    BY <1>t, <1>12 DEF PersistCommit, AttemptFailed, Goto, Unlocked, Row, TablesOK, QueuesOK
  <2>4. LocalsOK'
    <3>1. CASE Goto(c, "commit") /\ UNCHANGED att
      BY <1>t, <1>12, <3>1 DEF PersistCommit, Goto, LocalsOK, Steps
    <3>2. CASE AttemptFailed(c, "DB")
      BY <1>t, <1>12, <3>2, AttemptLocals DEF PersistCommit, LocalsOK
    <3>3. QED
      BY <1>12, <3>1, <3>2 DEF PersistCommit
  <2>5. Busy'
    BY <1>t, <1>12 DEF PersistCommit, AttemptFailed, Goto, Unlocked, Row, QueuesOK, LocalsOK, Busy
  <2>6. QED
    BY <2>1, <2>2, <2>3, <2>4, <2>5 DEF TypeOK
<1>13. ASSUME NEW c \in Consumers, PublishDLQ(c) PROVE TypeOK' /\ Busy'
  <2>0. cur[c] \in 1..Len(inbox)
    BY <1>13, CurRecord DEF PublishDLQ
  <2>1. TablesOK'
    BY <1>t, <1>13, <2>0 DEF PublishDLQ, TablesOK
  <2>2. GroupOK'
    BY <1>t, <1>13 DEF PublishDLQ, Goto, GroupOK
  <2>3. QueuesOK'
    BY <1>t, <1>13 DEF PublishDLQ, Goto, TablesOK, QueuesOK
  <2>4. LocalsOK'
    BY <1>t, <1>13 DEF PublishDLQ, Goto, TablesOK, LocalsOK, Steps
  <2>5. Busy'
    BY <1>t, <1>13 DEF PublishDLQ, Goto, QueuesOK, LocalsOK, Busy
  <2>6. QED
    BY <2>1, <2>2, <2>3, <2>4, <2>5 DEF TypeOK
<1>14. ASSUME NEW c \in Consumers, PublishDLQFails(c) PROVE TypeOK' /\ Busy'
  <2>1. TablesOK'
    BY <1>t, <1>14 DEF PublishDLQFails, Goto, TablesOK, QueuesOK, LocalsOK, Busy
  <2>2. GroupOK'
    BY <1>t, <1>14 DEF PublishDLQFails, Goto, GroupOK
  <2>3. QueuesOK'
    BY <1>t, <1>14 DEF PublishDLQFails, Goto, TablesOK, QueuesOK
  <2>4. LocalsOK'
    BY <1>t, <1>14 DEF PublishDLQFails, Goto, TablesOK, LocalsOK, Steps
  <2>5. Busy'
    BY <1>t, <1>14 DEF PublishDLQFails, Goto, QueuesOK, LocalsOK, Busy
  <2>6. QED
    BY <2>1, <2>2, <2>3, <2>4, <2>5 DEF TypeOK
<1>15. ASSUME NEW c \in Consumers, CommitMessages(c) PROVE TypeOK' /\ Busy'
  <2>1. TablesOK'
    BY <1>t, <1>15 DEF CommitMessages, Goto, TablesOK, QueuesOK, LocalsOK, Busy
  <2>2. GroupOK'
    BY <1>t, <1>15 DEF CommitMessages, Goto, GroupOK
  <2>3. QueuesOK'
    BY <1>t, <1>15 DEF CommitMessages, Goto, TablesOK, QueuesOK
  <2>4. LocalsOK'
    BY <1>t, <1>15 DEF CommitMessages, Goto, TablesOK, LocalsOK, Steps
  <2>5. Busy'
    BY <1>t, <1>15 DEF CommitMessages, Goto, QueuesOK, LocalsOK, Busy
  <2>6. QED
    BY <2>1, <2>2, <2>3, <2>4, <2>5 DEF TypeOK
<1>16. ASSUME NEW c \in Consumers, CommitFails(c) PROVE TypeOK' /\ Busy'
  <2>1. TablesOK'
    BY SMTT(30), <1>t, <1>16 DEF CommitFails, Goto, TablesOK, QueuesOK, LocalsOK, Busy
  <2>2. GroupOK'
    BY <1>t, <1>16 DEF CommitFails, Goto, GroupOK
  <2>3. QueuesOK'
    BY <1>t, <1>16 DEF CommitFails, Goto, TablesOK, QueuesOK
  <2>4. LocalsOK'
    BY <1>t, <1>16 DEF CommitFails, Goto, TablesOK, LocalsOK, Steps
  <2>5. Busy'
    BY <1>t, <1>16 DEF CommitFails, Goto, QueuesOK, LocalsOK, Busy
  <2>6. QED
    BY <2>1, <2>2, <2>3, <2>4, <2>5 DEF TypeOK
<1>17. CASE UNCHANGED vars
  BY <1>t, <1>17 DEF vars, TypeOK, TablesOK, GroupOK, QueuesOK, LocalsOK, Busy, Row
<1>18. QED
  BY <1>1, <1>2, <1>3, <1>4, <1>5, <1>6, <1>7, <1>8, <1>9, <1>10, <1>11, <1>12, <1>13, <1>14, <1>15, <1>16, <1>17 DEF Next, Work

(* Type correctness of the worker for every number of processes, records   *)
(* and retries; att never passes MaxRetries.                               *)
THEOREM TypeCorrect == Spec => []TypeOK
<1>1. Spec => [](TypeOK /\ Busy)
  BY TypeInit, TypeNext, PTL DEF Spec
<1>2. QED
  BY <1>1, PTL

-----------------------------------------------------------------------------
(* Rows. An open transaction past its locking read holds the row lock of   *)
(* its conversation alone, so the seq it read is still the next one.       *)

LockHeld(c) ==
    LET k == inbox[cur[c]].conv
    IN  convLock[k] = c /\ k \notin Dismissed /\ nextSeq[c] = lastSeq[k] + 1

TxInv ==
    /\ \A c \in Consumers : pc[c] \in InTx => inbox[cur[c]].valid
    /\ \A c \in Consumers : pc[c] = "write" => LockHeld(c)
    /\ \A c \in Consumers, k \in Convs :
          convLock[k] = c => pc[c] = "write" /\ inbox[cur[c]].conv = k

(* A step of c outside a transaction, or that only starts one.             *)
LEMMA TxFrame ==
    ASSUME TypeOK, Busy, TxInv, NEW c \in Consumers,
           UNCHANGED <<inbox, lastSeq, convLock, nextSeq>>,
           \A d \in Consumers \ {c} : pc'[d] = pc[d] /\ cur'[d] = cur[d],
           pc[c] # "write", pc'[c] # "write",
           pc'[c] \in InTx => inbox[cur'[c]].valid
    PROVE  TxInv'
  BY DEF TxInv, LockHeld, InTx

(* A step of c that ends its transaction, having changed at most the       *)
(* last_seq of a conversation it had locked.                               *)
LEMMA TxRelease ==
    ASSUME TypeOK, Busy, TxInv, NEW c \in Consumers,
           UNCHANGED inbox,
           \A d \in Consumers \ {c} :
              pc'[d] = pc[d] /\ cur'[d] = cur[d] /\ nextSeq'[d] = nextSeq[d],
           convLock' = Unlocked(c),
           \A k \in Convs : convLock[k] # c => lastSeq'[k] = lastSeq[k],
           pc'[c] # "write",
           pc'[c] \in InTx => inbox[cur'[c]].valid
    PROVE  TxInv'
<1>1. \A k \in Convs : convLock'[k] = IF convLock[k] = c THEN NoConsumer ELSE convLock[k]
  BY DEF Unlocked
<1>2. ASSUME NEW d \in Consumers, pc'[d] \in InTx PROVE inbox'[cur'[d]].valid
  BY <1>2 DEF TxInv
<1>3. ASSUME NEW d \in Consumers, pc'[d] = "write" PROVE LockHeld(d)'
  <2>1. d # c /\ pc[d] = "write" /\ cur'[d] = cur[d] /\ nextSeq'[d] = nextSeq[d]
    BY <1>3
  <2>2. LockHeld(d) /\ inbox[cur[d]].conv \in Convs
    BY <2>1, CurRecord DEF TxInv
  <2>3. QED
    BY <1>1, <2>1, <2>2 DEF LockHeld
<1>4. ASSUME NEW d \in Consumers, NEW k \in Convs, convLock'[k] = d
      PROVE  pc'[d] = "write" /\ inbox'[cur'[d]].conv = k
  <2>1. d # c /\ convLock[k] = d
    BY <1>1, <1>4
  <2>2. QED
    BY <2>1 DEF TxInv
<1>5. QED
  BY <1>2, <1>3, <1>4 DEF TxInv

(* No transaction is open at the start.                                    *)
LEMMA TxInit == Init => TxInv
  BY DEF Init, IngestInit, TxInv, InTx

(* A writing transaction holds its row lock and its nextSeq is last_seq +  *)
(* 1, whichever process steps.                                             *)
LEMMA TxNext == TypeOK /\ Busy /\ TxInv /\ [Next]_vars => TxInv'
<1> SUFFICES ASSUME TypeOK, Busy, TxInv, [Next]_vars PROVE TxInv'
  OBVIOUS
<1>l. LocalsOK /\ QueuesOK
  BY DEF TypeOK
<1> USE DEF ingestVars, localVars
<1>1. ASSUME NEW r \in Records, Produce(r) PROVE TxInv'
  <2>1. \A o \in 1..Len(inbox) : inbox'[o] = inbox[o]
    BY <1>1 DEF Produce, TypeOK, TablesOK
  <2>2. \A c \in Consumers : pc[c] # "idle" => inbox'[cur[c]] = inbox[cur[c]]
    BY <2>1, CurRecord
  <2>3. UNCHANGED <<pc, cur, convLock, nextSeq, lastSeq>>
    BY <1>1 DEF Produce
  <2>4. \A c \in Consumers : pc[c] = "write" => LockHeld(c)'
    BY <2>2, <2>3 DEF TxInv, LockHeld
  <2>5. \A c \in Consumers : pc[c] \in InTx => inbox'[cur[c]].valid
    BY <2>2 DEF TxInv, InTx
  <2>6. \A c \in Consumers, k \in Convs :
           convLock[k] = c => pc[c] = "write" /\ inbox'[cur[c]].conv = k
    BY <2>2 DEF TxInv
  <2>7. QED
    BY <2>3, <2>4, <2>5, <2>6 DEF TxInv
<1>2. ASSUME NEW c \in Consumers, Assign(c) PROVE TxInv'
  BY <1>2 DEF Assign, TxInv, LockHeld
<1>3. ASSUME NEW c \in Consumers, FetchMessage(c) PROVE TxInv'
  BY <1>3 DEF FetchMessage, TxInv, LockHeld
<1>4. ASSUME NEW c \in Consumers, FetchError(c) PROVE TxInv'
  BY <1>4 DEF FetchError, TxInv, LockHeld
<1>5. ASSUME NEW c \in Consumers, Take(c) PROVE TxInv'
  BY <1>l, <1>5, TxFrame DEF Take, Goto, InTx, LocalsOK, QueuesOK
<1>6. ASSUME NEW c \in Consumers, Handle(c) PROVE TxInv'
  BY <1>l, <1>6, TxFrame DEF Handle, Goto, InTx, LocalsOK, QueuesOK
<1>7. ASSUME NEW c \in Consumers, PersistCheck(c) PROVE TxInv'
  BY ZenonT(40), <1>l, <1>7, TxFrame DEF PersistCheck, Goto, InTx, LocalsOK, QueuesOK, TxInv
<1>8. ASSUME NEW c \in Consumers, PublishDLQ(c) PROVE TxInv'
  BY <1>l, <1>8, TxFrame DEF PublishDLQ, Goto, InTx, LocalsOK, QueuesOK
<1>9. ASSUME NEW c \in Consumers, PublishDLQFails(c) PROVE TxInv'
  BY <1>l, <1>9, TxFrame DEF PublishDLQFails, Goto, InTx, LocalsOK, QueuesOK
<1>10. ASSUME NEW c \in Consumers, CommitMessages(c) PROVE TxInv'
  BY <1>l, <1>10, TxFrame DEF CommitMessages, Goto, InTx, LocalsOK, QueuesOK
<1>11. ASSUME NEW c \in Consumers, CommitFails(c) PROVE TxInv'
  BY <1>l, <1>11, TxFrame DEF CommitFails, Goto, InTx, LocalsOK, QueuesOK
<1>12. ASSUME NEW c \in Consumers, PersistNotFound(c) PROVE TxInv'
  <2>1. pc'[c] \in {"check", "dlq"} /\ \A d \in Consumers \ {c} : pc'[d] = pc[d]
    BY <1>12, AttemptLocals DEF PersistNotFound
  <2>2. inbox[cur[c]].valid
    BY <1>12 DEF PersistNotFound, TxInv, InTx
  <2>3. QED
    BY <1>12, <2>1, <2>2, TxFrame DEF PersistNotFound
<1>13. ASSUME NEW c \in Consumers, PersistLock(c) PROVE TxInv'
  <2> DEFINE k == inbox[cur[c]].conv
  <2>1. k \in Convs /\ inbox[cur[c]].valid
    BY <1>13, CurRecord DEF PersistLock, TxInv, InTx
  <2>2. LockHeld(c)'
    BY <1>l, <1>13, <2>1 DEF PersistLock, LockHeld, TypeOK, GroupOK, LocalsOK
  <2>3. \A d \in Consumers \ {c} : pc[d] = "write" => inbox[cur[d]].conv # k
    BY <1>13 DEF PersistLock, TxInv, LockHeld
  <2>4. \A d \in Consumers \ {c} : pc'[d] = "write" => LockHeld(d)'
    <3> SUFFICES ASSUME NEW d \in Consumers \ {c}, pc'[d] = "write" PROVE LockHeld(d)'
      OBVIOUS
    <3>1. pc[d] = "write" /\ nextSeq'[d] = nextSeq[d]
      BY <1>l, <1>13 DEF PersistLock, Goto, LocalsOK
    <3>2. inbox[cur[d]].conv \in Convs /\ inbox[cur[d]].conv # k
      BY <2>3, <3>1, CurRecord
    <3>3. QED
      BY <1>13, <3>1, <3>2 DEF PersistLock, TxInv, LockHeld, TypeOK, GroupOK
  <2>5. \A d \in Consumers, j \in Convs :
           convLock'[j] = d => pc'[d] = "write" /\ inbox'[cur'[d]].conv = j
    BY <1>l, <1>13, <2>1 DEF PersistLock, Goto, TxInv, TypeOK, GroupOK, LocalsOK
  <2>6. \A d \in Consumers : pc'[d] \in InTx => inbox'[cur'[d]].valid
    BY <1>l, <1>13, <2>1 DEF PersistLock, Goto, TxInv, LocalsOK
  <2>7. QED
    BY <2>2, <2>4, <2>5, <2>6 DEF TxInv
<1>14. ASSUME NEW c \in Consumers, Crash(c) PROVE TxInv'
  BY <1>l, <1>14, TxRelease DEF Crash, LocalsOK, QueuesOK, InTx
<1>15. ASSUME NEW c \in Consumers, PersistFails(c) PROVE TxInv'
  <2>1. pc'[c] \in {"check", "dlq"} /\ \A d \in Consumers \ {c} : pc'[d] = pc[d]
    BY <1>15, AttemptLocals DEF PersistFails
  <2>2. inbox[cur[c]].valid
    BY <1>15 DEF PersistFails, TxInv
  <2>3. QED
    BY <1>l, <1>15, <2>1, <2>2, TxRelease DEF PersistFails, LocalsOK
<1>16. ASSUME NEW c \in Consumers, PersistCommit(c) PROVE TxInv'
  <2>1. pc'[c] \in {"check", "dlq", "commit"} /\ \A d \in Consumers \ {c} : pc'[d] = pc[d]
    <3>1. CASE Goto(c, "commit")
      BY <1>l, <3>1 DEF Goto, LocalsOK
    <3>2. CASE AttemptFailed(c, "DB")
      BY <3>2, AttemptLocals 
    <3>3. QED
      BY <1>16, <3>1, <3>2 DEF PersistCommit
  <2>2. inbox[cur[c]].valid
    BY <1>16 DEF PersistCommit, TxInv, InTx
  <2>3. \A k \in Convs : convLock[k] # c => lastSeq'[k] = lastSeq[k]
    BY <1>16 DEF PersistCommit, TxInv, LockHeld, TypeOK, TablesOK
  <2>4. \A d \in Consumers \ {c} : cur'[d] = cur[d] /\ nextSeq'[d] = nextSeq[d]
    BY <1>l, <1>16 DEF PersistCommit, LocalsOK
  <2>5. QED
    BY <1>16, <2>1, <2>2, <2>3, <2>4, TxRelease DEF PersistCommit
<1>17. CASE UNCHANGED vars
  BY <1>17 DEF vars, TxInv, LockHeld
<1>18. QED
  BY <1>1, <1>2, <1>3, <1>4, <1>5, <1>6, <1>7, <1>8, <1>9, <1>10, <1>11, <1>12, <1>13, <1>14, <1>15, <1>16, <1>17 DEF Next, Work

-----------------------------------------------------------------------------
(* Messages: seqs without gaps, one row per client message.                *)

RowsInv == SeqsGapFree /\ OneRowPerClientMessage

(* The empty tables are gap free and free of duplicates.                   *)
LEMMA RowsInit == Init => RowsInv
  BY DEF Init, IngestInit, RowsInv, SeqsGapFree, OneRowPerClientMessage

(* Only PersistCommit writes the tables, and it adds the row with the next *)
(* seq of a conversation and a key no row has.                             *)
RowAdded(c) ==
    LET r   == inbox[cur[c]]
        row == [conv |-> r.conv, seq |-> lastSeq[r.conv] + 1, key |-> r.key, off |-> cur[c]]
    IN  /\ r.valid /\ r.conv \in Convs \ Dismissed
        /\ ~ Persisted(r.key)
        /\ messages' = messages \cup {row}
        /\ outbox' = outbox \cup {row}
        /\ lastSeq' = [lastSeq EXCEPT ![r.conv] = @ + 1]

(* Only PersistCommit touches the tables, and only to add the next row.    *)
LEMMA TableStep ==
    ASSUME TypeOK, Busy, TxInv, [Next]_vars
    PROVE  \/ UNCHANGED <<messages, outbox, lastSeq>>
           \/ \E c \in Consumers : pc[c] = "write" /\ PersistCommit(c) /\ RowAdded(c)
<1> USE DEF ingestVars
<1>1. ASSUME NEW c \in Consumers, PersistCommit(c), ~ Persisted(inbox[cur[c]].key)
      PROVE  pc[c] = "write" /\ RowAdded(c)
  <2>1. /\ LockHeld(c) /\ inbox[cur[c]].valid /\ pc[c] = "write"
        /\ inbox[cur[c]].conv \in Convs
    BY <1>1, CurRecord DEF PersistCommit, TxInv, InTx
  <2>2. QED
    BY <1>1, <2>1 DEF PersistCommit, RowAdded, LockHeld
<1>2. ASSUME NEW c \in Consumers, PersistCommit(c), Persisted(inbox[cur[c]].key)
      PROVE  UNCHANGED <<messages, outbox, lastSeq>>
  BY <1>2 DEF PersistCommit
<1>3. ASSUME NEW r \in Records, Produce(r) PROVE UNCHANGED <<messages, outbox, lastSeq>>
  BY <1>3 DEF Produce
<1>4. ASSUME NEW c \in Consumers,
             Assign(c) \/ Crash(c) \/ FetchMessage(c) \/ FetchError(c) \/ Take(c) \/ Handle(c)
      PROVE  UNCHANGED <<messages, outbox, lastSeq>>
  BY <1>4 DEF Assign, Crash, FetchMessage, FetchError, Take, Handle
<1>5. ASSUME NEW c \in Consumers,
             PersistCheck(c) \/ PersistLock(c) \/ PersistNotFound(c) \/ PersistFails(c)
      PROVE  UNCHANGED <<messages, outbox, lastSeq>>
  BY <1>5 DEF PersistCheck, PersistLock, PersistNotFound, PersistFails
<1>6. ASSUME NEW c \in Consumers,
             PublishDLQ(c) \/ PublishDLQFails(c) \/ CommitMessages(c) \/ CommitFails(c)
      PROVE  UNCHANGED <<messages, outbox, lastSeq>>
  BY <1>6 DEF PublishDLQ, PublishDLQFails, CommitMessages, CommitFails
<1>7. CASE UNCHANGED vars
  BY <1>7 DEF vars
<1>8. QED
  BY <1>1, <1>2, <1>3, <1>4, <1>5, <1>6, <1>7 DEF Next, Work

(* Adding the next row keeps seqs gap free and client messages unique.     *)
LEMMA RowsNext == TypeOK /\ Busy /\ TxInv /\ RowsInv /\ [Next]_vars => RowsInv'
<1> SUFFICES ASSUME TypeOK, Busy, TxInv, RowsInv, [Next]_vars PROVE RowsInv'
  OBVIOUS
<1>1. CASE UNCHANGED <<messages, outbox, lastSeq>>
  BY <1>1 DEF RowsInv, SeqsGapFree, OneRowPerClientMessage
<1>2. ASSUME NEW c \in Consumers, RowAdded(c) PROVE RowsInv'
  <2> DEFINE v   == inbox[cur[c]].conv
             key == inbox[cur[c]].key
             row == [conv |-> v, seq |-> lastSeq[v] + 1, key |-> key, off |-> cur[c]]
  <2>1. /\ v \in Convs /\ messages' = messages \cup {row}
        /\ lastSeq' = [lastSeq EXCEPT ![v] = @ + 1]
        /\ \A m \in messages : m.key # key
    BY <1>2 DEF RowAdded, Persisted
  <2>2. lastSeq \in [Convs -> Nat] /\ messages \subseteq Row
    BY DEF TypeOK, TablesOK
  <2>3. row.conv = v /\ row.seq = lastSeq[v] + 1 /\ row.key = key
    OBVIOUS
  <2> HIDE DEF row
  <2>4. OneRowPerClientMessage'
    BY <2>1, <2>3 DEF RowsInv, OneRowPerClientMessage
  <2>5. ASSUME NEW k \in Convs, NEW n \in 1..lastSeq'[k]
        PROVE  \E m \in messages' : m.conv = k /\ m.seq = n
    <3>1. CASE k = v /\ n = lastSeq[v] + 1
      BY <2>1, <2>3, <3>1
    <3>2. CASE ~ (k = v /\ n = lastSeq[v] + 1)
      <4>1. n \in 1..lastSeq[k]
        BY <2>1, <2>2, <2>5, <3>2
      <4>2. QED
        BY <2>1, <4>1 DEF RowsInv, SeqsGapFree
    <3>3. QED
      BY <3>1, <3>2
  <2>6. ASSUME NEW k \in Convs, NEW m \in messages', m.conv = k
        PROVE  m.seq \in 1..lastSeq'[k]
    BY <2>1, <2>2, <2>3, <2>6 DEF RowsInv, SeqsGapFree
  <2>7. ASSUME NEW k \in Convs, NEW m1 \in messages', NEW m2 \in messages',
               m1.conv = k, m2.conv = k, m1.seq = m2.seq
        PROVE  m1 = m2
    <3>1. \A m \in messages : m.conv = v => m.seq # lastSeq[v] + 1
      BY <2>1, <2>2 DEF RowsInv, SeqsGapFree
    <3>2. QED
      BY <2>1, <2>3, <2>7, <3>1 DEF RowsInv, SeqsGapFree
  <2>8. SeqsGapFree'
    BY <2>5, <2>6, <2>7 DEF SeqsGapFree
  <2>9. QED
    BY <2>4, <2>8 DEF RowsInv
<1>3. QED
  BY <1>1, <1>2, TableStep

(* Seqs of a conversation are 1..last_seq, each used once, and a client    *)
(* message has one row, however many processes, crashes, rebalances and    *)
(* redeliveries there are.                                                 *)
THEOREM RowsCorrect == Spec => [](SeqsGapFree /\ OneRowPerClientMessage)
<1> DEFINE Inv == TypeOK /\ Busy /\ TxInv /\ RowsInv
<1>1. Init => Inv
  BY TypeInit, TxInit, RowsInit
<1>2. Inv /\ [Next]_vars => Inv'
  BY TypeNext, TxNext, RowsNext
<1>3. Inv => SeqsGapFree /\ OneRowPerClientMessage
  BY DEF RowsInv
<1>4. QED
  BY <1>1, <1>2, <1>3, PTL DEF Spec

-----------------------------------------------------------------------------
(* No loss. Every record before one that a process holds is settled, being *)
(* handled by it, or ahead in its queue; every record before the position  *)
(* of the assigned process is too. Stale processes keep this for their own *)
(* queues, which is why their commits are harmless.                        *)

Ahead(c, o, i) == Settled(o) \/ o = cur[c] \/ \E j \in 1..(i-1) : queue[c][j] = o

Cover(c) ==
    /\ cur[c] # 0 => \A o \in 1..(cur[c] - 1) : Settled(o)
    /\ \A i \in 1..Len(queue[c]) : \A o \in 1..(queue[c][i] - 1) : Ahead(c, o, i)
    /\ assignee = c => \A o \in 1..pos[c] : Ahead(c, o, Len(queue[c]) + 1)

CommitReady(c) == pc[c] = "commit" => Settled(cur[c])

LossInv ==
    /\ LostOnlyByPolls
    /\ \A c \in Consumers : Cover(c)
    /\ \A c \in Consumers : CommitReady(c)

(* At the start nothing is committed, queued or polled.                    *)
LEMMA LossInit == Init => LossInv
  BY DEF Init, IngestInit, LossInv, LostOnlyByPolls, Cover, CommitReady

(* The log keeps its records, the tables and the dead-letter topic only grow. *)
LEMMA LogStep ==
    ASSUME TypeOK, Busy, [Next]_vars
    PROVE  /\ Len(inbox) <= Len(inbox')
           /\ \A o \in 1..Len(inbox) : inbox'[o] = inbox[o]
           /\ dlq \subseteq dlq' /\ dropped \subseteq dropped'
<1> USE DEF ingestVars
<1>1. ASSUME NEW r \in Records, Produce(r)
      PROVE  /\ Len(inbox) <= Len(inbox')
             /\ \A o \in 1..Len(inbox) : inbox'[o] = inbox[o]
             /\ dlq \subseteq dlq' /\ dropped \subseteq dropped'
  BY <1>1 DEF Produce, TypeOK, TablesOK
<1>2. ASSUME NEW c \in Consumers,
             Assign(c) \/ Crash(c) \/ FetchMessage(c) \/ FetchError(c) \/ Work(c)
      PROVE  inbox' = inbox /\ dlq \subseteq dlq' /\ dropped \subseteq dropped'
  <2>1. CASE Assign(c) \/ Crash(c) \/ FetchMessage(c) \/ FetchError(c) \/ Take(c) \/ Handle(c)
    BY <2>1 DEF Assign, Crash, FetchMessage, FetchError, Take, Handle
  <2>2. CASE PersistCheck(c) \/ PersistLock(c) \/ PersistNotFound(c) \/ PersistFails(c) \/ PersistCommit(c)
    BY <2>2 DEF PersistCheck, PersistLock, PersistNotFound, PersistFails, PersistCommit
  <2>3. CASE PublishDLQ(c) \/ PublishDLQFails(c) \/ CommitMessages(c) \/ CommitFails(c)
    BY <2>3 DEF PublishDLQ, PublishDLQFails, CommitMessages, CommitFails
  <2>4. QED
    BY <1>2, <2>1, <2>2, <2>3 DEF Work
<1>3. CASE UNCHANGED vars
  BY <1>3 DEF vars, TypeOK, TablesOK
<1>4. Len(inbox) \in Nat
  BY DEF TypeOK, TablesOK
<1>5. QED
  BY <1>1, <1>2, <1>3, <1>4 DEF Next

(* A record that is persisted, dead-lettered or dropped stays so.          *)
LEMMA SettledStable ==
    ASSUME TypeOK, Busy, TxInv, [Next]_vars, NEW o \in 1..Len(inbox), Settled(o)
    PROVE  Settled(o)'
<1>1. inbox'[o] = inbox[o] /\ dlq \subseteq dlq' /\ dropped \subseteq dropped'
  BY LogStep
<1>2. messages \subseteq messages'
  BY TableStep DEF RowAdded
<1>3. QED
  BY <1>1, <1>2 DEF Settled, Done, Persisted

(* A step that leaves the queue, the record and the position of c alone.   *)
LEMMA CoverFrame ==
    ASSUME TypeOK, Busy, NEW c \in Consumers, Cover(c),
           \A o \in 1..Len(inbox) : Settled(o) => Settled(o)',
           queue'[c] = queue[c], cur'[c] = cur[c],
           assignee' = c => assignee = c /\ pos'[c] = pos[c]
    PROVE  Cover(c)'
<1>1. /\ cur[c] \in 0..Len(inbox) /\ pos[c] \in 0..Len(inbox)
      /\ queue[c] \in Seq(1..Len(inbox)) /\ Len(inbox) \in Nat
  BY DEF TypeOK, TablesOK, QueuesOK
<1>2. \A o \in 1..Len(inbox), i \in Nat : Ahead(c, o, i) => Ahead(c, o, i)'
  BY DEF Ahead
<1>3. (cur[c] # 0 => \A o \in 1..(cur[c] - 1) : Settled(o))'
  BY <1>1 DEF Cover
<1>4. (\A i \in 1..Len(queue[c]) : \A o \in 1..(queue[c][i] - 1) : Ahead(c, o, i))'
  <2> SUFFICES ASSUME NEW i \in 1..Len(queue[c]), NEW o \in 1..(queue[c][i] - 1)
               PROVE  Ahead(c, o, i)'
    OBVIOUS
  <2>1. queue[c][i] \in 1..Len(inbox)
    BY <1>1
  <2>2. o \in 1..Len(inbox) /\ i \in Nat
    BY <1>1, <2>1
  <2>3. QED
    BY <1>2, <2>2 DEF Cover
<1>5. (assignee = c => \A o \in 1..pos[c] : Ahead(c, o, Len(queue[c]) + 1))'
  BY <1>1, <1>2 DEF Cover
<1>6. QED
  BY <1>3, <1>4, <1>5 DEF Cover

(* Whatever a process has skipped in its queue is done: every record up to *)
(* its polled offset is done, queued, or the one in hand.                  *)
LEMMA CoverNext ==
    ASSUME TypeOK, Busy, TxInv, LossInv, [Next]_vars
    PROVE  \A c \in Consumers : Cover(c)'
<1> USE DEF ingestVars, localVars
<1>d. \A o \in 1..Len(inbox) : Settled(o) => Settled(o)'
  BY SettledStable
<1>t. /\ Len(inbox) \in Nat /\ committed \in 0..Len(inbox)
      /\ pos \in [Consumers -> 0..Len(inbox)] /\ cur \in [Consumers -> 0..Len(inbox)]
      /\ queue \in [Consumers -> Seq(1..Len(inbox))]
  BY DEF TypeOK, TablesOK, QueuesOK
<1>c. \A c \in Consumers : Cover(c) /\ CommitReady(c)
  BY DEF LossInv
<1>f. ASSUME UNCHANGED <<queue, cur, pos, assignee>> PROVE \A c \in Consumers : Cover(c)'
  BY <1>d, <1>c, <1>f, CoverFrame
<1>1. ASSUME NEW r \in Records, Produce(r) PROVE \A c \in Consumers : Cover(c)'
  BY <1>1, <1>f DEF Produce
<1>2. ASSUME NEW c \in Consumers, Assign(c) PROVE \A d \in Consumers : Cover(d)'
  <2>1. ASSUME NEW d \in Consumers, d # c PROVE Cover(d)'
    BY <1>c, <1>d, <1>2, <2>1, CoverFrame DEF Assign
  <2>2. Cover(c)'
    <3>1. /\ queue' = queue /\ cur' = cur /\ pos'[c] = committed
          /\ \A o \in 1..committed : Settled(o)'
      BY <1>d, <1>t, <1>2 DEF Assign, LossInv, LostOnlyByPolls
    <3>3. (cur[c] # 0 => \A o \in 1..(cur[c] - 1) : Settled(o))'
      BY <1>c, <1>d, <1>t, <3>1 DEF Cover
    <3>4. ASSUME NEW i \in 1..Len(queue[c]), NEW o \in 1..(queue[c][i] - 1)
          PROVE  Ahead(c, o, i)'
      <4>1. queue[c][i] \in 1..Len(inbox)
        BY <1>t
      <4>2. o \in 1..Len(inbox) /\ Ahead(c, o, i)
        BY <1>c, <1>t, <4>1 DEF Cover
      <4>3. QED
        BY <1>d, <3>1, <4>2 DEF Ahead
    <3>5. QED
      BY <3>1, <3>3, <3>4 DEF Cover, Ahead
  <2>3. QED
    BY <2>1, <2>2
<1>3. ASSUME NEW c \in Consumers, Crash(c) PROVE \A d \in Consumers : Cover(d)'
  <2>1. ASSUME NEW d \in Consumers, d # c PROVE Cover(d)'
    <3>1. /\ queue'[d] = queue[d] /\ cur'[d] = cur[d] /\ pos'[d] = pos[d]
          /\ assignee' = d => assignee = d
      BY <1>t, <1>3, <2>1 DEF Crash
    <3>2. QED
      BY <1>c, <1>d, <3>1, CoverFrame
  <2>2. Cover(c)'
    BY <1>t, <1>3 DEF Crash, Cover
  <2>3. QED
    BY <2>1, <2>2
<1>4. ASSUME NEW c \in Consumers, FetchMessage(c) PROVE \A d \in Consumers : Cover(d)'
  <2>1. ASSUME NEW d \in Consumers, d # c PROVE Cover(d)'
    BY <1>c, <1>d, <1>4, <2>1, CoverFrame DEF FetchMessage
  <2>2. Cover(c)'
    <3>n. PICK n \in Nat : n = Len(queue[c])
      BY <1>t
    <3> DEFINE q == queue[c]
    <3>1. /\ q \in Seq(1..Len(inbox)) /\ n = Len(q)
          /\ queue'[c] = Append(q, pos[c] + 1) /\ cur'[c] = cur[c]
          /\ pos'[c] = pos[c] + 1 /\ pos[c] + 1 \in 1..Len(inbox) /\ assignee = c
      BY <1>t, <1>4, <3>n DEF FetchMessage
    <3>2. /\ Len(queue'[c]) = n + 1 /\ queue'[c][n + 1] = pos[c] + 1
          /\ \A i \in 1..n : queue'[c][i] = q[i]
      BY <3>1
    <3>3. (cur[c] # 0 => \A o \in 1..(cur[c] - 1) : Settled(o))'
      BY <1>c, <1>d, <1>t, <3>1 DEF Cover
    <3>4. \A o \in 1..pos[c] : Ahead(c, o, n + 1)'
      <4> SUFFICES ASSUME NEW o \in 1..pos[c] PROVE Ahead(c, o, n + 1)'
        OBVIOUS
      <4>1. o \in 1..Len(inbox) /\ Ahead(c, o, n + 1)
        BY <1>c, <1>t, <3>1 DEF Cover
      <4>2. QED
        BY <1>d, <3>1, <3>2, <4>1 DEF Ahead
    <3>5. ASSUME NEW i \in 1..n, NEW o \in 1..(q[i] - 1) PROVE Ahead(c, o, i)'
      <4>1. q[i] \in 1..Len(inbox)
        BY SMTT(30), <3>1
      <4>2. o \in 1..Len(inbox) /\ Ahead(c, o, i)
        BY SMTT(30), <1>c, <1>t, <3>1, <4>1 DEF Cover
      <4>3. QED
        BY <1>d, <3>1, <3>2, <4>2 DEF Ahead
    <3>6. (\A i \in 1..Len(queue[c]) : \A o \in 1..(queue[c][i] - 1) : Ahead(c, o, i))'
      <4> SUFFICES ASSUME NEW i \in 1..(n + 1), NEW o \in 1..(queue'[c][i] - 1)
                   PROVE  Ahead(c, o, i)'
        BY <3>2
      <4>1. CASE i = n + 1
        BY <1>t, <3>1, <3>2, <3>4, <4>1
      <4>2. CASE i # n + 1
        BY <3>1, <3>2, <3>5, <4>2
      <4>3. QED
        BY <4>1, <4>2
    <3>7. (\A o \in 1..pos[c] : Ahead(c, o, Len(queue[c]) + 1))'
      <4> SUFFICES ASSUME NEW o \in 1..(pos[c] + 1) PROVE Ahead(c, o, n + 2)'
        BY <3>1, <3>2
      <4>1. CASE o = pos[c] + 1
        <5>1. n + 1 \in 1..((n + 2) - 1) /\ queue'[c][n + 1] = o
          BY <3>2, <4>1
        <5>2. QED
          BY <5>1 DEF Ahead
      <4>2. CASE o # pos[c] + 1
        <5>1. Ahead(c, o, n + 1)'
          BY <1>t, <3>4, <4>2
        <5>2. 1..((n + 1) - 1) \subseteq 1..((n + 2) - 1)
          OBVIOUS
        <5>3. QED
          BY <5>1, <5>2 DEF Ahead
      <4>3. QED
        BY <4>1, <4>2
    <3>8. QED
      BY <3>3, <3>6, <3>7 DEF Cover
  <2>3. QED
    BY <2>1, <2>2
<1>5. ASSUME NEW c \in Consumers, FetchError(c) PROVE \A d \in Consumers : Cover(d)'
  <2>1. ASSUME NEW d \in Consumers, d # c PROVE Cover(d)'
    BY <1>c, <1>d, <1>5, <2>1, CoverFrame DEF FetchError
  <2>2. Cover(c)'
    <3>1. /\ queue' = queue /\ cur' = cur /\ assignee = c
          /\ pos'[c] = pos[c] + 1 /\ dropped' = dropped \cup {pos[c] + 1}
      BY <1>t, <1>5 DEF FetchError
    <3>2. \A o \in 1..Len(inbox), i \in Nat : Ahead(c, o, i) => Ahead(c, o, i)'
      BY <1>d, <3>1 DEF Ahead
    <3>3. (cur[c] # 0 => \A o \in 1..(cur[c] - 1) : Settled(o))'
      BY <1>c, <1>d, <1>t, <3>1 DEF Cover
    <3>4. ASSUME NEW i \in 1..Len(queue[c]), NEW o \in 1..(queue[c][i] - 1)
          PROVE  Ahead(c, o, i)'
      <4>1. queue[c][i] \in 1..Len(inbox)
        BY <1>t
      <4>2. o \in 1..Len(inbox) /\ Ahead(c, o, i) /\ i \in Nat
        BY <1>c, <1>t, <4>1 DEF Cover
      <4>3. QED
        BY <3>2, <4>2
    <3>5. ASSUME NEW o \in 1..(pos[c] + 1)
          PROVE  Ahead(c, o, Len(queue[c]) + 1)'
      <4>1. PICK i \in Nat : i = Len(queue[c]) + 1
        BY <1>t
      <4>2. CASE o = pos[c] + 1
        BY <3>1, <4>2 DEF Ahead, Settled
      <4>3. CASE o # pos[c] + 1
        <5>1. o \in 1..pos[c] /\ o \in 1..Len(inbox)
          BY <1>t, <4>3
        <5>2. Ahead(c, o, i)
          BY <1>c, <3>1, <4>1, <5>1 DEF Cover
        <5>3. Ahead(c, o, i)' /\ (Len(queue[c]) + 1)' = i
          BY <3>1, <3>2, <4>1, <5>1, <5>2
        <5>4. QED
          BY <5>3 DEF Ahead
      <4>4. QED
        BY <4>2, <4>3
    <3>6. QED
      BY <3>1, <3>3, <3>4, <3>5 DEF Cover
  <2>3. QED
    BY <2>1, <2>2
<1>6. ASSUME NEW c \in Consumers, Take(c) PROVE \A d \in Consumers : Cover(d)'
  <2>1. ASSUME NEW d \in Consumers, d # c PROVE Cover(d)'
    <3>1. queue'[d] = queue[d] /\ cur'[d] = cur[d] /\ pos' = pos /\ assignee' = assignee
      BY <1>t, <1>6, <2>1 DEF Take
    <3>2. QED
      BY <1>c, <1>d, <3>1, CoverFrame
  <2>2. Cover(c)'
    <3>n. PICK n \in Nat : n = Len(queue[c])
      BY <1>t
    <3> DEFINE q == queue[c]
    <3>1. /\ q \in Seq(1..Len(inbox)) /\ n = Len(q) /\ n # 0 /\ cur[c] = 0
          /\ queue'[c] = Tail(q) /\ cur'[c] = q[1] /\ q[1] \in 1..Len(inbox)
          /\ pos' = pos /\ assignee' = assignee
      BY <1>t, <1>6, <3>n DEF Take, Busy
    <3>2. Len(queue'[c]) = n - 1 /\ \A i \in 1..(n - 1) : queue'[c][i] = q[i + 1]
      BY <3>1
    <3>3. ASSUME NEW o \in 1..Len(inbox), NEW i \in 1..n, Ahead(c, o, i + 1)
          PROVE  Ahead(c, o, i)'
      <4>1. CASE \E j \in 2..i : q[j] = o
        <5>1. PICK j \in 2..i : q[j] = o
          BY <4>1
        <5>2. j - 1 \in 1..(i - 1) /\ j - 1 \in 1..(n - 1) /\ (j - 1) + 1 = j
          BY <5>1
        <5>3. queue'[c][j - 1] = o
          BY <3>2, <5>1, <5>2
        <5>4. QED
          BY <5>2, <5>3 DEF Ahead
      <4>2. CASE q[1] = o
        BY <3>1, <4>2 DEF Ahead
      <4>3. CASE Settled(o)
        BY <1>d, <4>3 DEF Ahead
      <4>4. o # cur[c]
        BY <3>1
      <4>5. QED
        BY <3>1, <3>3, <4>1, <4>2, <4>3, <4>4 DEF Ahead
    <3>4. (cur[c] # 0 => \A o \in 1..(cur[c] - 1) : Settled(o))'
      <4> SUFFICES ASSUME NEW o \in 1..(q[1] - 1) PROVE Settled(o)'
        BY <3>1
      <4>1. o \in 1..Len(inbox) /\ Ahead(c, o, 1) /\ o # cur[c]
        BY <1>c, <3>1 DEF Cover
      <4>2. QED
        BY <1>d, <4>1 DEF Ahead
    <3>5. (\A i \in 1..Len(queue[c]) : \A o \in 1..(queue[c][i] - 1) : Ahead(c, o, i))'
      <4> SUFFICES ASSUME NEW i \in 1..(n - 1), NEW o \in 1..(q[i + 1] - 1)
                   PROVE  Ahead(c, o, i)'
        BY <3>2
      <4>1. i \in 1..n /\ i + 1 \in 1..n /\ q[i + 1] \in 1..Len(inbox)
        BY <3>1
      <4>2. o \in 1..Len(inbox) /\ Ahead(c, o, i + 1)
        BY SMTT(30), <1>c, <1>t, <3>1, <4>1 DEF Cover
      <4>3. QED
        BY <3>3, <4>1, <4>2
    <3>6. (assignee = c => \A o \in 1..pos[c] : Ahead(c, o, Len(queue[c]) + 1))'
      <4> SUFFICES ASSUME assignee = c, NEW o \in 1..pos[c] PROVE Ahead(c, o, n)'
        BY <3>1, <3>2
      <4>1. o \in 1..Len(inbox) /\ Ahead(c, o, n + 1) /\ n \in 1..n
        BY <1>c, <1>t, <3>1 DEF Cover
      <4>2. QED
        BY <3>3, <4>1
    <3>7. QED
      BY <3>4, <3>5, <3>6 DEF Cover
  <2>3. QED
    BY <2>1, <2>2
<1>7. ASSUME NEW c \in Consumers, CommitMessages(c) PROVE \A d \in Consumers : Cover(d)'
  <2>1. ASSUME NEW d \in Consumers, d # c PROVE Cover(d)'
    <3>1. queue' = queue /\ cur'[d] = cur[d] /\ pos' = pos /\ assignee' = assignee
      BY <1>t, <1>7, <2>1 DEF CommitMessages
    <3>2. QED
      BY <1>c, <1>d, <3>1, CoverFrame
  <2>2. Cover(c)'
    <3>1. /\ queue' = queue /\ cur'[c] = 0 /\ pos' = pos /\ assignee' = assignee
          /\ Settled(cur[c]) /\ cur[c] \in 1..Len(inbox)
      BY <1>c, <1>t, <1>7, CurRecord DEF CommitMessages, CommitReady
    <3>2. \A o \in 1..Len(inbox), i \in Nat : Ahead(c, o, i) => Ahead(c, o, i)'
      BY <1>d, <3>1 DEF Ahead
    <3>3. ASSUME NEW i \in 1..Len(queue[c]), NEW o \in 1..(queue[c][i] - 1)
          PROVE  Ahead(c, o, i)'
      <4>1. queue[c][i] \in 1..Len(inbox)
        BY <1>t
      <4>2. o \in 1..Len(inbox) /\ Ahead(c, o, i) /\ i \in Nat
        BY <1>c, <1>t, <4>1 DEF Cover
      <4>3. QED
        BY <3>2, <4>2
    <3>4. (assignee = c => \A o \in 1..pos[c] : Ahead(c, o, Len(queue[c]) + 1))'
      <4> SUFFICES ASSUME assignee = c, NEW o \in 1..pos[c]
                   PROVE  Ahead(c, o, Len(queue[c]) + 1)'
        BY <3>1
      <4>1. PICK i \in Nat : i = Len(queue[c]) + 1
        BY <1>t
      <4>2. o \in 1..Len(inbox) /\ Ahead(c, o, i)
        BY <1>c, <1>t, <4>1 DEF Cover
      <4>3. Ahead(c, o, i)' /\ (Len(queue[c]) + 1)' = i
        BY <3>1, <3>2, <4>1, <4>2
      <4>4. QED
        BY <4>3 DEF Ahead
    <3>5. QED
      BY <3>1, <3>3, <3>4 DEF Cover
  <2>3. QED
    BY <2>1, <2>2
<1>8. ASSUME NEW c \in Consumers,
             Handle(c) \/ PersistCheck(c) \/ PersistLock(c) \/ PersistNotFound(c) \/ PersistFails(c)
             \/ PersistCommit(c) \/ PublishDLQ(c) \/ PublishDLQFails(c) \/ CommitFails(c)
      PROVE  \A d \in Consumers : Cover(d)'
  <2>1. UNCHANGED <<queue, cur, pos, assignee>>
    BY <1>8 DEF Handle, PersistCheck, PersistLock, PersistNotFound, PersistFails,
                PersistCommit, PublishDLQ, PublishDLQFails, CommitFails
  <2>2. QED
    BY <2>1, <1>f
<1>9. CASE UNCHANGED vars
  BY <1>9, <1>f DEF vars
<1>10. QED
  BY <1>1, <1>2, <1>3, <1>4, <1>5, <1>6, <1>7, <1>8, <1>9 DEF Next, Work

(* The offset only moves to a record whose process has everything before   *)
(* it done.                                                                *)
LEMMA CommittedStep ==
    ASSUME TypeOK, Busy, LossInv, [Next]_vars
    PROVE  \/ committed' = committed
           \/ \E c \in Consumers : /\ committed' = cur[c] /\ cur[c] \in 1..Len(inbox)
                                   /\ \A o \in 1..cur[c] : Settled(o)
                                   /\ inbox' = inbox /\ dlq' = dlq /\ dropped' = dropped
                                   /\ UNCHANGED <<messages, outbox, lastSeq>>
<1> USE DEF ingestVars
<1>1. ASSUME NEW r \in Records, Produce(r) PROVE committed' = committed
  BY <1>1 DEF Produce
<1>2. ASSUME NEW c \in Consumers,
             Assign(c) \/ Crash(c) \/ FetchMessage(c) \/ FetchError(c) \/ Take(c) \/ Handle(c)
      PROVE  committed' = committed
  BY <1>2 DEF Assign, Crash, FetchMessage, FetchError, Take, Handle
<1>3. ASSUME NEW c \in Consumers,
             PersistCheck(c) \/ PersistLock(c) \/ PersistNotFound(c) \/ PersistFails(c)
             \/ PersistCommit(c) \/ PublishDLQ(c) \/ PublishDLQFails(c)
      PROVE  committed' = committed
  BY <1>3 DEF PersistCheck, PersistLock, PersistNotFound, PersistFails, PersistCommit,
              PublishDLQ, PublishDLQFails
<1>4. ASSUME NEW c \in Consumers, CommitMessages(c) \/ CommitFails(c)
      PROVE  \/ committed' = committed
             \/ /\ committed' = cur[c] /\ cur[c] \in 1..Len(inbox)
                /\ \A o \in 1..cur[c] : Settled(o)
                /\ inbox' = inbox /\ dlq' = dlq /\ dropped' = dropped
                /\ UNCHANGED <<messages, outbox, lastSeq>>
  <2>1. pc[c] = "commit" /\ cur[c] \in 1..Len(inbox)
    BY <1>4, CurRecord DEF CommitMessages, CommitFails
  <2>2. \A o \in 1..cur[c] : Settled(o)
    BY <2>1 DEF LossInv, Cover, CommitReady
  <2>3. QED
    BY <1>4, <2>1, <2>2 DEF CommitMessages, CommitFails
<1>5. CASE UNCHANGED vars
  BY <1>5 DEF vars
<1>6. QED
  BY <1>1, <1>2, <1>3, <1>4, <1>5 DEF Next, Work

(* A goroutine reaches CommitMessages only with a record that is done.     *)
LEMMA ReadyNext ==
    ASSUME TypeOK, Busy, TxInv, LossInv, [Next]_vars, NEW d \in Consumers
    PROVE  CommitReady(d)'
<1> USE DEF ingestVars, localVars
<1>l. LocalsOK /\ QueuesOK
  BY DEF TypeOK
<1>f. ASSUME pc[d] = "commit", cur'[d] = cur[d] PROVE Settled(cur[d])'
  BY <1>f, CurRecord, SettledStable DEF LossInv, CommitReady
<1>n. ASSUME pc'[d] # "commit" PROVE CommitReady(d)'
  BY <1>n DEF CommitReady
<1>s. ASSUME UNCHANGED <<pc, cur>> PROVE CommitReady(d)'
  BY <1>f, <1>s DEF CommitReady
<1>o. ASSUME pc'[d] = pc[d], cur'[d] = cur[d] PROVE CommitReady(d)'
  BY <1>f, <1>o DEF CommitReady
<1>1. ASSUME NEW r \in Records, Produce(r) PROVE CommitReady(d)'
  BY <1>1, <1>s DEF Produce
<1>2. ASSUME NEW c \in Consumers, Assign(c) \/ FetchMessage(c) \/ FetchError(c)
      PROVE  CommitReady(d)'
  BY <1>2, <1>s DEF Assign, FetchMessage, FetchError
<1>3. ASSUME NEW c \in Consumers, c # d, Crash(c) \/ Work(c)
      PROVE  pc'[d] = pc[d] /\ cur'[d] = cur[d]
  <2>1. CASE Crash(c) \/ Take(c) \/ Handle(c) \/ PersistCheck(c) \/ PersistLock(c)
    BY <1>l, <1>3, <2>1 DEF Crash, Take, Handle, PersistCheck, PersistLock, Goto, LocalsOK, QueuesOK
  <2>2. CASE PersistNotFound(c) \/ PersistFails(c)
    BY <1>3, <2>2, AttemptLocals DEF PersistNotFound, PersistFails
  <2>3. CASE PersistCommit(c)
    <3>1. CASE Goto(c, "commit")
      BY <1>l, <1>3, <2>3, <3>1 DEF PersistCommit, Goto, LocalsOK
    <3>2. CASE AttemptFailed(c, "DB")
      BY <1>3, <2>3, <3>2, AttemptLocals DEF PersistCommit
    <3>3. QED
      BY <2>3, <3>1, <3>2 DEF PersistCommit
  <2>4. CASE PublishDLQ(c) \/ PublishDLQFails(c) \/ CommitMessages(c) \/ CommitFails(c)
    BY <1>l, <1>3, <2>4 DEF PublishDLQ, PublishDLQFails, CommitMessages, CommitFails, Goto, LocalsOK, QueuesOK
  <2>5. QED
    BY <1>3, <2>1, <2>2, <2>3, <2>4 DEF Work
<1>4. ASSUME Crash(d) \/ Take(d) \/ PersistLock(d) \/ PublishDLQFails(d) \/ CommitMessages(d) \/ CommitFails(d)
      PROVE  CommitReady(d)'
  BY <1>l, <1>n, <1>4 DEF Crash, Take, PersistLock, PublishDLQFails, CommitMessages, CommitFails, Goto, LocalsOK
<1>5. ASSUME PersistNotFound(d) \/ PersistFails(d) PROVE CommitReady(d)'
  BY <1>n, <1>5, AttemptLocals DEF PersistNotFound, PersistFails
<1>6. ASSUME Handle(d) \/ PersistCheck(d) PROVE CommitReady(d)'
  <2>1. UNCHANGED <<inbox, messages, dlq, dropped, cur>>
    BY <1>6 DEF Handle, PersistCheck
  <2>2. pc'[d] = "commit" => Persisted(inbox[cur[d]].key)
    BY <1>l, <1>6 DEF Handle, PersistCheck, Goto, LocalsOK
  <2>3. QED
    BY <2>1, <2>2 DEF CommitReady, Settled, Done, Persisted
<1>7. ASSUME PersistCommit(d) PROVE CommitReady(d)'
  <2>1. UNCHANGED <<inbox, cur>>
    BY <1>7 DEF PersistCommit
  <2>2. Persisted(inbox[cur[d]].key)'
    <3>1. CASE Persisted(inbox[cur[d]].key)
      BY <1>7, <2>1, <3>1 DEF PersistCommit, Persisted
    <3>2. CASE ~ Persisted(inbox[cur[d]].key)
      <4> DEFINE row == [conv |-> inbox[cur[d]].conv, seq |-> nextSeq[d],
                         key |-> inbox[cur[d]].key, off |-> cur[d]]
      <4>1. row \in messages'
        BY <1>7, <3>2 DEF PersistCommit
      <4>2. row.key = inbox'[cur'[d]].key
        BY <2>1
      <4>3. QED
        BY <4>1, <4>2 DEF Persisted
    <3>3. QED
      BY <3>1, <3>2
  <2>3. QED
    BY <2>1, <2>2 DEF CommitReady, Settled, Done
<1>8. ASSUME PublishDLQ(d) PROVE CommitReady(d)'
  BY <1>8 DEF PublishDLQ, CommitReady, Settled, Done
<1>9. CASE UNCHANGED vars
  BY <1>9, <1>s DEF vars
<1>10. QED
  BY <1>o, <1>1, <1>2, <1>3, <1>4, <1>5, <1>6, <1>7, <1>8, <1>9 DEF Next, Work

(* The parts of the no-loss invariant together are inductive.              *)
LEMMA LossNext ==
    TypeOK /\ Busy /\ TxInv /\ LossInv /\ [Next]_vars => LossInv'
<1> SUFFICES ASSUME TypeOK, Busy, TxInv, LossInv, [Next]_vars PROVE LossInv'
  OBVIOUS
<1>1. \A o \in 1..committed' : o \in 1..Len(inbox) /\ Settled(o)
  BY CommittedStep DEF LossInv, LostOnlyByPolls, TypeOK, TablesOK
<1>2. LostOnlyByPolls'
  BY <1>1, SettledStable DEF LostOnlyByPolls
<1>3. QED
  BY <1>2, CoverNext, ReadyNext DEF LossInv

IInv == TypeOK /\ Busy /\ TxInv /\ RowsInv /\ LossInv

(* The inductive invariant holds throughout.                               *)
LEMMA Induction == Spec => []IInv
<1>1. Init => IInv
  BY TypeInit, TxInit, RowsInit, LossInit DEF IInv
<1>2. IInv /\ [Next]_vars => IInv'
  BY TypeNext, TxNext, RowsNext, LossNext DEF IInv
<1>3. QED
  BY <1>1, <1>2, PTL DEF Spec

(* handleWithRetry's promise, as far as the worker can keep it: every      *)
(* record below the committed offset is in MySQL or in the dead-letter     *)
(* topic, unless a poll with an error kept it from the worker.             *)
THEOREM NothingLost == Spec => []LostOnlyByPolls
<1>1. IInv => LostOnlyByPolls
  BY DEF IInv, LossInv
<1>2. QED
  BY <1>1, Induction, PTL

-----------------------------------------------------------------------------
(* Refinement. Seen through the log, the offset, the tables and the dead-  *)
(* letter topic, each step is one step of Ingest or none.                  *)

LEMMA StepRefines == IInv /\ [Next]_vars => [IngestNext]_ingestVars
<1> SUFFICES ASSUME IInv, [Next]_vars PROVE IngestNext \/ UNCHANGED ingestVars
  OBVIOUS
<1>i. TypeOK /\ Busy /\ TxInv /\ LossInv
  BY DEF IInv
<1>1. ASSUME NEW r \in Records, Produce(r) PROVE IngestNext
  BY <1>1 DEF Produce, IngestNext, PublishIngress
<1>2. ASSUME NEW c \in Consumers,
             Assign(c) \/ Crash(c) \/ FetchMessage(c) \/ Take(c) \/ Handle(c)
             \/ PersistCheck(c) \/ PersistLock(c) \/ PersistNotFound(c) \/ PersistFails(c)
      PROVE  UNCHANGED ingestVars
  BY <1>2 DEF Assign, Crash, FetchMessage, Take, Handle,
              PersistCheck, PersistLock, PersistNotFound, PersistFails
<1>3. ASSUME NEW c \in Consumers, PersistCommit(c) PROVE IngestNext \/ UNCHANGED ingestVars
  <2>1. UNCHANGED <<inbox, committed, dlq, dropped>> /\ pc[c] = "write"
    BY <1>3 DEF PersistCommit
  <2>2. CASE Persisted(inbox[cur[c]].key)
    BY <1>3, <2>1, <2>2 DEF PersistCommit, ingestVars
  <2>3. CASE ~ Persisted(inbox[cur[c]].key)
    <3>1. /\ LockHeld(c) /\ inbox[cur[c]].valid
          /\ cur[c] \in 1..Len(inbox)
      BY <1>i, <2>1, CurRecord DEF TxInv, InTx
    <3>2. PersistRecord(cur[c])
      BY <1>3, <2>1, <2>3, <3>1 DEF PersistCommit, PersistRecord, LockHeld
    <3>3. QED
      BY <3>1, <3>2 DEF IngestNext
  <2>4. QED
    BY <2>2, <2>3
<1>4. ASSUME NEW c \in Consumers, PublishDLQ(c) \/ PublishDLQFails(c)
      PROVE  IngestNext \/ UNCHANGED ingestVars
  <2>1. cur[c] \in 1..Len(inbox)
    BY <1>i, <1>4, CurRecord DEF PublishDLQ, PublishDLQFails
  <2>2. DeadLetter(cur[c]) \/ UNCHANGED ingestVars
    BY <1>4 DEF PublishDLQ, PublishDLQFails, DeadLetter, ingestVars
  <2>3. QED
    BY <2>1, <2>2 DEF IngestNext
<1>5. ASSUME NEW c \in Consumers, CommitMessages(c) \/ CommitFails(c)
      PROVE  IngestNext \/ UNCHANGED ingestVars
  <2>1. pc[c] = "commit" /\ cur[c] \in 1..Len(inbox)
    BY <1>i, <1>5, CurRecord DEF CommitMessages, CommitFails
  <2>2. \A o \in 1..cur[c] : Settled(o)
    BY <1>i, <2>1 DEF LossInv, Cover, CommitReady
  <2>3. CommitOffset(cur[c]) \/ UNCHANGED ingestVars
    BY <1>5, <2>2 DEF CommitMessages, CommitFails, CommitOffset, ingestVars
  <2>4. QED
    BY <2>1, <2>3 DEF IngestNext
<1>6. ASSUME NEW c \in Consumers, FetchError(c) PROVE IngestNext
  <2>1. pos[c] + 1 \in 1..Len(inbox)
    BY <1>i, <1>6 DEF FetchError, TypeOK, TablesOK, QueuesOK
  <2>2. DropRecord(pos[c] + 1)
    BY <1>6 DEF FetchError, DropRecord
  <2>3. QED
    BY <2>1, <2>2 DEF IngestNext
<1>7. CASE UNCHANGED vars
  BY <1>7 DEF vars
<1>8. QED
  BY <1>1, <1>2, <1>3, <1>4, <1>5, <1>6, <1>7 DEF Next, Work

(* The worker implements Ingest, whatever the number of processes, crashes *)
(* and rebalances.                                                         *)
THEOREM WorkerImplementsIngest == Spec => ImplementsIngest
<1>1. Init => IngestInit
  BY DEF Init
<1>2. QED
  BY <1>1, Induction, StepRefines, PTL DEF Spec, IngestSpec, ImplementsIngest

-----------------------------------------------------------------------------
(* Order. While the partition is taken from dead processes only, nobody    *)
(* but the assigned process works on it; what it holds is past the         *)
(* committed offset and in the partition's order, and whatever it has      *)
(* skipped, or is missing before a persisted record, was dropped by a      *)
(* poll.                                                                   *)

Alone == \A c \in Consumers : c # assignee => pc[c] = "idle" /\ queue[c] = <<>>

InLine(c) ==
    /\ committed <= pos[c]
    /\ cur[c] # 0 => committed <= cur[c] /\ cur[c] <= pos[c]
    /\ \A i \in 1..Len(queue[c]) :
          committed < queue[c][i] /\ cur[c] < queue[c][i] /\ queue[c][i] <= pos[c]
    /\ \A i, j \in 1..Len(queue[c]) : i < j => queue[c][i] < queue[c][j]

Skipped(c) ==
    \A p \in (committed + 1)..pos[c] :
        p = cur[c] \/ p \in dropped \/ \E i \in 1..Len(queue[c]) : queue[c][i] = p

Newest(c) == cur[c] # 0 => cur[c] \in dropped \/ \A m \in messages : m.off <= cur[c]

(* A row has the key of the record it came from.                           *)
RowSource == \A m \in messages : m.off \in 1..Len(inbox) /\ inbox[m.off].key = m.key

MissingDropped == \A m \in messages : \A p \in (committed + 1)..(m.off - 1) : p \in dropped

OrderParts ==
    /\ Alone
    /\ assignee # NoConsumer => InLine(assignee) /\ Skipped(assignee) /\ Newest(assignee)
    /\ MissingDropped

OrderInv ==
    /\ RowSource
    /\ moves = 0 => OrderParts
    /\ SeqFollowsInboxOrder

(* Nothing is persisted and nothing assigned at the start.                 *)
LEMMA OrderInit == Init => OrderInv
  BY DEF Init, IngestInit, OrderInv, OrderParts, RowSource, Alone, MissingDropped,
         SeqFollowsInboxOrder

(* The numbers that the order is about.                                    *)
LEMMA Offsets ==
    ASSUME TypeOK, Busy
    PROVE  /\ committed \in Nat /\ Len(inbox) \in Nat
           /\ \A c \in Consumers : pos[c] \in Nat /\ cur[c] \in Nat
           /\ \A c \in Consumers : queue[c] \in Seq(Nat) /\ Len(queue[c]) \in Nat
           /\ \A c \in Consumers : \A i \in 1..Len(queue[c]) : queue[c][i] \in Nat
           /\ \A c \in Consumers : pc[c] = "idle" <=> cur[c] = 0
           /\ \A m \in messages : m.off \in Nat /\ m.seq \in Nat /\ m.conv \in Convs
           /\ moves \in Nat
<1>1. Len(inbox) \in Nat /\ committed \in Nat
  BY DEF TypeOK, TablesOK
<1>2. \A c \in Consumers : pos[c] \in Nat /\ cur[c] \in Nat
  BY <1>1 DEF TypeOK, QueuesOK
<1>3. ASSUME NEW c \in Consumers
      PROVE  /\ queue[c] \in Seq(Nat) /\ Len(queue[c]) \in Nat
             /\ \A i \in 1..Len(queue[c]) : queue[c][i] \in Nat
  <2>1. queue[c] \in Seq(1..Len(inbox))
    BY DEF TypeOK, QueuesOK
  <2>2. QED
    BY <1>1, <2>1
<1>4. \A m \in messages : m.off \in Nat /\ m.seq \in Nat /\ m.conv \in Convs
  BY DEF TypeOK, TablesOK, Row
<1>5. moves \in Nat
  BY DEF TypeOK, GroupOK
<1>6. QED
  BY <1>1, <1>2, <1>3, <1>4, <1>5 DEF Busy

(* Moves are counted up.                                                   *)
LEMMA MovesBack ==
    ASSUME TypeOK, Busy, [Next]_vars, moves' = 0
    PROVE  moves = 0
<1> USE DEF ingestVars
<1>1. ASSUME NEW r \in Records, Produce(r) PROVE moves = 0
  BY <1>1 DEF Produce
<1>2. ASSUME NEW c \in Consumers, Assign(c) PROVE moves = 0
  BY <1>2, Offsets DEF Assign
<1>3. ASSUME NEW c \in Consumers,
             Crash(c) \/ FetchMessage(c) \/ FetchError(c) \/ Take(c) \/ Handle(c)
      PROVE  moves = 0
  BY <1>3 DEF Crash, FetchMessage, FetchError, Take, Handle
<1>4. ASSUME NEW c \in Consumers,
             PersistCheck(c) \/ PersistLock(c) \/ PersistNotFound(c) \/ PersistFails(c) \/ PersistCommit(c)
      PROVE  moves = 0
  BY <1>4 DEF PersistCheck, PersistLock, PersistNotFound, PersistFails, PersistCommit
<1>5. ASSUME NEW c \in Consumers,
             PublishDLQ(c) \/ PublishDLQFails(c) \/ CommitMessages(c) \/ CommitFails(c)
      PROVE  moves = 0
  BY <1>5 DEF PublishDLQ, PublishDLQFails, CommitMessages, CommitFails
<1>6. CASE UNCHANGED vars
  BY <1>6 DEF vars
<1>7. QED
  BY <1>1, <1>2, <1>3, <1>4, <1>5, <1>6 DEF Next, Work

(* The log keeps its records, so a row keeps its source.                   *)
LEMMA SourceNext ==
    ASSUME TypeOK, Busy, TxInv, RowSource, [Next]_vars
    PROVE  RowSource'
<1>1. Len(inbox) \in Nat /\ Len(inbox') \in Nat
  BY TypeNext DEF TypeOK, TablesOK
<1>2. \A o \in 1..Len(inbox) : o \in 1..Len(inbox') /\ inbox'[o] = inbox[o]
  BY <1>1, LogStep
<1>3. CASE messages' = messages
  BY <1>2, <1>3 DEF RowSource
<1>4. ASSUME NEW c \in Consumers, pc[c] = "write", RowAdded(c) PROVE RowSource'
  <2> DEFINE row == [conv |-> inbox[cur[c]].conv, seq |-> lastSeq[inbox[cur[c]].conv] + 1,
                     key |-> inbox[cur[c]].key, off |-> cur[c]]
  <2>1. messages' = messages \cup {row} /\ row.off = cur[c] /\ row.key = inbox[cur[c]].key
    BY <1>4 DEF RowAdded
  <2>2. cur[c] \in 1..Len(inbox)
    BY <1>4, CurRecord
  <2> HIDE DEF row
  <2>3. QED
    BY <1>2, <2>1, <2>2 DEF RowSource
<1>5. QED
  BY <1>3, <1>4, TableStep

(* A step that moves no record, no offset and no row.                      *)
LEMMA OrderFrame ==
    ASSUME OrderParts,
           UNCHANGED <<committed, queue, cur, messages, assignee, pos, dropped>>,
           \A d \in Consumers : pc[d] = "idle" => pc'[d] = "idle"
    PROVE  OrderParts'
  BY DEF OrderParts, Alone, InLine, Skipped, Newest, MissingDropped

(* The process that works is the one assigned.                             *)
LEMMA Worker ==
    ASSUME TypeOK, Busy, OrderParts, NEW c \in Consumers, pc[c] # "idle" \/ queue[c] # <<>>
    PROVE  /\ assignee = c /\ assignee # NoConsumer
           /\ InLine(c) /\ Skipped(c) /\ Newest(c)
           /\ \A d \in Consumers \ {c} : pc[d] = "idle" /\ queue[d] = <<>>
<1>1. assignee = c
  BY DEF OrderParts, Alone
<1>2. assignee # NoConsumer
  BY <1>1
<1>3. QED
  BY <1>1, <1>2 DEF OrderParts, Alone

(* A step of the assigned process c.                                       *)
LEMMA OrderBuild ==
    ASSUME NEW c \in Consumers, assignee' = c, MissingDropped',
           InLine(c)', Skipped(c)', Newest(c)',
           \A d \in Consumers \ {c} : pc'[d] = "idle" /\ queue'[d] = <<>>
    PROVE  OrderParts'
  BY DEF OrderParts, Alone

(* The coordinator gives a free partition away; its process starts after   *)
(* the committed offset with nothing in hand.                              *)
LEMMA OrderAssign ==
    ASSUME TypeOK, Busy, OrderParts, NEW c \in Consumers, Assign(c), moves = 0, moves' = 0
    PROVE  OrderParts'
<1>1. assignee = NoConsumer
  BY DEF Assign
<1>2. /\ committed' = committed /\ queue' = queue /\ cur' = cur /\ pc' = pc
      /\ messages' = messages /\ dropped' = dropped /\ assignee' = c /\ pos'[c] = committed
  BY DEF Assign, ingestVars, TypeOK, QueuesOK
<1>3. \A d \in Consumers : pc[d] = "idle" /\ queue[d] = <<>> /\ cur[d] = 0
  BY <1>1, Offsets DEF OrderParts, Alone
<1>4. committed \in Nat /\ Len(queue'[c]) = 0 /\ cur'[c] = 0
  BY <1>2, <1>3, Offsets
<1>5. InLine(c)'
  BY <1>2, <1>4 DEF InLine
<1>6. Skipped(c)' /\ Newest(c)'
  BY <1>2, <1>4 DEF Skipped, Newest
<1>7. MissingDropped'
  BY <1>2 DEF OrderParts, MissingDropped
<1>8. QED
  BY <1>2, <1>3, <1>5, <1>6, <1>7, OrderBuild

LEMMA OrderCrash ==
    ASSUME TypeOK, Busy, OrderParts, NEW c \in Consumers, Crash(c)
    PROVE  OrderParts'
<1>1. /\ committed' = committed /\ messages' = messages /\ dropped' = dropped
      /\ assignee' = IF assignee = c THEN NoConsumer ELSE assignee
      /\ pc' = [pc EXCEPT ![c] = "idle"] /\ queue' = [queue EXCEPT ![c] = <<>>]
      /\ cur' = [cur EXCEPT ![c] = 0] /\ pos' = [pos EXCEPT ![c] = 0]
  BY DEF Crash, ingestVars
<1>2. /\ pc \in [Consumers -> Steps] /\ queue \in [Consumers -> Seq(1..Len(inbox))]
      /\ DOMAIN cur = Consumers /\ DOMAIN pos = Consumers
      /\ assignee \in Consumers \cup {NoConsumer}
  BY DEF TypeOK, QueuesOK, LocalsOK, GroupOK
<1>3. Alone'
  BY <1>1, <1>2 DEF OrderParts, Alone
<1>4. MissingDropped'
  BY <1>1 DEF OrderParts, MissingDropped
<1>5. ASSUME assignee' # NoConsumer PROVE (InLine(assignee) /\ Skipped(assignee) /\ Newest(assignee))'
  <2>1. assignee' = assignee /\ assignee # NoConsumer /\ assignee # c /\ assignee \in Consumers
    BY <1>1, <1>2, <1>5
  <2>2. /\ queue'[assignee] = queue[assignee] /\ cur'[assignee] = cur[assignee]
        /\ pos'[assignee] = pos[assignee]
    BY <1>1, <1>2, <2>1
  <2>3. InLine(assignee) /\ Skipped(assignee) /\ Newest(assignee)
    BY <2>1 DEF OrderParts
  <2>4. QED
    BY <1>1, <2>1, <2>2, <2>3 DEF InLine, Skipped, Newest
<1>6. QED
  BY <1>3, <1>4, <1>5 DEF OrderParts

LEMMA OrderFetch ==
    ASSUME TypeOK, Busy, OrderParts, NEW c \in Consumers, FetchMessage(c)
    PROVE  OrderParts'
<1>1. /\ committed' = committed /\ messages' = messages /\ dropped' = dropped
      /\ assignee' = assignee /\ assignee = c /\ cur' = cur /\ pc' = pc
      /\ pos'[c] = pos[c] + 1 /\ queue'[c] = Append(queue[c], pos[c] + 1)
      /\ \A d \in Consumers \ {c} : queue'[d] = queue[d]
  BY DEF FetchMessage, ingestVars, TypeOK, QueuesOK
<1>2. /\ committed \in Nat /\ pos[c] \in Nat /\ cur[c] \in Nat
      /\ queue[c] \in Seq(Nat) /\ Len(queue[c]) \in Nat
      /\ \A i \in 1..Len(queue[c]) : queue[c][i] \in Nat
  BY Offsets
<1>3. /\ Len(queue'[c]) = Len(queue[c]) + 1
      /\ \A i \in 1..Len(queue[c]) : queue'[c][i] = queue[c][i]
      /\ queue'[c][Len(queue[c]) + 1] = pos[c] + 1
  BY <1>1, <1>2
<1>4. \A i \in 1..Len(queue'[c]) : i \in 1..Len(queue[c]) \/ i = Len(queue[c]) + 1
  BY <1>2, <1>3
<1>5. InLine(c) /\ Skipped(c) /\ Newest(c) /\ MissingDropped
  BY <1>1 DEF OrderParts
<1>6. InLine(c)'
  <2>1. committed' <= pos'[c] /\ (cur'[c] # 0 => committed' <= cur'[c] /\ cur'[c] <= pos'[c])
    BY <1>1, <1>2, <1>5 DEF InLine
  <2>2. ASSUME NEW i \in 1..Len(queue'[c])
        PROVE  committed' < queue'[c][i] /\ cur'[c] < queue'[c][i] /\ queue'[c][i] <= pos'[c]
    <3>1. CASE i \in 1..Len(queue[c])
      BY SMTT(30), <1>1, <1>2, <1>3, <1>5, <3>1 DEF InLine
    <3>2. CASE i = Len(queue[c]) + 1
      BY <1>1, <1>2, <1>3, <1>5, <3>2 DEF InLine
    <3>3. QED
      BY <1>4, <3>1, <3>2
  <2>3. ASSUME NEW i \in 1..Len(queue'[c]), NEW j \in 1..Len(queue'[c]), i < j
        PROVE  queue'[c][i] < queue'[c][j]
    <3>1. i \in 1..Len(queue[c]) /\ queue[c][i] <= pos[c]
      BY <1>2, <1>3, <1>5, <2>3 DEF InLine
    <3>2. CASE j \in 1..Len(queue[c])
      BY <1>3, <1>5, <2>3, <3>1, <3>2 DEF InLine
    <3>3. CASE j = Len(queue[c]) + 1
      <4>1. queue'[c][j] = pos[c] + 1
        BY <1>3, <3>3
      <4>2. queue'[c][i] = queue[c][i] /\ queue[c][i] \in Nat
        BY <1>2, <1>3, <3>1
      <4>3. QED
        BY <1>2, <3>1, <4>1, <4>2
    <3>4. QED
      BY <1>4, <3>2, <3>3
  <2>4. QED
    BY <2>1, <2>2, <2>3 DEF InLine
<1>7. Skipped(c)'
  <2>1. ASSUME NEW p \in (committed + 1)..(pos[c] + 1)
        PROVE  p = cur[c] \/ p \in dropped \/ \E i \in 1..Len(queue'[c]) : queue'[c][i] = p
    <3>1. CASE p = pos[c] + 1
      BY SMTT(30), <1>2, <1>3, <3>1
    <3>2. CASE p # pos[c] + 1
      <4>1. p \in (committed + 1)..pos[c]
        BY <1>2, <3>2
      <4>2. 1..Len(queue[c]) \subseteq 1..Len(queue'[c])
        BY <1>2, <1>3
      <4>3. QED
        BY <1>3, <1>5, <4>1, <4>2 DEF Skipped
    <3>3. QED
      BY <3>1, <3>2
  <2>2. QED
    BY <1>1, <2>1 DEF Skipped
<1>8. Newest(c)' /\ MissingDropped'
  BY <1>1, <1>5 DEF Newest, MissingDropped
<1>9. \A d \in Consumers \ {c} : pc'[d] = "idle" /\ queue'[d] = <<>>
  BY <1>1 DEF OrderParts, Alone
<1>10. QED
  BY <1>1, <1>6, <1>7, <1>8, <1>9, OrderBuild

LEMMA OrderFetchError ==
    ASSUME TypeOK, Busy, OrderParts, NEW c \in Consumers, FetchError(c)
    PROVE  OrderParts'
<1>1. /\ committed' = committed /\ messages' = messages /\ dropped' = dropped \cup {pos[c] + 1}
      /\ assignee' = assignee /\ assignee = c /\ cur' = cur /\ pc' = pc /\ queue' = queue
      /\ pos'[c] = pos[c] + 1
  BY DEF FetchError, TypeOK, QueuesOK
<1>2. /\ committed \in Nat /\ pos[c] \in Nat /\ cur[c] \in Nat
      /\ \A i \in 1..Len(queue[c]) : queue[c][i] \in Nat
  BY Offsets
<1>3. InLine(c) /\ Skipped(c) /\ Newest(c) /\ MissingDropped
  BY <1>1 DEF OrderParts
<1>4. InLine(c)'
  BY <1>1, <1>2, <1>3 DEF InLine
<1>5. \A p \in (committed + 1)..(pos[c] + 1) : p = pos[c] + 1 \/ p \in (committed + 1)..pos[c]
  BY <1>2
<1>6. Skipped(c)'
  BY <1>1, <1>3, <1>5 DEF Skipped
<1>7. Newest(c)' /\ MissingDropped'
  BY <1>1, <1>3 DEF Newest, MissingDropped
<1>8. \A d \in Consumers \ {c} : pc'[d] = "idle" /\ queue'[d] = <<>>
  BY <1>1 DEF OrderParts, Alone
<1>9. QED
  BY <1>1, <1>4, <1>6, <1>7, <1>8, OrderBuild

(* A record that is taken is the newest, unless it was dropped before: a   *)
(* later record is persisted only once this one is committed.              *)
LEMMA OrderTake ==
    ASSUME TypeOK, Busy, OrderParts, NEW c \in Consumers, Take(c)
    PROVE  OrderParts'
<1>1. /\ committed' = committed /\ messages' = messages /\ dropped' = dropped
      /\ assignee' = assignee /\ pos' = pos /\ pc[c] = "idle" /\ queue[c] # <<>>
      /\ cur'[c] = Head(queue[c]) /\ queue'[c] = Tail(queue[c])
      /\ \A d \in Consumers \ {c} : queue'[d] = queue[d] /\ pc'[d] = pc[d]
  BY DEF Take, Goto, ingestVars, TypeOK, QueuesOK, LocalsOK
<1>2. /\ committed \in Nat /\ pos[c] \in Nat /\ cur[c] = 0
      /\ queue[c] \in Seq(Nat) /\ Len(queue[c]) \in Nat
      /\ \A i \in 1..Len(queue[c]) : queue[c][i] \in Nat
      /\ \A m \in messages : m.off \in Nat
  BY <1>1, Offsets
<1>3. /\ assignee = c /\ InLine(c) /\ Skipped(c) /\ MissingDropped
      /\ \A d \in Consumers \ {c} : pc[d] = "idle" /\ queue[d] = <<>>
  BY <1>1, Worker DEF OrderParts
<1>4. /\ Len(queue[c]) > 0 /\ Len(queue'[c]) = Len(queue[c]) - 1
      /\ \A i \in 1..Len(queue'[c]) : queue'[c][i] = queue[c][i + 1]
      /\ cur'[c] = queue[c][1] /\ cur'[c] \in Nat
  BY <1>1, <1>2
<1>5. committed < queue[c][1] /\ queue[c][1] <= pos[c]
  BY <1>2, <1>3, <1>4 DEF InLine
<1>6. \A i \in 1..Len(queue'[c]) : i + 1 \in 1..Len(queue[c]) /\ queue[c][1] < queue[c][i + 1]
  <2>1. \A i \in 1..Len(queue'[c]) : i + 1 \in 1..Len(queue[c]) /\ 1 < i + 1 /\ 1 \in 1..Len(queue[c])
    BY <1>2, <1>4
  <2>2. QED
    BY <1>3, <2>1 DEF InLine
<1>7. InLine(c)'
  <2>1. \A i \in 1..Len(queue'[c]) :
          committed < queue'[c][i] /\ cur'[c] < queue'[c][i] /\ queue'[c][i] <= pos[c]
    BY <1>3, <1>4, <1>6 DEF InLine
  <2>2. ASSUME NEW i \in 1..Len(queue'[c]), NEW j \in 1..Len(queue'[c]), i < j
        PROVE  queue'[c][i] < queue'[c][j]
    <3>1. i + 1 \in 1..Len(queue[c]) /\ j + 1 \in 1..Len(queue[c]) /\ i + 1 < j + 1
      BY <1>2, <1>4, <2>2
    <3>2. QED
      BY <1>3, <1>4, <3>1 DEF InLine
  <2>3. QED
    BY <1>1, <1>2, <1>3, <1>4, <1>5, <2>1, <2>2 DEF InLine
<1>8. Skipped(c)'
  <2>1. ASSUME NEW p \in (committed + 1)..pos[c]
        PROVE  p = cur'[c] \/ p \in dropped \/ \E i \in 1..Len(queue'[c]) : queue'[c][i] = p
    <3>1. p \in dropped \/ \E i \in 1..Len(queue[c]) : queue[c][i] = p
      BY <1>2, <1>3 DEF Skipped
    <3>2. ASSUME NEW i \in 1..Len(queue[c]), queue[c][i] = p, i # 1
          PROVE  \E j \in 1..Len(queue'[c]) : queue'[c][j] = p
      <4>1. i - 1 \in 1..Len(queue'[c]) /\ (i - 1) + 1 = i
        BY <1>2, <1>4, <3>2
      <4>2. queue'[c][i - 1] = queue[c][i]
        BY <1>4, <4>1
      <4>3. QED
        BY <3>2, <4>1, <4>2
    <3>3. QED
      BY <1>4, <3>1, <3>2
  <2>2. QED
    BY <1>1, <2>1 DEF Skipped
<1>9. Newest(c)'
  <2>1. ASSUME NEW m \in messages, ~ (m.off <= cur'[c]) PROVE cur'[c] \in dropped
    <3>1. cur'[c] \in (committed + 1)..(m.off - 1)
      BY <1>2, <1>4, <1>5, <2>1
    <3>2. QED
      BY <1>3, <3>1 DEF MissingDropped
  <2>2. QED
    BY <1>1, <2>1 DEF Newest
<1>10. MissingDropped'
  BY <1>1, <1>3 DEF MissingDropped
<1>11. QED
  BY <1>1, <1>3, <1>7, <1>8, <1>9, <1>10, OrderBuild

(* What the assigned process writes is after what it skipped.              *)
LEMMA OrderPersist ==
    ASSUME TypeOK, Busy, OrderParts, NEW c \in Consumers, PersistCommit(c),
           UNCHANGED messages \/ RowAdded(c)
    PROVE  OrderParts'
<1>1. /\ committed' = committed /\ dropped' = dropped /\ assignee' = assignee /\ pos' = pos
      /\ queue' = queue /\ cur' = cur /\ pc[c] = "write"
  BY DEF PersistCommit
<1>2. \A d \in Consumers \ {c} : pc'[d] = pc[d]
  <2>1. CASE Goto(c, "commit")
    BY <2>1 DEF Goto, TypeOK, LocalsOK
  <2>2. CASE AttemptFailed(c, "DB")
    BY <2>2, AttemptLocals
  <2>3. QED
    BY <2>1, <2>2 DEF PersistCommit
<1>3. /\ assignee = c /\ InLine(c) /\ Skipped(c) /\ Newest(c) /\ MissingDropped
      /\ \A d \in Consumers \ {c} : pc[d] = "idle" /\ queue[d] = <<>>
  BY <1>1, Worker DEF OrderParts
<1>4. \A m \in messages' : m \in messages \/ m.off = cur[c]
  BY DEF RowAdded
<1>5. committed \in Nat /\ cur[c] \in Nat /\ cur[c] # 0 /\ pos[c] \in Nat
  BY <1>1, Offsets
<1>6. InLine(c)' /\ Skipped(c)'
  BY <1>1, <1>3 DEF InLine, Skipped
<1>7. Newest(c)'
  BY <1>1, <1>3, <1>4, <1>5 DEF Newest
<1>8. ASSUME NEW p \in (committed + 1)..(cur[c] - 1) PROVE p \in dropped
  <2>1. p \in (committed + 1)..pos[c] /\ p # cur[c] /\ p < cur[c]
    BY <1>3, <1>5 DEF InLine
  <2>2. \A i \in 1..Len(queue[c]) : queue[c][i] # p
    BY <1>3, <1>5, <2>1, Offsets DEF InLine
  <2>3. QED
    BY <1>3, <2>1, <2>2 DEF Skipped
<1>9. MissingDropped'
  BY <1>1, <1>3, <1>4, <1>8 DEF MissingDropped
<1>10. QED
  BY <1>1, <1>2, <1>3, <1>6, <1>7, <1>9, OrderBuild

(* A commit, answered or not, moves the offset up to the record in hand.   *)
LEMMA OrderCommit ==
    ASSUME TypeOK, Busy, OrderParts, NEW c \in Consumers, CommitMessages(c) \/ CommitFails(c)
    PROVE  OrderParts'
<1>1. /\ messages' = messages /\ dropped' = dropped /\ assignee' = assignee /\ pos' = pos
      /\ queue' = queue /\ pc[c] = "commit"
      /\ \A d \in Consumers \ {c} : pc'[d] = pc[d]
      /\ \/ committed' = cur[c] /\ cur'[c] = 0
         \/ committed' \in {committed, cur[c]} /\ cur'[c] = cur[c]
  BY DEF CommitMessages, CommitFails, Goto, TypeOK, LocalsOK, QueuesOK
<1>2. /\ assignee = c /\ InLine(c) /\ Skipped(c) /\ Newest(c) /\ MissingDropped
      /\ \A d \in Consumers \ {c} : pc[d] = "idle" /\ queue[d] = <<>>
  BY <1>1, Worker DEF OrderParts
<1>3. /\ committed \in Nat /\ cur[c] \in Nat /\ cur[c] # 0 /\ pos[c] \in Nat
      /\ committed <= cur[c] /\ cur[c] <= pos[c]
      /\ \A i \in 1..Len(queue[c]) : queue[c][i] \in Nat
      /\ \A m \in messages : m.off \in Nat
  BY <1>1, <1>2, Offsets DEF InLine
<1>4. committed' \in Nat /\ committed <= committed' /\ committed' <= cur[c]
  BY <1>1, <1>3
<1>5. InLine(c)'
  <2>1. cur'[c] \in {0, cur[c]}
    BY <1>1
  <2>2. \A i \in 1..Len(queue[c]) : committed' < queue[c][i] /\ cur'[c] < queue[c][i] /\ queue[c][i] <= pos[c]
    BY <1>2, <1>3, <1>4, <2>1 DEF InLine
  <2>3. committed' <= pos[c] /\ (cur'[c] # 0 => committed' <= cur'[c] /\ cur'[c] <= pos[c])
    BY <1>3, <1>4, <2>1
  <2>4. QED
    BY <1>1, <1>2, <2>2, <2>3 DEF InLine
<1>6. Skipped(c)'
  <2>1. ASSUME NEW p \in (committed' + 1)..pos[c]
        PROVE  p = cur'[c] \/ p \in dropped \/ \E i \in 1..Len(queue[c]) : queue[c][i] = p
    <3>1. p \in (committed + 1)..pos[c]
      BY <1>3, <1>4
    <3>2. p = cur[c] => p = cur'[c]
      BY <1>1, <1>3, <1>4, <3>1
    <3>3. QED
      BY <1>2, <3>1, <3>2 DEF Skipped
  <2>2. QED
    BY <1>1, <2>1 DEF Skipped
<1>7. Newest(c)'
  BY <1>1, <1>2 DEF Newest
<1>8. MissingDropped'
  <2>1. \A m \in messages : \A p \in (committed' + 1)..(m.off - 1) : p \in (committed + 1)..(m.off - 1)
    BY <1>3, <1>4
  <2>2. QED
    BY <1>1, <1>2, <2>1 DEF MissingDropped
<1>9. QED
  BY <1>1, <1>2, <1>5, <1>6, <1>7, <1>8, OrderBuild

(* Every step of the group keeps the line while no live process loses the  *)
(* partition.                                                              *)
LEMMA OrderNext ==
    ASSUME TypeOK, Busy, TxInv, OrderParts, [Next]_vars, moves = 0, moves' = 0
    PROVE  OrderParts'
<1> USE DEF ingestVars, localVars
<1>l. LocalsOK
  BY DEF TypeOK
<1>1. ASSUME NEW r \in Records, Produce(r) PROVE OrderParts'
  BY <1>1, OrderFrame DEF Produce
<1>2. ASSUME NEW c \in Consumers, Handle(c) \/ PersistCheck(c) PROVE OrderParts'
  BY <1>l, <1>2, OrderFrame DEF Handle, PersistCheck, Goto, LocalsOK
<1>3. ASSUME NEW c \in Consumers, PersistLock(c) PROVE OrderParts'
  BY <1>l, <1>3, OrderFrame DEF PersistLock, Goto, LocalsOK
<1>4. ASSUME NEW c \in Consumers, PersistNotFound(c) PROVE OrderParts'
  <2>1. pc[c] = "lock" /\ \A d \in Consumers \ {c} : pc'[d] = pc[d]
    BY <1>4, AttemptLocals DEF PersistNotFound
  <2>2. QED
    BY <1>4, <2>1, OrderFrame DEF PersistNotFound
<1>5. ASSUME NEW c \in Consumers, PersistFails(c) PROVE OrderParts'
  <2>1. pc[c] # "idle" /\ \A d \in Consumers \ {c} : pc'[d] = pc[d]
    BY <1>5, AttemptLocals DEF PersistFails, InTx
  <2>2. QED
    BY <1>5, <2>1, OrderFrame DEF PersistFails
<1>6. ASSUME NEW c \in Consumers, PublishDLQ(c) \/ PublishDLQFails(c) PROVE OrderParts'
  BY <1>l, <1>6, OrderFrame DEF PublishDLQ, PublishDLQFails, Goto, LocalsOK
<1>7. ASSUME NEW c \in Consumers, PersistCommit(c) PROVE OrderParts'
  <2>1. CASE Persisted(inbox[cur[c]].key)
    BY <1>7, <2>1, OrderPersist DEF PersistCommit
  <2>2. CASE ~ Persisted(inbox[cur[c]].key)
    <3>1. /\ LockHeld(c) /\ inbox[cur[c]].valid /\ inbox[cur[c]].conv \in Convs
      BY <1>7, CurRecord DEF PersistCommit, TxInv, InTx
    <3>2. RowAdded(c)
      BY <1>7, <2>2, <3>1 DEF PersistCommit, RowAdded, LockHeld
    <3>3. QED
      BY <1>7, <3>2, OrderPersist
  <2>3. QED
    BY <2>1, <2>2
<1>8. CASE UNCHANGED vars
  BY <1>8, OrderFrame DEF vars
<1>9. QED
  BY <1>1, <1>2, <1>3, <1>4, <1>5, <1>6, <1>7, <1>8, OrderAssign, OrderCrash, OrderFetch,
     OrderFetchError, OrderTake, OrderCommit DEF Next, Work

(* A new row has the highest seq of its conversation, and its record is    *)
(* past those of the other rows.                                           *)
LEMMA SeqOrderNext ==
    ASSUME TypeOK, Busy, TxInv, RowsInv, OrderInv, [Next]_vars, moves' = 0
    PROVE  SeqFollowsInboxOrder'
<1>1. moves = 0 /\ OrderParts /\ RowSource
  BY MovesBack DEF OrderInv
<1>2. dropped \subseteq dropped'
  BY LogStep
<1>3. \A m1, m2 \in messages : m1.conv = m2.conv /\ m1.seq < m2.seq => m1.off < m2.off \/ m2.off \in dropped'
  BY <1>1, <1>2 DEF OrderInv, SeqFollowsInboxOrder
<1>4. CASE messages' = messages
  BY <1>3, <1>4 DEF SeqFollowsInboxOrder
<1>5. ASSUME NEW c \in Consumers, pc[c] = "write", RowAdded(c) PROVE SeqFollowsInboxOrder'
  <2> DEFINE v   == inbox[cur[c]].conv
             row == [conv |-> v, seq |-> lastSeq[v] + 1, key |-> inbox[cur[c]].key, off |-> cur[c]]
  <2>1. /\ messages' = messages \cup {row} /\ v \in Convs
        /\ \A m \in messages : m.key # inbox[cur[c]].key
    BY <1>5 DEF RowAdded, Persisted
  <2>2. row.conv = v /\ row.seq = lastSeq[v] + 1 /\ row.off = cur[c]
    OBVIOUS
  <2> HIDE DEF row
  <2>3. \A m \in messages : m.off \in Nat /\ m.seq \in Nat
    BY Offsets
  <2>4. cur[c] \in Nat /\ cur[c] # 0
    BY <1>5, Offsets
  <2>5. cur[c] \in dropped \/ \A m \in messages : m.off < cur[c]
    <3>1. Newest(c)
      BY <1>1, <1>5, Worker
    <3>2. \A m \in messages : m.off # cur[c]
      BY <1>1, <2>1 DEF RowSource
    <3>3. QED
      BY <2>3, <2>4, <3>1, <3>2 DEF Newest
  <2>6. lastSeq[v] \in Nat /\ \A m \in messages : m.conv = v => m.seq <= lastSeq[v]
    BY <2>1 DEF RowsInv, SeqsGapFree, TypeOK, TablesOK
  <2>7. ASSUME NEW m1 \in messages', NEW m2 \in messages', m1.conv = m2.conv, m1.seq < m2.seq
        PROVE  m1.off < m2.off \/ m2.off \in dropped'
    <3>1. CASE m1 \in messages /\ m2 \in messages
      BY <1>3, <2>7, <3>1
    <3>2. CASE m2 = row /\ m1 \in messages
      BY <1>2, <2>2, <2>5, <3>2
    <3>3. CASE m1 = row /\ m2 \in messages
      BY <2>2, <2>3, <2>6, <2>7, <3>3
    <3>4. CASE m1 = row /\ m2 = row
      BY <2>2, <2>6, <2>7, <3>4
    <3>5. QED
      BY <2>1, <3>1, <3>2, <3>3, <3>4
  <2>8. QED
    BY <2>7 DEF SeqFollowsInboxOrder
<1>6. QED
  BY <1>4, <1>5, TableStep

(* "seq 分配顺序 = 发送顺序" (package persist), for any number of processes,  *)
(* conversations, records, retries and crashes: as long as the partition   *)
(* is taken from dead processes only, seqs follow the partition's order    *)
(* but for records that a poll had dropped.                                *)
THEOREM SeqsInOrder == Spec => []SeqFollowsInboxOrder
<1> DEFINE Inv == TypeOK /\ Busy /\ TxInv /\ RowsInv /\ OrderInv
<1>1. Init => Inv
  BY TypeInit, TxInit, RowsInit, OrderInit
<1>2. ASSUME Inv, [Next]_vars PROVE Inv'
  <2>1. TypeOK' /\ Busy' /\ TxInv' /\ RowsInv'
    BY <1>2, TypeNext, TxNext, RowsNext
  <2>2. RowSource'
    BY <1>2, SourceNext DEF OrderInv
  <2>3. moves' = 0 => OrderParts'
    BY <1>2, MovesBack, OrderNext DEF OrderInv
  <2>4. SeqFollowsInboxOrder'
    <3>1. moves' = 0 => SeqFollowsInboxOrder'
      BY <1>2, SeqOrderNext
    <3>2. moves' # 0 => SeqFollowsInboxOrder'
      BY DEF SeqFollowsInboxOrder
    <3>3. QED
      BY <3>1, <3>2
  <2>5. QED
    BY <2>1, <2>2, <2>3, <2>4 DEF OrderInv
<1>3. Inv => SeqFollowsInboxOrder
  BY DEF OrderInv
<1>4. QED
  BY <1>1, <1>2, <1>3, PTL DEF Spec
=============================================================================
