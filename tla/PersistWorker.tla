---------------------------- MODULE PersistWorker ----------------------------
(***************************************************************************)
(* The persist worker on one partition of the inbox topic                  *)
(* (internal/worker/persist, internal/infrastructure/kafka/consumer.go and *)
(* MessageRepository.Persist).                                             *)
(*                                                                         *)
(* Consumers are processes of one Kafka consumer group. The dispatcher of  *)
(* a process moves records into a FIFO (Consumer.pending followed by the   *)
(* partition's channel) and one goroutine handles them one at a time:      *)
(*                                                                         *)
(*   idle -> handle -> check -> lock -> write -> commit -> idle            *)
(*                        \________________/                               *)
(*                           attempt fails: check again, or dlq -> commit  *)
(*                                                                         *)
(* `handle` is everything before the first Persist; check, lock and write  *)
(* are the statements of the MySQL transaction, which other processes'     *)
(* transactions interleave with; any error after `commit` or `dlq` starts  *)
(* the record over at `handle`, which is what handleWithRetry does.        *)
(* The group has no rebalance callback, so a process that loses the        *)
(* partition goes on handling, and committing, what it has queued.         *)
(*                                                                         *)
(* Left out: message ids (SegmentGenerator), the payload beyond its        *)
(* validity, waiting times, metrics and logs. A failing read in `handle`   *)
(* changes nothing and is a stuttering step.                               *)
(***************************************************************************)
EXTENDS Ingest

CONSTANTS Consumers,     \* processes running the worker
          NoConsumer,    \* no process: the partition, or a row, is free
          MaxRetries,    \* Config.MaxRetries: Persist is tried MaxRetries+1 times
          QueueCap,      \* bound: records fetched and not yet taken
          MaxCrashes,    \* bound: process crashes
          MaxMoves       \* bound: times the group takes the partition from a live process

ASSUME ConsumersAssumption == NoConsumer \notin Consumers
ASSUME BoundsAssumption ==
    /\ MaxRetries \in Nat
    /\ QueueCap \in Nat
    /\ MaxCrashes \in Nat
    /\ MaxMoves \in Nat

VARIABLES assignee,  \* the process the group coordinator has assigned the partition to
          pos,       \* per process: offset its client has polled up to
          queue,     \* per process: records polled and not yet handled
          cur,       \* per process: the record being handled, 0 for none
          pc,        \* per process: where its partition goroutine is
          att,       \* per process: `attempt` of handle's loop
          nextSeq,   \* per process: nextSeq of the open transaction
          convLock,  \* holder of each conversation's row lock
          crashes, moves

localVars  == <<pos, queue, cur, pc, att, nextSeq>>
vars == <<ingestVars, assignee, localVars, convLock, crashes, moves>>

Steps  == {"idle", "handle", "check", "lock", "write", "dlq", "commit"}
InTx   == {"check", "lock", "write"}

Init ==
    /\ IngestInit
    /\ assignee = NoConsumer
    /\ pos     = [c \in Consumers |-> 0]
    /\ queue   = [c \in Consumers |-> <<>>]
    /\ cur     = [c \in Consumers |-> 0]
    /\ pc      = [c \in Consumers |-> "idle"]
    /\ att     = [c \in Consumers |-> 0]
    /\ nextSeq = [c \in Consumers |-> 0]
    /\ convLock = [k \in Convs |-> NoConsumer]
    /\ crashes = 0
    /\ moves = 0

-----------------------------------------------------------------------------
(* The environment of the worker: producers, the group coordinator, crashes *)

Produce(r) ==
    /\ Len(inbox) < MaxInbox
    /\ inbox' = Append(inbox, r)
    /\ UNCHANGED <<committed, lastSeq, messages, outbox, dlq, dropped,
                   assignee, localVars, convLock, crashes, moves>>

(* The coordinator gives the partition to c, whose client starts fetching  *)
(* at the committed offset. What c still has queued stays queued.          *)
Assign(c) ==
    /\ assignee # c
    /\ \/ assignee = NoConsumer /\ moves' = moves
       \/ assignee # NoConsumer /\ moves < MaxMoves /\ moves' = moves + 1
    /\ assignee' = c
    /\ pos' = [pos EXCEPT ![c] = committed]
    /\ UNCHANGED <<ingestVars, queue, cur, pc, att, nextSeq, convLock, crashes>>

(* Releases every row lock c holds, as a rollback or a dead session does.  *)
Unlocked(c) == [k \in Convs |-> IF convLock[k] = c THEN NoConsumer ELSE convLock[k]]

(* The process dies and is restarted: memory and its open transaction are  *)
(* gone, the log, the committed offset and the database are not.           *)
Crash(c) ==
    /\ crashes < MaxCrashes
    /\ crashes' = crashes + 1
    /\ assignee' = IF assignee = c THEN NoConsumer ELSE assignee
    /\ pos'     = [pos EXCEPT ![c] = 0]
    /\ queue'   = [queue EXCEPT ![c] = <<>>]
    /\ cur'     = [cur EXCEPT ![c] = 0]
    /\ pc'      = [pc EXCEPT ![c] = "idle"]
    /\ att'     = [att EXCEPT ![c] = 0]
    /\ nextSeq' = [nextSeq EXCEPT ![c] = 0]
    /\ convLock' = Unlocked(c)
    /\ UNCHANGED <<ingestVars, moves>>

-----------------------------------------------------------------------------
(* The dispatcher goroutine *)

(* FetchMessage and the send on the partition's channel, for one record of *)
(* a poll. A poll of n records is n of these steps.                        *)
FetchMessage(c) ==
    /\ assignee = c
    /\ pos[c] < Len(inbox)
    /\ Len(queue[c]) < QueueCap
    /\ pos' = [pos EXCEPT ![c] = @ + 1]
    /\ queue' = [queue EXCEPT ![c] = Append(@, pos[c] + 1)]
    /\ UNCHANGED <<ingestVars, assignee, cur, pc, att, nextSeq, convLock, crashes, moves>>

(* A poll that carries an error of some partition: FetchMessage returns    *)
(* the error and never looks at the records the poll also carried, which   *)
(* the client does not deliver again.                                      *)
FetchError(c) ==
    /\ assignee = c
    /\ pos[c] < Len(inbox)
    /\ pos' = [pos EXCEPT ![c] = @ + 1]
    /\ dropped' = dropped \cup {pos[c] + 1}
    /\ UNCHANGED <<inbox, committed, lastSeq, messages, outbox, dlq,
                   assignee, queue, cur, pc, att, nextSeq, convLock, crashes, moves>>

-----------------------------------------------------------------------------
(* The partition's goroutine *)

Goto(c, step) == pc' = [pc EXCEPT ![c] = step]

Take(c) ==
    /\ pc[c] = "idle"
    /\ queue[c] # <<>>
    /\ cur' = [cur EXCEPT ![c] = Head(queue[c])]
    /\ queue' = [queue EXCEPT ![c] = Tail(@)]
    /\ Goto(c, "handle")
    /\ UNCHANGED <<ingestVars, assignee, pos, att, nextSeq, convLock, crashes, moves>>

(* handle up to the first Persist: a record that fails validation is dead- *)
(* lettered, one whose message exists only needs its offset committed.     *)
Handle(c) ==
    LET r == inbox[cur[c]]
    IN  /\ pc[c] = "handle"
        /\ \/ ~ r.valid /\ Goto(c, "dlq")
           \/ r.valid /\ Persisted(r.key) /\ Goto(c, "commit")
           \/ r.valid /\ ~ Persisted(r.key) /\ Goto(c, "check")
        /\ att' = [att EXCEPT ![c] = 0]
        /\ UNCHANGED <<ingestVars, assignee, pos, queue, cur, nextSeq, convLock, crashes, moves>>

(* Persist's transaction, statement 1: the idempotency read.               *)
PersistCheck(c) ==
    /\ pc[c] = "check"
    /\ IF Persisted(inbox[cur[c]].key) THEN Goto(c, "commit") ELSE Goto(c, "lock")
    /\ UNCHANGED <<ingestVars, assignee, pos, queue, cur, att, nextSeq, convLock, crashes, moves>>

(* Statement 2: SELECT ... FOR UPDATE of a conversation with status = 1,   *)
(* and the next seq computed from the locked row.                          *)
PersistLock(c) ==
    LET k == inbox[cur[c]].conv
    IN  /\ pc[c] = "lock"
        /\ k \notin Dismissed
        /\ convLock[k] = NoConsumer
        /\ convLock' = [convLock EXCEPT ![k] = c]
        /\ nextSeq' = [nextSeq EXCEPT ![c] = lastSeq[k] + 1]
        /\ Goto(c, "write")
        /\ UNCHANGED <<ingestVars, assignee, pos, queue, cur, att, crashes, moves>>

(* What Persist returns for an error inside its transaction: errs.Internal *)
(* around it, whatever it was.                                             *)
PersistErrorCode(e) == "InternalError"

isTransient(code) == code \notin {"ConversationNotFound", "InvalidArgument", "ConversationForbidden"}

(* Mutant: one attempt too many.                                           *)
AttemptFailedOffByOne(c, e) ==
    /\ IF isTransient(PersistErrorCode(e)) /\ att[c] <= MaxRetries
       THEN Goto(c, "check") /\ att' = [att EXCEPT ![c] = @ + 1]
       ELSE Goto(c, "dlq") /\ att' = att

(* A failed attempt: another one while the error is transient and attempts *)
(* remain, the dead-letter topic otherwise.                                *)
AttemptFailed(c, e) ==
    /\ IF isTransient(PersistErrorCode(e)) /\ att[c] < MaxRetries
       THEN Goto(c, "check") /\ att' = [att EXCEPT ![c] = @ + 1]
       ELSE Goto(c, "dlq") /\ att' = att

(* Statement 2 finds no live conversation.                                 *)
PersistNotFound(c) ==
    /\ pc[c] = "lock"
    /\ inbox[cur[c]].conv \in Dismissed
    /\ AttemptFailed(c, "ConversationNotFound")
    /\ UNCHANGED <<ingestVars, assignee, pos, queue, cur, nextSeq, convLock, crashes, moves>>

(* Mutant: a failed transaction leaves last_seq incremented.               *)
PersistFailsNoRollback(c) ==
    /\ pc[c] \in InTx
    /\ AttemptFailed(c, "DB")
    /\ lastSeq' = IF pc[c] = "write" THEN [lastSeq EXCEPT ![inbox[cur[c]].conv] = nextSeq[c]] ELSE lastSeq
    /\ nextSeq' = [nextSeq EXCEPT ![c] = 0]
    /\ convLock' = Unlocked(c)
    /\ UNCHANGED <<inbox, committed, messages, outbox, dlq, dropped, assignee, pos, queue, cur, crashes, moves>>

(* Any statement fails or the transaction times out: nothing is written.   *)
PersistFails(c) ==
    /\ pc[c] \in InTx
    /\ AttemptFailed(c, "DB")
    /\ nextSeq' = [nextSeq EXCEPT ![c] = 0]
    /\ convLock' = Unlocked(c)
    /\ UNCHANGED <<ingestVars, assignee, pos, queue, cur, crashes, moves>>

PersistCommit(c) ==
    LET o == cur[c]
        r == inbox[o]
        row == [conv |-> r.conv, seq |-> nextSeq[c], key |-> r.key, off |-> o]
    IN  /\ pc[c] = "write"
        /\ IF Persisted(r.key)
           THEN UNCHANGED <<messages, outbox, lastSeq>>
           ELSE /\ messages' = messages \cup {row}
                /\ lastSeq' = [lastSeq EXCEPT ![r.conv] = nextSeq[c]]
                /\ outbox' = outbox \cup {row}
        /\ \/ Goto(c, "commit") /\ UNCHANGED att
           \/ AttemptFailed(c, "DB")
        /\ nextSeq' = [nextSeq EXCEPT ![c] = 0]
        /\ convLock' = Unlocked(c)
        /\ UNCHANGED <<inbox, committed, dlq, dropped, assignee, pos, queue, cur, crashes, moves>>

(* dlqAndCommit: the dead-letter record is acknowledged, and only then is  *)
(* the offset committed.                                                   *)
PublishDLQ(c) ==
    /\ pc[c] = "dlq"
    /\ dlq' = dlq \cup {cur[c]}
    /\ Goto(c, "commit")
    /\ UNCHANGED <<inbox, committed, lastSeq, messages, outbox, dropped,
                   assignee, pos, queue, cur, att, nextSeq, convLock, crashes, moves>>

(* Mutant: a record whose dead-letter publish fails is skipped.            *)
PublishDLQSkips(c) ==
    /\ pc[c] = "dlq"
    /\ cur' = [cur EXCEPT ![c] = 0]
    /\ Goto(c, "idle")
    /\ UNCHANGED <<ingestVars, assignee, pos, queue, att, nextSeq, convLock, crashes, moves>>

(* PublishDLQ returns an error, whether or not the record reached Kafka.   *)
PublishDLQFails(c) ==
    /\ pc[c] = "dlq"
    /\ dlq' \in {dlq, dlq \cup {cur[c]}}
    /\ Goto(c, "handle")
    /\ UNCHANGED <<inbox, committed, lastSeq, messages, outbox, dropped,
                   assignee, pos, queue, cur, att, nextSeq, convLock, crashes, moves>>

(* Mutant: commits everything polled so far.                               *)
CommitPolled(c) ==
    /\ pc[c] = "commit"
    /\ committed' = pos[c]
    /\ cur' = [cur EXCEPT ![c] = 0]
    /\ Goto(c, "idle")
    /\ UNCHANGED <<inbox, lastSeq, messages, outbox, dlq, dropped,
                   assignee, pos, queue, att, nextSeq, convLock, crashes, moves>>

(* CommitRecords of the handled record. The coordinator accepts it from    *)
(* any live member of the group, so it may move the offset backwards.      *)
CommitMessages(c) ==
    /\ pc[c] = "commit"
    /\ committed' = cur[c]
    /\ cur' = [cur EXCEPT ![c] = 0]
    /\ Goto(c, "idle")
    /\ UNCHANGED <<inbox, lastSeq, messages, outbox, dlq, dropped,
                   assignee, pos, queue, att, nextSeq, convLock, crashes, moves>>

CommitFails(c) ==
    /\ pc[c] = "commit"
    /\ committed' \in {committed, cur[c]}
    /\ Goto(c, "handle")
    /\ UNCHANGED <<inbox, lastSeq, messages, outbox, dlq, dropped,
                   assignee, pos, queue, cur, att, nextSeq, convLock, crashes, moves>>

-----------------------------------------------------------------------------
Work(c) ==
    \/ Take(c) \/ Handle(c)
    \/ PersistCheck(c) \/ PersistLock(c) \/ PersistNotFound(c)
    \/ PersistFails(c) \/ PersistCommit(c)
    \/ PublishDLQ(c) \/ PublishDLQFails(c)
    \/ CommitMessages(c) \/ CommitFails(c)

Next ==
    \/ \E r \in Records : Produce(r)
    \/ \E c \in Consumers :
          \/ Assign(c) \/ Crash(c) \/ FetchMessage(c) \/ FetchError(c)
          \/ Work(c)

Spec == Init /\ [][Next]_vars

(* The group always has a live member, goroutines are scheduled, and a     *)
(* publish to the dead-letter topic or an offset commit that is retried    *)
(* for ever is not refused for ever. Nor do the reads and the message id   *)
(* before the transaction fail for ever: such a failure starts Handle over *)
(* and changes nothing.                                                    *)
Fairness ==
    /\ \A c \in Consumers :
          /\ WF_vars(assignee = NoConsumer /\ Assign(c))
          /\ WF_vars(FetchMessage(c))
          /\ WF_vars(Work(c))
          /\ SF_vars(PublishDLQ(c))
          /\ SF_vars(CommitMessages(c))

FairSpec == Spec /\ Fairness

-----------------------------------------------------------------------------
TablesOK ==
    /\ inbox \in Seq(Records)
    /\ committed \in 0..Len(inbox)
    /\ lastSeq \in [Convs -> Nat]
    /\ messages \subseteq Row
    /\ outbox \subseteq Row
    /\ dlq \subseteq 1..Len(inbox)
    /\ dropped \subseteq 1..Len(inbox)

GroupOK ==
    /\ assignee \in Consumers \cup {NoConsumer}
    /\ convLock \in [Convs -> Consumers \cup {NoConsumer}]
    /\ crashes \in 0..MaxCrashes
    /\ moves \in 0..MaxMoves

QueuesOK ==
    /\ pos \in [Consumers -> 0..Len(inbox)]
    /\ queue \in [Consumers -> Seq(1..Len(inbox))]
    /\ cur \in [Consumers -> 0..Len(inbox)]

LocalsOK ==
    /\ pc \in [Consumers -> Steps]
    /\ att \in [Consumers -> 0..MaxRetries]
    /\ nextSeq \in [Consumers -> Nat]

(* Types of the whole state (Worker's and Consumer's fields, the tables);  *)
(* handle never makes more than MaxRetries + 1 attempts.                   *)
TypeOK == TablesOK /\ GroupOK /\ QueuesOK /\ LocalsOK

(* "宁可卡住，不可丢" (handleWithRetry): no record below the committed      *)
(* offset is lost, but by polls that carry an error: whatever              *)
(* the rebalances, crashes, failing statements and stale commits of        *)
(* handleWithRetry and CommitMessages, every other record below the        *)
(* committed offset is a message or a dead letter.                         *)
LostOnlyByPolls == \A o \in 1..committed : Settled(o)

(* Persist's comment: last_seq is never incremented without a message. The *)
(* seqs of a conversation are 1..last_seq, each used by one row.           *)
SeqsGapFree ==
    \A k \in Convs :
        /\ \A n \in 1..lastSeq[k] : \E m \in messages : m.conv = k /\ m.seq = n
        /\ \A m \in messages : m.conv = k => m.seq \in 1..lastSeq[k]
        /\ \A m1, m2 \in messages :
              m1.conv = k /\ m2.conv = k /\ m1.seq = m2.seq => m1 = m2

(* Redelivery, duplicated sends and zombies included, one client message   *)
(* becomes one row.                                                        *)
OneRowPerClientMessage ==
    \A m1, m2 \in messages : m1.key = m2.key => m1 = m2

(* The package comment: "seq 分配顺序 = 发送顺序". Within a conversation    *)
(* seqs follow the order of the records in the partition, as long as the   *)
(* group takes the partition only from dead processes and no poll dropped  *)
(* one of the two.                                                         *)
SeqFollowsInboxOrder ==
    moves = 0 => \A m1, m2 \in messages :
        m1.conv = m2.conv /\ m1.seq < m2.seq => m1.off < m2.off \/ m2.off \in dropped

(* The worker implements Ingest: every step is one of its steps or leaves  *)
(* log, offset, tables and dead-letter topic alone.                        *)
ImplementsIngest == IngestSpec

(* handleWithRetry never gives a record up: every record that reached the  *)
(* partition and was not dropped by a poll ends as a message or a dead     *)
(* letter, through crashes and rebalances. (The group's offset need not    *)
(* catch up: a stale commit of a process that lost the partition may leave *)
(* it behind.)                                                             *)
EveryRecordSettles ==
    \A o \in 1..MaxInbox : (o <= Len(inbox)) ~> (o <= Len(inbox) /\ Settled(o))
=============================================================================
