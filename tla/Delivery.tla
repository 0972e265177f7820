------------------------------ MODULE Delivery ------------------------------
(***************************************************************************)
(* One gateway: its websocket connections (transport/websocket: the        *)
(* handler, reader, writer and heartbeat goroutines of a Conn), the        *)
(* ConnectionManager, and the deliver worker that consumes the gateway's   *)
(* partition of the push topic and pushes each message to the connections  *)
(* of its target users. Which users a record names is the business of the  *)
(* outbox publisher and the presence registry (module Presence).           *)
(*                                                                         *)
(* A Push reads the closed flag and then sends on the queue's channel; a   *)
(* Close sets the flag and then closes the channel. Both are two steps, so *)
(* that a Push can meet the closed channel, which panics.                  *)
(*                                                                         *)
(* Offsets count from 1; `committed` is the last offset committed, one     *)
(* less than what commitDirect stores. Connection ids are never reused.    *)
(***************************************************************************)
EXTENDS Integers, Sequences, SequencesExt

CONSTANTS Conns,       \* connection ids
          Users,
          UserOf,      \* the user a connection was authenticated as
          Messages,    \* message ids
          NoMsg,       \* the id of a record that is no push event
          QueueSize,   \* ws_write_queue_size
          MaxLog,      \* bound: records of the partition
          MaxFaults    \* bound: crashes, failed polls, commits and dead-letter publishes

ASSUME DeliveryConstants ==
    /\ UserOf \in [Conns -> Users]
    /\ NoMsg \notin Messages
ASSUME DeliveryBounds ==
    /\ QueueSize \in Nat \ {0}
    /\ MaxLog \in Nat
    /\ MaxFaults \in Nat

VARIABLES log,        \* the partition: records [id, users]
          committed,  \* the offset group's committed offset
          fetched,    \* the last offset the Kafka client has returned
          pending,    \* Consumer.pending: offsets polled and not yet fetched
          worker,     \* the deliver worker
          seen,       \* its dedupe: messages marked less than ttl ago
          dlq,        \* <<message, connection>> pairs reported to the dead-letter topic
          handler,    \* per connection: where its Upgrade handler is
          conns,      \* ConnectionManager: the registered connections
          closing,    \* per connection: Conn.Close not begun, flag set, channel closed
          queued,     \* per connection: events in Conn.send
          given,      \* history: per open connection the offsets its Push accepted, in order
          owed,       \* history: per message the open connections its first record was meant for
          dropped,    \* history: offsets returned by a poll that also reported an error
          retried,    \* history: messages pushed again after a failed dead-letter publish
          forgotten,  \* history: messages whose dedupe entry outlived its ttl
          faults

consumerVars == <<log, committed, fetched, pending, dropped>>
workerVars == <<worker, seen, dlq, retried, forgotten>>
connVars == <<handler, conns, closing, queued, given>>
vars == <<consumerVars, workerVars, connVars, owed, faults>>

Record == [id : Messages \cup {NoMsg}, users : SUBSET Users]

(* A record that is not a decodable push event. *)
OtherRecord == [id |-> NoMsg, users |-> {}]

WorkerSteps == {"idle", "handle", "push", "send", "dlq", "commit"}

(* todo: users not yet pushed to; targets: what is left of the snapshot of *)
(* one user's connections; into: the connection whose Push found it open;  *)
(* failures: the connections whose Push failed.                            *)
WorkerType == [pc : WorkerSteps, cur : 0..MaxLog, todo : SUBSET Users,
               targets : SUBSET Conns, into : SUBSET Conns, failures : SUBSET Conns]

IdleWorker == [pc |-> "idle", cur |-> 0, todo |-> {}, targets |-> {}, into |-> {}, failures |-> {}]

Init ==
    /\ log = <<>>
    /\ committed = 0 /\ fetched = 0 /\ pending = <<>>
    /\ worker = IdleWorker
    /\ seen = {} /\ dlq = {}
    /\ handler = [c \in Conns |-> "none"]
    /\ conns = {}
    /\ closing = [c \in Conns |-> "no"]
    /\ queued = [c \in Conns |-> 0]
    /\ given = [c \in Conns |-> <<>>]
    /\ owed = [m \in Messages |-> {}]
    /\ dropped = {} /\ retried = {} /\ forgotten = {}
    /\ faults = 0

-----------------------------------------------------------------------------
(* The outbox publisher *)

(* The connection takes part in delivery: its peer is there. *)
Open(c) == handler[c] \in {"ready", "reading"} /\ closing[c] = "no"

Routed(m) == \E o \in DOMAIN log : log[o].id = m

(* A record of message m for the users us found online here; us may be     *)
(* stale, and a row whose update fails is routed and published again.      *)
PublishPush(m, us) ==
    /\ Len(log) < MaxLog
    /\ log' = Append(log, [id |-> m, users |-> us])
    /\ owed' = IF Routed(m) THEN owed
               ELSE [owed EXCEPT ![m] = {c \in conns : Open(c) /\ UserOf[c] \in us}]
    /\ UNCHANGED <<committed, fetched, pending, dropped, workerVars, connVars, faults>>

(* Something else that ends up in the partition.                           *)
PublishOther ==
    /\ Len(log) < MaxLog
    /\ log' = Append(log, OtherRecord)
    /\ UNCHANGED <<committed, fetched, pending, dropped, workerVars, connVars, owed, faults>>

-----------------------------------------------------------------------------
(* The handler and reader goroutine of a connection *)

(* Upgrade: the ticket is consumed, Register puts the connection into the  *)
(* maps.                                                                   *)
Upgrade(c) ==
    /\ handler[c] = "none"
    /\ handler' = [handler EXCEPT ![c] = "ready"]
    /\ conns' = conns \cup {c}
    /\ UNCHANGED <<consumerVars, workerVars, closing, queued, given, owed, faults>>

(* The select of Conn.Push on an open channel: a full queue refuses.       *)
Full(c) == queued[c] >= QueueSize

(* Mutant: the queue has no bound.                                         *)
EnqueueAlways(c) == queued' = [queued EXCEPT ![c] = @ + 1]

Enqueue(c) == queued' = IF Full(c) THEN queued ELSE [queued EXCEPT ![c] = @ + 1]

(* sendReady, then the writer, the heartbeat and the reader start.         *)
SendReady(c) ==
    /\ handler[c] = "ready"
    /\ Enqueue(c)
    /\ handler' = [handler EXCEPT ![c] = "reading"]
    /\ UNCHANGED <<consumerVars, workerVars, conns, closing, given, owed, faults>>

(* dispatch answers an event of the client. Recovery catches the panic of  *)
(* a send on a channel closed since the check; the handler's deferred      *)
(* function has run by then, as when the reader returns.                   *)
Reply(c) ==
    /\ handler[c] = "reading"
    /\ closing[c] = "no"
    /\ Enqueue(c)
    /\ UNCHANGED <<consumerVars, workerVars, handler, conns, closing, given, owed, faults>>

(* The history of a connection ends when its peer goes or is sent away.    *)
Retire(c) ==
    /\ given' = [given EXCEPT ![c] = <<>>]
    /\ owed' = [m \in Messages |-> owed[m] \ {c}]

(* The reader returns: the peer has gone, or the connection is closed. The *)
(* deferred function cancels connCtx and takes the connection off the maps. *)
ReaderLeaves(c) ==
    /\ handler[c] = "reading"
    /\ handler' = [handler EXCEPT ![c] = "unregister"]
    /\ conns' = conns \ {c}
    /\ Retire(c)
    /\ UNCHANGED <<consumerVars, workerVars, closing, queued, faults>>

(* Conn.Close, first step: the flag. closeOnce lets one caller through.    *)
StartClose(c) ==
    /\ closing[c] = "no"
    /\ closing' = [closing EXCEPT ![c] = "flagged"]
    /\ Retire(c)

(* The handler's own Close. *)
CloseAndReturn(c) ==
    /\ handler[c] = "unregister"
    /\ \/ StartClose(c)
       \/ closing[c] = "closed" /\ UNCHANGED <<closing, given, owed>>
    /\ handler' = [handler EXCEPT ![c] = "gone"]
    /\ UNCHANGED <<consumerVars, workerVars, conns, queued, faults>>

(* Conn.Close, second step: close(c.send), and the close frame after which *)
(* nothing is written; what is still queued is garbage.                    *)
FinishClose(c) ==
    /\ closing[c] = "flagged"
    /\ closing' = [closing EXCEPT ![c] = "closed"]
    /\ queued' = [queued EXCEPT ![c] = 0]
    /\ UNCHANGED <<consumerVars, workerVars, handler, conns, given, owed, faults>>

-----------------------------------------------------------------------------
(* The other goroutines of a connection *)

(* The heartbeat finds no pong or cannot write its ping, the writer finds  *)
(* a stall too old, or the reader's rate limit is exceeded.                *)
CloseConn(c) ==
    /\ handler[c] = "reading"
    /\ StartClose(c)
    /\ UNCHANGED <<consumerVars, workerVars, handler, conns, queued, faults>>

(* writerLoop takes the event at the head of the queue and writes it.      *)
Write(c) ==
    /\ handler[c] = "reading"
    /\ queued[c] > 0
    /\ queued' = [queued EXCEPT ![c] = @ - 1]
    /\ UNCHANGED <<consumerVars, workerVars, handler, conns, closing, given, owed, faults>>

(* writerLoop: the write fails and the event is lost with the connection.  *)
WriteFails(c) ==
    /\ handler[c] = "reading"
    /\ queued[c] > 0
    /\ queued' = [queued EXCEPT ![c] = @ - 1]
    /\ StartClose(c)
    /\ UNCHANGED <<consumerVars, workerVars, handler, conns, faults>>

-----------------------------------------------------------------------------
(* The partition's consumer *)

(* PollRecords returns up to max_poll_records records. *)
Poll(n) ==
    /\ worker.pc = "idle"
    /\ pending = <<>>
    /\ fetched < n /\ n <= Len(log)
    /\ pending' = [i \in 1..(n - fetched) |-> fetched + i]
    /\ fetched' = n
    /\ UNCHANGED <<log, committed, dropped, workerVars, connVars, owed, faults>>

(* A poll with an error among its fetches: its records are discarded, and  *)
(* the client will not return them again.                                  *)
PollFails(n) ==
    /\ worker.pc = "idle"
    /\ pending = <<>>
    /\ fetched < n /\ n <= Len(log)
    /\ faults < MaxFaults
    /\ faults' = faults + 1
    /\ fetched' = n
    /\ dropped' = dropped \cup (fetched + 1)..n
    /\ UNCHANGED <<log, committed, pending, workerVars, connVars, owed>>

Take(o, rest) ==
    /\ worker.pc = "idle"
    /\ pending # <<>>
    /\ worker' = [IdleWorker EXCEPT !.pc = "handle", !.cur = o]
    /\ pending' = rest
    /\ UNCHANGED <<log, committed, fetched, dropped, seen, dlq, retried, forgotten,
                   connVars, owed, faults>>

(* Mutant: pending is a stack.                                             *)
PopLast == Take(Last(pending), Front(pending))

(* FetchMessage: popPending. *)
FetchMessage == Take(Head(pending), Tail(pending))

-----------------------------------------------------------------------------
(* The deliver worker *)

Cur == log[worker.cur]

(* handle: what is no push event, and a message marked before, is only     *)
(* committed.                                                              *)
Handle ==
    /\ worker.pc = "handle"
    /\ worker' = IF Cur.id = NoMsg \/ Cur.id \in seen
                 THEN [worker EXCEPT !.pc = "commit"]
                 ELSE [worker EXCEPT !.pc = "push", !.todo = Cur.users]
    /\ UNCHANGED <<consumerVars, seen, dlq, retried, forgotten, connVars,
                   owed, faults>>

(* PushToUserWithFailures takes its snapshot of a user's connections.      *)
PushToUser(u) ==
    /\ worker.pc = "push" /\ worker.targets = {}
    /\ u \in worker.todo
    /\ worker' = [worker EXCEPT !.todo = @ \ {u}, !.targets = {c \in conns : UserOf[c] = u}]
    /\ UNCHANGED <<consumerVars, seen, dlq, retried, forgotten, connVars,
                   owed, faults>>

(* Conn.Push reads the flag ... *)
PushCheck(c) ==
    /\ worker.pc = "push"
    /\ c \in worker.targets
    /\ worker' = IF closing[c] # "no"
                 THEN [worker EXCEPT !.targets = @ \ {c}, !.failures = @ \cup {c}]
                 ELSE [worker EXCEPT !.targets = @ \ {c}, !.pc = "send", !.into = {c}]
    /\ UNCHANGED <<consumerVars, seen, dlq, retried, forgotten, connVars,
                   owed, faults>>

(* ... and sends. *)
PushSend(c) ==
    /\ worker.pc = "send" /\ c \in worker.into
    /\ closing[c] # "closed"
    /\ Enqueue(c)
    /\ given' = IF Full(c) \/ ~ Open(c) THEN given ELSE [given EXCEPT ![c] = Append(@, worker.cur)]
    /\ worker' = [worker EXCEPT !.pc = "push", !.into = {},
                                !.failures = IF Full(c) THEN @ \cup {c} ELSE @]
    /\ UNCHANGED <<consumerVars, seen, dlq, retried, forgotten, handler,
                   conns, closing, owed, faults>>

(* Mutant: a message is never marked.                                      *)
HandledUnmarked ==
    /\ worker.pc = "push" /\ worker.targets = {} /\ worker.todo = {}
    /\ worker' = [worker EXCEPT !.pc = IF worker.failures = {} THEN "commit" ELSE "dlq"]
    /\ UNCHANGED <<consumerVars, seen, dlq, retried, forgotten, connVars,
                   owed, faults>>

(* Every user is done: mark the message, or report the failures first.     *)
Handled ==
    /\ worker.pc = "push" /\ worker.targets = {} /\ worker.todo = {}
    /\ IF worker.failures = {}
       THEN worker' = [worker EXCEPT !.pc = "commit"] /\ seen' = seen \cup {Cur.id}
       ELSE worker' = [worker EXCEPT !.pc = "dlq"] /\ UNCHANGED seen
    /\ UNCHANGED <<consumerVars, dlq, retried, forgotten, connVars, owed, faults>>

Reports == {<<Cur.id, c>> : c \in worker.failures}

PublishDLQ ==
    /\ worker.pc = "dlq"
    /\ dlq' = dlq \cup Reports
    /\ seen' = seen \cup {Cur.id}
    /\ worker' = [worker EXCEPT !.pc = "commit", !.failures = {}]
    /\ UNCHANGED <<consumerVars, retried, forgotten, connVars, owed, faults>>

(* Mutant: a failed report is logged and the record committed.             *)
PublishDLQIgnored ==
    /\ worker.pc = "dlq"
    /\ faults < MaxFaults
    /\ faults' = faults + 1
    /\ seen' = seen \cup {Cur.id}
    /\ worker' = [worker EXCEPT !.pc = "commit", !.failures = {}]
    /\ UNCHANGED <<consumerVars, dlq, retried, forgotten, connVars, owed>>

(* The report fails, perhaps after it was stored: handleWithRetry handles  *)
(* the whole record again, the connections already pushed to included.     *)
PublishDLQFails ==
    /\ worker.pc = "dlq"
    /\ faults < MaxFaults
    /\ faults' = faults + 1
    /\ dlq' \in {dlq, dlq \cup Reports}
    /\ retried' = retried \cup {Cur.id}
    /\ worker' = [IdleWorker EXCEPT !.pc = "handle", !.cur = worker.cur]
    /\ UNCHANGED <<consumerVars, seen, forgotten, connVars, owed>>

CommitMessage ==
    /\ worker.pc = "commit"
    /\ committed' = worker.cur
    /\ worker' = IdleWorker
    /\ UNCHANGED <<log, fetched, pending, dropped, seen, dlq, retried, forgotten,
                   connVars, owed, faults>>

(* The commit fails, perhaps after it was stored: the record is handled    *)
(* again, and found marked unless the ttl has passed.                      *)
CommitFails ==
    /\ worker.pc = "commit"
    /\ faults < MaxFaults
    /\ faults' = faults + 1
    /\ committed' \in {committed, worker.cur}
    /\ worker' = [worker EXCEPT !.pc = "handle"]
    /\ UNCHANGED <<log, fetched, pending, dropped, seen, dlq, retried, forgotten,
                   connVars, owed>>

(* The ttl of a dedupe entry passes. *)
Forget(m) ==
    /\ m \in seen
    /\ seen' = seen \ {m}
    /\ forgotten' = forgotten \cup {m}
    /\ UNCHANGED <<consumerVars, worker, dlq, retried, connVars, owed, faults>>

-----------------------------------------------------------------------------
(* The process ends and starts again: connections and dedupe are gone, the *)
(* routes stay until they expire, consumption resumes after the committed  *)
(* offset.                                                                 *)
Restart ==
    /\ worker' = IdleWorker
    /\ seen' = {}
    /\ fetched' = committed
    /\ pending' = <<>>
    /\ handler' = [c \in Conns |-> IF handler[c] = "none" THEN "none" ELSE "gone"]
    /\ conns' = {}
    /\ closing' = [c \in Conns |-> IF handler[c] = "none" THEN "no" ELSE "closed"]
    /\ queued' = [c \in Conns |-> 0]
    /\ dropped' = {o \in dropped : o <= committed}
    /\ given' = [c \in Conns |-> <<>>]
    /\ owed' = [m \in Messages |-> {}]
    /\ UNCHANGED <<log, committed, dlq, retried, forgotten>>

Crash ==
    /\ faults < MaxFaults
    /\ faults' = faults + 1
    /\ Restart

(* The deliver worker sends on a channel that was closed after the check:  *)
(* nothing recovers the panic.                                             *)
PushPanics(c) ==
    /\ worker.pc = "send" /\ c \in worker.into
    /\ closing[c] = "closed"
    /\ Restart
    /\ UNCHANGED faults

-----------------------------------------------------------------------------
Publisher ==
    \/ \E m \in Messages : \E us \in SUBSET Users \ {{}} : PublishPush(m, us)
    \/ PublishOther

Connection(c) ==
    \/ Upgrade(c) \/ SendReady(c) \/ Reply(c)
    \/ ReaderLeaves(c) \/ CloseAndReturn(c) \/ CloseConn(c) \/ FinishClose(c)
    \/ Write(c) \/ WriteFails(c)

WorkerStep ==
    \/ \E n \in 1..MaxLog : Poll(n)
    \/ FetchMessage \/ Handle
    \/ \E u \in Users : PushToUser(u)
    \/ \E c \in Conns : PushCheck(c) \/ PushSend(c) \/ PushPanics(c)
    \/ Handled \/ PublishDLQ \/ CommitMessage

WorkerFault ==
    \/ \E n \in 1..MaxLog : PollFails(n)
    \/ PublishDLQFails \/ CommitFails
    \/ \E m \in Messages : Forget(m)
    \/ Crash

Next ==
    \/ Publisher
    \/ \E c \in Conns : Connection(c)
    \/ WorkerStep
    \/ WorkerFault

Spec == Init /\ [][Next]_vars

-----------------------------------------------------------------------------
ConsumerTypeOK ==
    /\ log \in Seq(Record) /\ Len(log) <= MaxLog
    /\ committed \in 0..Len(log) /\ fetched \in 0..Len(log)
    /\ pending \in Seq(1..Len(log))

WorkerTypeOK ==
    /\ worker \in WorkerType
    /\ seen \subseteq Messages
    /\ dlq \subseteq Messages \X Conns

ConnsTypeOK ==
    /\ handler \in [Conns -> {"none", "ready", "reading", "unregister", "gone"}]
    /\ conns = {c \in Conns : handler[c] \notin {"none", "unregister", "gone"}}
    /\ closing \in [Conns -> {"no", "flagged", "closed"}]
    /\ queued \in [Conns -> 0..QueueSize]

(* Types of the connections, the consumer and the worker; no queue grows   *)
(* past its bound and only registered connections are known to the maps.   *)
TypeOK ==
    /\ ConsumerTypeOK /\ WorkerTypeOK /\ ConnsTypeOK
    /\ given \in [Conns -> Seq(1..Len(log))]
    /\ owed \in [Messages -> SUBSET Conns]
    /\ faults \in 0..MaxFaults

-----------------------------------------------------------------------------
FirstRecord(m) == CHOOSE o \in DOMAIN log : log[o].id = m /\ \A q \in 1..(o - 1) : log[q].id # m

(* Deliver worker: "本机没有目标用户连接时直接提交 offset". Once the first    *)
(* record of a message is committed, a connection of its users that was    *)
(* registered when the record was written, and is still open, was given    *)
(* the message or was reported to the dead-letter topic: no retry, full    *)
(* queue, duplicate or other connection's end makes the worker pass over   *)
(* it. Records that a failed poll threw away are the exception.            *)
NoMissedPush ==
    \A m \in Messages :
        Routed(m) /\ FirstRecord(m) <= committed /\ FirstRecord(m) \notin dropped =>
            \A c \in owed[m] : <<m, c>> \in dlq \/ \E o \in ToSet(given[c]) : log[o].id = m

(* handle: "Gateway 以 message_id 做短期幂等". No connection is given a       *)
(* message twice, by a duplicate record or by a retry of its record, unless *)
(* its dedupe entry timed out or a report to the dead-letter topic failed. *)
NoDoublePush ==
    \A c \in Conns : \A i, j \in DOMAIN given[c] :
        LET m == log[given[c][i]].id IN
        i # j /\ m \notin forgotten \cup retried => log[given[c][j]].id # m

(* handleWithRetry: "不能越过当前 partition 的较早 offset". Each connection   *)
(* is given the partition's messages in the partition's order, through     *)
(* every retry, duplicate and full queue.                                  *)
PushedInOrder ==
    \A c \in Conns : \A i, j \in DOMAIN given[c] : i < j => given[c][i] <= given[c][j]
=============================================================================
