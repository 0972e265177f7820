------------------------------- MODULE Outbox -------------------------------
(***************************************************************************)
(* The transactional outbox: publisher processes of one worker slot        *)
(* (internal/worker/outbox) on the rows of message_outbox                  *)
(* (OutboxRepository), the push topic and the dead-letter topic.           *)
(*                                                                         *)
(* A publisher that gets the slot's MySQL named lock runs under a fresh    *)
(* owner token, claims due head rows of different conversations and        *)
(* handles each in a goroutine of its own:                                 *)
(*                                                                         *)
(*   claim -> route -> push ... push -> published                          *)
(*              \_______\______ fail -> (retry later | dlq -> dead)        *)
(*                                                                         *)
(* Time is abstract: `due` says that next_retry_at has passed. A lease or  *)
(* a backoff may run out at any moment; Lease says how much of the work of *)
(* the goroutine that took a lease the lease is certain to outlast.        *)
(* Rows of other slots live in other shards and never meet these.          *)
(***************************************************************************)
EXTENDS Integers, Sequences, FiniteSets

CONSTANTS Pubs,          \* publisher processes
          NoPub,         \* nobody holds the slot's lock
          Convs,         \* conversations in the slot's shards
          Partitions,    \* partitions of the push topic, one per gateway
          MaxRetries,    \* outbox_max_retries: failed attempts before the dead-letter topic
          MaxSeq,        \* bound: messages per conversation
          Loads,         \* bound: <<messages, partitions>>, how many of each come together
          MaxPush,       \* bound: records per partition of the push topic
          MaxFaults,     \* bound: crashes, lost locks, failed row updates
          Lease          \* what outbox_claim_lease is sure to outlast: "nothing" or one "publish"

ASSUME NoPubAssumption == NoPub \notin Pubs
ASSUME OutboxBounds ==
    /\ MaxRetries \in Nat \ {0}
    /\ MaxSeq \in Nat
    /\ Loads \subseteq Nat \X Nat
    /\ MaxPush \in Nat
    /\ MaxFaults \in Nat
ASSUME LeaseAssumption == Lease \in {"nothing", "publish"}

VARIABLES rows,     \* per conversation, its outbox rows by seq
          holder,   \* the connection that holds the slot's named lock
          owner,    \* per publisher: its owner token, 0 when not running the slot
          tokens,   \* owner tokens handed out so far
          task,     \* per publisher and conversation: the goroutine of a claimed row
          push,     \* per partition: the push topic's records, <<conversation, seq>>
          dlq,      \* records of the dead-letter topic
          overran,  \* history: conversations whose lease ended under a goroutine at work
          swallowed, \* history: publishes, <<partition, conversation, seq>>, whose error was swallowed
          faults

slotVars == <<holder, owner, tokens>>
history  == <<overran, swallowed>>
vars == <<rows, slotVars, task, push, dlq, history, faults>>

NonTerminal == {"Pending", "Retrying", "DLQPending"}
Terminal    == {"Published", "Dead"}

(* bad: the payload does not decode to its own row. parts is history: the  *)
(* partitions the attempt that published the row was routed to.            *)
RowType == [status : NonTerminal \cup Terminal, lockedBy : Nat, retries : Nat,
            due : BOOLEAN, bad : BOOLEAN, parts : SUBSET Partitions]

TaskSteps == {"none", "route", "push", "published", "fail", "dlq", "dead", "retryDLQ"}
TaskType  == [pc : TaskSteps, seq : Nat, todo : SUBSET Partitions, parts : SUBSET Partitions]

NoTask == [pc |-> "none", seq |-> 0, todo |-> {}, parts |-> {}]

Init ==
    /\ rows = [v \in Convs |-> <<>>]
    /\ holder = NoPub
    /\ owner = [p \in Pubs |-> 0]
    /\ tokens = 0
    /\ task = [p \in Pubs |-> [v \in Convs |-> NoTask]]
    /\ push = [q \in Partitions |-> <<>>]
    /\ dlq = {}
    /\ overran = {}
    /\ swallowed = {}
    /\ faults = 0

-----------------------------------------------------------------------------
(* Partitions of the targets, the records and the failures so far.         *)
Routed ==
    {q \in Partitions :
        \/ push[q] # <<>>
        \/ \E p \in Pubs, v \in Convs : q \in task[p][v].parts
        \/ \E s \in swallowed : q = s[1]}

Within(seqs, parts) == \E l \in Loads : seqs <= l[1] /\ Cardinality(parts) <= l[2]

(* The persist transaction adds the row of the conversation's next seq.    *)
Persist(v, bad) ==
    /\ Len(rows[v]) < MaxSeq /\ Within(Len(rows[v]) + 1, Routed)
    /\ rows' = [rows EXCEPT ![v] = Append(@,
                  [status |-> "Pending", lockedBy |-> 0, retries |-> 0,
                   due |-> TRUE, bad |-> bad, parts |-> {}])]
    /\ UNCHANGED <<slotVars, task, push, dlq, history, faults>>

(* The goroutine of p still works on the row (v, s) under the lease it took. *)
AtWork(p, v, s) ==
    /\ task[p][v].pc # "none"
    /\ task[p][v].seq = s
    /\ rows[v][s].lockedBy = owner[p]

(* The lease cannot have run out yet: nobody has waited for more than it   *)
(* outlasts. todo = parts as long as no publish of the attempt has ended.  *)
LeaseRuns(p, v, s) ==
    /\ Lease = "publish"
    /\ AtWork(p, v, s)
    /\ task[p][v].todo = task[p][v].parts

(* next_retry_at of a row passes: a backoff or a lease ran out.            *)
TimePasses(v, s) ==
    /\ s \in 1..Len(rows[v])
    /\ rows[v][s].status \in NonTerminal
    /\ ~ rows[v][s].due
    /\ \A p \in Pubs : ~ LeaseRuns(p, v, s)
    /\ rows' = [rows EXCEPT ![v][s].due = TRUE]
    /\ overran' = IF \E p \in Pubs : AtWork(p, v, s) THEN overran \cup {v} ELSE overran
    /\ UNCHANGED <<slotVars, task, push, dlq, swallowed, faults>>

-----------------------------------------------------------------------------
(* The slot *)

(* GET_LOCK succeeds; the run that starts gets a fresh owner token.        *)
acquireWorkerSlot(p) ==
    /\ owner[p] = 0
    /\ holder = NoPub
    /\ holder' = p
    /\ tokens' = tokens + 1
    /\ owner' = [owner EXCEPT ![p] = tokens + 1]
    /\ UNCHANGED <<rows, task, push, dlq, history, faults>>

(* The session that holds the named lock is lost.                          *)
LoseLock ==
    /\ holder # NoPub
    /\ faults < MaxFaults
    /\ holder' = NoPub
    /\ faults' = faults + 1
    /\ UNCHANGED <<rows, owner, tokens, task, push, dlq, history>>

StopRun(p) ==
    /\ holder' = IF holder = p THEN NoPub ELSE holder
    /\ owner' = [owner EXCEPT ![p] = 0]
    /\ task' = [task EXCEPT ![p] = [v \in Convs |-> NoTask]]

(* Mutant: the run ends without waiting for its goroutines.                *)
MonitorLeaves(p) ==
    /\ owner[p] # 0
    /\ holder # p
    /\ owner' = [owner EXCEPT ![p] = 0]
    /\ UNCHANGED <<rows, holder, tokens, task, push, dlq, history, faults>>

(* The monitor finds the lock gone and cancels the run: what its           *)
(* goroutines had left to do fails on the cancelled context.               *)
MonitorCancels(p) ==
    /\ owner[p] # 0
    /\ holder # p
    /\ StopRun(p)
    /\ UNCHANGED <<rows, tokens, push, dlq, history, faults>>

(* The process dies or is shut down, or the monitor's own query fails:     *)
(* MySQL frees the lock.                                                   *)
Crash(p) ==
    /\ owner[p] # 0
    /\ faults < MaxFaults
    /\ faults' = faults + 1
    /\ StopRun(p)
    /\ UNCHANGED <<rows, tokens, push, dlq, history>>

-----------------------------------------------------------------------------
(* Claim *)

(* Mutant: any non-terminal row will do.                                   *)
AnyRow(v, s) ==
    /\ s \in 1..Len(rows[v])
    /\ rows[v][s].status \in NonTerminal

(* Mutant: Claim's status list forgets DLQPending.                         *)
HeadNotDLQPending(v, s) ==
    /\ s \in 1..Len(rows[v])
    /\ rows[v][s].status \in {"Pending", "Retrying"}
    /\ \A r \in 1..(s - 1) : rows[v][r].status \in Terminal

(* The row Claim reads under the conversation's lock: the earliest         *)
(* non-terminal seq.                                                       *)
IsHead(v, s) ==
    /\ s \in 1..Len(rows[v])
    /\ rows[v][s].status \in NonTerminal
    /\ \A r \in 1..(s - 1) : rows[v][r].status \in Terminal

(* Mutant: the head is claimed although another publisher's lease runs.    *)
HeadEvenIfLeased(v, s) == IsHead(v, s)

(* The head of the conversation, if its next_retry_at has passed.          *)
DueHead(v, s) == IsHead(v, s) /\ rows[v][s].due

(* A payload that does not decode to its row, and a row that is waiting    *)
(* for its dead letter, go to the dead-letter topic and nowhere else.      *)
NeedsDLQ(v, s) == rows[v][s].bad \/ rows[v][s].status = "DLQPending"

(* The row as the claim leaves it, and the goroutine that gets it.         *)
ClaimedRow(p, v, s) ==
    [rows[v][s] EXCEPT !.status = IF NeedsDLQ(v, s) THEN "DLQPending" ELSE "Retrying",
                       !.lockedBy = owner[p],
                       !.due = FALSE]

ClaimedTask(v, s) == [NoTask EXCEPT !.pc = IF NeedsDLQ(v, s) THEN "dlq" ELSE "route", !.seq = s]

(* dispatch waits for the goroutines of the last batch, then claims the    *)
(* due heads of the conversations in S: SKIP LOCKED and the batch limit    *)
(* may leave some out.                                                     *)
Claim(p, S) ==
    /\ owner[p] # 0
    /\ \A v \in Convs : task[p][v].pc = "none"
    /\ S # {}
    /\ \E head \in [S -> 1..MaxSeq] :
          /\ \A v \in S : DueHead(v, head[v])
          /\ rows' = [v \in Convs |->
                        IF v \in S THEN [rows[v] EXCEPT ![head[v]] = ClaimedRow(p, v, head[v])]
                                   ELSE rows[v]]
          /\ task' = [task EXCEPT ![p] = [v \in Convs |->
                        IF v \in S THEN ClaimedTask(v, head[v]) ELSE NoTask]]
    /\ UNCHANGED <<slotVars, push, dlq, history, faults>>

-----------------------------------------------------------------------------
(* publishOne *)

At(p, v, step) == task[p][v].pc = step

Become(p, v, step) == task' = [task EXCEPT ![p][v].pc = step]

Finish(p, v) == task' = [task EXCEPT ![p][v] = NoTask]

(* routeTargets: presence names the partitions of the members online now,  *)
(* perhaps none.                                                           *)
routeTargets(p, v, targets) ==
    /\ At(p, v, "route")
    /\ Within(Len(rows[v]), Routed \cup targets)
    /\ task' = [task EXCEPT ![p][v].pc = IF targets = {} THEN "published" ELSE "push",
                            ![p][v].todo = targets,
                            ![p][v].parts = targets]
    /\ UNCHANGED <<rows, slotVars, push, dlq, history, faults>>

(* The presence or member lookup fails.                                    *)
RouteFails(p, v) ==
    /\ At(p, v, "route")
    /\ Become(p, v, "fail")
    /\ UNCHANGED <<rows, slotVars, push, dlq, history, faults>>

(* Mutant: the first partition is taken for all of them.                   *)
SentFirst(p, v, q) ==
    task' = [task EXCEPT ![p][v].todo = @ \ {q}, ![p][v].pc = "published"]

(* The next partition of targets, or the end of the loop.                  *)
Sent(p, v, q) ==
    task' = [task EXCEPT ![p][v].todo = @ \ {q},
                         ![p][v].pc = IF task[p][v].todo = {q} THEN "published" ELSE "push"]

(* The record reaches partition q.                                         *)
AppendPush(p, v, q) ==
    /\ Len(push[q]) < MaxPush
    /\ push' = [push EXCEPT ![q] = Append(@, <<v, task[p][v].seq>>)]

(* PublishPush to one of the remaining partitions is acknowledged.         *)
PublishPush(p, v, q) ==
    /\ At(p, v, "push")
    /\ q \in task[p][v].todo
    /\ AppendPush(p, v, q)
    /\ Sent(p, v, q)
    /\ UNCHANGED <<rows, slotVars, dlq, history, faults>>

(* The context ends while the publish is under way: not a technical error, *)
(* so the breaker's Execute answers nil and publishOne goes on.            *)
PublishPushSwallowed(p, v, q) ==
    /\ At(p, v, "push")
    /\ q \in task[p][v].todo
    /\ swallowed' = swallowed \cup {<<q, v, task[p][v].seq>>}
    /\ Sent(p, v, q)
    /\ UNCHANGED <<rows, slotVars, push, dlq, overran, faults>>

(* It fails, whether or not the record reached the partition.              *)
PublishPushFails(p, v, q) ==
    /\ At(p, v, "push")
    /\ q \in task[p][v].todo
    /\ AppendPush(p, v, q) \/ UNCHANGED push
    /\ Become(p, v, "fail")
    /\ UNCHANGED <<rows, slotVars, dlq, history, faults>>

-----------------------------------------------------------------------------
(* Row updates: each is conditional on locked_by = ownerID, and is lost    *)
(* without a trace when the row has another owner.                         *)

(* Mutant: updates are not fenced by the owner token.                      *)
OwnedByAnyone(p, v) == p \in Pubs

Owned(p, v) == rows[v][task[p][v].seq].lockedBy = owner[p]

SetRow(p, v, row) == rows' = [rows EXCEPT ![v][task[p][v].seq] = row]

MarkPublished(p, v) ==
    LET row == rows[v][task[p][v].seq]
    IN  /\ At(p, v, "published")
        /\ IF Owned(p, v)
           THEN SetRow(p, v, [row EXCEPT !.status = "Published", !.lockedBy = 0,
                                         !.parts = task[p][v].parts])
           ELSE UNCHANGED rows
        /\ Finish(p, v)
        /\ UNCHANGED <<slotVars, push, dlq, history, faults>>

(* MarkFailed: a retry after a backoff, or, when the attempts are used up, *)
(* DLQPending with owner and lease kept, and straight on to the dead-      *)
(* letter topic.                                                           *)
MarkFailed(p, v) ==
    LET row == rows[v][task[p][v].seq]
        needsDLQ == row.retries + 1 >= MaxRetries
    IN  /\ At(p, v, "fail")
        /\ \/ /\ Owned(p, v) /\ needsDLQ
              /\ SetRow(p, v, [row EXCEPT !.status = "DLQPending", !.retries = @ + 1, !.due = FALSE])
              /\ Become(p, v, "dlq")
           \/ /\ Owned(p, v) /\ ~ needsDLQ
              /\ SetRow(p, v, [row EXCEPT !.status = "Retrying", !.retries = @ + 1,
                                          !.due = FALSE, !.lockedBy = 0])
              /\ Finish(p, v)
           \/ ~ Owned(p, v) /\ UNCHANGED rows /\ Finish(p, v)
        /\ UNCHANGED <<slotVars, push, dlq, history, faults>>

PublishDLQ(p, v) ==
    /\ At(p, v, "dlq")
    /\ dlq' = dlq \cup {<<v, task[p][v].seq>>}
    /\ Become(p, v, "dead")
    /\ UNCHANGED <<rows, slotVars, push, history, faults>>

PublishDLQFails(p, v) ==
    /\ At(p, v, "dlq")
    /\ dlq' \in {dlq, dlq \cup {<<v, task[p][v].seq>>}}
    /\ Become(p, v, "retryDLQ")
    /\ UNCHANGED <<rows, slotVars, push, history, faults>>

RetryDLQ(p, v) ==
    LET row == rows[v][task[p][v].seq]
    IN  /\ At(p, v, "retryDLQ")
        /\ IF Owned(p, v) /\ row.status = "DLQPending"
           THEN SetRow(p, v, [row EXCEPT !.due = FALSE, !.lockedBy = 0])
           ELSE UNCHANGED rows
        /\ Finish(p, v)
        /\ UNCHANGED <<slotVars, push, dlq, history, faults>>

MarkDead(p, v) ==
    LET row == rows[v][task[p][v].seq]
    IN  /\ At(p, v, "dead")
        /\ IF Owned(p, v) /\ row.status = "DLQPending"
           THEN SetRow(p, v, [row EXCEPT !.status = "Dead", !.lockedBy = 0])
           ELSE UNCHANGED rows
        /\ Finish(p, v)
        /\ UNCHANGED <<slotVars, push, dlq, history, faults>>

(* One of these updates fails, or the answer to Claim or MarkFailed is     *)
(* lost: the error is logged, nothing more is done about the row, and it   *)
(* stays as it is until its lease runs out.                                *)
UpdateFails(p, v) ==
    /\ task[p][v].pc \in {"route", "published", "fail", "dlq", "retryDLQ", "dead"}
    /\ faults < MaxFaults
    /\ faults' = faults + 1
    /\ Finish(p, v)
    /\ UNCHANGED <<rows, slotVars, push, dlq, history>>

-----------------------------------------------------------------------------
PublishOne(p, v) ==
    \/ \E targets \in SUBSET Partitions : routeTargets(p, v, targets)
    \/ RouteFails(p, v)
    \/ \E q \in Partitions :
          PublishPush(p, v, q) \/ PublishPushSwallowed(p, v, q) \/ PublishPushFails(p, v, q)
    \/ MarkPublished(p, v) \/ MarkFailed(p, v)
    \/ PublishDLQ(p, v) \/ PublishDLQFails(p, v) \/ RetryDLQ(p, v) \/ MarkDead(p, v)
    \/ UpdateFails(p, v)

Next ==
    \/ \E v \in Convs, bad \in BOOLEAN : Persist(v, bad)
    \/ \E v \in Convs, s \in 1..MaxSeq : TimePasses(v, s)
    \/ LoseLock
    \/ \E p \in Pubs :
          \/ acquireWorkerSlot(p) \/ MonitorCancels(p) \/ Crash(p)
          \/ \E S \in SUBSET Convs : Claim(p, S)
          \/ \E v \in Convs : PublishOne(p, v)

Spec == Init /\ [][Next]_vars

ClaimFor(p, v) == \E S \in SUBSET Convs : v \in S /\ Claim(p, S)

(* Processes and goroutines are scheduled, clocks advance, a free lock is  *)
(* taken, and neither a due head nor a dead letter that is offered again   *)
(* and again is passed over for ever.                                      *)
Fairness ==
    /\ \A v \in Convs, s \in 1..MaxSeq : WF_vars(TimePasses(v, s))
    /\ \A p \in Pubs :
          /\ WF_vars(acquireWorkerSlot(p))
          /\ WF_vars(MonitorCancels(p))
          /\ \A v \in Convs :
                /\ WF_vars(PublishOne(p, v))
                /\ SF_vars(ClaimFor(p, v))
                /\ SF_vars(PublishDLQ(p, v))

FairSpec == Spec /\ Fairness

-----------------------------------------------------------------------------
RowsOK ==
    /\ rows \in [Convs -> Seq(RowType)]
    /\ \A v \in Convs : Len(rows[v]) <= MaxSeq

SlotOK ==
    /\ holder \in Pubs \cup {NoPub}
    /\ owner \in [Pubs -> 0..tokens]
    /\ tokens \in Nat
    /\ faults \in 0..MaxFaults

TasksOK ==
    /\ task \in [Pubs -> [Convs -> TaskType]]
    /\ \A p \in Pubs, v \in Convs :
          task[p][v].pc # "none" => owner[p] # 0 /\ task[p][v].seq \in 1..Len(rows[v])

TopicsOK ==
    /\ push \in [Partitions -> Seq(Convs \X (1..MaxSeq))]
    /\ dlq \subseteq Convs \X (1..MaxSeq)
    /\ overran \subseteq Convs
    /\ swallowed \subseteq Partitions \X Convs \X (1..MaxSeq)

(* Types of the rows, the slot, the goroutines and the topics; a goroutine *)
(* works on an existing row and only while its publisher runs the slot.    *)
TypeOK == RowsOK /\ SlotOK /\ TasksOK /\ TopicsOK

Pushed(q, v, s) == \E i \in 1..Len(push[q]) : push[q][i] = <<v, s>>

(* Something of row s has happened: a claim, a push or a dead letter.      *)
Begun(v, s) ==
    \/ rows[v][s].status # "Pending"
    \/ \E q \in Partitions : Pushed(q, v, s)
    \/ <<v, s>> \in dlq

(* README: "同会话只发布最早未完成 seq". Nothing happens to a message (no   *)
(* claim, push or dead letter, by whichever publisher) before all earlier  *)
(* seqs of its conversation are terminal.                                  *)
HeadOfLine ==
    \A v \in Convs : \A s \in 1..Len(rows[v]) :
        Begun(v, s) => \A r \in 1..(s - 1) : rows[v][r].status \in Terminal

(* MarkPublished's fencing token: once a row is Published or Dead no       *)
(* publisher changes it, however late its goroutine wakes up.              *)
TerminalStable ==
    [][\A v \in Convs : \A s \in 1..Len(rows[v]) :
          rows[v][s].status \in Terminal => rows'[v][s] = rows[v][s]]_vars

(* publishOne; README: "必须先写 DLQ，成功后该 seq 才算终态". What the final *)
(* status of a row says is true: a Published message reached every         *)
(* partition that had an online member when it was routed, but for those   *)
(* whose publish ended in a context error, which Breaker.Execute hides     *)
(* from publishOne; a Dead one has its dead letter in Kafka.               *)
FinalStatusIsTrue ==
    \A v \in Convs : \A s \in 1..Len(rows[v]) :
        /\ rows[v][s].status = "Published" =>
              \A q \in rows[v][s].parts : Pushed(q, v, s) \/ <<q, v, s>> \in swallowed
        /\ rows[v][s].status = "Dead" => <<v, s>> \in dlq

InOrder(v) ==
    \A q \in Partitions : \A i, j \in 1..Len(push[q]) :
        i < j /\ push[q][i][1] = v /\ push[q][j][1] = v => push[q][i][2] <= push[q][j][2]

(* As long as no lease ran out under a goroutine at work, the partition of *)
(* each gateway has a conversation's messages in the order of their seqs,  *)
(* repeats of the last one aside: lost locks and crashes do not matter.    *)
PushInOrderInLease == \A v \in Convs \ overran : InOrder(v)

Outcome(row) ==
    [end |-> IF row.status \in Terminal THEN row.status ELSE "Open",
     to |-> IF row.status = "Published" THEN row.parts ELSE {}]

Outcomes == [v \in Convs |-> [s \in 1..Len(rows[v]) |-> Outcome(rows[v][s])]]

Abstract == INSTANCE Publication WITH outcome <- Outcomes, missed <- swallowed

(* publishOne, Claim and the row updates implement Publication: with all   *)
(* the publishers, tokens and leases hidden, messages are worked on in     *)
(* turn, and each is settled once, on the evidence its settlement claims.  *)
ImplementsPublication == Abstract!PublicationSpec

(* Every row becomes Published or Dead, through crashes, lost locks and    *)
(* failed updates: no conversation is blocked by its head for ever.        *)
EveryRowTerminates ==
    \A v \in Convs : \A s \in 1..MaxSeq :
        (s <= Len(rows[v])) ~> (s <= Len(rows[v]) /\ rows[v][s].status \in Terminal)
=============================================================================
