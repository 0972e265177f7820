# GO-CHAT: TLA+ models, checks and proofs

GO-CHAT is a chat backend: WebSocket gateways, a Kafka pipeline, MySQL as the
store and Redis for what may be lost. This directory models the parts of it
that carry its guarantees, checks them with TLC on small instances and proves
their safety properties with TLAPS for instances of any size.

## The system

A message goes through four stages:

    client -> gateway Send -> Kafka inbox -> persist worker -> MySQL (message + outbox row)
           -> outbox publisher -> push partition of each gateway -> deliver worker -> connection -> client

What the client misses while it is offline it fetches with `after_seq`.

| Component | State | Operations | Talks to |
|---|---|---|---|
| Send (`message/service.go`, `redis/idempotency_store.go`, two Lua scripts) | a Redis entry per client message: absent, `processing:<nonce>`, `accepted`; a nonce counter per process | Acquire, PublishIngress, MarkAccepted, Release | inbox topic through the circuit breaker |
| Persist worker (`worker/persist`, `kafka/consumer.go`) | polled records, a channel and a goroutine per partition, the group's committed offset | FetchMessage, handle with retries, dlqAndCommit, CommitMessages | inbox, MySQL, dead-letter topic |
| Persist transaction (`message_repository.go`) | `messages`, `conversations.last_seq`, `message_outbox` | idempotency read, row lock, insert, outbox insert | |
| Segment generator (`idgen/segment`, `segment_repository.go`) | the row of `id_generator`; two buffers, a loading flag and a mutex per process | Next, Allocate | MySQL |
| Outbox publisher (`worker/outbox`, `outbox_repository.go`) | rows with status, owner, lease and retry count; a named lock per slot | claim, route, publish, MarkPublished, MarkFailed, RetryDLQ, MarkDead | presence, push topic, dead-letter topic |
| Deliver worker (`worker/deliver`) | a dedupe table, the gateway partition's offset | handle, push, dead-letter the failures | connection manager |
| Connections (`connection`, `transport/websocket`) | registry of connections, a bounded queue each | Register, Unregister, Push, Close, read and write loops | presence |
| Presence (`presence_registry.go`) | routes with expiry | Register, Heartbeat, Remove, batch lookup | Redis |
| Conversations (`conversation`, `conversation_repository.go`) | conversations with their members, the pair key of direct ones, the time they are listed by | Create, List, Get, CheckMember, ListMemberIDs | id generator, MySQL |
| History and cursors (`message/service.go`, `cursor_store.go`, a Lua script) | received and read cursors and the visibility bound of a member, a sync cursor in Redis | ListHistory in both directions, recordCursor, AckReceived, MarkRead | MySQL, Redis |
| Rate limiter, bulkhead, tickets | token buckets in Redis and in each process, slots, one-time tickets | Allow, Acquire/Release, Create/Consume | Redis |
| Users and authentication (`user`, `auth`, the Auth middleware) | rows of `users`, access tokens | Register, Login, Issue, Parse | id generator, MySQL |
| Process lifecycle (`bootstrap/app_run.go`) | the listener, the application's context | Run, drain, stop | everything a request uses |

What is hard about it, and what makes each part correct:

* **Persist**: records are redelivered, processes die between the MySQL commit
  and the offset commit, and a process that has lost the partition goes on
  working, because the group has no rebalance callback. No record may be
  skipped, seqs must be 1, 2, 3, ..., and a client message must have one row.
* **Outbox**: leases run out under working goroutines, the slot's lock may be
  lost unnoticed, row updates fail after the push was acknowledged. A
  conversation must leave in seq order and its head must not block for ever.
* **Ids**: a background goroutine writes three atomics that callers read under
  a mutex the writer does not take. Ids must be unique and increasing.
* **Delivery**: connections come and go while the worker pushes to them, a
  queue is full, a record is repeated or handled again after a failed report or
  commit, the process dies. A connection that stays open must get every message
  routed to it, once and in order, or be reported.
* **Presence**: routes expire, heartbeats and removals fail or arrive late, and a
  lookup acts on what it read a pipeline earlier. An open connection must keep
  its route and be found; a removed one must not come back.
* **History**: a device pages while messages are persisted, pushed and cleared;
  requests fail, are repeated, or go on after their client has given up. What is
  below a device's cursor must be complete, and the server's cursors must neither
  go back nor claim what was not sent.
* **Conversations**: Create looks, takes an id, inserts, and looks again, with
  other creates in between. Two users must end up in one chat, and a conversation
  must admit those who were named. A list that messages reorder is read page by
  page: what nobody touched must be on one page, and only on one.
* **Edge**: commands run twice when an answer is lost, processes fall back to
  their own buckets one at a time, Redis' clock may be corrected either way, callers give up
  while they wait for a slot, and a process stops under its requests. The limits
  must hold, no slot may leak, a ticket must admit one connection, and a name
  must have one owner.
* **Send**: entries expire under their requests, Redis calls fail after their
  script ran, and the client retries on another gateway. `accepted` must mean
  that Kafka has the message.

`PROJECT.json` lists the components with their status, and the hazards with the
source line of each and the properties that cover it.

## Modules

| Module | Models |
|---|---|
| `Ingest` | abstract: what the persistence stage promises about log, offset, tables and dead letters |
| `PersistWorker` | the persist worker and the persist transaction; implements `Ingest` |
| `Publication` | abstract: what publishing promises about outcomes, push topic and dead letters |
| `Outbox` | the publishers of one worker slot and the outbox rows; implements `Publication` |
| `SegmentGenerator` | the id generator of several processes |
| `SendGateway` | Service.Send on several gateways with the Redis entry |
| `Delivery` | one gateway: deliver worker, connection manager, the goroutines of its connections |
| `Presence` | the registry in Redis, heartbeats, expiry, the publisher's lookup |
| `HistorySync` | ListHistory, the sync cursor, the received and read cursors, and devices that page |
| `DirectRegistry` | abstract: what creating direct chats promises |
| `Conversations` | Create, the membership checks and the paged list; implements `DirectRegistry` |
| `EdgeBase` | the processes and requests that the next four have in common |
| `RateLimiter`, `Bulkhead`, `Tickets`, `Accounts` | the state and the operations of each of these components |
| `Edge` | composes the four: the HTTP handlers that use them, on several processes, and shutdown |
| `...Proofs` | the theorems about the module of that name; `EdgeProofs` is about `Edge` and its parts, `GatewayProofs` about `Presence` and `SendGateway` |
| `MC...` | the record sets and symmetries of the TLC instances |

Definitions have the names of the functions they model. Definitions that start
with the word *Mutant* in their comment are not part of a specification: they
are plausible bugs, each of which makes a property fail when put in the place
of the definition that follows.

### PersistWorker

One partition of the inbox topic, any number of processes of the group.
`assignee` is the process the coordinator has given the partition to, `pos` how
far its client has polled, `queue` is `Consumer.pending` followed by the
partition's channel, `cur` and `pc` are the partition's goroutine. The
transaction is three steps, `PersistCheck`, `PersistLock`, `PersistCommit`, with
the conversation's row lock (`convLock`) explicit; transactions of other
processes come in between. `PersistFails` may roll back any of them, and
`PersistCommit` may commit and still be reported as failed. `PersistErrorCode`
and `isTransient` are as in the code, where every error of the transaction comes
back as an internal error and is therefore retried.

`Handle` is atomic with its idempotency read: the reads before the first
`Persist` touch nothing, and the transaction repeats the idempotency read.
`CommitMessages` sets the offset to the record's, forwards or backwards,
because the coordinator accepts a commit from any live member.
`FetchError` is a poll that carries records and an error: `FetchMessage` returns
the error and drops the records, which the client never delivers again. The
history variable `dropped` names them.

### Outbox

The rows of the conversations of one slot, `holder` (the MySQL named lock),
`owner` (the token of a publisher's run), and one goroutine, `task`, for each
claimed row. `due` stands for `next_retry_at <= now`: a backoff or a lease may
run out at any moment, except that with `Lease = "publish"` it outlasts the
first publish of the attempt, which is what the configuration file asks of
`outbox_claim_lease`. Updates are conditional on the owner token and vanish when
it does not match. `overran` names the conversations whose lease ended under a
goroutine at work, `swallowed` the publishes whose context error the breaker
turned into a success. A failing update, a lost answer, a lost lock and a crash
count against `MaxFaults`; failing publishes and lookups do not.

`ImplementsPublication` is the refinement: a row's outcome is its final status and
where it went, or `Open`, and everything about publishers, tokens, leases and retries
is hidden. A late goroutine of a lost lease may still deliver in `Publication`, but
only a message whose turn has come, and it can settle nothing that is settled.

### SegmentGenerator

Every access to `loading`, `nextReady`, `nextMin` and `nextMax` outside a common
critical section is a step of its own, the mutex `mu` is explicit, and Allocate
is its read and its compare-and-swap. Go's atomics are sequentially
consistent, so interleaving is all there is. A loader started while `nextReady`
is set is recorded in `reloaded`.

### SendGateway

A request is a call of `Send` in a slot of a gateway, from Acquire on; what
comes before can only end it. The Lua scripts are atomic. An entry may expire at
any moment (`overran` if its request was still at work), a call may fail with or
without having had its effect, a crashed gateway counts nonces from 1 again.

### Delivery

The partition of one gateway. `handler` says where the Upgrade handler of a
connection is, `conns` is the manager's map, `queued` the length of a
connection's channel: what is in it matters only through `given`, the offsets
its Push accepted. `Conn.Push` is two steps, the flag and the send, and
`Conn.Close` is two steps, the flag and `close(c.send)`; `PushPanics` is the send
that finds the channel closed, which ends the process since nothing in the
deliver worker recovers it. The worker's `handle` is one step per user snapshot,
per connection and per Kafka call, so that connections change in between.
`Restart` begins again after the committed offset without connections and
without dedupe table. `owed` records who was open when a message was first
routed to the gateway; `Retire` ends the account of a connection whose peer
goes or is sent away, because it fetches the rest with `after_seq`.

A slow connection is closed by `CloseConn` at any moment, so its clock is not
modelled. The handler's own pushes are `SendReady` and `Reply`.

### Presence

Time is counted in units of which `Interval` make a heartbeat interval; `Tick`
moves all clocks, and Redis drops keys whose TTL is over. A pipeline can go
through, be lost, be cut after its first command, or reach Redis later (`late`)
when its caller has given up; `failed` records which. A lookup is its three
pipelines, `ReadMembers`, `ReadRoutes`, `CleanUp`, with everything else in
between. A connection is `Steady` while it is open, all its writes went through
and no heartbeat is due at this very moment: at the default values the last
instant of the route and the tick that closes the connection coincide, and a
pong handled first keeps a connection without a route (`overtook`).

### HistorySync

One user's devices in one conversation. The rows are `1..lastSeq`, because
persistence numbers them without gaps (`SeqsGapFree`), so what a query returns is
an interval `lo..hi`; `ListBefore` and `ListAfter` are the two queries,
`listBefore` and `listAfter` what the service makes of them. A request is four
steps: it is sent, the membership and visibility bound are read, the page is
read, the cursor is written; everything else happens in between, and a request
whose client has given up (`GiveUp`) goes on to its end. `hidden` is
`max(joined_seq, clear_before_seq)`. Nothing in the repository writes these two
columns or a member's status after the creation of the conversation, so `Clear`
stands for whoever does, and a member stays one. The received and read columns
follow the same SQL rule and are the elements of `Columns`. CursorStore.Get has
no caller.

The devices are external. Theirs is the protocol the API asks for: walk back
from the newest page with `before_seq` as long as `has_more` says so, then ask
with `after_seq` from the local cursor, start afresh on `resync_required`, store
pushes, and move the cursor by a push only if it is the next seq. The promises
about devices, `NoGapBelowCursor` and `NoMoreMeansAll`, are promises about the
server's `next_before_seq`, `next_after_seq` and `has_more`: each has a mutant
among those.

### Conversations

`rows` are the conversations with their members, since one transaction inserts
both. A create request goes through `Create` (validation and the first look),
`NextId`, `CreateWithMembers` and, when MySQL reports a duplicate, `LookupAgain`;
other requests come between any two. `NextIdRepeats` is the generator's race of
`segment_race`; `CreateFails` may have committed. `DirectKey` is what
`CreateWithMembers` puts under the unique key, `Pair` what the service looks up:
they are not computed from the same thing. The answer of a request that failed is
an error whichever it was. `at` is `COALESCE(last_message_at, created_at)`, in ticks
of a clock that a node may lag behind by `Skew`. `List` reads one page and hands out
the cursor for the next; `missing`, `shown` and `twice` record what the pages of
one listing have held.

`ImplementsRegistry` is the refinement: `given` is the set of rows keyed by two
different users, `told` the answers given to direct creates.

### Edge

A request is handled by one process and moves through the steps of its handler;
each call of Redis or MySQL is a step. The operators of the four components are
halves of actions: `Edge` conjoins them with where the request goes next.

*RateLimiter*: a bucket in Redis has its tokens, the time of its last refill and
its expiry; a local one has x/time/rate's two fields and the time it was last
used. A call costs `Cost` units and a tick brings `Refill`, so that fractions of
tokens are there. `ClockBack` and `ClockForward` correct Redis' clock, and `ahead`
counts what it gained; processes measure with their monotonic clocks. *Bulkhead*: the channel and the counter are two variables,
changed in two steps. *Tickets*: a token is random and therefore named after the
request that created it. *Accounts*: `Normalise` is lower case and trimming, a
hash stands for its password. `Register` refuses a name or a password that is not
valid; a nickname that is too long is refused in the same way and is not kept apart.
`LoginFind` has no test of the account's status, since nothing in the repository
writes another than normal.

`AnswerLost` is a command that ran and whose answer the client library missed:
the library sends it again, so a ticket may be used up by the upgrade it then
refuses, and a created ticket is reported as a conflict. `Fallback` is a call
that fails for good. An upgrade's calls use the application's context, so while
the process drains they fail at once (`Cancelled`). `Drain` closes the listener,
`Stop` needs all requests of the process to be over, `Kill` is a shutdown that ran
out of time or a listener that failed.

## Runs

| Run | Expect | Shows |
|---|---|---|
| `persist` | pass | two processes, one crash, one rebalance: types, `LostOnlyByPolls`, `SeqsGapFree`, `SeqFollowsInboxOrder` (no partition taken from a live process), and the worker implements `Ingest` |
| `persist_live` | pass | every record that was not dropped becomes a message or a dead letter |
| `outbox` | pass | two publishers: `HeadOfLine`, `FinalStatusIsTrue`, `PushInOrderInLease`, `TerminalStable`, and the publishers implement `Publication` |
| `outbox_live` | pass | every row becomes Published or Dead |
| `segment` | pass | two processes, two callers each: `SegmentsDisjoint`, `IdsUniqueUnlessReloaded` (unique, and increasing within a generator) |
| `segment_race` | violation | a second loader over a ready segment: `IdsUnique` fails |
| `send` | pass | two gateways, two requests each: `AcceptedUnlessSwallowed`, `OneSender`, `OwnEntryOnly` |
| `delivery` | pass | two connections of a user, two messages: types and queue bound, `NoMissedPush`, `NoDoublePush`, `PushedInOrder` |
| `history` | pass | a device, two requests at a time, page limits 1 and 2: types with cursors within the conversation, `NoGapBelowCursor`, `NoMoreMeansAll`, `SyncedWasSent`, `CursorsOnlyAdvance` |
| `presence` | pass | two connections, one fault: types, `RouteOutlivesConn`, `OnlineIsFound`, `RemovedStaysRemoved`, `CleanupSparesRouted` |
| `conversation` | pass | three create requests, one listing: types and unique ids, `CreatedAsAsked`, `ListMissesOnlyMoved`, `ListRepeatsOnlyBackdated`, and Create implements `DirectRegistry` |
| `edge` | pass | two processes, three requests of a mix of kinds: `RateBound`, `SlotsBalanced`, `TicketOnce`, `OneOwnerPerName` |

Where the code breaks a promise, the passing run checks the promise with the
exception spelled out in the property (a history variable says when it
applies); for the race of the id generator a violation run shows the exception
itself. So a passing run also says that there is no other exception.

**Bounds.** `persist`: two records are the least at which a record can be
skipped, reordered or sent twice; the record set has two messages of one
conversation, a reuse of a client id, an undecodable record and a dismissed
conversation; one crash and one rebalance give a zombie, a redelivery, and both.
`persist_live` has one attempt per record and one client message, sent twice.
`outbox`: two seqs give a head and a follower, two publishers a holder and a
stale one, two attempts a retry and a dead letter; four records per partition
are all that two rows of two attempts can push. `Loads` says what comes together:
two messages on one partition, for what is between messages, or one message that
goes to two, of which the first may be reached and the second not. `segment`:
segments of two ids and at most three of them, enough for current, next and one
more. `send`: three
nonces per gateway, that is three attempts on each; one key, since keys share
nothing but the nonce counter. `delivery`: two records are a
duplicate, a pair in order, or a push event and something else; two connections
of one user are one that fails and one that does not; a queue of one is full
after connection.ready. `presence`: an interval of two units puts a pong between
two heartbeats, one missed heartbeat and a TTL of four is the tight case
`HashTTL = (Missed + 1) * Interval` of the defaults; one fault is one lost, cut
or late write, or one crash, and the proofs cover more. `history`: three messages
and limits of one and two give empty, exactly full, short and cut pages in both
directions; a request that was given up on overlaps the next one; one cursor
column, since the columns share nothing but the rule. `conversation`: two
requests race and a third retries or makes a second conversation to page over;
three ids, one tick and pages of one row give ties on the timestamp, a cursor in
the middle and a row stamped back; one fault is a failure, a repeated id or a
dismissal. `edge`: three requests, in one of three mixes: two registrations and a
login (one name, two spellings, a name and a password that are refused), a ticket
and two upgrades, or three history queries, which meet at a slot and at a bucket of
one call; two ticks refill it and expire it, one step back of the clock and one forward, one fault
and one process that stops. One fault is one lost answer or one Redis that does not
answer: that both happen to one bucket is left to `RateBounded`, which has any number
of them. Deadlock is not checked: bounded producers stop.
Symmetry is used for processes, connections, request slots and messages, never in a run with a liveness property.

**Fairness.** `persist_live`: the goroutines and the assignment of a free
partition are weakly fair; publishing a dead letter and committing an offset are
strongly fair, since `handleWithRetry` tries for ever and Kafka is not
unavailable for ever. Persisting has no fairness of its own: a transaction that
always fails leads to the dead letter. The two reads and the message id before the
transaction are another matter: when one fails, `handleWithRetry` starts over and no
attempt is counted, so that such a failure is a stutter of `Handle`, and weak fairness
of `Work` supposes that they do not fail for ever. `outbox_live`: clocks advance,
goroutines are scheduled, a free lock is taken and a monitor notices a lost one (weak);
claiming the head of a conversation and publishing a dead letter are strong,
since `dispatch` polls for ever and orders candidates by age, and Kafka is not
unavailable for ever. No fairness is assumed of pushes, so a head whose pushes
always fail ends in the dead-letter topic.

## Proofs

`PersistWorkerProofs` proves, for any numbers of processes, conversations,
records, retries, crashes and rebalances:

* `TypeCorrect`: `Spec => []TypeOK`;
* `RowsCorrect`: `Spec => [](SeqsGapFree /\ OneRowPerClientMessage)`;
* `NothingLost`: `Spec => []LostOnlyByPolls`;
* `WorkerImplementsIngest`: `Spec => ImplementsIngest`;
* `SeqsInOrder`: `Spec => []SeqFollowsInboxOrder`.

The inductive invariant `IInv` has these parts:

* `TypeOK` and `Busy` (a goroutine is idle exactly when it has no record);
* `TxInv`: a goroutine about to write holds its conversation's lock, its
  `nextSeq` is `lastSeq + 1` and its record is valid and addressed to a live
  conversation. Without it two transactions could write the same seq;
* `RowsInv`, the two row properties;
* `LossInv`: besides the property, `Cover` (everything before a record that a
  process holds is settled, in its hand, or ahead of it in its own queue, and
  everything up to its position if it is the assignee) and `CommitReady` (a
  record about to be committed is settled). `Cover` is what makes stale commits
  harmless: a process that has lost the partition still covers the records
  before its own.

`SeqsInOrder` has `OrderInv` instead of `LossInv`: while the partition is taken
from dead processes only, nobody but the assignee works on it (`Alone`), what it
holds is past the committed offset and in order (`InLine`), and what it has skipped
was dropped (`Skipped`). A record that dies in the dead-letter topic can still be
persisted when its commit fails and it starts over. That this cannot happen once a
later record is a row is `MissingDropped` (everything between the committed offset
and a row's record was dropped) and `Newest` (the record in hand is the latest, or
was dropped before).

The assumptions are the named ASSUMEs of `Ingest` and `PersistWorker`: the types
of the constants, and that `NoConsumer` is not a process.

`GatewayProofs` proves of `Presence`, for any number of connections and faults and for
every interval, threshold and TTL with `HashTTL >= Missed * Interval + Interval`
(`TTLCoversHeartbeats`, which the defaults meet with equality):

* `TypeCorrect`: `Spec => []TypeOK`;
* `RoutesOutliveConns`: `Spec => []RouteOutlivesConn`;
* `LookupsFindOnline`: `Spec => []OnlineIsFound`;
* `RemoveIsFinal`: `Spec => []RemovedStaysRemoved`;
* `CleanupIsSafe`: `Spec => CleanupSparesRouted`.

None of these is inductive. `Timing` bounds the age of the last pong plus the
time to the next heartbeat; `Kept` says that route and score of a connection
whose writes went through have exactly `HashTTL` minus that age left; together
they give the route. `Looking` carries this through the pipelines of a lookup: an
id read without a route can have one again only through a registration that was
given up on. `Gone` and `Unborn` keep removals to the end of a connection and
entries to its life.

`HistorySyncProofs` proves, for any devices, columns and page limits and any
number of requests, messages and faults:

* `TypeCorrect`: `Spec => []TypeOK`;
* `NoGaps`: `Spec => []NoGapBelowCursor`;
* `NoMoreIsAll`: `Spec => []NoMoreMeansAll`;
* `CursorIsSent`: `Spec => []SyncedWasSent`;
* `CursorsAdvance`: `Spec => CursorsOnlyAdvance`.

A cursor without gaps says nothing about a walk that is not over, so the
invariant has `DevOK`: a walking device has everything from `before` up to `top`,
a following one everything up to its cursor, which has reached the end it was
told of. `PageOK` says what a page is worth (it joins on to what was asked, and
if it is not full it has reached the hidden part or the end), `AskOK` and `OwnOK`
that a request asks for what its device lacks and that the device has only had
pushes since. The proof rests on every part being preserved when `hidden`,
`lastSeq` and `sent` grow (`DevMono`, `ReqMono`), which is why clearing, persisting
and pushing between two pages do no harm.

`RowsCorrect` states `OneRowPerClientMessage` as well, which the runs check through
`ImplementsIngest`.

`OutboxProofs` proves, for any publishers, conversations, rows and partitions and
both values of `Lease`:

* `TypeCorrect`: `Spec => []TypeOK`;
* `OnlyHeadsProceed`, `StatusIsTrue`, `PushOrder`: the three invariants of the run;
* `TerminalIsFinal`: `Spec => TerminalStable`;
* `OutboxImplementsPublication`: `Spec => ImplementsPublication`.

`HeadOfLine` says nothing of a goroutine that is late, so the invariant has `AtHead`:
the seqs before the one a goroutine works on are terminal. It is kept because a
claim picks heads, and terminal rows stay as they are: owner tokens differ
(`OwnersDiffer`) and a row that is locked is not terminal (`Locked`), so a late update
finds another token or none. `Done` says which partitions a goroutine has behind
it. `InLease` says that a goroutine whose lease has not run out still owns its row,
and is what the order of pushes needs. The refinement maps each step to one of
`Publication` or a stutter: `AtHead` is its `InTurn`, `Locked` says that what an owner
settles was open, `Done` is the evidence.

`SegmentGeneratorProofs` proves, for any processes, callers, step and prefetch ratio:

* `TypeCorrect`: `Spec => []TypeOK`;
* `AllocationsDisjoint`: `Spec => []SegmentsDisjoint`;
* `IdsAreUnique`: `Spec => []IdsUniqueUnlessReloaded`.

`Ends` ties what a loader read to the row it compares with. `Sound(g)`, for a
process that never started a loader over a ready segment, has a clause for each place
at which a segment can be: the loader's hand, `next`, a swap that is half done, the
current buffer, the ids issued. Each holds a whole segment, granted to the process
and later than every id issued before (`Fresh`). It needs that the ready flag keeps
loader and swap apart, which is what the race of `segment_race` breaks.

`GatewayProofs` proves of `SendGateway`, for any gateways, slots and keys, with or
without the Redis fallback:

* `SendTypeCorrect`: `SendSpec => []SendTypeOK`;
* `AcceptedIsInbox`: `SendSpec => []AcceptedUnlessSwallowed`;
* `SendersExclude`: `SendSpec => []OneSender`;
* `EntriesAreOwn`: `SendSpec => OwnEntryOnly`.

`Backed`: an accepted entry, and a request about to mark one, has the record or the
swallowed error behind it. `HolderIsTaker`: a request that holds a nonce is the last
that took the entry, and the entry is still its own, unless it expired under it.
`Issued`: without restarts a gateway's nonces are issued once.

`DeliveryProofs` proves, for any users, connections, messages and queue sizes:

* `TypeCorrect`: `Spec => []TypeOK`;
* `NothingMissed`: `Spec => []NoMissedPush`;
* `NothingTwice`: `Spec => []NoDoublePush`;
* `InOrder`: `Spec => []PushedInOrder`.

`Position` fixes the offset the worker is at: what is given lies at or before it,
what is pending after it. `Once(c)`: a message given to a connection is marked, or it
is the one being pushed and the connection is behind the worker, so that neither a
duplicate nor the rest of the record can give it again. `Owing(m, c)`: a connection
that is owed a message is open; while the message's first record is in hand it is
served, ahead of the worker (still in the snapshot, or of a user to come) or among
the failures; after that, and whenever the message is marked, it is served.

`ConversationsProofs` proves, for any users, requests, commands, page limits and
skew:

* `TypeCorrect`, `CreatesAsAsked`, `PagesMissOnlyMoved`, `PagesRepeatOnlyBackdated`: the
  four invariants of the run;
* `CreateImplementsRegistry`: `Spec => ImplementsRegistry`.

`RowOK`: a row keyed by two users has them for members. `Exclusive`, as long as no id
was repeated: ids about to be inserted are new, so the duplicate a create meets is
the pair's key, and the second look finds what was asked for. `ListOK`: the cursor of
a listing divides the table, what is missing is after it, what was shown is not;
that a page is a prefix of what is after the cursor (`PageIsPrefix`) carries it from
page to page. The refinement maps each step to `Give`, `Tell` or a stutter of
`DirectRegistry`.

`EdgeProofs` proves, for any processes, requests, users, bucket keys, limits, bounds
on faults and stops, and any capacity, cost and refill:

* `TypeCorrect`: `Spec => []TypeOK`;
* `RateBounded`: `Spec => []RateBound`;
* `SlotsBalance`: `Spec => []SlotsBalanced`;
* `TicketsOnce`: `Spec => []TicketOnce`;
* `NamesOwned`: `Spec => []OneOwnerPerName`.

`TInv` adds to the types what a handler knows at each of its places (`Shape`), and the
other invariants rest on it. `RInv` is about the limiter alone. `RateBound` counts calls
of all buckets of a key together, while each step fills or drains one bucket, so `RInv`
says that the calls can be split among Redis and the processes that fell back such that
`Cost` times a bucket's share, plus what is in the bucket now, is within
`Capacity + Refill * ticks`, and for Redis' share `Refill * ahead` more. No variable has the split; it is an existential that every
step is shown to carry on. A bucket that was swept or has expired counts as full, which
is no more than it would have had by then: this is where `Refill * TTL >= Capacity` and
`Refill * (MaxIdle + 1) >= Capacity` are needed. `SInv`: slots and counter are
cardinalities of the requests at the places between two updates, which are finitely
many, on every process that was not killed; so `Release` never finds the channel empty.
`NInv`: what clients were told is so in the rows, and rows stay. `KInv`: a ticket that
is in Redis has let nobody past and is its maker's (`Unused`), and an upgrade with a
ticket has one whose creation was answered (`Presents`); so a repeated `SetNX`, which can
only come before that answer, revives no ticket that was used. The limiter's assumption
apart, what is assumed is that there is a process and that the keys the handlers ask for
are among the bucket keys (`RateKeysAssumption`).

Everywhere the assumptions are the named ASSUMEs of the modules: types of the
constants, and markers such as `NoPub` that are none of the set they stand beside.

Only model-checked: liveness, `EveryRecordSettles` and `EveryRowTerminates` (TLAPS has
no support for the fairness and ENABLED reasoning needed).

## What was found

* `kafka/consumer.go:199` drops the records of a poll that also carries an error,
  and a later commit passes over them (the `dropped` exception of
  `LostOnlyByPolls`), while `handleWithRetry` says "宁可卡住，不可丢"
  (`worker/persist/worker.go:125-126`).
* `resilience/breaker.go:71` returns nil for errors that are not technical,
  context errors among them: a publish that times out counts as done. Send then
  answers accepted of a message Kafka does not have (the exception of
  `AcceptedUnlessSwallowed`), although the repository's README says
  "Kafka inbox 不可用快速失败（不假成功）"; and the outbox marks rows Published that no
  partition has (the `swallowed` exception of `FinalStatusIsTrue`).
* `idgen/segment/generator.go:235-236` checks and swaps in separate steps, so a
  second loader can run over a ready segment and ids can repeat
  (`segment_race`). The persist transaction of the second message then fails on
  the primary key at every attempt, and the message is dead-lettered.
* `outbox_claim_lease > producer_timeout`, which the configuration asks for, is not
  enough for ordered pushes when a message goes to several gateways:
  `publishOne` may spend that time on each of them. This is the `overran`
  exception of `PushInOrderInLease`.
* Nonces are unique in a process only: a late Release can delete an entry of
  another gateway (the exception in `OwnEntryOnly`). It costs a duplicate
  publish, which persistence absorbs.
* After a rebalance two processes can persist two records in the opposite of
  their partition order (the `moves = 0` condition of `SeqFollowsInboxOrder`).
* `message_repository.go:223` wraps ConversationNotFound as an internal error, so
  a permanent error is retried like a transient one.
* `transport/websocket/connection.go:79` sends on a channel that `Close` may have
  closed since line 71. The writer and heartbeat goroutines and the HTTP handler
  recover ("单个连接的意外 panic 只关掉自己，不炸整个进程", `writer.go:17`), the
  deliver worker does not: one connection's end can end the process
  (`PushPanics`). Redelivery after the restart keeps the promises of `delivery`.
* The gateway's consumer drops polls with errors as the persist worker's does
  (the `dropped` exception of `NoMissedPush`).
* The dedupe table is by message: a second record of a message that names other
  users, because they came online before the outbox retried, is skipped. The
  promise `NoMissedPush` is therefore about the first record.
* `writer.go:43` looks at the stall clock only when the queue is empty, while the
  comment (`writer.go:14`) speaks of a queue that stays full.
* A heartbeat does not write a route that is missing
  (`presence_registry.go:69`): a connection whose registration was lost, or whose
  route expired, gets no pushes until it reconnects. The upside is
  `RemovedStaysRemoved` and `CleanupSparesRouted`: the mutant that writes it breaks
  both.
* `after_seq=0` means "no after_seq" to `ListHistory`: a client without messages
  that asks for everything after 0 gets the newest page in descending order and
  must walk back. An empty page records the client's own `after_seq`, which
  nothing compares with `last_seq`, unlike the cursors in MySQL; `SyncedWasSent`
  therefore supposes clients that only send seqs they were given.
* `conversation_repository.go:39` keys a direct chat by the owner and the first
  member of the request, which is the owner when the client put its own id first.
  The service looks the pair up by the first *other* member, so such a chat is
  keyed by its owner twice, is found by nobody, a second one is refused with an
  inconsistent state, and the pair gets another chat from an ordinary request. The
  migration says "单聊通过排序后的用户 ID 保证唯一". `ImplementsRegistry` leaves these
  requests out (`SelfFirst`).
* `conversation/service.go:94` takes every duplicate key for a direct chat that
  somebody created first. A group whose id was repeated is answered with the direct
  chat of its owner and first other member, if there is one, and a group of one
  indexes an empty slice (the second case of `CreatedAsAsked`, which says that the answer is that chat
  and that it lets nobody in who was not named).
* A repeated user id is reported as "用户名已存在" (`user_repository.go:44`).
* The local bucket has the capacity and rate of the one in Redis, where the comment
  says "更严格" (`rate_limiter.go:29`, `:52`): with n processes that fell back a key
  lets through up to n + 1 times as much, which is what `RateBound` states.
* `AllowLogin` is said to limit the normalised name (`auth_handler.go:76`); its
  key has the name as it was written, so spellings of one name have buckets of
  their own.
* An upgrade the limiter refuses has used its ticket up (`websocket/handler.go:126`
  before `:140`).
* The bulkhead `ws_ingress` is created (`bootstrap/app.go:232`) and reported, and
  never acquired.
* With the defaults (30 s, 2, 90 s) the route TTL leaves no slack over the latest
  heartbeat that closes a silent connection.

## Not modelled

Payloads beyond their validity, waiting times, metrics, logs; the breaker's own
state machine (it is a source of failures); Kafka's replication and MySQL's
isolation beyond the row locks and unique keys the code relies on. Wiring,
configuration and metrics keep no protocol state. The DLQ worker counts dead
letters and commits. Queries that only read and page by an increasing key (user
search, message by client id) are left out, as are the parsing of requests and the
rendering of responses. The rate limits in front of Send and of inbound events
are the same `Allow` with other keys.

## Plan

1. Done: `PersistWorker` with `Ingest`, `Outbox`, `SegmentGenerator`,
   `SendGateway`, `Delivery`, `Presence`, `HistorySync`, `Conversations` with
   `DirectRegistry`, `Edge` with its four components, and `Publication`, which `Outbox`
   implements. Every safety property of their passing runs is a theorem, and so are the
   three refinements.
2. Composition of `Ingest`, `Publication` and `Delivery` into one pipeline from the inbox
   to the connection.
3. Liveness of `Delivery` and of a device that keeps asking (`HistorySync`).
