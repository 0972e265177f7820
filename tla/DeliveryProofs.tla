---------------------------- MODULE DeliveryProofs ----------------------------
(***************************************************************************)
(* Proofs about the deliver worker and the connections it pushes to, for   *)
(* any number of users, connections and messages, every queue size and     *)
(* every number of crashes, failed commits and failed reports.             *)
(*                                                                         *)
(* The worker is at one offset, Done, the last one popped: it is what it   *)
(* handles, everything given lies at or before it and everything pending   *)
(* after it (Position). A message given to a connection is marked, or is   *)
(* the one being pushed and the connection is behind the worker (Once). A  *)
(* connection that is owed a message is open, and once the message's first *)
(* record is behind the worker it has been served; while that record is    *)
(* being pushed it is served, is still ahead of the worker or has failed   *)
(* (Served, Ahead).                                                        *)
(***************************************************************************)
EXTENDS Delivery, SequenceTheorems, WellFoundedInduction, TLAPS

(* The last offset that was popped from pending.                           *)
Done == fetched - Len(pending)

Busy == worker.pc \in {"push", "send", "dlq"}

Position ==
    /\ Len(pending) <= fetched
    /\ \A i \in 1..Len(pending) : pending[i] = Done + i
    /\ worker.pc # "idle" => worker.cur = Done /\ worker.cur \in 1..Len(log)
    /\ committed <= Done

(* What a connection was given is behind the worker, in order, and is      *)
(* messages.                                                               *)
GivenOK(c) ==
    /\ \A i \in 1..Len(given[c]) : given[c][i] <= Done /\ log[given[c][i]].id # NoMsg
    /\ \A i, j \in 1..Len(given[c]) : i < j => given[c][i] <= given[c][j]

(* A message is pushed only while it is not marked, to one connection at a *)
(* time, and a user's snapshot is taken once.                              *)
WorkerOK ==
    /\ worker.pc \notin {"push", "send"} => worker.targets = {} /\ worker.todo = {}
    /\ worker.pc # "send" => worker.into = {}
    /\ Busy => Cur.id \in Messages /\ Cur.id \notin seen
    /\ worker.into \cap worker.targets = {}
    /\ \A c, d \in worker.into : c = d
    /\ \A c \in worker.targets \cup worker.into : UserOf[c] \notin worker.todo

Gave(c, m) == \E i \in 1..Len(given[c]) : log[given[c][i]].id = m

(* The worker has still to come to connection c with its record.           *)
Ahead(c) == c \in worker.targets \cup worker.into \/ UserOf[c] \in worker.todo

Excused(m) == m \in forgotten \cup retried

Once(c) ==
    /\ \A i, j \in 1..Len(given[c]) :
          i # j /\ ~ Excused(log[given[c][i]].id) => log[given[c][j]].id # log[given[c][i]].id
    /\ \A m \in Messages : Gave(c, m) /\ ~ Excused(m) =>
          m \in seen \/ (Busy /\ Cur.id = m /\ ~ Ahead(c))

IsFirst(o, m) == o \in 1..Len(log) /\ log[o].id = m /\ \A q \in 1..(o - 1) : log[q].id # m

Served(m, c) == <<m, c>> \in dlq \/ Gave(c, m)

Owing(m, c) ==
    /\ Routed(m) /\ Open(c)
    /\ \A o \in 1..Len(log) : IsFirst(o, m) =>
          /\ UserOf[c] \in log[o].users
          /\ o \notin dropped =>
                /\ m \in seen => Served(m, c)
                /\ o < Done \/ o <= committed \/ (o = Done /\ worker.pc \in {"idle", "commit"}) =>
                      Served(m, c)
                /\ o = Done /\ Busy => Served(m, c) \/ Ahead(c) \/ c \in worker.failures

IInv ==
    /\ TypeOK
    /\ Position
    /\ WorkerOK
    /\ \A m \in seen : Routed(m)
    /\ \A c \in Conns : GivenOK(c)
    /\ \A c \in Conns : Once(c)
    /\ \A m \in Messages : \A c \in owed[m] : Owing(m, c)

-----------------------------------------------------------------------------
LEMMA Bounds == QueueSize \in Nat \ {0} /\ MaxLog \in Nat /\ MaxFaults \in Nat
BY DeliveryBounds

LEMMA Types ==
    ASSUME IInv
    PROVE  /\ log \in Seq(Record) /\ Len(log) \in Nat /\ Len(log) <= MaxLog
           /\ \A o \in 1..Len(log) : log[o] \in Record
           /\ committed \in Nat /\ fetched \in Nat /\ fetched <= Len(log)
           /\ pending \in Seq(1..Len(log)) /\ Len(pending) \in Nat
           /\ Done \in Nat /\ Done <= fetched /\ committed <= Done
           /\ worker \in WorkerType /\ worker.cur \in Nat
           /\ seen \subseteq Messages
           /\ given \in [Conns -> Seq(1..Len(log))]
           /\ owed \in [Messages -> SUBSET Conns]
           /\ faults \in Nat /\ faults <= MaxFaults
<1>1. /\ log \in Seq(Record) /\ Len(log) <= MaxLog
      /\ committed \in 0..Len(log) /\ fetched \in 0..Len(log)
      /\ pending \in Seq(1..Len(log))
  BY DEF IInv, TypeOK, ConsumerTypeOK
<1>2. Len(log) \in Nat /\ Len(pending) \in Nat
  BY <1>1
<1>3. \A o \in 1..Len(log) : log[o] \in Record
  BY <1>1
<1>4. committed \in Nat /\ fetched \in Nat /\ fetched <= Len(log)
  BY <1>1, <1>2
<1>5. Done \in Nat /\ Done <= fetched /\ committed <= Done
  BY <1>2, <1>4 DEF IInv, Position, Done
<1>6. worker \in WorkerType /\ worker.cur \in Nat
  BY Bounds DEF IInv, TypeOK, WorkerTypeOK, WorkerType
<1>7. /\ seen \subseteq Messages
      /\ given \in [Conns -> Seq(1..Len(log))]
      /\ owed \in [Messages -> SUBSET Conns]
      /\ faults \in Nat /\ faults <= MaxFaults
  BY Bounds DEF IInv, TypeOK, WorkerTypeOK
<1>8. QED
  BY <1>1, <1>2, <1>3, <1>4, <1>5, <1>6, <1>7

LEMMA InitIInv == Init => IInv
<1> SUFFICES ASSUME Init PROVE IInv
  OBVIOUS
<1> USE Bounds
<1>1. ConsumerTypeOK
  BY DEF Init, ConsumerTypeOK
<1>2. WorkerTypeOK
  BY DEF Init, WorkerTypeOK, WorkerType, WorkerSteps, IdleWorker
<1>3. ConnsTypeOK
  BY DEF Init, ConnsTypeOK
<1>4. TypeOK
  BY <1>1, <1>2, <1>3 DEF Init, TypeOK
<1>5. Position
  BY DEF Init, Position, Done, IdleWorker
<1>6. WorkerOK
  BY DEF Init, WorkerOK, Busy, IdleWorker
<1>7. \A c \in Conns : Len(given[c]) = 0
  BY DEF Init
<1>8. \A c \in Conns : GivenOK(c) /\ Once(c)
  BY <1>7 DEF GivenOK, Once, Gave
<1>9. QED
  BY <1>4, <1>5, <1>6, <1>8 DEF IInv, Init

-----------------------------------------------------------------------------
(* Connections *)

(* A connection's step ends no history but that of connections that are    *)
(* owed nothing from then on.                                              *)
LEMMA ConnStep ==
    ASSUME IInv, UNCHANGED <<consumerVars, workerVars, faults>>, ConnsTypeOK',
           given' \in [Conns -> Seq(1..Len(log))],
           \A d \in Conns : given'[d] = given[d] \/ given'[d] = <<>>,
           owed' \in [Messages -> SUBSET Conns],
           \A m \in Messages : owed'[m] \subseteq owed[m],
           \A m \in Messages : \A d \in owed'[m] : given'[d] = given[d] /\ Open(d)'
    PROVE  IInv'
<1>0. /\ log' = log /\ committed' = committed /\ fetched' = fetched /\ pending' = pending
      /\ dropped' = dropped /\ worker' = worker /\ seen' = seen /\ dlq' = dlq
      /\ retried' = retried /\ forgotten' = forgotten /\ faults' = faults
  BY DEF consumerVars, workerVars
<1>1. TypeOK'
  BY <1>0 DEF IInv, TypeOK, ConsumerTypeOK, WorkerTypeOK
<1>2. Position'
  BY <1>0 DEF IInv, Position, Done
<1>3. WorkerOK'
  BY <1>0 DEF IInv, WorkerOK, Busy, Cur
<1>4. \A m \in seen' : Routed(m)'
  BY <1>0 DEF IInv, Routed
<1>5. ASSUME NEW d \in Conns PROVE GivenOK(d)' /\ Once(d)'
  <2>1. GivenOK(d) /\ Once(d)
    BY DEF IInv
  <2>2. CASE given'[d] = given[d]
    BY <1>0, <2>1, <2>2 DEF GivenOK, Once, Gave, Done, Excused, Busy, Cur, Ahead
  <2>3. CASE given'[d] = <<>>
    <3>1. Len(given'[d]) = 0
      BY <2>3
    <3>2. QED
      BY <3>1 DEF GivenOK, Once, Gave
  <2>4. QED
    BY <2>2, <2>3
<1>6. ASSUME NEW m \in Messages, NEW d \in owed'[m] PROVE Owing(m, d)'
  <2>1. Owing(m, d) /\ given'[d] = given[d] /\ Open(d)'
    BY DEF IInv
  <2>2. QED
    BY <1>0, <2>1 DEF Owing, Routed, IsFirst, Served, Gave, Done, Busy, Ahead
<1>7. QED
  BY <1>1, <1>2, <1>3, <1>4, <1>5, <1>6 DEF IInv

LEMMA ConnTypes ==
    ASSUME IInv
    PROVE  /\ handler \in [Conns -> {"none", "ready", "reading", "unregister", "gone"}]
           /\ conns = {c \in Conns : handler[c] \notin {"none", "unregister", "gone"}}
           /\ closing \in [Conns -> {"no", "flagged", "closed"}]
           /\ queued \in [Conns -> 0..QueueSize]
           /\ given \in [Conns -> Seq(1..Len(log))]
           /\ owed \in [Messages -> SUBSET Conns]
           /\ \A m \in Messages : \A c \in owed[m] : Open(c)
BY DEF IInv, TypeOK, ConnsTypeOK, Owing

LEMMA Enqueued ==
    ASSUME IInv, NEW c \in Conns, Enqueue(c)
    PROVE  queued' \in [Conns -> 0..QueueSize]
<1>1. queued[c] \in 0..QueueSize /\ QueueSize \in Nat
  BY ConnTypes, Bounds
<1>2. ~ Full(c) => queued[c] + 1 \in 0..QueueSize
  BY <1>1 DEF Full
<1>3. QED
  BY <1>2, ConnTypes DEF Enqueue

(* The history of connection c ends. *)
LEMMA Retired ==
    ASSUME IInv, NEW c \in Conns, Retire(c)
    PROVE  /\ given' \in [Conns -> Seq(1..Len(log))]
           /\ \A d \in Conns : given'[d] = given[d] \/ given'[d] = <<>>
           /\ owed' \in [Messages -> SUBSET Conns]
           /\ \A m \in Messages : owed'[m] \subseteq owed[m]
           /\ \A m \in Messages : \A d \in owed'[m] : d # c /\ given'[d] = given[d] /\ Open(d) /\ d \in Conns
BY ConnTypes DEF Retire

LEMMA Kept ==
    ASSUME IInv, UNCHANGED <<given, owed>>
    PROVE  /\ given' \in [Conns -> Seq(1..Len(log))]
           /\ \A d \in Conns : given'[d] = given[d] \/ given'[d] = <<>>
           /\ owed' \in [Messages -> SUBSET Conns]
           /\ \A m \in Messages : owed'[m] \subseteq owed[m]
           /\ \A m \in Messages : \A d \in owed'[m] : given'[d] = given[d] /\ Open(d) /\ d \in Conns
BY ConnTypes

LEMMA ConnectionKeeps ==
    ASSUME IInv, NEW c \in Conns, Connection(c)
    PROVE  IInv'
<1>1. CASE Upgrade(c)
  <2>1. ConnsTypeOK'
    BY <1>1, ConnTypes DEF Upgrade, ConnsTypeOK
  <2>2. UNCHANGED <<consumerVars, workerVars, faults>> /\ UNCHANGED <<given, owed>>
    BY <1>1 DEF Upgrade
  <2>3. \A d \in Conns : Open(d) => Open(d)'
    BY <1>1, ConnTypes DEF Upgrade, Open
  <2>4. QED
    BY <2>1, <2>2, <2>3, Kept, ConnStep
<1>2. CASE SendReady(c)
  <2>1. ConnsTypeOK'
    BY <1>2, ConnTypes, Enqueued DEF SendReady, ConnsTypeOK
  <2>2. UNCHANGED <<consumerVars, workerVars, faults>> /\ UNCHANGED <<given, owed>>
    BY <1>2 DEF SendReady
  <2>3. \A d \in Conns : Open(d) => Open(d)'
    BY <1>2, ConnTypes DEF SendReady, Open
  <2>4. QED
    BY <2>1, <2>2, <2>3, Kept, ConnStep
<1>3. CASE Reply(c)
  <2>1. ConnsTypeOK'
    BY <1>3, ConnTypes, Enqueued DEF Reply, ConnsTypeOK
  <2>2. UNCHANGED <<consumerVars, workerVars, faults>> /\ UNCHANGED <<given, owed>>
    BY <1>3 DEF Reply
  <2>3. \A d \in Conns : Open(d) => Open(d)'
    BY <1>3 DEF Reply, Open
  <2>4. QED
    BY <2>1, <2>2, <2>3, Kept, ConnStep
<1>4. CASE ReaderLeaves(c)
  <2>1. ConnsTypeOK'
    BY <1>4, ConnTypes DEF ReaderLeaves, ConnsTypeOK
  <2>2. UNCHANGED <<consumerVars, workerVars, faults>> /\ Retire(c)
    BY <1>4 DEF ReaderLeaves
  <2>3. \A d \in Conns \ {c} : Open(d) => Open(d)'
    BY <1>4, ConnTypes DEF ReaderLeaves, Open
  <2>4. QED
    BY <2>1, <2>2, <2>3, Retired, ConnStep
<1>5. ASSUME StartClose(c) PROVE closing' \in [Conns -> {"no", "flagged", "closed"}]
                                 /\ \A d \in Conns \ {c} : closing'[d] = closing[d]
  BY <1>5, ConnTypes DEF StartClose
<1>6. CASE CloseAndReturn(c)
  <2>0. UNCHANGED <<consumerVars, workerVars, faults>>
    BY <1>6 DEF CloseAndReturn
  <2>1. CASE StartClose(c)
    <3>1. ConnsTypeOK'
      BY <1>5, <1>6, <2>1, ConnTypes DEF CloseAndReturn, ConnsTypeOK
    <3>2. Retire(c)
      BY <2>1 DEF StartClose
    <3>3. \A d \in Conns \ {c} : Open(d) => Open(d)'
      BY <1>5, <1>6, <2>1, ConnTypes DEF CloseAndReturn, Open
    <3>4. QED
      BY <2>0, <3>1, <3>2, <3>3, Retired, ConnStep
  <2>2. CASE UNCHANGED <<closing, given, owed>>
    <3>1. ConnsTypeOK'
      BY <1>6, <2>2, ConnTypes DEF CloseAndReturn, ConnsTypeOK
    <3>2. \A d \in Conns : Open(d) => Open(d)'
      BY <1>6, <2>2, ConnTypes DEF CloseAndReturn, Open
    <3>3. QED
      BY <2>0, <2>2, <3>1, <3>2, Kept, ConnStep
  <2>3. QED
    BY <1>6, <2>1, <2>2 DEF CloseAndReturn
<1>7. CASE CloseConn(c)
  <2>1. ConnsTypeOK'
    BY <1>5, <1>7, ConnTypes DEF CloseConn, ConnsTypeOK
  <2>2. UNCHANGED <<consumerVars, workerVars, faults>> /\ Retire(c)
    BY <1>7 DEF CloseConn, StartClose
  <2>3. \A d \in Conns \ {c} : Open(d) => Open(d)'
    BY <1>5, <1>7 DEF CloseConn, Open
  <2>4. QED
    BY <2>1, <2>2, <2>3, Retired, ConnStep
<1>8. CASE FinishClose(c)
  <2>1. ConnsTypeOK'
    BY <1>8, ConnTypes, Bounds DEF FinishClose, ConnsTypeOK
  <2>2. UNCHANGED <<consumerVars, workerVars, faults>> /\ UNCHANGED <<given, owed>>
    BY <1>8 DEF FinishClose
  <2>3. \A d \in Conns : Open(d) => Open(d)'
    BY <1>8, ConnTypes DEF FinishClose, Open
  <2>4. QED
    BY <2>1, <2>2, <2>3, Kept, ConnStep
<1>9. ASSUME queued[c] > 0, queued' = [queued EXCEPT ![c] = @ - 1]
      PROVE  queued' \in [Conns -> 0..QueueSize]
  <2>1. queued[c] \in 0..QueueSize /\ QueueSize \in Nat
    BY ConnTypes, Bounds
  <2>2. queued[c] - 1 \in 0..QueueSize
    BY <1>9, <2>1
  <2>3. QED
    BY <1>9, <2>2, ConnTypes
<1>10. CASE Write(c)
  <2>1. ConnsTypeOK'
    BY <1>9, <1>10, ConnTypes DEF Write, ConnsTypeOK
  <2>2. UNCHANGED <<consumerVars, workerVars, faults>> /\ UNCHANGED <<given, owed>>
    BY <1>10 DEF Write
  <2>3. \A d \in Conns : Open(d) => Open(d)'
    BY <1>10 DEF Write, Open
  <2>4. QED
    BY <2>1, <2>2, <2>3, Kept, ConnStep
<1>11. CASE WriteFails(c)
  <2>1. ConnsTypeOK'
    BY <1>5, <1>9, <1>11, ConnTypes DEF WriteFails, ConnsTypeOK
  <2>2. UNCHANGED <<consumerVars, workerVars, faults>> /\ Retire(c)
    BY <1>11 DEF WriteFails, StartClose
  <2>3. \A d \in Conns \ {c} : Open(d) => Open(d)'
    BY <1>5, <1>11 DEF WriteFails, Open
  <2>4. QED
    BY <2>1, <2>2, <2>3, Retired, ConnStep
<1>12. QED
  BY <1>1, <1>2, <1>3, <1>4, <1>6, <1>7, <1>8, <1>10, <1>11 DEF Connection

-----------------------------------------------------------------------------
(* The partition *)

(* A new record is after everything the worker has done, and is the first  *)
(* of its message only when nothing of that message was marked or owed.    *)
LEMMA PublishStep ==
    ASSUME IInv, NEW r \in Record, Len(log) < MaxLog, log' = Append(log, r),
           UNCHANGED <<committed, fetched, pending, dropped, workerVars, connVars, faults>>,
           owed' \in [Messages -> SUBSET Conns],
           \A m \in Messages : \/ owed'[m] = owed[m]
                               \/ /\ ~ Routed(m) /\ r.id = m
                                  /\ \A c \in owed'[m] : Open(c) /\ UserOf[c] \in r.users
    PROVE  IInv'
<1>0. /\ committed' = committed /\ fetched' = fetched /\ pending' = pending
      /\ dropped' = dropped /\ worker' = worker /\ seen' = seen /\ dlq' = dlq
      /\ retried' = retried /\ forgotten' = forgotten /\ faults' = faults
      /\ handler' = handler /\ conns' = conns /\ closing' = closing /\ queued' = queued
      /\ given' = given
  BY DEF workerVars, connVars
<1>1. /\ log' \in Seq(Record) /\ Len(log') = Len(log) + 1
      /\ \A o \in 1..Len(log) : log'[o] = log[o]
      /\ log'[Len(log) + 1] = r
  BY Types, AppendProperties
<1>2. Len(log) \in Nat /\ 1..Len(log) \subseteq 1..Len(log') /\ 0..Len(log) \subseteq 0..Len(log')
  BY <1>1, Types
<1>3. DOMAIN log = 1..Len(log) /\ DOMAIN log' = 1..Len(log')
  BY <1>1, Types
<1>4. TypeOK'
  <2>1. ConsumerTypeOK'
    <3>1. Len(log') <= MaxLog
      BY <1>1, <1>2, Bounds
    <3>2. pending \in Seq(1..Len(log'))
      BY <1>2, Types
    <3>3. QED
      BY <1>0, <1>1, <1>2, <3>1, <3>2 DEF IInv, TypeOK, ConsumerTypeOK
  <2>2. WorkerTypeOK' /\ ConnsTypeOK'
    BY <1>0 DEF IInv, TypeOK, WorkerTypeOK, ConnsTypeOK
  <2>3. given \in [Conns -> Seq(1..Len(log'))]
    <3>1. ASSUME NEW c \in Conns PROVE given[c] \in Seq(1..Len(log'))
      BY <1>2, Types
    <3>2. QED
      BY <3>1, Types
  <2>4. QED
    BY <1>0, <2>1, <2>2, <2>3 DEF IInv, TypeOK
<1>5. Position'
  BY <1>0, <1>2 DEF IInv, Position, Done
<1>6. Done' = Done /\ Done \in Nat /\ Done <= Len(log) /\ committed <= Done
  BY <1>0, Types DEF Done
<1>7. Busy' = Busy /\ (Busy => Cur' = Cur)
  BY <1>0, <1>1 DEF IInv, Position, Busy, Cur
<1>8. WorkerOK'
  BY <1>0, <1>7 DEF IInv, WorkerOK
<1>9. \A m : Routed(m) => Routed(m)'
  BY <1>1, <1>2, <1>3 DEF Routed
<1>10. \A c \in Conns : \A i \in 1..Len(given[c]) : log'[given[c][i]] = log[given[c][i]]
  <2>1. ASSUME NEW c \in Conns, NEW i \in 1..Len(given[c]) PROVE given[c][i] \in 1..Len(log)
    BY SMTT(30), Types
  <2>2. QED
    BY <1>1, <2>1
<1>11. \A c \in Conns : \A m \in Messages : Gave(c, m)' <=> Gave(c, m)
  BY <1>0, <1>10 DEF Gave
<1>12. ASSUME NEW c \in Conns PROVE GivenOK(c)' /\ Once(c)'
  <2>1. GivenOK(c) /\ Once(c)
    BY DEF IInv
  <2>2. GivenOK(c)'
    BY <1>0, <1>6, <1>10, <2>1 DEF GivenOK
  <2>3. \A m \in Messages : Gave(c, m)' /\ ~ Excused(m)' => (m \in seen' \/ (Busy' /\ Cur'.id = m /\ ~ Ahead(c)'))
    BY <1>0, <1>7, <1>11, <2>1 DEF Once, Excused, Ahead
  <2>4. \A i, j \in 1..Len(given[c]) :
          i # j /\ log'[given[c][i]].id \notin forgotten \cup retried =>
              log'[given[c][j]].id # log'[given[c][i]].id
    <3> SUFFICES ASSUME NEW i \in 1..Len(given[c]), NEW j \in 1..Len(given[c]), i # j,
                        log'[given[c][i]].id \notin forgotten \cup retried
                 PROVE  log'[given[c][j]].id # log'[given[c][i]].id
      OBVIOUS
    <3>1. log'[given[c][i]] = log[given[c][i]] /\ log'[given[c][j]] = log[given[c][j]]
      BY <1>10
    <3>2. log[given[c][i]].id \notin forgotten \cup retried
      BY <3>1
    <3>3. log[given[c][j]].id # log[given[c][i]].id
      BY <2>1, <3>2 DEF Once, Excused
    <3>4. QED
      BY <3>1, <3>3
  <2>5. QED
    BY <1>0, <2>2, <2>3, <2>4 DEF Once, Excused
<1>13. ASSUME NEW m \in Messages, NEW c \in owed'[m] PROVE Owing(m, c)'
  <2>0. c \in Conns
    BY DEF IInv
  <2>1. CASE owed'[m] = owed[m]
    <3>1. Owing(m, c)
      BY <2>1 DEF IInv
    <3>2. Routed(m)' /\ Open(c)'
      BY <1>0, <1>9, <3>1 DEF Owing, Open
    <3>3. PICK q \in 1..Len(log) : log[q].id = m
      BY <1>3, <3>1 DEF Owing, Routed
    <3>4. ASSUME NEW o \in 1..Len(log'), IsFirst(o, m)' PROVE o \in 1..Len(log) /\ IsFirst(o, m)
      <4>1. o # Len(log) + 1
        <5>1. log'[q].id = m /\ (o = Len(log) + 1 => q \in 1..(o - 1))
          BY <1>1, <1>2, <3>3
        <5>2. QED
          BY <3>4, <5>1 DEF IsFirst
      <4>2. o \in 1..Len(log)
        BY <1>1, <1>2, <4>1
      <4>3. \A p \in 1..(o - 1) : p \in 1..Len(log)
        BY <1>2, <4>2
      <4>4. QED
        BY <1>1, <3>4, <4>2, <4>3 DEF IsFirst
    <3>5. Served(m, c)' <=> Served(m, c)
      BY <1>0, <1>11, <2>0 DEF Served
    <3>6. ASSUME NEW o \in 1..Len(log'), IsFirst(o, m)'
          PROVE  /\ UserOf[c] \in log'[o].users
                 /\ o \notin dropped' =>
                      /\ m \in seen' => Served(m, c)'
                      /\ o < Done' \/ o <= committed' \/ (o = Done' /\ worker'.pc \in {"idle", "commit"}) =>
                            Served(m, c)'
                      /\ o = Done' /\ Busy' => Served(m, c)' \/ Ahead(c)' \/ c \in worker'.failures
      <4>1. o \in 1..Len(log) /\ IsFirst(o, m) /\ log'[o] = log[o]
        BY <1>1, <3>4, <3>6
      <4>2. Ahead(c)' <=> Ahead(c)
        BY <1>0 DEF Ahead
      <4>3. QED
        BY <1>0, <1>6, <1>7, <3>1, <3>5, <4>1, <4>2 DEF Owing
    <3>7. QED
      BY <3>2, <3>6 DEF Owing
  <2>2. CASE /\ ~ Routed(m) /\ r.id = m
             /\ Open(c) /\ UserOf[c] \in r.users
    <3>1. Routed(m)' /\ Open(c)'
      BY <1>0, <1>1, <1>2, <1>3, <2>2 DEF Routed, Open
    <3>2. m \notin seen'
      BY <1>0, <2>2 DEF IInv
    <3>3. ASSUME NEW o \in 1..Len(log'), IsFirst(o, m)' PROVE o = Len(log) + 1
      <4>1. o \notin 1..Len(log)
        BY <1>1, <1>3, <2>2, <3>3 DEF IsFirst, Routed
      <4>2. QED
        BY <1>1, <1>2, <4>1
    <3>4. \A o \in 1..Len(log') : o = Len(log) + 1 =>
             ~ (o < Done') /\ ~ (o <= committed') /\ o # Done' /\ log'[o] = r
      BY <1>0, <1>1, <1>6, <1>2, Types
    <3>5. QED
      BY <2>2, <3>1, <3>2, <3>3, <3>4 DEF Owing
  <2>3. QED
    BY <2>1, <2>2
<1>14. QED
  BY <1>0, <1>4, <1>5, <1>8, <1>9, <1>12, <1>13 DEF IInv

LEMMA PublisherKeeps ==
    ASSUME IInv, Publisher
    PROVE  IInv'
<1>1. ASSUME NEW m \in Messages, NEW us \in SUBSET Users, PublishPush(m, us) PROVE IInv'
  <2> DEFINE r == [id |-> m, users |-> us]
  <2>1. r \in Record /\ r.id = m /\ r.users = us
    BY DEF Record
  <2>2. /\ Len(log) < MaxLog /\ log' = Append(log, r)
        /\ UNCHANGED <<committed, fetched, pending, dropped, workerVars, connVars, faults>>
    BY <1>1 DEF PublishPush
  <2>3. conns \subseteq Conns /\ owed \in [Messages -> SUBSET Conns]
    BY ConnTypes
  <2> HIDE DEF r
  <2>4. owed' \in [Messages -> SUBSET Conns]
    BY <1>1, <2>3 DEF PublishPush
  <2>5. \A n \in Messages : \/ owed'[n] = owed[n]
                            \/ /\ ~ Routed(n) /\ r.id = n
                               /\ \A c \in owed'[n] : Open(c) /\ UserOf[c] \in r.users
    BY <1>1, <2>1, <2>3 DEF PublishPush
  <2>6. QED
    BY <2>1, <2>2, <2>4, <2>5, PublishStep
<1>2. CASE PublishOther
  <2>1. OtherRecord \in Record
    BY DEF Record, OtherRecord
  <2>2. /\ Len(log) < MaxLog /\ log' = Append(log, OtherRecord)
        /\ UNCHANGED <<committed, fetched, pending, dropped, workerVars, connVars, faults>>
        /\ owed' = owed
    BY <1>2 DEF PublishOther
  <2>3. QED
    BY <2>1, <2>2, Types, PublishStep
<1>3. QED
  BY <1>1, <1>2 DEF Publisher

-----------------------------------------------------------------------------
(* The consumer *)

(* A step of the idle worker that moves on: what it leaves behind was      *)
(* behind it before, or is dropped.                                        *)
LEMMA ConsumerStep ==
    ASSUME IInv, worker.pc = "idle",
           UNCHANGED <<log, committed, seen, dlq, retried, forgotten, connVars, owed>>,
           ConsumerTypeOK', WorkerTypeOK', faults' \in 0..MaxFaults, Position', WorkerOK',
           ~ Busy', Done' \in Nat, Done <= Done', dropped \subseteq dropped',
           \A o \in 1..Len(log) :
               o \notin dropped' /\ (o < Done' \/ (o = Done' /\ worker'.pc \in {"idle", "commit"}))
               => o <= Done
    PROVE  IInv'
<1>0. /\ log' = log /\ committed' = committed /\ seen' = seen /\ dlq' = dlq
      /\ retried' = retried /\ forgotten' = forgotten /\ owed' = owed
      /\ handler' = handler /\ conns' = conns /\ closing' = closing /\ queued' = queued
      /\ given' = given
  BY DEF connVars
<1>1. TypeOK'
  BY <1>0 DEF IInv, TypeOK, ConnsTypeOK
<1>2. \A m \in seen' : Routed(m)'
  BY <1>0 DEF IInv, Routed
<1>3. ~ Busy
  BY DEF Busy
<1>4. ASSUME NEW c \in Conns PROVE GivenOK(c)' /\ Once(c)'
  <2>1. GivenOK(c) /\ Once(c)
    BY DEF IInv
  <2>2. \A i \in 1..Len(given[c]) : given[c][i] \in Nat
    BY SMTT(30), Types
  <2>3. \A i \in 1..Len(given[c]) : given[c][i] <= Done'
    BY <2>1, <2>2, Types DEF GivenOK
  <2>4. GivenOK(c)'
    BY <1>0, <2>1, <2>3 DEF GivenOK
  <2>5. Once(c)'
    BY <1>0, <1>3, <2>1 DEF Once, Gave, Excused
  <2>6. QED
    BY <2>4, <2>5
<1>5. ASSUME NEW m \in Messages, NEW c \in owed'[m] PROVE Owing(m, c)'
  <2>1. Owing(m, c)
    BY <1>0 DEF IInv
  <2>2. Routed(m)' /\ Open(c)'
    BY <1>0, <2>1 DEF Owing, Routed, Open
  <2>3. Served(m, c)' <=> Served(m, c)
    BY <1>0 DEF Served, Gave
  <2>4. ASSUME NEW o \in 1..Len(log), IsFirst(o, m), o \notin dropped'
        PROVE  /\ m \in seen => Served(m, c)
               /\ o < Done' \/ o <= committed \/ (o = Done' /\ worker'.pc \in {"idle", "commit"}) =>
                     Served(m, c)
    <3>1. o \notin dropped /\ o \in Nat /\ Done \in Nat
      BY <2>4, Types
    <3>2. o <= Done => Served(m, c)
      BY <2>1, <2>4, <3>1 DEF Owing
    <3>3. QED
      BY <2>1, <2>4, <3>1, <3>2 DEF Owing
  <2>5. QED
    BY <1>0, <2>1, <2>2, <2>3, <2>4 DEF Owing, IsFirst
<1>6. QED
  BY <1>0, <1>1, <1>2, <1>4, <1>5 DEF IInv

LEMMA PollKeeps ==
    ASSUME IInv, NEW n \in 1..MaxLog, Poll(n)
    PROVE  IInv'
<1>1. /\ worker.pc = "idle" /\ pending = <<>> /\ fetched < n /\ n <= Len(log)
      /\ pending' = [i \in 1..(n - fetched) |-> fetched + i] /\ fetched' = n
      /\ log' = log /\ committed' = committed /\ dropped' = dropped /\ faults' = faults
      /\ worker' = worker /\ seen' = seen /\ dlq' = dlq /\ retried' = retried
      /\ forgotten' = forgotten
      /\ UNCHANGED <<log, committed, seen, dlq, retried, forgotten, connVars, owed>>
  BY DEF Poll, workerVars
<1>2. n \in Nat /\ fetched \in Nat /\ Len(log) \in Nat /\ n - fetched \in Nat
  BY <1>1, Types, Bounds
<1>3. Len(pending) = 0 /\ Done = fetched
  BY <1>1, <1>2 DEF Done
<1>4. pending' \in Seq(1..Len(log)) /\ Len(pending') = n - fetched
  <2>1. \A i \in 1..(n - fetched) : fetched + i \in 1..Len(log)
    BY <1>1, <1>2
  <2>2. QED
    BY <1>1, <1>2, <2>1
<1>5. Done' = Done
  BY <1>1, <1>2, <1>3, <1>4 DEF Done
<1>6. Position'
  <2>1. Len(pending') <= fetched'
    BY <1>1, <1>2, <1>4
  <2>2. \A i \in 1..Len(pending') : pending'[i] = Done' + i
    BY <1>1, <1>3, <1>4, <1>5
  <2>3. QED
    BY <1>1, <1>5, <2>1, <2>2 DEF IInv, Position
<1>7. ConsumerTypeOK'
  BY <1>1, <1>2, <1>4 DEF IInv, TypeOK, ConsumerTypeOK
<1>8. WorkerTypeOK' /\ WorkerOK' /\ ~ Busy' /\ faults' \in 0..MaxFaults
  BY <1>1 DEF IInv, TypeOK, WorkerTypeOK, WorkerOK, Busy
<1>9. \A o \in 1..Len(log) : (o < Done' \/ o = Done') => o <= Done
  BY <1>2, <1>3, <1>5
<1>10. QED
  BY <1>1, <1>2, <1>3, <1>5, <1>6, <1>7, <1>8, <1>9, ConsumerStep

LEMMA PollFailsKeeps ==
    ASSUME IInv, NEW n \in 1..MaxLog, PollFails(n)
    PROVE  IInv'
<1>1. /\ worker.pc = "idle" /\ pending = <<>> /\ fetched < n /\ n <= Len(log)
      /\ pending' = <<>> /\ fetched' = n /\ faults < MaxFaults /\ faults' = faults + 1
      /\ dropped' = dropped \cup (fetched + 1)..n
      /\ log' = log /\ committed' = committed
      /\ worker' = worker /\ seen' = seen /\ dlq' = dlq /\ retried' = retried
      /\ forgotten' = forgotten
      /\ UNCHANGED <<log, committed, seen, dlq, retried, forgotten, connVars, owed>>
  BY DEF PollFails, workerVars
<1>2. n \in Nat /\ fetched \in Nat /\ Len(log) \in Nat /\ committed \in Nat
  BY <1>1, Types, Bounds
<1>3. Len(pending) = 0 /\ Done = fetched /\ Done' = n
  BY <1>1, <1>2 DEF Done
<1>4. faults' \in 0..MaxFaults
  BY <1>1, Types, Bounds
<1>5. Position'
  <2>1. committed' <= Done'
    BY <1>1, <1>2, <1>3, Types
  <2>2. QED
    BY <1>1, <1>2, <1>3, <2>1 DEF Position
<1>6. ConsumerTypeOK'
  BY <1>1, <1>2 DEF IInv, TypeOK, ConsumerTypeOK
<1>7. WorkerTypeOK' /\ WorkerOK' /\ ~ Busy'
  BY <1>1 DEF IInv, TypeOK, WorkerTypeOK, WorkerOK, Busy
<1>8. \A o \in 1..Len(log) : o \notin dropped' /\ (o < Done' \/ o = Done') => o <= Done
  BY <1>1, <1>2, <1>3
<1>9. QED
  BY <1>1, <1>2, <1>3, <1>4, <1>5, <1>6, <1>7, <1>8, ConsumerStep

LEMMA FetchKeeps ==
    ASSUME IInv, FetchMessage
    PROVE  IInv'
<1>1. /\ worker.pc = "idle" /\ pending # <<>>
      /\ worker' = [IdleWorker EXCEPT !.pc = "handle", !.cur = Head(pending)]
      /\ pending' = Tail(pending)
      /\ fetched' = fetched /\ faults' = faults /\ dropped' = dropped
      /\ log' = log /\ committed' = committed /\ seen' = seen /\ dlq' = dlq
      /\ UNCHANGED <<log, committed, seen, dlq, retried, forgotten, connVars, owed>>
  BY DEF FetchMessage, Take
<1>2. fetched \in Nat /\ Len(log) \in Nat /\ Done \in Nat /\ Len(log) <= MaxLog
      /\ pending \in Seq(1..Len(log)) /\ fetched <= Len(log) /\ committed \in Nat
      /\ committed <= Done
  BY Types
<1>3. /\ Len(pending) \in Nat /\ Len(pending) > 0 /\ Len(pending') = Len(pending) - 1
      /\ pending' \in Seq(1..Len(log))
      /\ \A i \in 1..Len(pending') : pending'[i] = pending[i + 1]
      /\ Head(pending) = pending[1] /\ Head(pending) \in 1..Len(log)
  BY <1>1, <1>2
<1>4. Done' = Done + 1
  BY <1>1, <1>2, <1>3 DEF Done
<1>5. \A i \in 1..Len(pending) : pending[i] = Done + i
  BY DEF IInv, Position
<1>6. Head(pending) = Done'
  BY <1>3, <1>4, <1>5
<1>7. /\ worker'.pc = "handle" /\ worker'.cur = Head(pending) /\ worker'.todo = {}
      /\ worker'.targets = {} /\ worker'.into = {} /\ worker'.failures = {}
  BY <1>1 DEF IdleWorker
<1>8. Position'
  <2>1. Len(pending') <= fetched' /\ committed' <= Done'
    BY <1>1, <1>2, <1>3, <1>4 DEF Done
  <2>2. \A i \in 1..Len(pending') : pending'[i] = Done' + i
    BY <1>2, <1>3, <1>4, <1>5
  <2>3. QED
    BY <1>1, <1>3, <1>6, <1>7, <2>1, <2>2 DEF Position
<1>9. ConsumerTypeOK'
  BY <1>1, <1>3 DEF IInv, TypeOK, ConsumerTypeOK
<1>10. Head(pending) \in 0..MaxLog
  BY <1>2, <1>3, Bounds
<1>11. WorkerTypeOK'
  <2>1. worker' \in WorkerType
    BY <1>1, <1>10 DEF WorkerType, WorkerSteps, IdleWorker
  <2>2. QED
    BY <1>1, <2>1 DEF IInv, TypeOK, WorkerTypeOK
<1>12. WorkerOK' /\ ~ Busy' /\ faults' \in 0..MaxFaults
  BY <1>1, <1>7 DEF IInv, TypeOK, WorkerOK, Busy
<1>13. \A o \in 1..Len(log) : o < Done' => o <= Done
  BY <1>2, <1>4
<1>14. QED
  BY <1>1, <1>2, <1>4, <1>7, <1>8, <1>9, <1>11, <1>12, <1>13, ConsumerStep

-----------------------------------------------------------------------------
(* The worker *)

LEMMA AtDone ==
    ASSUME IInv, worker.pc # "idle"
    PROVE  Done \in 1..Len(log) /\ worker.cur = Done /\ Cur = log[Done] /\ Cur \in Record
BY Types DEF IInv, Position, Cur

(* What a step of the worker that gives nothing has to show: the messages  *)
(* given stay marked or in hand, and the connections owed are looked after. *)
LEMMA HandlingStep ==
    ASSUME IInv,
           UNCHANGED <<log, fetched, pending, dropped, connVars, owed>>,
           WorkerTypeOK', WorkerOK', faults' \in 0..MaxFaults,
           committed' \in 0..Len(log), committed' <= Done,
           worker'.pc # "idle" => worker'.cur = Done /\ Done \in 1..Len(log),
           \A m \in seen' : Routed(m),
           dlq \subseteq dlq', forgotten \subseteq forgotten', retried \subseteq retried',
           \A c \in Conns : \A m \in Messages :
               Gave(c, m) /\ m \notin forgotten' \cup retried' =>
                   m \in seen' \/ (Busy' /\ log[Done].id = m /\ ~ Ahead(c)'),
           \A m \in Messages : \A c \in owed[m] : \A o \in 1..Len(log) :
               IsFirst(o, m) /\ o \notin dropped =>
                   /\ m \in seen' => <<m, c>> \in dlq' \/ Gave(c, m)
                   /\ o <= committed' => <<m, c>> \in dlq' \/ Gave(c, m)
                   /\ (o = Done /\ worker'.pc \in {"idle", "commit"}) => <<m, c>> \in dlq' \/ Gave(c, m)
                   /\ o = Done /\ Busy' =>
                         (<<m, c>> \in dlq' \/ Gave(c, m)) \/ Ahead(c)' \/ c \in worker'.failures
    PROVE  IInv'
<1>0. /\ log' = log /\ fetched' = fetched /\ pending' = pending /\ dropped' = dropped
      /\ handler' = handler /\ conns' = conns /\ closing' = closing /\ queued' = queued
      /\ given' = given /\ owed' = owed
  BY DEF connVars
<1>1. Done' = Done
  BY <1>0 DEF Done
<1>2. TypeOK'
  BY <1>0 DEF IInv, TypeOK, ConnsTypeOK, ConsumerTypeOK
<1>3. Position'
  BY <1>0, <1>1 DEF IInv, Position
<1>4. \A m \in seen' : Routed(m)'
  BY <1>0 DEF Routed
<1>5. Busy' => Cur' = log[Done]
  BY <1>0 DEF Busy, Cur
<1>6. ASSUME NEW c \in Conns PROVE GivenOK(c)' /\ Once(c)'
  <2>1. GivenOK(c) /\ Once(c)
    BY DEF IInv
  <2>2. GivenOK(c)'
    BY <1>0, <1>1, <2>1 DEF GivenOK
  <2>3. \A m \in Messages : Gave(c, m)' <=> Gave(c, m)
    BY <1>0 DEF Gave
  <2>4. \A m \in Messages : Gave(c, m)' /\ ~ Excused(m)' =>
           (m \in seen' \/ (Busy' /\ Cur'.id = m /\ ~ Ahead(c)'))
    BY <1>5, <2>3 DEF Excused
  <2>5. \A i, j \in 1..Len(given[c]) :
          i # j /\ log[given[c][i]].id \notin forgotten' \cup retried' =>
              log[given[c][j]].id # log[given[c][i]].id
    BY <2>1 DEF Once, Excused
  <2>6. QED
    BY <1>0, <2>2, <2>4, <2>5 DEF Once, Excused
<1>7. ASSUME NEW m \in Messages, NEW c \in owed'[m] PROVE Owing(m, c)'
  <2>1. c \in owed[m] /\ Owing(m, c)
    BY <1>0 DEF IInv
  <2>2. Routed(m)' /\ Open(c)'
    BY <1>0, <2>1 DEF Owing, Routed, Open
  <2>3. Served(m, c)' <=> <<m, c>> \in dlq' \/ Gave(c, m)
    BY <1>0 DEF Served, Gave
  <2>4. Served(m, c) => Served(m, c)'
    BY <2>3 DEF Served
  <2>5. ASSUME NEW o \in 1..Len(log), IsFirst(o, m), o \notin dropped, o < Done PROVE Served(m, c)'
    BY <2>1, <2>4, <2>5 DEF Owing
  <2>6. ASSUME NEW o \in 1..Len(log), IsFirst(o, m), o \notin dropped
        PROVE  /\ m \in seen' => Served(m, c)'
               /\ o < Done \/ o <= committed' \/ (o = Done /\ worker'.pc \in {"idle", "commit"}) =>
                     Served(m, c)'
               /\ o = Done /\ Busy' => Served(m, c)' \/ Ahead(c)' \/ c \in worker'.failures
    BY <2>1, <2>3, <2>5, <2>6
  <2>7. QED
    BY <1>0, <1>1, <2>1, <2>2, <2>6 DEF Owing, IsFirst
<1>8. QED
  BY <1>0, <1>2, <1>3, <1>4, <1>6, <1>7 DEF IInv

(* What IInv says of a connection that is owed a message whose first       *)
(* record is at or before the worker's.                                    *)
LEMMA Owed ==
    ASSUME IInv, NEW m \in Messages, NEW c \in owed[m], NEW o \in 1..Len(log), IsFirst(o, m),
           o \notin dropped
    PROVE  /\ c \in Conns /\ Open(c) /\ UserOf[c] \in log[o].users /\ log[o].id = m
           /\ m \in seen => <<m, c>> \in dlq \/ Gave(c, m)
           /\ o < Done => <<m, c>> \in dlq \/ Gave(c, m)
           /\ o <= committed => <<m, c>> \in dlq \/ Gave(c, m)
           /\ o = Done /\ worker.pc \in {"idle", "commit"} => <<m, c>> \in dlq \/ Gave(c, m)
           /\ o = Done /\ Busy => (<<m, c>> \in dlq \/ Gave(c, m)) \/ Ahead(c) \/ c \in worker.failures
<1>1. Owing(m, c) /\ c \in Conns
  BY Types DEF IInv
<1>2. QED
  BY <1>1 DEF Owing, Served, IsFirst

LEMMA Marked ==
    ASSUME IInv, NEW c \in Conns, NEW m \in Messages, Gave(c, m), m \notin forgotten \cup retried
    PROVE  m \in seen \/ (Busy /\ log[Done].id = m /\ ~ Ahead(c))
<1>1. Once(c)
  BY DEF IInv
<1>2. m \in seen \/ (Busy /\ Cur.id = m /\ ~ Ahead(c))
  BY <1>1 DEF Once, Excused
<1>3. Busy => Cur = log[Done]
  BY AtDone DEF Busy
<1>4. QED
  BY <1>2, <1>3

LEMMA FirstIsBefore ==
    ASSUME IInv, NEW m, NEW o \in 1..Len(log), IsFirst(o, m), Done \in 1..Len(log), log[Done].id = m
    PROVE  o < Done \/ o = Done
<1>1. ~ (Done \in 1..(o - 1))
  BY DEF IsFirst
<1>2. QED
  BY <1>1, Types

LEMMA HandleKeeps ==
    ASSUME IInv, Handle
    PROVE  IInv'
<1>0. worker.pc = "handle" /\ ~ Busy
  BY DEF Handle, Busy
<1>1. Done \in 1..Len(log) /\ worker.cur = Done /\ Cur = log[Done] /\ Cur \in Record
  BY <1>0, AtDone
<1>2. /\ UNCHANGED <<log, fetched, pending, dropped, connVars, owed>>
      /\ log' = log /\ committed' = committed /\ seen' = seen /\ dlq' = dlq
      /\ forgotten' = forgotten /\ retried' = retried /\ faults' = faults
  BY DEF Handle, consumerVars
<1>3. /\ worker \in WorkerType /\ committed \in 0..Len(log) /\ committed <= Done
      /\ faults \in 0..MaxFaults /\ \A m \in seen : Routed(m)
  BY Types DEF IInv, TypeOK, ConsumerTypeOK
<1>4. /\ worker.targets = {} /\ worker.todo = {} /\ worker.into = {}
  BY <1>0 DEF IInv, WorkerOK
<1>5. CASE Cur.id = NoMsg \/ Cur.id \in seen
  <2>1. worker' = [worker EXCEPT !.pc = "commit"]
    BY <1>5 DEF Handle
  <2>2. /\ worker' \in WorkerType /\ worker'.pc = "commit" /\ worker'.cur = Done
        /\ worker'.targets = {} /\ worker'.todo = {} /\ worker'.into = {}
    BY <1>1, <1>3, <1>4, <2>1 DEF WorkerType, WorkerSteps
  <2>3. WorkerTypeOK' /\ WorkerOK' /\ ~ Busy'
    BY <1>2, <2>2 DEF IInv, TypeOK, WorkerTypeOK, WorkerOK, Busy
  <2>4. ASSUME NEW m \in Messages, NEW c \in owed[m], NEW o \in 1..Len(log), IsFirst(o, m),
               o \notin dropped, o = Done
        PROVE  <<m, c>> \in dlq \/ Gave(c, m)
    <3>1. log[o].id = m
      BY <2>4, Owed
    <3>2. m \in seen
      BY <1>1, <1>5, <2>4, <3>1, DeliveryConstants
    <3>3. QED
      BY <2>4, <3>2, Owed
  <2>5. QED
    BY <1>0, <1>1, <1>2, <1>3, <2>2, <2>3, <2>4, Owed, Marked, HandlingStep
<1>6. CASE ~ (Cur.id = NoMsg \/ Cur.id \in seen)
  <2>1. worker' = [worker EXCEPT !.pc = "push", !.todo = Cur.users]
    BY <1>6 DEF Handle
  <2>2. Cur.users \in SUBSET Users /\ Cur.id \in Messages
    BY <1>1, <1>6 DEF Record
  <2>3. /\ worker' \in WorkerType /\ worker'.pc = "push" /\ worker'.cur = Done
        /\ worker'.targets = {} /\ worker'.todo = log[Done].users /\ worker'.into = {}
    BY <1>1, <1>3, <1>4, <2>1, <2>2 DEF WorkerType, WorkerSteps
  <2>4. Cur' = Cur
    BY <1>1, <1>2, <2>3 DEF Cur
  <2>5. WorkerTypeOK' /\ WorkerOK' /\ Busy'
    BY <1>2, <1>6, <2>2, <2>3, <2>4 DEF IInv, TypeOK, WorkerTypeOK, WorkerOK, Busy
  <2>6. ASSUME NEW m \in Messages, NEW c \in owed[m], NEW o \in 1..Len(log), IsFirst(o, m),
               o \notin dropped, o = Done
        PROVE  Ahead(c)'
    <3>1. UserOf[c] \in log[Done].users
      BY <2>6, Owed
    <3>2. QED
      BY <2>3, <3>1 DEF Ahead
  <2>7. QED
    BY <1>0, <1>1, <1>2, <1>3, <2>3, <2>5, <2>6, Owed, Marked, HandlingStep
<1>7. QED
  BY <1>5, <1>6

LEMMA PushToUserKeeps ==
    ASSUME IInv, NEW u \in Users, PushToUser(u)
    PROVE  IInv'
<1>0. worker.pc = "push" /\ Busy /\ worker.targets = {} /\ u \in worker.todo
  BY DEF PushToUser, Busy
<1>1. Done \in 1..Len(log) /\ worker.cur = Done /\ Cur = log[Done] /\ Cur \in Record
  BY <1>0, AtDone
<1>2. /\ UNCHANGED <<log, fetched, pending, dropped, connVars, owed>>
      /\ log' = log /\ committed' = committed /\ seen' = seen /\ dlq' = dlq
      /\ forgotten' = forgotten /\ retried' = retried /\ faults' = faults
  BY DEF PushToUser, consumerVars
<1>3. /\ worker \in WorkerType /\ committed \in 0..Len(log) /\ committed <= Done
      /\ faults \in 0..MaxFaults /\ \A m \in seen : Routed(m)
  BY Types DEF IInv, TypeOK, ConsumerTypeOK
<1>4. worker.into = {} /\ Cur.id \in Messages /\ Cur.id \notin seen
  BY <1>0 DEF IInv, WorkerOK
<1>5. worker' = [worker EXCEPT !.todo = @ \ {u}, !.targets = {c \in conns : UserOf[c] = u}]
  BY DEF PushToUser
<1>6. conns \subseteq Conns /\ \A c \in Conns : Open(c) => c \in conns
  BY ConnTypes DEF Open
<1>7. /\ worker' \in WorkerType /\ worker'.pc = "push" /\ worker'.cur = Done
      /\ worker'.targets = {c \in conns : UserOf[c] = u} /\ worker'.todo = worker.todo \ {u}
      /\ worker'.into = {} /\ worker'.failures = worker.failures
  BY <1>0, <1>1, <1>3, <1>4, <1>5, <1>6 DEF WorkerType
<1>8. Cur' = Cur
  BY <1>1, <1>2, <1>7 DEF Cur
<1>9. WorkerTypeOK' /\ WorkerOK' /\ Busy'
  BY <1>2, <1>4, <1>7, <1>8 DEF IInv, TypeOK, WorkerTypeOK, WorkerOK, Busy
<1>10. \A c \in Conns : Open(c) /\ Ahead(c) => Ahead(c)'
  BY <1>0, <1>4, <1>6, <1>7 DEF Ahead
<1>11. \A c \in Conns : Ahead(c)' => Ahead(c)
  BY <1>0, <1>7 DEF Ahead
<1>12. \A m \in Messages : \A c \in owed[m] : \A o \in 1..Len(log) :
          IsFirst(o, m) /\ o \notin dropped /\ o = Done =>
              (<<m, c>> \in dlq \/ Gave(c, m)) \/ Ahead(c)' \/ c \in worker'.failures
  BY <1>0, <1>7, <1>10, Owed
<1>13. QED
  BY <1>0, <1>1, <1>2, <1>3, <1>7, <1>9, <1>11, <1>12, Owed, Marked, HandlingStep

LEMMA PushCheckKeeps ==
    ASSUME IInv, NEW d \in Conns, PushCheck(d)
    PROVE  IInv'
<1>0. worker.pc = "push" /\ Busy /\ d \in worker.targets
  BY DEF PushCheck, Busy
<1>1. Done \in 1..Len(log) /\ worker.cur = Done /\ Cur = log[Done] /\ Cur \in Record
  BY <1>0, AtDone
<1>2. /\ UNCHANGED <<log, fetched, pending, dropped, connVars, owed>>
      /\ log' = log /\ committed' = committed /\ seen' = seen /\ dlq' = dlq
      /\ forgotten' = forgotten /\ retried' = retried /\ faults' = faults
  BY DEF PushCheck, consumerVars
<1>3. /\ worker \in WorkerType /\ committed \in 0..Len(log) /\ committed <= Done
      /\ faults \in 0..MaxFaults /\ \A m \in seen : Routed(m)
  BY Types DEF IInv, TypeOK, ConsumerTypeOK
<1>4. /\ worker.into = {} /\ Cur.id \in Messages /\ Cur.id \notin seen
      /\ \A c \in worker.targets : UserOf[c] \notin worker.todo
  BY <1>0 DEF IInv, WorkerOK
<1>5. /\ worker' \in WorkerType /\ worker'.pc \in {"push", "send"} /\ worker'.cur = Done
      /\ worker'.targets = worker.targets \ {d} /\ worker'.todo = worker.todo
      /\ \/ worker'.pc = "push" /\ worker'.into = {} /\ worker'.failures = worker.failures \cup {d}
         \/ worker'.pc = "send" /\ worker'.into = {d} /\ worker'.failures = worker.failures
  <2>1. CASE worker' = [worker EXCEPT !.targets = @ \ {d}, !.failures = @ \cup {d}]
    BY <1>0, <1>1, <1>3, <1>4, <2>1 DEF WorkerType
  <2>2. CASE worker' = [worker EXCEPT !.targets = @ \ {d}, !.pc = "send", !.into = {d}]
    BY <1>0, <1>1, <1>3, <1>4, <2>2 DEF WorkerType, WorkerSteps
  <2>3. QED
    BY <2>1, <2>2 DEF PushCheck
<1>6. Cur' = Cur
  BY <1>1, <1>2, <1>5 DEF Cur
<1>7. Busy' /\ WorkerTypeOK'
  BY <1>2, <1>5 DEF IInv, TypeOK, WorkerTypeOK, Busy
<1>8. WorkerOK'
  BY <1>0, <1>2, <1>4, <1>5, <1>6 DEF WorkerOK, Busy
<1>9. \A c \in Conns : Ahead(c) => Ahead(c)' \/ c \in worker'.failures
  BY <1>4, <1>5 DEF Ahead
<1>10. \A c \in Conns : Ahead(c)' => Ahead(c)
  BY <1>0, <1>5 DEF Ahead
<1>11. \A m \in Messages : \A c \in owed[m] : \A o \in 1..Len(log) :
          IsFirst(o, m) /\ o \notin dropped /\ o = Done =>
              (<<m, c>> \in dlq \/ Gave(c, m)) \/ Ahead(c)' \/ c \in worker'.failures
  BY <1>0, <1>5, <1>9, Owed
<1>12. QED
  BY <1>0, <1>1, <1>2, <1>3, <1>5, <1>7, <1>8, <1>10, <1>11, Owed, Marked, HandlingStep

(* A message whose record was pushed to everyone has every connection that *)
(* is owed it served, or among the failures.                               *)
LEMMA AllPushed ==
    ASSUME IInv, Busy, \A c \in Conns : ~ Ahead(c),
           NEW m \in Messages, NEW c \in owed[m], NEW o \in 1..Len(log), IsFirst(o, m),
           o \notin dropped, log[Done].id = m
    PROVE  (<<m, c>> \in dlq \/ Gave(c, m)) \/ c \in worker.failures
<1>1. Done \in 1..Len(log)
  BY AtDone DEF Busy
<1>2. o < Done \/ o = Done
  BY <1>1, FirstIsBefore
<1>3. QED
  BY <1>2, Owed

LEMMA HandledKeeps ==
    ASSUME IInv, Handled
    PROVE  IInv'
<1>0. worker.pc = "push" /\ Busy /\ worker.targets = {} /\ worker.todo = {}
  BY DEF Handled, Busy
<1>1. Done \in 1..Len(log) /\ worker.cur = Done /\ Cur = log[Done] /\ Cur \in Record
  BY <1>0, AtDone
<1>2. /\ UNCHANGED <<log, fetched, pending, dropped, connVars, owed>>
      /\ log' = log /\ committed' = committed /\ dlq' = dlq
      /\ forgotten' = forgotten /\ retried' = retried /\ faults' = faults
  BY DEF Handled, consumerVars
<1>3. /\ worker \in WorkerType /\ committed \in 0..Len(log) /\ committed <= Done
      /\ faults \in 0..MaxFaults /\ \A m \in seen : Routed(m)
  BY Types DEF IInv, TypeOK, ConsumerTypeOK
<1>4. worker.into = {} /\ Cur.id \in Messages /\ Cur.id \notin seen
  BY <1>0 DEF IInv, WorkerOK
<1>5. \A c \in Conns : ~ Ahead(c)
  BY <1>0, <1>4 DEF Ahead
<1>6. CASE worker.failures = {}
  <2>1. worker' = [worker EXCEPT !.pc = "commit"] /\ seen' = seen \cup {Cur.id}
    BY <1>6 DEF Handled
  <2>2. /\ worker' \in WorkerType /\ worker'.pc = "commit" /\ worker'.cur = Done
        /\ worker'.targets = {} /\ worker'.todo = {} /\ worker'.into = {}
    BY <1>0, <1>1, <1>3, <1>4, <2>1 DEF WorkerType, WorkerSteps
  <2>3. WorkerTypeOK' /\ WorkerOK' /\ ~ Busy'
    BY <1>2, <1>4, <2>1, <2>2 DEF IInv, TypeOK, WorkerTypeOK, WorkerOK, Busy
  <2>4. Routed(Cur.id)
    BY <1>1, Types DEF Routed
  <2>5. ASSUME NEW m \in Messages, NEW c \in owed[m], NEW o \in 1..Len(log), IsFirst(o, m),
               o \notin dropped, m = Cur.id
        PROVE  <<m, c>> \in dlq \/ Gave(c, m)
    BY <1>0, <1>1, <1>5, <1>6, <2>5, AllPushed
  <2>6. \A m \in Messages : \A c \in owed[m] : \A o \in 1..Len(log) :
           IsFirst(o, m) /\ o = Done => m = Cur.id
    BY <1>1 DEF IsFirst
  <2>7. \A c \in Conns : \A m \in Messages :
           Gave(c, m) /\ m \notin forgotten' \cup retried' => m \in seen'
    BY <1>1, <1>2, <2>1, Marked
  <2>8. \A m \in seen' : Routed(m)
    BY <1>3, <2>1, <2>4
  <2>9. ASSUME NEW m \in Messages, NEW c \in owed[m], NEW o \in 1..Len(log), IsFirst(o, m),
               o \notin dropped
        PROVE  /\ m \in seen' => <<m, c>> \in dlq' \/ Gave(c, m)
               /\ o <= committed' => <<m, c>> \in dlq' \/ Gave(c, m)
               /\ o = Done => <<m, c>> \in dlq' \/ Gave(c, m)
    BY <1>2, <2>1, <2>5, <2>6, <2>9, Owed
  <2>10. QED
    BY <1>1, <1>2, <1>3, <2>1, <2>2, <2>3, <2>7, <2>8, <2>9, HandlingStep
<1>7. CASE worker.failures # {}
  <2>1. worker' = [worker EXCEPT !.pc = "dlq"] /\ seen' = seen
    BY <1>7 DEF Handled
  <2>2. /\ worker' \in WorkerType /\ worker'.pc = "dlq" /\ worker'.cur = Done
        /\ worker'.targets = {} /\ worker'.todo = {} /\ worker'.into = {}
        /\ worker'.failures = worker.failures
    BY <1>0, <1>1, <1>3, <1>4, <2>1 DEF WorkerType, WorkerSteps
  <2>3. Cur' = Cur
    BY <1>1, <1>2, <2>2 DEF Cur
  <2>4. WorkerTypeOK' /\ WorkerOK' /\ Busy'
    BY <1>2, <1>4, <2>1, <2>2, <2>3 DEF IInv, TypeOK, WorkerTypeOK, WorkerOK, Busy
  <2>5. \A c \in Conns : ~ Ahead(c)'
    BY <2>2 DEF Ahead
  <2>6. \A m \in Messages : \A c \in owed[m] : \A o \in 1..Len(log) :
          IsFirst(o, m) /\ o \notin dropped /\ o = Done =>
              (<<m, c>> \in dlq \/ Gave(c, m)) \/ c \in worker'.failures
    BY <1>0, <1>5, <2>2, Owed
  <2>7. QED
    BY <1>0, <1>1, <1>2, <1>3, <2>1, <2>2, <2>4, <2>5, <2>6, Owed, Marked, HandlingStep
<1>8. QED
  BY <1>6, <1>7

LEMMA PublishDLQKeeps ==
    ASSUME IInv, PublishDLQ
    PROVE  IInv'
<1>0. worker.pc = "dlq" /\ Busy
  BY DEF PublishDLQ, Busy
<1>1. Done \in 1..Len(log) /\ worker.cur = Done /\ Cur = log[Done] /\ Cur \in Record
  BY <1>0, AtDone
<1>2. /\ UNCHANGED <<log, fetched, pending, dropped, connVars, owed>>
      /\ log' = log /\ committed' = committed /\ dlq' = dlq \cup Reports
      /\ seen' = seen \cup {Cur.id}
      /\ worker' = [worker EXCEPT !.pc = "commit", !.failures = {}]
      /\ forgotten' = forgotten /\ retried' = retried /\ faults' = faults
  BY DEF PublishDLQ, consumerVars
<1>3. /\ worker \in WorkerType /\ committed \in 0..Len(log) /\ committed <= Done
      /\ faults \in 0..MaxFaults /\ \A m \in seen : Routed(m)
  BY Types DEF IInv, TypeOK, ConsumerTypeOK
<1>4. /\ worker.into = {} /\ worker.targets = {} /\ worker.todo = {} /\ Cur.id \in Messages
  BY <1>0 DEF IInv, WorkerOK, Busy
<1>5. \A c \in Conns : ~ Ahead(c)
  BY <1>4 DEF Ahead
<1>6. /\ worker' \in WorkerType /\ worker'.pc = "commit" /\ worker'.cur = Done
      /\ worker'.targets = {} /\ worker'.todo = {} /\ worker'.into = {}
  BY <1>0, <1>1, <1>2, <1>3, <1>4 DEF WorkerType, WorkerSteps
<1>7. Reports \subseteq Messages \X Conns /\ \A c \in worker.failures : <<Cur.id, c>> \in Reports
  <2>1. worker.failures \subseteq Conns
    BY <1>3 DEF WorkerType
  <2>2. QED
    BY <1>4, <2>1 DEF Reports
<1>8. WorkerTypeOK' /\ WorkerOK' /\ ~ Busy'
  BY <1>2, <1>4, <1>6, <1>7 DEF IInv, TypeOK, WorkerTypeOK, WorkerOK, Busy
<1>9. \A m \in seen' : Routed(m)
  <2>1. Routed(Cur.id)
    BY <1>1, Types DEF Routed
  <2>2. QED
    BY <1>2, <1>3, <2>1
<1>10. \A c \in Conns : \A m \in Messages :
          Gave(c, m) /\ m \notin forgotten' \cup retried' => m \in seen'
  BY <1>1, <1>2, Marked
<1>11. ASSUME NEW m \in Messages, NEW c \in owed[m], NEW o \in 1..Len(log), IsFirst(o, m),
              o \notin dropped, m = Cur.id
       PROVE  <<m, c>> \in dlq' \/ Gave(c, m)
  <2>1. (<<m, c>> \in dlq \/ Gave(c, m)) \/ c \in worker.failures
    BY <1>0, <1>1, <1>5, <1>11, AllPushed
  <2>2. QED
    BY <1>2, <1>7, <1>11, <2>1
<1>12. ASSUME NEW m \in Messages, NEW c \in owed[m], NEW o \in 1..Len(log), IsFirst(o, m),
              o \notin dropped
       PROVE  /\ m \in seen' => <<m, c>> \in dlq' \/ Gave(c, m)
              /\ o <= committed' => <<m, c>> \in dlq' \/ Gave(c, m)
              /\ o = Done => <<m, c>> \in dlq' \/ Gave(c, m)
  <2>1. o = Done => m = Cur.id
    BY <1>1, <1>12 DEF IsFirst
  <2>2. <<m, c>> \in dlq => <<m, c>> \in dlq'
    BY <1>2
  <2>3. QED
    BY <1>2, <1>11, <1>12, <2>1, <2>2, Owed
<1>13. QED
  BY <1>1, <1>2, <1>3, <1>6, <1>8, <1>9, <1>10, <1>12, HandlingStep

LEMMA PublishDLQFailsKeeps ==
    ASSUME IInv, PublishDLQFails
    PROVE  IInv'
<1>0. worker.pc = "dlq" /\ Busy
  BY DEF PublishDLQFails, Busy
<1>1. Done \in 1..Len(log) /\ worker.cur = Done /\ Cur = log[Done] /\ Cur \in Record
  BY <1>0, AtDone
<1>2. /\ UNCHANGED <<log, fetched, pending, dropped, connVars, owed>>
      /\ log' = log /\ committed' = committed /\ dlq' \in {dlq, dlq \cup Reports}
      /\ seen' = seen /\ retried' = retried \cup {Cur.id} /\ forgotten' = forgotten
      /\ worker' = [IdleWorker EXCEPT !.pc = "handle", !.cur = worker.cur]
      /\ faults < MaxFaults /\ faults' = faults + 1
  BY DEF PublishDLQFails, consumerVars
<1>3. /\ worker \in WorkerType /\ committed \in 0..Len(log) /\ committed <= Done
      /\ faults' \in 0..MaxFaults /\ \A m \in seen : Routed(m)
  BY <1>2, Types, Bounds DEF IInv, TypeOK, ConsumerTypeOK
<1>4. Cur.id \in Messages
  BY <1>0 DEF IInv, WorkerOK
<1>5. worker.cur \in 0..MaxLog
  BY <1>3 DEF WorkerType
<1>6. /\ worker' \in WorkerType /\ worker'.pc = "handle" /\ worker'.cur = Done
      /\ worker'.targets = {} /\ worker'.todo = {} /\ worker'.into = {}
  BY <1>1, <1>2, <1>5 DEF WorkerType, WorkerSteps, IdleWorker
<1>7. Reports \subseteq Messages \X Conns
  <2>1. worker.failures \subseteq Conns
    BY <1>3 DEF WorkerType
  <2>2. QED
    BY <1>4, <2>1 DEF Reports
<1>8. WorkerTypeOK' /\ WorkerOK' /\ ~ Busy' /\ dlq \subseteq dlq'
  BY <1>2, <1>4, <1>6, <1>7 DEF IInv, TypeOK, WorkerTypeOK, WorkerOK, Busy
<1>9. \A c \in Conns : \A m \in Messages :
          Gave(c, m) /\ m \notin forgotten' \cup retried' => m \in seen'
  BY <1>1, <1>2, Marked
<1>10. ASSUME NEW m \in Messages, NEW c \in owed[m], NEW o \in 1..Len(log), IsFirst(o, m),
              o \notin dropped
       PROVE  /\ m \in seen' => <<m, c>> \in dlq' \/ Gave(c, m)
              /\ o <= committed' => <<m, c>> \in dlq' \/ Gave(c, m)
  BY <1>2, <1>8, <1>10, Owed
<1>11. QED
  BY <1>1, <1>2, <1>3, <1>6, <1>8, <1>9, <1>10, HandlingStep

LEMMA CommitKeeps ==
    ASSUME IInv, CommitMessage
    PROVE  IInv'
<1>0. worker.pc = "commit" /\ ~ Busy
  BY DEF CommitMessage, Busy
<1>1. Done \in 1..Len(log) /\ worker.cur = Done
  BY <1>0, AtDone
<1>2. /\ UNCHANGED <<log, fetched, pending, dropped, connVars, owed>>
      /\ log' = log /\ committed' = Done /\ dlq' = dlq /\ seen' = seen
      /\ worker' = IdleWorker /\ forgotten' = forgotten /\ retried' = retried /\ faults' = faults
  BY <1>1 DEF CommitMessage
<1>3. /\ Done \in 0..Len(log) /\ Done <= Done
      /\ faults \in 0..MaxFaults /\ \A m \in seen : Routed(m)
  BY <1>1, Types DEF IInv, TypeOK
<1>4. /\ worker' \in WorkerType /\ worker'.pc = "idle"
      /\ worker'.targets = {} /\ worker'.todo = {} /\ worker'.into = {}
  BY <1>2, Bounds DEF WorkerType, WorkerSteps, IdleWorker
<1>5. WorkerTypeOK' /\ WorkerOK' /\ ~ Busy'
  BY <1>2, <1>4 DEF IInv, TypeOK, WorkerTypeOK, WorkerOK, Busy
<1>6. ASSUME NEW m \in Messages, NEW c \in owed[m], NEW o \in 1..Len(log), IsFirst(o, m),
             o \notin dropped
      PROVE  /\ m \in seen' => <<m, c>> \in dlq' \/ Gave(c, m)
             /\ o <= committed' => <<m, c>> \in dlq' \/ Gave(c, m)
             /\ o = Done => <<m, c>> \in dlq' \/ Gave(c, m)
  <2>1. o <= Done => o < Done \/ o = Done
    BY Types
  <2>2. QED
    BY <1>0, <1>2, <1>6, <2>1, Owed
<1>7. QED
  BY <1>0, <1>2, <1>3, <1>4, <1>5, <1>6, Marked, HandlingStep

LEMMA CommitFailsKeeps ==
    ASSUME IInv, CommitFails
    PROVE  IInv'
<1>0. worker.pc = "commit" /\ ~ Busy
  BY DEF CommitFails, Busy
<1>1. Done \in 1..Len(log) /\ worker.cur = Done
  BY <1>0, AtDone
<1>2. /\ UNCHANGED <<log, fetched, pending, dropped, connVars, owed>>
      /\ log' = log /\ committed' \in {committed, Done} /\ dlq' = dlq /\ seen' = seen
      /\ worker' = [worker EXCEPT !.pc = "handle"] /\ forgotten' = forgotten /\ retried' = retried
      /\ faults < MaxFaults /\ faults' = faults + 1
  BY <1>1 DEF CommitFails
<1>3. /\ committed' \in 0..Len(log) /\ committed' <= Done
      /\ faults' \in 0..MaxFaults /\ \A m \in seen : Routed(m)
  BY <1>1, <1>2, Types, Bounds DEF IInv, TypeOK, ConsumerTypeOK
<1>4. worker \in WorkerType /\ worker.into = {} /\ worker.targets = {} /\ worker.todo = {}
  BY <1>0, Types DEF IInv, WorkerOK
<1>5. /\ worker' \in WorkerType /\ worker'.pc = "handle" /\ worker'.cur = Done
      /\ worker'.targets = {} /\ worker'.todo = {} /\ worker'.into = {}
  BY <1>1, <1>2, <1>4 DEF WorkerType, WorkerSteps
<1>6. WorkerTypeOK' /\ WorkerOK' /\ ~ Busy'
  BY <1>2, <1>5 DEF IInv, TypeOK, WorkerTypeOK, WorkerOK, Busy
<1>7. ASSUME NEW m \in Messages, NEW c \in owed[m], NEW o \in 1..Len(log), IsFirst(o, m),
             o \notin dropped
      PROVE  /\ m \in seen' => <<m, c>> \in dlq' \/ Gave(c, m)
             /\ o <= committed' => <<m, c>> \in dlq' \/ Gave(c, m)
  <2>1. o <= Done => o < Done \/ o = Done
    BY Types
  <2>2. QED
    BY <1>0, <1>2, <1>7, <2>1, Owed
<1>8. QED
  BY <1>0, <1>1, <1>2, <1>3, <1>5, <1>6, <1>7, Marked, HandlingStep

LEMMA ForgetKeeps ==
    ASSUME IInv, NEW n \in Messages, Forget(n)
    PROVE  IInv'
<1>1. /\ UNCHANGED <<log, fetched, pending, dropped, connVars, owed>>
      /\ log' = log /\ committed' = committed /\ dlq' = dlq /\ seen' = seen \ {n}
      /\ worker' = worker /\ forgotten' = forgotten \cup {n} /\ retried' = retried
      /\ faults' = faults
  BY DEF Forget, consumerVars
<1>2. /\ committed \in 0..Len(log) /\ committed <= Done
      /\ faults \in 0..MaxFaults /\ \A m \in seen : Routed(m)
  BY Types DEF IInv, TypeOK, ConsumerTypeOK
<1>3. Cur' = Cur /\ (Busy' <=> Busy) /\ \A c : Ahead(c)' <=> Ahead(c)
  BY <1>1 DEF Cur, Busy, Ahead
<1>4. WorkerTypeOK' /\ WorkerOK'
  BY <1>1, <1>3 DEF IInv, TypeOK, WorkerTypeOK, WorkerOK
<1>5. worker'.pc # "idle" => worker'.cur = Done /\ Done \in 1..Len(log)
  BY <1>1, AtDone
<1>6. QED
  BY <1>1, <1>2, <1>3, <1>4, <1>5, Marked, Owed, HandlingStep

(* The only step that gives: the record in hand, to a connection that was  *)
(* not given its message unless an excuse is on record.                    *)
LEMMA PushSendKeeps ==
    ASSUME IInv, NEW d \in Conns, PushSend(d)
    PROVE  IInv'
<1>0. worker.pc = "send" /\ Busy /\ d \in worker.into /\ Enqueue(d)
  BY DEF PushSend, Busy
<1>1. Done \in 1..Len(log) /\ worker.cur = Done /\ Cur = log[Done] /\ Done \in Nat
  BY <1>0, AtDone, Types
<1>2. /\ log' = log /\ fetched' = fetched /\ pending' = pending /\ dropped' = dropped
      /\ committed' = committed /\ dlq' = dlq /\ seen' = seen /\ forgotten' = forgotten
      /\ retried' = retried /\ faults' = faults /\ handler' = handler /\ conns' = conns
      /\ closing' = closing /\ owed' = owed
  BY DEF PushSend, consumerVars
<1>3. /\ worker \in WorkerType /\ given \in [Conns -> Seq(1..Len(log))] /\ Len(log) \in Nat
      /\ \A m \in seen : Routed(m)
  BY Types DEF IInv
<1>4. /\ Cur.id \in Messages /\ Cur.id \notin seen
      /\ worker.into = {d} /\ d \notin worker.targets /\ UserOf[d] \notin worker.todo
      /\ \A c \in worker.targets : UserOf[c] \notin worker.todo
  BY <1>0 DEF IInv, WorkerOK
<1>5. /\ worker' \in WorkerType /\ worker'.pc = "push" /\ worker'.cur = Done
      /\ worker'.targets = worker.targets /\ worker'.todo = worker.todo /\ worker'.into = {}
      /\ worker'.failures = IF Full(d) THEN worker.failures \cup {d} ELSE worker.failures
  <2>1. worker' = [worker EXCEPT !.pc = "push", !.into = {},
                                 !.failures = IF Full(d) THEN @ \cup {d} ELSE @]
    BY DEF PushSend
  <2>2. QED
    BY <1>0, <1>1, <1>3, <2>1 DEF WorkerType, WorkerSteps
<1>6. Cur' = Cur /\ Busy' /\ Done' = Done
  BY <1>1, <1>2, <1>5 DEF Cur, Busy, Done
<1>7. ~ Ahead(d)' /\ Ahead(d) /\ \A c \in Conns \ {d} : Ahead(c)' <=> Ahead(c)
  BY <1>0, <1>4, <1>5 DEF Ahead
<1>8. \/ given' = given /\ (Full(d) \/ ~ Open(d))
      \/ given' = [given EXCEPT ![d] = Append(@, Done)]
  BY <1>1 DEF PushSend
<1>9. /\ \A c \in Conns \ {d} : given'[c] = given[c]
      /\ given'[d] = given[d] \/ given'[d] = Append(given[d], Done)
      /\ given'[d] = Append(given[d], Done) \/ Full(d) \/ ~ Open(d)
      /\ given' \in [Conns -> Seq(1..Len(log))]
  <2>1. Append(given[d], Done) \in Seq(1..Len(log))
    BY <1>1, <1>3
  <2>2. CASE given' = given /\ (Full(d) \/ ~ Open(d))
    BY <1>3, <2>2
  <2>3. CASE given' = [given EXCEPT ![d] = Append(@, Done)]
    BY <1>3, <2>1, <2>3
  <2>4. QED
    BY <1>8, <2>2, <2>3
<1>10. TypeOK'
  <2>1. queued' \in [Conns -> 0..QueueSize]
    BY <1>0, Enqueued
  <2>2. ConsumerTypeOK' /\ WorkerTypeOK' /\ ConnsTypeOK'
    BY <1>2, <1>5, <2>1 DEF IInv, TypeOK, ConsumerTypeOK, WorkerTypeOK, ConnsTypeOK
  <2>3. QED
    BY <1>2, <1>9, <2>2 DEF IInv, TypeOK
<1>11. Position'
  BY <1>1, <1>2, <1>5, <1>6 DEF IInv, Position
<1>12. WorkerOK'
  BY <1>2, <1>4, <1>5, <1>6 DEF WorkerOK
<1>13. \A m \in seen' : Routed(m)'
  BY <1>2, <1>3 DEF Routed
<1>14. Gave(d, Cur.id) => Cur.id \in forgotten \cup retried
  BY <1>4, <1>7, Marked
<1>15. CASE given'[d] = given[d]
  <2>1. \A c \in Conns : given'[c] = given[c]
    BY <1>9, <1>15
  <2>2. \A c \in Conns : GivenOK(c)'
    BY <1>2, <1>6, <2>1 DEF IInv, GivenOK
  <2>3. \A c \in Conns : \A m \in Messages : Gave(c, m)' <=> Gave(c, m)
    BY <1>2, <2>1 DEF Gave
  <2>4. ASSUME NEW c \in Conns PROVE Once(c)'
    <3>1. Once(c)
      BY DEF IInv
    <3>2. \A m \in Messages : Gave(c, m)' /\ ~ Excused(m)' =>
             (m \in seen' \/ (Busy' /\ Cur'.id = m /\ ~ Ahead(c)'))
      BY <1>1, <1>2, <1>6, <1>7, <2>3, Marked DEF Excused
    <3>3. QED
      BY <1>2, <2>1, <3>1, <3>2 DEF Once, Excused
  <2>5. ASSUME NEW m \in Messages, NEW c \in owed'[m] PROVE Owing(m, c)'
    <3>1. c \in owed[m] /\ Owing(m, c) /\ c \in Conns
      BY <1>2, Types DEF IInv
    <3>2. Routed(m)' /\ Open(c)' /\ Open(c)
      BY <1>2, <3>1 DEF Owing, Routed, Open
    <3>3. Served(m, c)' <=> Served(m, c)
      BY <1>2, <2>3, <3>1 DEF Served
    <3>4. Ahead(c) => Ahead(c)' \/ c \in worker'.failures
      <4>1. CASE c = d
        <5>1. Full(d)
          BY <1>9, <1>15, <3>2, <4>1, <1>3
        <5>2. QED
          BY <1>5, <4>1, <5>1
      <4>2. CASE c # d
        BY <1>7, <3>1, <4>2
      <4>3. QED
        BY <4>1, <4>2
    <3>5. c \in worker.failures => c \in worker'.failures
      BY <1>5
    <3>6. ASSUME NEW o \in 1..Len(log), IsFirst(o, m), o \notin dropped
          PROVE  /\ m \in seen => Served(m, c)
                 /\ o < Done \/ o <= committed => Served(m, c)
                 /\ o = Done => Served(m, c) \/ Ahead(c)' \/ c \in worker'.failures
      BY <1>0, <3>1, <3>4, <3>5, <3>6 DEF Owing
    <3>7. QED
      BY <1>2, <1>5, <1>6, <3>1, <3>2, <3>3, <3>6 DEF Owing, IsFirst
  <2>6. QED
    BY <1>10, <1>11, <1>12, <1>13, <2>2, <2>4, <2>5 DEF IInv
<1>16. CASE given'[d] = Append(given[d], Done)
  <2>1. /\ given[d] \in Seq(1..Len(log)) /\ Len(given[d]) \in Nat
        /\ Len(given'[d]) = Len(given[d]) + 1
        /\ given'[d][Len(given[d]) + 1] = Done
        /\ \A i \in 1..Len(given[d]) : given'[d][i] = given[d][i]
    BY <1>1, <1>3, <1>16, AppendProperties
  <2>2. \A i \in 1..Len(given'[d]) : i \in 1..Len(given[d]) \/ i = Len(given[d]) + 1
    BY <2>1
  <2>3. ASSUME NEW m \in Messages PROVE Gave(d, m)' <=> Gave(d, m) \/ m = Cur.id
    <3>1. Gave(d, m)' => Gave(d, m) \/ m = Cur.id
      BY <1>1, <1>2, <2>1, <2>2 DEF Gave
    <3>2. Gave(d, m) => Gave(d, m)'
      <4>1. 1..Len(given[d]) \subseteq 1..Len(given'[d])
        BY <2>1
      <4>2. QED
        BY <1>2, <2>1, <4>1 DEF Gave
    <3>3. m = Cur.id => Gave(d, m)'
      <4>1. Len(given[d]) + 1 \in 1..Len(given'[d])
        BY <2>1
      <4>2. QED
        BY <1>1, <1>2, <2>1, <4>1 DEF Gave
    <3>4. QED
      BY <3>1, <3>2, <3>3
  <2>4. \A c \in Conns \ {d} : \A m \in Messages : Gave(c, m)' <=> Gave(c, m)
    BY <1>2, <1>9 DEF Gave
  <2>5. ASSUME NEW c \in Conns \ {d} PROVE GivenOK(c)' /\ Once(c)'
    <3>1. Once(c) /\ GivenOK(c) /\ given'[c] = given[c]
      BY <1>9 DEF IInv
    <3>2. \A m \in Messages : Gave(c, m)' /\ ~ Excused(m)' =>
             (m \in seen' \/ (Busy' /\ Cur'.id = m /\ ~ Ahead(c)'))
      BY <1>1, <1>2, <1>6, <1>7, <2>4, Marked DEF Excused
    <3>3. QED
      BY <1>2, <1>6, <3>1, <3>2 DEF Once, GivenOK, Excused
  <2>6. GivenOK(d)'
    <3>1. GivenOK(d)
      BY DEF IInv
    <3>2. log[Done].id # NoMsg
      BY <1>1, <1>4, DeliveryConstants
    <3>3. ASSUME NEW i \in 1..Len(given'[d])
          PROVE  given'[d][i] <= Done' /\ log'[given'[d][i]].id # NoMsg
      <4>1. CASE i \in 1..Len(given[d])
        BY <1>2, <1>6, <2>1, <3>1, <4>1 DEF GivenOK
      <4>2. CASE i = Len(given[d]) + 1
        BY <1>1, <1>2, <1>6, <2>1, <3>2, <4>2
      <4>3. QED
        BY <2>2, <4>1, <4>2
    <3>4. ASSUME NEW i \in 1..Len(given'[d]), NEW j \in 1..Len(given'[d]), i < j
          PROVE  given'[d][i] <= given'[d][j]
      <4>1. i \in 1..Len(given[d])
        BY <2>1, <3>4
      <4>2. CASE j \in 1..Len(given[d])
        BY <2>1, <3>1, <3>4, <4>1, <4>2 DEF GivenOK
      <4>3. CASE j = Len(given[d]) + 1
        BY <2>1, <3>1, <4>1, <4>3 DEF GivenOK
      <4>4. QED
        BY <2>2, <4>2, <4>3
    <3>5. QED
      BY <3>3, <3>4 DEF GivenOK
  <2>7. Once(d)'
    <3>1. Once(d)
      BY DEF IInv
    <3>2. \A m \in Messages : Gave(d, m)' /\ ~ Excused(m)' =>
             (m \in seen' \/ (Busy' /\ Cur'.id = m /\ ~ Ahead(d)'))
      BY <1>2, <1>6, <1>7, <2>3, Marked DEF Excused
    <3>3. ASSUME NEW i \in 1..Len(given'[d]), NEW j \in 1..Len(given'[d]), i # j,
                 log[given'[d][i]].id \notin forgotten \cup retried
          PROVE  log[given'[d][j]].id # log[given'[d][i]].id
      <4>1. CASE i \in 1..Len(given[d]) /\ j \in 1..Len(given[d])
        BY <2>1, <3>1, <3>3, <4>1 DEF Once, Excused
      <4>2. CASE i = Len(given[d]) + 1 /\ j \in 1..Len(given[d])
        <5>1. log[given'[d][i]].id = Cur.id /\ given'[d][j] = given[d][j]
          BY <1>1, <2>1, <4>2
        <5>2. ~ Gave(d, Cur.id)
          BY <1>14, <3>3, <5>1
        <5>3. QED
          BY <4>2, <5>1, <5>2 DEF Gave
      <4>3. CASE i \in 1..Len(given[d]) /\ j = Len(given[d]) + 1
        <5>1. log[given'[d][j]].id = Cur.id /\ given'[d][i] = given[d][i]
          BY <1>1, <2>1, <4>3
        <5>2. ASSUME log[given[d][i]].id = Cur.id PROVE FALSE
          <6>1. Gave(d, Cur.id)
            BY <4>3, <5>2 DEF Gave
          <6>2. QED
            BY <1>14, <3>3, <5>1, <5>2, <6>1
        <5>3. QED
          BY <5>1, <5>2
      <4>4. QED
        BY <2>2, <3>3, <4>1, <4>2, <4>3
    <3>4. QED
      BY <1>2, <3>2, <3>3 DEF Once, Excused
  <2>8. ASSUME NEW m \in Messages, NEW c \in owed'[m] PROVE Owing(m, c)'
    <3>1. c \in owed[m] /\ Owing(m, c) /\ c \in Conns
      BY <1>2, Types DEF IInv
    <3>2. Routed(m)' /\ Open(c)'
      BY <1>2, <3>1 DEF Owing, Routed, Open
    <3>3. Served(m, c) => Served(m, c)'
      BY <1>2, <2>3, <2>4, <3>1 DEF Served
    <3>4. m = Cur.id /\ Ahead(c) => Ahead(c)' \/ Served(m, c)'
      BY <1>7, <2>3, <3>1 DEF Served
    <3>5. c \in worker.failures => c \in worker'.failures
      BY <1>5
    <3>6. ASSUME NEW o \in 1..Len(log), IsFirst(o, m), o \notin dropped
          PROVE  /\ m \in seen => Served(m, c)'
                 /\ o < Done \/ o <= committed => Served(m, c)'
                 /\ o = Done => Served(m, c)' \/ Ahead(c)' \/ c \in worker'.failures
      <4>1. o = Done => m = Cur.id
        BY <1>1, <3>6 DEF IsFirst
      <4>2. QED
        BY <1>0, <3>1, <3>3, <3>4, <3>5, <3>6, <4>1 DEF Owing
    <3>7. QED
      BY <1>2, <1>5, <1>6, <3>1, <3>2, <3>6 DEF Owing, IsFirst
  <2>9. \A c \in Conns : GivenOK(c)' /\ Once(c)'
    BY <2>5, <2>6, <2>7
  <2>10. QED
    BY <1>10, <1>11, <1>12, <1>13, <2>8, <2>9 DEF IInv
<1>17. QED
  BY <1>9, <1>15, <1>16

-----------------------------------------------------------------------------
(* The process starts again after the committed offset and owes nobody.    *)
LEMMA RestartKeeps ==
    ASSUME IInv, Restart, faults' \in 0..MaxFaults
    PROVE  IInv'
<1>1. /\ worker' = IdleWorker /\ seen' = {} /\ fetched' = committed /\ pending' = <<>>
      /\ given' = [c \in Conns |-> <<>>] /\ owed' = [m \in Messages |-> {}]
      /\ log' = log /\ committed' = committed /\ dlq' = dlq
  BY DEF Restart
<1>2. Len(pending') = 0 /\ committed \in Nat /\ Len(log) \in Nat
  BY <1>1, Types
<1>3. Done' = committed
  BY <1>1, <1>2 DEF Done
<1>4. ConsumerTypeOK'
  BY <1>1 DEF IInv, TypeOK, ConsumerTypeOK
<1>5. WorkerTypeOK'
  BY <1>1, Bounds DEF IInv, TypeOK, WorkerTypeOK, WorkerType, WorkerSteps, IdleWorker
<1>6. ConnsTypeOK'
  BY ConnTypes, Bounds DEF Restart, ConnsTypeOK
<1>7. TypeOK'
  BY <1>1, <1>4, <1>5, <1>6 DEF TypeOK
<1>8. Position'
  BY <1>1, <1>2, <1>3 DEF Position, IdleWorker
<1>9. WorkerOK'
  BY <1>1 DEF WorkerOK, Busy, IdleWorker
<1>10. \A c \in Conns : Len(given'[c]) = 0
  BY <1>1
<1>11. \A c \in Conns : GivenOK(c)' /\ Once(c)'
  BY <1>10 DEF GivenOK, Once, Gave
<1>12. QED
  BY <1>1, <1>7, <1>8, <1>9, <1>11 DEF IInv

LEMMA WorkerStepKeeps ==
    ASSUME IInv, WorkerStep
    PROVE  IInv'
<1>1. ASSUME NEW c \in Conns, PushPanics(c) PROVE IInv'
  <2>1. Restart /\ faults' \in 0..MaxFaults
    BY <1>1 DEF PushPanics, IInv, TypeOK
  <2>2. QED
    BY <2>1, RestartKeeps
<1>2. QED
  BY <1>1, PollKeeps, FetchKeeps, HandleKeeps, PushToUserKeeps, PushCheckKeeps, PushSendKeeps,
     HandledKeeps, PublishDLQKeeps, CommitKeeps DEF WorkerStep

LEMMA WorkerFaultKeeps ==
    ASSUME IInv, WorkerFault
    PROVE  IInv'
<1>1. CASE Crash
  <2>1. Restart /\ faults' \in 0..MaxFaults
    BY <1>1, Types, Bounds DEF Crash
  <2>2. QED
    BY <2>1, RestartKeeps
<1>2. QED
  BY <1>1, PollFailsKeeps, PublishDLQFailsKeeps, CommitFailsKeeps, ForgetKeeps DEF WorkerFault

LEMMA StutterKeeps ==
    ASSUME IInv, UNCHANGED vars
    PROVE  IInv'
<1>1. /\ UNCHANGED <<consumerVars, workerVars, faults>> /\ UNCHANGED <<given, owed>>
      /\ handler' = handler /\ conns' = conns /\ closing' = closing /\ queued' = queued
  BY DEF vars, connVars
<1>2. ConnsTypeOK'
  BY <1>1 DEF IInv, TypeOK, ConnsTypeOK
<1>3. \A d \in Conns : Open(d) => Open(d)'
  BY <1>1 DEF Open
<1>4. QED
  BY <1>1, <1>2, <1>3, Kept, ConnStep

LEMMA Inductive == Spec => []IInv
<1>1. ASSUME IInv, [Next]_vars PROVE IInv'
  BY <1>1, PublisherKeeps, ConnectionKeeps, WorkerStepKeeps, WorkerFaultKeeps, StutterKeeps DEF Next
<1>2. QED
  BY InitIInv, <1>1, PTL DEF Spec

-----------------------------------------------------------------------------
LEMMA LeastNumber ==
    ASSUME NEW T, T \subseteq Nat, T # {}
    PROVE  \E m \in T : \A n \in T : m <= n
<1>1. PICK x \in T : \A y \in T : ~ (<<y, x>> \in OpToRel(<, Nat))
  BY NatLessThanWellFounded, WFMin, Zenon
<1>2. \A y \in T : ~ (y < x)
  BY <1>1 DEF OpToRel
<1>3. QED
  BY <1>2

LEMMA FirstRecordIsFirst ==
    ASSUME IInv, NEW m \in Messages, Routed(m)
    PROVE  FirstRecord(m) \in 1..Len(log) /\ IsFirst(FirstRecord(m), m)
<1> DEFINE T == {o \in 1..Len(log) : log[o].id = m}
<1>1. DOMAIN log = 1..Len(log) /\ Len(log) \in Nat
  BY Types
<1>2. T # {} /\ T \subseteq Nat
  BY <1>1 DEF Routed
<1>3. PICK o \in T : \A q \in T : o <= q
  BY <1>2, LeastNumber
<1>4. \A q \in 1..(o - 1) : log[q].id # m
  BY <1>1, <1>3
<1>5. \E x \in DOMAIN log : log[x].id = m /\ \A q \in 1..(x - 1) : log[q].id # m
  BY <1>1, <1>3, <1>4
<1>6. QED
  BY <1>1, <1>5 DEF FirstRecord, IsFirst

(* Of the consumer, the deliver worker and the connections, for every      *)
(* interleaving: the types, and no write queue past its bound.             *)
THEOREM TypeCorrect == Spec => []TypeOK
<1>1. IInv => TypeOK
  BY DEF IInv
<1>2. QED
  BY <1>1, Inductive, PTL

(* The deliver worker passes over no connection: once the first record of  *)
(* a message is committed, each connection it was meant for that is still  *)
(* open was given the message or reported, for every number of users and   *)
(* connections and any sequence of retries, duplicates and crashes.        *)
THEOREM NothingMissed == Spec => []NoMissedPush
<1>1. ASSUME IInv PROVE NoMissedPush
  <2> USE <1>1
  <2>1. SUFFICES ASSUME NEW m \in Messages, Routed(m), FirstRecord(m) <= committed,
                        FirstRecord(m) \notin dropped, NEW c \in owed[m]
                 PROVE  <<m, c>> \in dlq \/ \E o \in ToSet(given[c]) : log[o].id = m
    BY DEF NoMissedPush
  <2>2. FirstRecord(m) \in 1..Len(log) /\ IsFirst(FirstRecord(m), m)
    BY <2>1, FirstRecordIsFirst
  <2>3. c \in Conns /\ (<<m, c>> \in dlq \/ Gave(c, m))
    BY <2>1, <2>2, Owed
  <2>4. DOMAIN given[c] = 1..Len(given[c])
    BY <2>3, Types
  <2>5. QED
    BY <2>3, <2>4 DEF Gave, ToSet
<1>2. QED
  BY <1>1, Inductive, PTL

(* No connection is given a message twice, unless the dedupe entry timed   *)
(* out or a report to the dead-letter topic failed.                        *)
THEOREM NothingTwice == Spec => []NoDoublePush
<1>1. ASSUME IInv PROVE NoDoublePush
  <2> USE <1>1
  <2>1. \A c \in Conns : DOMAIN given[c] = 1..Len(given[c]) /\ Once(c)
    BY Types DEF IInv
  <2>2. QED
    BY <2>1 DEF NoDoublePush, Once, Excused
<1>2. QED
  BY <1>1, Inductive, PTL

(* Each connection is given the partition's messages in the partition's    *)
(* order, through every retry of a record and every restart.               *)
THEOREM InOrder == Spec => []PushedInOrder
<1>1. ASSUME IInv PROVE PushedInOrder
  <2> USE <1>1
  <2>1. \A c \in Conns : DOMAIN given[c] = 1..Len(given[c]) /\ GivenOK(c)
    BY Types DEF IInv
  <2>2. QED
    BY <2>1 DEF PushedInOrder, GivenOK
<1>2. QED
  BY <1>1, Inductive, PTL
=============================================================================
