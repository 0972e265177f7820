----------------------------- MODULE OutboxProofs -----------------------------
(***************************************************************************)
(* Proofs about the transactional outbox, for any number of publishers,    *)
(* conversations and partitions, all bounds and either strength of lease.  *)
(*                                                                         *)
(* Two facts carry everything. Owner tokens are never reused, so a row     *)
(* that is locked is locked by at most one running publisher and is not    *)
(* terminal (OwnersDiffer, Locked). And a goroutine was started on the     *)
(* head of its conversation, and rows only ever become terminal, so the    *)
(* seqs before its own are terminal for as long as it runs, however late   *)
(* it wakes up (AtHead). InLease adds that a goroutine whose lease did not *)
(* run out still owns its row, which nobody else can then have claimed.    *)
(* For the refinement AtHead says that a goroutine works in turn, and      *)
(* Locked that an owner settles a row that was open.                       *)
(***************************************************************************)
EXTENDS Outbox, SequenceTheorems, TLAPS

(* Two publishers that run never have the same token.                      *)
OwnersDiffer ==
    \A p1, p2 \in Pubs : owner[p1] = owner[p2] /\ owner[p1] # 0 => p1 = p2

(* Tokens in rows were handed out; a locked row is not terminal.           *)
Locked ==
    \A v \in Convs : \A s \in 1..Len(rows[v]) :
        /\ rows[v][s].lockedBy <= tokens
        /\ rows[v][s].lockedBy # 0 => rows[v][s].status \in NonTerminal

(* All seqs before the one a goroutine works on are terminal.              *)
AtHead ==
    \A p \in Pubs, v \in Convs :
        task[p][v].pc # "none" =>
            \A r \in 1..(task[p][v].seq - 1) : rows[v][r].status \in Terminal

(* Records in the topics are of rows that exist.                           *)
OfRows ==
    \A v \in Convs, s \in 1..MaxSeq :
        (\E q \in Partitions : Pushed(q, v, s)) \/ <<v, s>> \in dlq => s <= Len(rows[v])

(* What a goroutine has behind it: the partitions it is done with have the *)
(* message or swallowed it, and a dead letter is written before MarkDead.  *)
Done ==
    \A p \in Pubs, v \in Convs :
        /\ task[p][v].pc \in {"push", "published"} =>
              \A q \in task[p][v].parts \ task[p][v].todo :
                  \/ Pushed(q, v, task[p][v].seq)
                  \/ <<q, v, task[p][v].seq>> \in swallowed
        /\ task[p][v].pc = "published" => task[p][v].todo = {}
        /\ task[p][v].pc = "dead" => <<v, task[p][v].seq>> \in dlq

(* As long as no lease of the conversation overran, its goroutine owns its *)
(* row and the row is not due.                                             *)
InLease ==
    \A p \in Pubs, v \in Convs :
        task[p][v].pc # "none" /\ v \notin overran =>
            /\ Owned(p, v)
            /\ ~ rows[v][task[p][v].seq].due

IInv ==
    /\ TypeOK
    /\ OwnersDiffer
    /\ Locked
    /\ AtHead
    /\ Done
    /\ InLease
    /\ OfRows
    /\ HeadOfLine
    /\ FinalStatusIsTrue
    /\ PushInOrderInLease

-----------------------------------------------------------------------------
(* What a step of the goroutine of p for conversation v may do to the rows, *)
(* the goroutines and the push topic, written pointwise.                   *)

RowBecomes(v, s, row) ==
    /\ rows' \in [Convs -> Seq(RowType)]
    /\ \A w \in Convs : Len(rows'[w]) = Len(rows[w])
    /\ \A w \in Convs : \A r \in 1..Len(rows[w]) :
          rows'[w][r] = IF w = v /\ r = s THEN row ELSE rows[w][r]

TaskBecomes(p, v, t) ==
    /\ task' \in [Pubs -> [Convs -> TaskType]]
    /\ \A a \in Pubs, w \in Convs : task'[a][w] = IF a = p /\ w = v THEN t ELSE task[a][w]

PushGrows(v, s) ==
    /\ push' \in [Partitions -> Seq(Convs \X (1..MaxSeq))]
    /\ \A q \in Partitions : push'[q] = push[q] \/ push'[q] = Append(push[q], <<v, s>>)

(* The record is in the topic after the step.                              *)
PushedNext(q, v, s) == \E i \in 1..Len(push'[q]) : push'[q][i] = <<v, s>>

(* The row stays, or its owner gives it a status.                          *)
RowMayBecome(p, v, s, row) ==
    \/ row = rows[v][s]
    \/ /\ rows[v][s].lockedBy = owner[p]
       /\ row.status # "Pending"
       /\ row.lockedBy \in {0, owner[p]}
       /\ row.lockedBy # 0 => row.status \in NonTerminal
       /\ row.status = "Published" =>
             \A q \in row.parts : PushedNext(q, v, s) \/ <<q, v, s>> \in swallowed'
       /\ row.status = "Dead" => <<v, s>> \in dlq'

(* The goroutine goes on with the same row, keeping the lease, or ends.    *)
TaskMayBecome(p, v, s, row, t) ==
    t.pc # "none" =>
        /\ t.seq = s
        /\ row.lockedBy = rows[v][s].lockedBy
        /\ row.due => rows[v][s].due
        /\ t.pc \in {"push", "published"} =>
              \A q \in t.parts \ t.todo : PushedNext(q, v, s) \/ <<q, v, s>> \in swallowed'
        /\ t.pc = "published" => t.todo = {}
        /\ t.pc = "dead" => <<v, s>> \in dlq'

-----------------------------------------------------------------------------
(* Updating one element of a function of sequences. *)
LEMMA RowUpdate ==
    ASSUME RowsOK, NEW v \in Convs, NEW s \in 1..Len(rows[v]), NEW row \in RowType,
           rows' = [rows EXCEPT ![v][s] = row]
    PROVE  RowBecomes(v, s, row)
<1>1. rows[v] \in Seq(RowType)
  BY DEF RowsOK
<1>2. /\ [rows[v] EXCEPT ![s] = row] \in Seq(RowType)
      /\ Len([rows[v] EXCEPT ![s] = row]) = Len(rows[v])
      /\ \A r \in 1..Len(rows[v]) :
            [rows[v] EXCEPT ![s] = row][r] = IF r = s THEN row ELSE rows[v][r]
  BY <1>1, ExceptSeq
<1>3. rows' = [rows EXCEPT ![v] = [rows[v] EXCEPT ![s] = row]]
  OBVIOUS
<1>4. QED
  BY <1>2, <1>3 DEF RowsOK, RowBecomes

LEMMA RowStays ==
    ASSUME RowsOK, NEW v \in Convs, NEW s, rows' = rows
    PROVE  RowBecomes(v, s, rows[v][s])
BY DEF RowsOK, RowBecomes

LEMMA TaskUpdate ==
    ASSUME TasksOK, NEW p \in Pubs, NEW v \in Convs, NEW t \in TaskType,
           task' = [task EXCEPT ![p][v] = t]
    PROVE  TaskBecomes(p, v, t)
BY DEF TasksOK, TaskBecomes

LEMMA PushStays ==
    ASSUME TopicsOK, NEW v, NEW s, push' = push
    PROVE  PushGrows(v, s)
BY DEF TopicsOK, PushGrows

LEMMA PushAppend ==
    ASSUME TopicsOK, NEW v \in Convs, NEW s \in 1..MaxSeq, NEW q \in Partitions,
           push' = [push EXCEPT ![q] = Append(@, <<v, s>>)]
    PROVE  PushGrows(v, s)
<1>1. push[q] \in Seq(Convs \X (1..MaxSeq)) /\ <<v, s>> \in Convs \X (1..MaxSeq)
  BY DEF TopicsOK
<1>2. Append(push[q], <<v, s>>) \in Seq(Convs \X (1..MaxSeq))
  BY <1>1, AppendProperties
<1>3. QED
  BY <1>2 DEF TopicsOK, PushGrows

(* The push topic only grows, by records of the row at hand. *)
LEMMA PushedAfter ==
    ASSUME TopicsOK, NEW v \in Convs, NEW s \in 1..MaxSeq, PushGrows(v, s),
           NEW q \in Partitions, NEW w, NEW r
    PROVE  /\ Pushed(q, w, r) => PushedNext(q, w, r)
           /\ PushedNext(q, w, r) => Pushed(q, w, r) \/ <<w, r>> = <<v, s>>
<1>1. push[q] \in Seq(Convs \X (1..MaxSeq)) /\ <<v, s>> \in Convs \X (1..MaxSeq)
  BY DEF TopicsOK
<1>2. CASE push'[q] = push[q]
  BY <1>2 DEF Pushed, PushedNext
<1>3. CASE push'[q] = Append(push[q], <<v, s>>)
  <2>1. /\ Len(push'[q]) = Len(push[q]) + 1
        /\ \A i \in 1..Len(push[q]) : push'[q][i] = push[q][i]
        /\ push'[q][Len(push[q]) + 1] = <<v, s>>
    BY <1>1, <1>3, AppendProperties
  <2>2. Len(push[q]) \in Nat
    BY <1>1
  <2>3. Pushed(q, w, r) => PushedNext(q, w, r)
    BY <2>1, <2>2 DEF Pushed, PushedNext
  <2>4. ASSUME NEW i \in 1..Len(push'[q]), push'[q][i] = <<w, r>>
        PROVE  Pushed(q, w, r) \/ <<w, r>> = <<v, s>>
    BY SMTT(30), <2>1, <2>2, <2>4 DEF Pushed, PushedNext
  <2>5. QED
    BY <2>3, <2>4 DEF Pushed, PushedNext
<1>4. QED
  BY <1>2, <1>3 DEF PushGrows

(* A record of the last seq pushed, or of a later one, keeps the order. *)
LEMMA InOrderAfter ==
    ASSUME TopicsOK, NEW v \in Convs, NEW s \in 1..MaxSeq, PushGrows(v, s), InOrder(v),
           \A q \in Partitions : \A i \in 1..Len(push[q]) : push[q][i][1] = v => push[q][i][2] <= s
    PROVE  InOrder(v)'
<1> SUFFICES ASSUME NEW q \in Partitions, NEW i \in 1..Len(push'[q]), NEW j \in 1..Len(push'[q]),
                    i < j, push'[q][i][1] = v, push'[q][j][1] = v
             PROVE  push'[q][i][2] <= push'[q][j][2]
  BY DEF InOrder
<1>1. /\ push[q] \in Seq(Convs \X (1..MaxSeq)) /\ Len(push[q]) \in Nat
      /\ <<v, s>> \in Convs \X (1..MaxSeq)
  BY DEF TopicsOK
<1>2. CASE push'[q] = push[q]
  BY <1>2 DEF InOrder
<1>3. CASE push'[q] = Append(push[q], <<v, s>>)
  <2>1. /\ Len(push'[q]) = Len(push[q]) + 1
        /\ \A k \in 1..Len(push[q]) : push'[q][k] = push[q][k]
        /\ push'[q][Len(push[q]) + 1] = <<v, s>>
    BY <1>1, <1>3, AppendProperties
  <2>2. i \in 1..Len(push[q])
    BY <1>1, <2>1
  <2>3. CASE j \in 1..Len(push[q])
    BY <2>1, <2>2, <2>3 DEF InOrder
  <2>4. CASE j = Len(push[q]) + 1
    BY <2>1, <2>2, <2>4
  <2>5. QED
    BY <1>1, <2>1, <2>3, <2>4
<1>4. QED
  BY <1>2, <1>3 DEF PushGrows

(* And records of one conversation do not disturb another. *)
LEMMA InOrderOthers ==
    ASSUME TopicsOK, NEW v \in Convs, NEW s \in 1..MaxSeq, PushGrows(v, s),
           NEW w \in Convs \ {v}, InOrder(w)
    PROVE  InOrder(w)'
<1> SUFFICES ASSUME NEW q \in Partitions, NEW i \in 1..Len(push'[q]), NEW j \in 1..Len(push'[q]),
                    i < j, push'[q][i][1] = w, push'[q][j][1] = w
             PROVE  push'[q][i][2] <= push'[q][j][2]
  BY DEF InOrder
<1>1. /\ push[q] \in Seq(Convs \X (1..MaxSeq)) /\ Len(push[q]) \in Nat
      /\ <<v, s>> \in Convs \X (1..MaxSeq)
  BY DEF TopicsOK
<1>2. CASE push'[q] = push[q]
  BY <1>2 DEF InOrder
<1>3. CASE push'[q] = Append(push[q], <<v, s>>)
  <2>1. /\ Len(push'[q]) = Len(push[q]) + 1
        /\ \A k \in 1..Len(push[q]) : push'[q][k] = push[q][k]
        /\ push'[q][Len(push[q]) + 1] = <<v, s>>
    BY SMTT(30), <1>1, <1>3, AppendProperties
  <2>2. push'[q][Len(push[q]) + 1][1] # w
    BY <2>1
  <2>3. i # Len(push[q]) + 1 /\ j # Len(push[q]) + 1
    BY <2>2
  <2>4. i \in 1..Len(push[q]) /\ j \in 1..Len(push[q])
    BY SMTT(30), <1>1, <2>1, <2>3
  <2>5. QED
    BY <2>1, <2>4 DEF InOrder
<1>4. QED
  BY <1>2, <1>3 DEF PushGrows

-----------------------------------------------------------------------------
(* One step of a goroutine, whichever: it may do to its row and to itself  *)
(* what RowMayBecome and TaskMayBecome allow, and to the topics only add.  *)
GoroutineStep(p, v, s, row, t) ==
    /\ task[p][v].pc # "none" /\ task[p][v].seq = s
    /\ row \in RowType /\ t \in TaskType
    /\ RowBecomes(v, s, row)
    /\ TaskBecomes(p, v, t)
    /\ PushGrows(v, s)
    /\ dlq' \in {dlq, dlq \cup {<<v, s>>}}
    /\ \/ swallowed' = swallowed
       \/ \E q \in Partitions : swallowed' = swallowed \cup {<<q, v, s>>}
    /\ RowMayBecome(p, v, s, row)
    /\ TaskMayBecome(p, v, s, row, t)
    /\ UNCHANGED <<slotVars, overran>>
    /\ faults' \in 0..MaxFaults

LEMMA GoroutineStepKeeps ==
    ASSUME IInv, NEW p \in Pubs, NEW v \in Convs, NEW s, NEW row, NEW t,
           GoroutineStep(p, v, s, row, t)
    PROVE  IInv'
<1>0. /\ s = task[p][v].seq /\ s \in 1..Len(rows[v]) /\ s \in 1..MaxSeq /\ s \in Nat
      /\ owner[p] # 0 /\ owner[p] \in Nat
      /\ Len(rows[v]) \in Nat
      /\ task[p][v].pc # "none"
      /\ row \in RowType /\ t \in TaskType
      /\ rows[v][s] \in RowType
  BY OutboxBounds DEF IInv, TypeOK, TasksOK, RowsOK, SlotOK, GoroutineStep
<1>a. /\ RowBecomes(v, s, row) /\ TaskBecomes(p, v, t) /\ PushGrows(v, s)
      /\ RowMayBecome(p, v, s, row)
      /\ TaskMayBecome(p, v, s, row, t)
      /\ UNCHANGED <<slotVars, overran>>
      /\ dlq \subseteq dlq' /\ dlq' \subseteq dlq \cup {<<v, s>>}
      /\ swallowed \subseteq swallowed'
      /\ swallowed' \subseteq Partitions \X Convs \X (1..MaxSeq)
      /\ faults' \in 0..MaxFaults
  BY <1>0 DEF GoroutineStep, IInv, TypeOK, TopicsOK
<1>b. \A q \in Partitions : \A w, r :
          /\ Pushed(q, w, r) => PushedNext(q, w, r)
          /\ PushedNext(q, w, r) => Pushed(q, w, r) \/ (w = v /\ r = s)
  BY <1>0, <1>a, PushedAfter DEF IInv, TypeOK
<1>c. \A w \in Convs : \A r \in 1..Len(rows[w]) :
          /\ w # v \/ r # s => rows'[w][r] = rows[w][r]
          /\ rows[w][r].status \in Terminal => rows'[w][r] = rows[w][r]
  <2>1. rows[v][s].status \in Terminal => row = rows[v][s]
    BY <1>0, <1>a DEF RowMayBecome, IInv, Locked, Terminal, NonTerminal
  <2>2. QED
    BY <1>0, <1>a, <2>1 DEF RowBecomes
<1>1. TypeOK'
  <2>1. RowsOK'
    BY <1>a DEF RowBecomes, RowsOK, IInv, TypeOK
  <2>2. SlotOK'
    BY <1>a DEF slotVars, SlotOK, IInv, TypeOK
  <2>3. TasksOK'
    <3>1. task' \in [Pubs -> [Convs -> TaskType]]
      BY <1>a DEF TaskBecomes
    <3>2. ASSUME NEW a \in Pubs, NEW w \in Convs, task'[a][w].pc # "none"
          PROVE  owner'[a] # 0 /\ task'[a][w].seq \in 1..Len(rows'[w])
      <4>1. CASE a = p /\ w = v
        BY <1>0, <1>a, <3>2, <4>1 DEF TaskBecomes, TaskMayBecome, RowBecomes, slotVars
      <4>2. CASE ~ (a = p /\ w = v)
        BY <1>a, <3>2, <4>2 DEF TaskBecomes, RowBecomes, slotVars, IInv, TypeOK, TasksOK
      <4>3. QED
        BY <4>1, <4>2
    <3>3. QED
      BY <3>1, <3>2 DEF TasksOK
  <2>4. TopicsOK'
    BY <1>0, <1>a DEF PushGrows, TopicsOK, IInv, TypeOK
  <2>5. QED
    BY <2>1, <2>2, <2>3, <2>4 DEF TypeOK
<1>2. OwnersDiffer'
  BY <1>a DEF IInv, OwnersDiffer, slotVars
<1>3. Locked'
  <2> SUFFICES ASSUME NEW w \in Convs, NEW r \in 1..Len(rows'[w])
               PROVE  /\ rows'[w][r].lockedBy <= tokens'
                      /\ rows'[w][r].lockedBy # 0 => rows'[w][r].status \in NonTerminal
    BY DEF Locked
  <2>1. r \in 1..Len(rows[w])
    BY <1>a DEF RowBecomes
  <2>2. CASE w = v /\ r = s
    BY SMTT(30), <1>0, <1>a, <2>1, <2>2 DEF RowBecomes, RowMayBecome, IInv, Locked, TypeOK, SlotOK, slotVars
  <2>3. CASE ~ (w = v /\ r = s)
    BY <1>a, <1>c, <2>1, <2>3 DEF IInv, Locked, slotVars
  <2>4. QED
    BY <2>2, <2>3
<1>4. AtHead'
  <2> SUFFICES ASSUME NEW a \in Pubs, NEW w \in Convs, task'[a][w].pc # "none",
                      NEW r \in 1..(task'[a][w].seq - 1)
               PROVE  rows'[w][r].status \in Terminal
    BY DEF AtHead
  <2>1. task[a][w].pc # "none" /\ task'[a][w].seq = task[a][w].seq
    BY <1>0, <1>a DEF TaskBecomes, TaskMayBecome
  <2>2. rows[w][r].status \in Terminal
    BY <2>1 DEF IInv, AtHead
  <2>3. r \in 1..Len(rows[w])
    BY <2>1 DEF IInv, TypeOK, TasksOK, RowsOK
  <2>4. QED
    BY <1>c, <2>2, <2>3
<1>5. Done'
  <2> SUFFICES ASSUME NEW a \in Pubs, NEW w \in Convs
               PROVE  /\ task'[a][w].pc \in {"push", "published"} =>
                            \A q \in task'[a][w].parts \ task'[a][w].todo :
                                \/ PushedNext(q, w, task'[a][w].seq)
                                \/ <<q, w, task'[a][w].seq>> \in swallowed'
                      /\ task'[a][w].pc = "published" => task'[a][w].todo = {}
                      /\ task'[a][w].pc = "dead" => <<w, task'[a][w].seq>> \in dlq'
    BY DEF Done, Pushed, PushedNext
  <2>1. CASE a = p /\ w = v
    <3>1. task'[a][w] = t
      BY <1>a, <2>1 DEF TaskBecomes
    <3>2. t.pc # "none" => t.seq = s
      BY <1>a DEF TaskMayBecome
    <3>3. QED
      BY <1>a, <2>1, <3>1, <3>2 DEF TaskMayBecome
  <2>2. CASE ~ (a = p /\ w = v)
    <3>1. task'[a][w] = task[a][w] /\ task[a][w] \in TaskType
      BY <1>a, <2>2 DEF TaskBecomes, IInv, TypeOK, TasksOK
    <3>2. task[a][w].parts \subseteq Partitions
      BY <3>1 DEF TaskType
    <3>3. QED
      BY <1>a, <1>b, <3>1, <3>2 DEF IInv, Done
  <2>3. QED
    BY <2>1, <2>2
<1>6. InLease'
  <2> SUFFICES ASSUME NEW a \in Pubs, NEW w \in Convs, task'[a][w].pc # "none", w \notin overran'
               PROVE  /\ rows'[w][task'[a][w].seq].lockedBy = owner'[a]
                      /\ ~ rows'[w][task'[a][w].seq].due
    BY DEF InLease, Owned
  <2>0. /\ task[a][w].pc # "none" /\ task'[a][w].seq = task[a][w].seq
        /\ task[a][w].seq \in 1..Len(rows[w]) /\ owner[a] # 0 /\ owner'[a] = owner[a]
        /\ w \notin overran
    BY <1>0, <1>a DEF TaskBecomes, TaskMayBecome, slotVars, IInv, TypeOK, TasksOK
  <2>1. rows[w][task[a][w].seq].lockedBy = owner[a] /\ ~ rows[w][task[a][w].seq].due
    BY <2>0 DEF IInv, InLease, Owned
  <2>2. CASE a = p /\ w = v
    <3>1. rows'[w][task'[a][w].seq] = row /\ t.pc # "none"
      BY <1>0, <1>a, <2>0, <2>2 DEF RowBecomes, TaskBecomes
    <3>2. QED
      BY <1>0, <1>a, <2>0, <2>1, <2>2, <3>1 DEF TaskMayBecome, RowType
  <2>3. CASE a # p /\ w = v
    <3>1. CASE task[a][w].seq = s
      <4>1. rows[v][s].lockedBy # owner[p]
        BY <2>0, <2>1, <2>3, <3>1 DEF IInv, OwnersDiffer
      <4>2. row = rows[v][s]
        BY <1>a, <4>1 DEF RowMayBecome
      <4>3. QED
        BY <1>a, <2>0, <2>1, <2>3, <3>1, <4>2 DEF RowBecomes
    <3>2. CASE task[a][w].seq # s
      BY <1>c, <2>0, <2>1, <3>2
    <3>3. QED
      BY <3>1, <3>2
  <2>4. CASE w # v
    BY <1>c, <2>0, <2>1, <2>4
  <2>5. QED
    BY <2>2, <2>3, <2>4
<1>7. HeadOfLine'
  <2> SUFFICES ASSUME NEW w \in Convs, NEW r \in 1..Len(rows'[w]), Begun(w, r)',
                      NEW e \in 1..(r - 1)
               PROVE  rows'[w][e].status \in Terminal
    BY DEF HeadOfLine
  <2>1. r \in 1..Len(rows[w]) /\ e \in 1..Len(rows[w]) /\ Len(rows[w]) \in Nat
    BY <1>a DEF RowBecomes, IInv, TypeOK, RowsOK
  <2>2. CASE w = v /\ r = s
    <3>1. rows[w][e].status \in Terminal
      BY <1>0, <2>2 DEF IInv, AtHead
    <3>2. QED
      BY <1>c, <2>1, <3>1
  <2>3. CASE ~ (w = v /\ r = s)
    <3>1. \/ rows'[w][r].status # "Pending"
          \/ \E q \in Partitions : PushedNext(q, w, r)
          \/ <<w, r>> \in dlq'
      BY DEF Begun, Pushed, PushedNext
    <3>2. Begun(w, r)
      BY <1>a, <1>b, <1>c, <2>1, <2>3, <3>1 DEF Begun
    <3>3. rows[w][e].status \in Terminal
      BY <2>1, <3>2 DEF IInv, HeadOfLine
    <3>4. QED
      BY <1>c, <2>1, <3>3
  <2>4. QED
    BY <2>2, <2>3
<1>8. FinalStatusIsTrue'
  <2> SUFFICES ASSUME NEW w \in Convs, NEW r \in 1..Len(rows'[w])
               PROVE  /\ rows'[w][r].status = "Published" =>
                            \A q \in rows'[w][r].parts :
                                PushedNext(q, w, r) \/ <<q, w, r>> \in swallowed'
                      /\ rows'[w][r].status = "Dead" => <<w, r>> \in dlq'
    BY DEF FinalStatusIsTrue, Pushed, PushedNext
  <2>1. r \in 1..Len(rows[w]) /\ rows[w][r] \in RowType
    BY <1>a DEF RowBecomes, IInv, TypeOK, RowsOK
  <2>2. CASE rows'[w][r] = rows[w][r]
    <3>1. rows[w][r].parts \subseteq Partitions
      BY <2>1 DEF RowType
    <3>2. QED
      BY <1>a, <1>b, <2>1, <2>2, <3>1 DEF IInv, FinalStatusIsTrue
  <2>3. CASE rows'[w][r] # rows[w][r]
    <3>1. w = v /\ r = s /\ rows'[w][r] = row
      BY <1>a, <1>c, <2>1, <2>3 DEF RowBecomes
    <3>2. QED
      BY <1>a, <2>3, <3>1 DEF RowMayBecome
  <2>4. QED
    BY <2>2, <2>3
<1>9. PushInOrderInLease'
  <2> SUFFICES ASSUME NEW w \in Convs \ overran
               PROVE  InOrder(w)'
    BY <1>a DEF PushInOrderInLease
  <2>1. InOrder(w)
    BY DEF IInv, PushInOrderInLease
  <2>2. CASE w # v
    BY <1>0, <1>a, <2>1, <2>2, InOrderOthers DEF IInv, TypeOK
  <2>3. CASE w = v
    <3>1. rows[v][s].status \notin Terminal
      BY <1>0, <2>3 DEF IInv, InLease, Owned, Locked, Terminal, NonTerminal
    <3>2. ASSUME NEW q \in Partitions, NEW i \in 1..Len(push[q]), push[q][i][1] = v
          PROVE  push[q][i][2] <= s
      <4>1. push[q][i] \in Convs \X (1..MaxSeq)
        BY DEF IInv, TypeOK, TopicsOK
      <4>2. push[q][i] = <<v, push[q][i][2]>> /\ push[q][i][2] \in 1..MaxSeq
        BY <3>2, <4>1
      <4>3. Pushed(q, v, push[q][i][2])
        BY <4>2 DEF Pushed, PushedNext
      <4>4. CASE push[q][i][2] \in 1..Len(rows[v])
        <5>1. Begun(v, push[q][i][2])
          BY <4>3 DEF Begun
        <5>2. \A e \in 1..(push[q][i][2] - 1) : rows[v][e].status \in Terminal
          BY <4>4, <5>1 DEF IInv, HeadOfLine
        <5>3. QED
          BY SMTT(30), <1>0, <3>1, <4>2, <5>2, OutboxBounds
      <4>5. push[q][i][2] <= Len(rows[v])
        BY <4>2, <4>3 DEF IInv, OfRows
      <4>6. QED
        BY <1>0, <4>2, <4>4, <4>5, OutboxBounds
    <3>3. QED
      BY <1>0, <1>a, <2>1, <2>3, <3>2, InOrderAfter DEF IInv, TypeOK
  <2>4. QED
    BY <2>2, <2>3
<1>10. OfRows'
  <2> SUFFICES ASSUME NEW w \in Convs, NEW r \in 1..MaxSeq,
                      (\E q \in Partitions : PushedNext(q, w, r)) \/ <<w, r>> \in dlq'
               PROVE  r <= Len(rows'[w])
    BY DEF OfRows, Pushed, PushedNext
  <2>1. (w = v /\ r = s) \/ (\E q \in Partitions : Pushed(q, w, r)) \/ <<w, r>> \in dlq
    BY <1>a, <1>b
  <2>2. QED
    BY <1>0, <1>a, <2>1 DEF RowBecomes, IInv, OfRows
<1>11. QED
  BY <1>1, <1>2, <1>3, <1>4, <1>5, <1>6, <1>7, <1>8, <1>9, <1>10 DEF IInv

-----------------------------------------------------------------------------
(* Every step of publishOne is such a step. *)
LEMMA PublishOneSteps ==
    ASSUME IInv, NEW p \in Pubs, NEW v \in Convs, NEW s, s = task[p][v].seq, PublishOne(p, v)
    PROVE  \E row, t : GoroutineStep(p, v, s, row, t)
<1> DEFINE old == rows[v][s]
           cur == task[p][v]
<1>0. /\ RowsOK /\ SlotOK /\ TasksOK /\ TopicsOK
      /\ cur \in TaskType
      /\ NoTask \in TaskType /\ NoTask.pc = "none"
  BY DEF IInv, TypeOK, TasksOK, NoTask, TaskType, TaskSteps
<1>1. cur.pc # "none"
  BY DEF PublishOne, routeTargets, RouteFails, PublishPush, PublishPushSwallowed, PublishPushFails,
         MarkPublished, MarkFailed, PublishDLQ, PublishDLQFails, RetryDLQ, MarkDead, UpdateFails, At
<1>2. /\ s \in 1..Len(rows[v]) /\ s \in 1..MaxSeq
      /\ owner[p] # 0 /\ owner[p] \in Nat
      /\ old \in RowType
      /\ faults \in 0..MaxFaults
  BY <1>0, <1>1, OutboxBounds DEF TasksOK, RowsOK, SlotOK
<1>3. \A q \in Partitions : \A w, r : PushGrows(v, s) /\ Pushed(q, w, r) => PushedNext(q, w, r)
  BY <1>0, <1>2, PushedAfter
<1>4. cur.todo \subseteq Partitions /\ cur.parts \subseteq Partitions
  BY <1>0 DEF TaskType
<1>5. /\ cur.pc \in {"push", "published"} =>
            \A q \in cur.parts \ cur.todo : Pushed(q, v, s) \/ <<q, v, s>> \in swallowed
      /\ cur.pc = "published" => cur.todo = {}
      /\ cur.pc = "dead" => <<v, s>> \in dlq
  BY DEF IInv, Done
<1>6. old.lockedBy = owner[p] => old.status \in NonTerminal
  BY <1>2 DEF IInv, Locked
<1> HIDE DEF old, cur
<1>r. ASSUME NEW targets \in SUBSET Partitions, routeTargets(p, v, targets)
      PROVE  \E row, t : GoroutineStep(p, v, s, row, t)
  <2> DEFINE t == [cur EXCEPT !.pc = IF targets = {} THEN "published" ELSE "push",
                              !.todo = targets, !.parts = targets]
  <2>1. t \in TaskType /\ t.seq = s /\ t.todo = targets /\ t.parts = targets
        /\ t.pc = IF targets = {} THEN "published" ELSE "push"
    BY <1>0 DEF TaskType, TaskSteps, cur
  <2>2. task' = [task EXCEPT ![p][v] = t]
    BY <1>r, <1>0 DEF routeTargets, cur, TasksOK
  <2>3. TaskBecomes(p, v, t)
    BY <1>0, <2>1, <2>2, TaskUpdate
  <2>4. RowBecomes(v, s, old)
    BY <1>r, <1>0, RowStays DEF routeTargets, old
  <2>5. PushGrows(v, s)
    BY <1>r, <1>0, PushStays DEF routeTargets
  <2> HIDE DEF t
  <2>6. TaskMayBecome(p, v, s, old, t)
    BY <2>1 DEF TaskMayBecome, old
  <2>7. GoroutineStep(p, v, s, old, t)
    BY <1>r, <1>1, <1>2, <2>1, <2>3, <2>4, <2>5, <2>6
       DEF GoroutineStep, routeTargets, RowMayBecome, slotVars, history, cur, old
  <2>8. QED
    BY <2>7
<1>a. ASSUME RouteFails(p, v)
      PROVE  \E row, t : GoroutineStep(p, v, s, row, t)
  <2> DEFINE t == [cur EXCEPT !.pc = "fail"]
  <2>1. t \in TaskType /\ t.seq = s /\ t.pc = "fail"
    BY <1>0 DEF TaskType, TaskSteps, cur
  <2>2. TaskBecomes(p, v, t)
    BY <1>a, <1>0, <2>1, TaskUpdate DEF RouteFails, Become, cur
  <2>3. RowBecomes(v, s, old) /\ PushGrows(v, s)
    BY <1>a, <1>0, RowStays, PushStays DEF RouteFails, old
  <2> HIDE DEF t
  <2>4. GoroutineStep(p, v, s, old, t)
    BY <1>a, <1>1, <1>2, <2>1, <2>2, <2>3
       DEF GoroutineStep, RouteFails, RowMayBecome, TaskMayBecome, slotVars, history, cur, old
  <2>5. QED
    BY <2>4
<1>b. ASSUME NEW q \in Partitions, PublishPush(p, v, q) \/ PublishPushSwallowed(p, v, q)
      PROVE  \E row, t : GoroutineStep(p, v, s, row, t)
  <2> DEFINE t == [cur EXCEPT !.todo = @ \ {q},
                              !.pc = IF cur.todo = {q} THEN "published" ELSE "push"]
  <2>1. /\ t \in TaskType /\ t.seq = s /\ t.todo = cur.todo \ {q} /\ t.parts = cur.parts
        /\ t.pc = IF cur.todo = {q} THEN "published" ELSE "push"
    BY <1>0 DEF TaskType, TaskSteps, cur
  <2>2. TaskBecomes(p, v, t)
    <3>1. Sent(p, v, q)
      BY <1>b DEF PublishPush, PublishPushSwallowed
    <3>2. task' = [task EXCEPT ![p][v] = t]
      BY <1>0, <3>1 DEF Sent, cur, TasksOK
    <3>3. QED
      BY <1>0, <2>1, <3>2, TaskUpdate
  <2>3. RowBecomes(v, s, old)
    BY <1>b, <1>0, RowStays DEF PublishPush, PublishPushSwallowed, old
  <2>4. PushGrows(v, s)
    BY <1>b, <1>0, <1>2, PushAppend, PushStays DEF PublishPush, PublishPushSwallowed, AppendPush
  <2>5. /\ cur.pc = "push" /\ UNCHANGED <<slotVars, dlq, overran, faults>>
        /\ \/ swallowed' = swallowed
           \/ swallowed' = swallowed \cup {<<q, v, s>>}
    BY <1>b DEF PublishPush, PublishPushSwallowed, At, history, cur
  <2>6. PushedNext(q, v, s) \/ <<q, v, s>> \in swallowed'
    <3>1. CASE PublishPush(p, v, q)
      <4>1. push[q] \in Seq(Convs \X (1..MaxSeq)) /\ <<v, s>> \in Convs \X (1..MaxSeq)
        BY <1>0, <1>2 DEF TopicsOK
      <4>2. push'[q] = Append(push[q], <<v, s>>)
        BY <1>0, <3>1 DEF PublishPush, AppendPush, TopicsOK
      <4>3. Len(push'[q]) = Len(push[q]) + 1 /\ push'[q][Len(push[q]) + 1] = <<v, s>>
        BY <4>1, <4>2, AppendProperties
      <4>4. Len(push[q]) \in Nat
        BY <4>1
      <4>5. QED
        BY <4>3, <4>4 DEF PushedNext
    <3>2. CASE PublishPushSwallowed(p, v, q)
      BY <3>2 DEF PublishPushSwallowed
    <3>3. QED
      BY <1>b, <3>1, <3>2
  <2> HIDE DEF t
  <2>7. \A x \in t.parts \ t.todo : PushedNext(x, v, s) \/ <<x, v, s>> \in swallowed'
    BY <1>3, <1>4, <1>5, <2>1, <2>4, <2>5, <2>6
  <2>8. t.pc = "published" => t.todo = {}
    BY <2>1
  <2>9. TaskMayBecome(p, v, s, old, t)
    BY <2>1, <2>7, <2>8 DEF TaskMayBecome, old
  <2>10. GoroutineStep(p, v, s, old, t)
    BY <1>1, <1>2, <2>1, <2>2, <2>3, <2>4, <2>5, <2>9
       DEF GoroutineStep, RowMayBecome, slotVars, cur, old
  <2>11. QED
    BY <2>10
<1>c. ASSUME NEW q \in Partitions, PublishPushFails(p, v, q)
      PROVE  \E row, t : GoroutineStep(p, v, s, row, t)
  <2> DEFINE t == [cur EXCEPT !.pc = "fail"]
  <2>1. t \in TaskType /\ t.seq = s /\ t.pc = "fail"
    BY <1>0 DEF TaskType, TaskSteps, cur
  <2>2. TaskBecomes(p, v, t)
    BY <1>c, <1>0, <2>1, TaskUpdate DEF PublishPushFails, Become, cur
  <2>3. RowBecomes(v, s, old)
    BY <1>c, <1>0, RowStays DEF PublishPushFails, old
  <2>4. PushGrows(v, s)
    BY <1>c, <1>0, <1>2, PushAppend, PushStays DEF PublishPushFails, AppendPush
  <2> HIDE DEF t
  <2>5. GoroutineStep(p, v, s, old, t)
    BY <1>c, <1>1, <1>2, <2>1, <2>2, <2>3, <2>4
       DEF GoroutineStep, PublishPushFails, RowMayBecome, TaskMayBecome, slotVars, history, cur, old
  <2>6. QED
    BY <2>5
<1>d. ASSUME MarkPublished(p, v)
      PROVE  \E row, t : GoroutineStep(p, v, s, row, t)
  <2> DEFINE new == [old EXCEPT !.status = "Published", !.lockedBy = 0, !.parts = cur.parts]
  <2>1. /\ new \in RowType /\ new.status = "Published" /\ new.lockedBy = 0 /\ new.parts = cur.parts
    BY <1>2, <1>4 DEF RowType, Terminal
  <2>2. TaskBecomes(p, v, NoTask)
    BY <1>d, <1>0, TaskUpdate DEF MarkPublished, Finish
  <2>3. PushGrows(v, s) /\ UNCHANGED <<slotVars, dlq, history, faults>> /\ cur.pc = "published"
    BY <1>d, <1>0, PushStays DEF MarkPublished, At, cur
  <2>4. CASE Owned(p, v)
    <3>1. RowBecomes(v, s, new)
      BY <1>d, <1>0, <1>2, <2>1, <2>4, RowUpdate DEF MarkPublished, SetRow, cur, old
    <3> HIDE DEF new
    <3>2. \A q \in new.parts : PushedNext(q, v, s) \/ <<q, v, s>> \in swallowed'
      BY <1>3, <1>4, <1>5, <2>1, <2>3 DEF history
    <3>3. GoroutineStep(p, v, s, new, NoTask)
      BY <1>0, <1>1, <1>2, <2>1, <2>2, <2>3, <2>4, <3>1, <3>2
         DEF GoroutineStep, RowMayBecome, TaskMayBecome, Owned, slotVars, history, cur, old
    <3>4. QED
      BY <3>3
  <2>5. CASE ~ Owned(p, v)
    <3>1. RowBecomes(v, s, old)
      BY <1>d, <1>0, <2>5, RowStays DEF MarkPublished, old
    <3>2. GoroutineStep(p, v, s, old, NoTask)
      BY <1>0, <1>1, <1>2, <2>2, <2>3, <3>1
         DEF GoroutineStep, RowMayBecome, TaskMayBecome, slotVars, history, cur, old
    <3>3. QED
      BY <3>2
  <2>6. QED
    BY <2>4, <2>5
<1>e. ASSUME MarkFailed(p, v)
      PROVE  \E row, t : GoroutineStep(p, v, s, row, t)
  <2> DEFINE toDLQ == [old EXCEPT !.status = "DLQPending", !.retries = @ + 1, !.due = FALSE]
             again == [old EXCEPT !.status = "Retrying", !.retries = @ + 1,
                                  !.due = FALSE, !.lockedBy = 0]
             t == [cur EXCEPT !.pc = "dlq"]
  <2>1. /\ toDLQ \in RowType /\ toDLQ.status = "DLQPending" /\ ~ toDLQ.due
        /\ toDLQ.lockedBy = old.lockedBy
        /\ again \in RowType /\ again.status = "Retrying" /\ again.lockedBy = 0
    <3>1. old.retries + 1 \in Nat
      BY <1>2 DEF RowType
    <3>2. toDLQ \in RowType /\ toDLQ.status = "DLQPending" /\ ~ toDLQ.due
      BY <1>2, <3>1 DEF RowType, NonTerminal
    <3>3. toDLQ.lockedBy = old.lockedBy
      BY <1>2 DEF RowType
    <3>4. again \in RowType /\ again.status = "Retrying" /\ again.lockedBy = 0
      BY <1>2, <3>1 DEF RowType, NonTerminal
    <3>5. QED
      BY <3>2, <3>3, <3>4
  <2>2. t \in TaskType /\ t.seq = s /\ t.pc = "dlq"
    BY <1>0 DEF TaskType, TaskSteps, cur
  <2>3. PushGrows(v, s) /\ UNCHANGED <<slotVars, dlq, history, faults>>
    BY <1>e, <1>0, PushStays DEF MarkFailed
  <2>4. \/ /\ old.lockedBy = owner[p]
           /\ rows' = [rows EXCEPT ![v][s] = toDLQ]
           /\ task' = [task EXCEPT ![p][v] = t]
        \/ /\ old.lockedBy = owner[p]
           /\ rows' = [rows EXCEPT ![v][s] = again]
           /\ task' = [task EXCEPT ![p][v] = NoTask]
        \/ rows' = rows /\ task' = [task EXCEPT ![p][v] = NoTask]
    BY <1>e DEF MarkFailed, SetRow, Become, Finish, Owned, cur, old
  <2> HIDE DEF toDLQ, again, t
  <2>5. CASE /\ old.lockedBy = owner[p]
             /\ rows' = [rows EXCEPT ![v][s] = toDLQ]
             /\ task' = [task EXCEPT ![p][v] = t]
    <3>1. RowBecomes(v, s, toDLQ) /\ TaskBecomes(p, v, t)
      BY <1>0, <1>2, <2>1, <2>2, <2>5, RowUpdate, TaskUpdate
    <3>2. GoroutineStep(p, v, s, toDLQ, t)
      BY <1>1, <1>2, <2>1, <2>2, <2>3, <2>5, <3>1
         DEF GoroutineStep, RowMayBecome, TaskMayBecome, slotVars, history, cur, old, NonTerminal
    <3>3. QED
      BY <3>2
  <2>6. CASE /\ old.lockedBy = owner[p]
             /\ rows' = [rows EXCEPT ![v][s] = again]
             /\ task' = [task EXCEPT ![p][v] = NoTask]
    <3>1. RowBecomes(v, s, again) /\ TaskBecomes(p, v, NoTask)
      BY <1>0, <1>2, <2>1, <2>2, <2>6, RowUpdate, TaskUpdate
    <3>2. GoroutineStep(p, v, s, again, NoTask)
      BY <1>0, <1>1, <1>2, <2>1, <2>3, <2>6, <3>1
         DEF GoroutineStep, RowMayBecome, TaskMayBecome, slotVars, history, cur, old, NonTerminal
    <3>3. QED
      BY <3>2
  <2>7. CASE rows' = rows /\ task' = [task EXCEPT ![p][v] = NoTask]
    <3>1. RowBecomes(v, s, old) /\ TaskBecomes(p, v, NoTask)
      BY <1>0, <2>7, RowStays, TaskUpdate DEF old
    <3>2. GoroutineStep(p, v, s, old, NoTask)
      BY <1>0, <1>1, <1>2, <2>3, <3>1
         DEF GoroutineStep, RowMayBecome, TaskMayBecome, slotVars, history, cur, old
    <3>3. QED
      BY <3>2
  <2>8. QED
    BY <2>4, <2>5, <2>6, <2>7
<1>f. ASSUME PublishDLQ(p, v) \/ PublishDLQFails(p, v)
      PROVE  \E row, t : GoroutineStep(p, v, s, row, t)
  <2> DEFINE t == [cur EXCEPT !.pc = IF PublishDLQ(p, v) THEN "dead" ELSE "retryDLQ"]
  <2>1. /\ t \in TaskType /\ t.seq = s
        /\ t.pc = IF PublishDLQ(p, v) THEN "dead" ELSE "retryDLQ"
    BY <1>0 DEF TaskType, TaskSteps, cur
  <2>2. task' = [task EXCEPT ![p][v] = t]
    BY <1>f DEF PublishDLQ, PublishDLQFails, Become, cur
  <2>3. TaskBecomes(p, v, t)
    BY <1>0, <2>1, <2>2, TaskUpdate
  <2>4. RowBecomes(v, s, old) /\ PushGrows(v, s)
    BY <1>f, <1>0, RowStays, PushStays DEF PublishDLQ, PublishDLQFails, old
  <2> HIDE DEF t
  <2>5. /\ dlq' \in {dlq, dlq \cup {<<v, s>>}} /\ UNCHANGED <<slotVars, history, faults>>
        /\ PublishDLQ(p, v) => <<v, s>> \in dlq'
    BY <1>f DEF PublishDLQ, PublishDLQFails
  <2>6. TaskMayBecome(p, v, s, old, t)
    BY <2>1, <2>5 DEF TaskMayBecome, old
  <2>7. GoroutineStep(p, v, s, old, t)
    BY <1>1, <1>2, <2>1, <2>3, <2>4, <2>5, <2>6
       DEF GoroutineStep, RowMayBecome, slotVars, history, cur, old
  <2>8. QED
    BY <2>7
<1>g. ASSUME RetryDLQ(p, v) \/ MarkDead(p, v)
      PROVE  \E row, t : GoroutineStep(p, v, s, row, t)
  <2> DEFINE again == [old EXCEPT !.due = FALSE, !.lockedBy = 0]
             dead == [old EXCEPT !.status = "Dead", !.lockedBy = 0]
  <2>1. /\ again \in RowType /\ again.status = old.status /\ again.lockedBy = 0
        /\ dead \in RowType /\ dead.status = "Dead" /\ dead.lockedBy = 0
    BY <1>2 DEF RowType, Terminal
  <2>2. TaskBecomes(p, v, NoTask)
    BY <1>g, <1>0, TaskUpdate DEF RetryDLQ, MarkDead, Finish
  <2>3. PushGrows(v, s) /\ UNCHANGED <<slotVars, dlq, history, faults>>
    BY <1>g, <1>0, PushStays DEF RetryDLQ, MarkDead
  <2>4. \/ rows' = rows
        \/ /\ old.lockedBy = owner[p] /\ old.status = "DLQPending"
           /\ rows' = [rows EXCEPT ![v][s] = again]
        \/ /\ old.lockedBy = owner[p] /\ <<v, s>> \in dlq
           /\ rows' = [rows EXCEPT ![v][s] = dead]
    BY <1>g, <1>5 DEF RetryDLQ, MarkDead, SetRow, Owned, At, cur, old
  <2> HIDE DEF again, dead
  <2>5. CASE rows' = rows
    <3>1. RowBecomes(v, s, old)
      BY <1>0, <2>5, RowStays DEF old
    <3>2. GoroutineStep(p, v, s, old, NoTask)
      BY <1>0, <1>1, <1>2, <2>2, <2>3, <3>1
         DEF GoroutineStep, RowMayBecome, TaskMayBecome, slotVars, history, cur, old
    <3>3. QED
      BY <3>2
  <2>6. CASE /\ old.lockedBy = owner[p] /\ old.status = "DLQPending"
             /\ rows' = [rows EXCEPT ![v][s] = again]
    <3>1. RowBecomes(v, s, again)
      BY <1>0, <1>2, <2>1, <2>6, RowUpdate
    <3>2. GoroutineStep(p, v, s, again, NoTask)
      BY <1>0, <1>1, <1>2, <2>1, <2>2, <2>3, <2>6, <3>1
         DEF GoroutineStep, RowMayBecome, TaskMayBecome, slotVars, history, cur, old, NonTerminal
    <3>3. QED
      BY <3>2
  <2>7. CASE /\ old.lockedBy = owner[p] /\ <<v, s>> \in dlq
             /\ rows' = [rows EXCEPT ![v][s] = dead]
    <3>1. RowBecomes(v, s, dead)
      BY <1>0, <1>2, <2>1, <2>7, RowUpdate
    <3>2. GoroutineStep(p, v, s, dead, NoTask)
      BY <1>0, <1>1, <1>2, <2>1, <2>2, <2>3, <2>7, <3>1
         DEF GoroutineStep, RowMayBecome, TaskMayBecome, slotVars, history, cur, old, NonTerminal
    <3>3. QED
      BY <3>2
  <2>8. QED
    BY <2>4, <2>5, <2>6, <2>7
<1>h. ASSUME UpdateFails(p, v)
      PROVE  \E row, t : GoroutineStep(p, v, s, row, t)
  <2>1. TaskBecomes(p, v, NoTask)
    BY <1>h, <1>0, TaskUpdate DEF UpdateFails, Finish
  <2>2. RowBecomes(v, s, old) /\ PushGrows(v, s)
    BY <1>h, <1>0, RowStays, PushStays DEF UpdateFails, old
  <2>3. faults' \in 0..MaxFaults
    BY <1>h, <1>2, OutboxBounds DEF UpdateFails
  <2>4. GoroutineStep(p, v, s, old, NoTask)
    BY <1>h, <1>0, <1>1, <1>2, <2>1, <2>2, <2>3
       DEF UpdateFails, GoroutineStep, RowMayBecome, TaskMayBecome, slotVars, history, cur, old
  <2>5. QED
    BY <2>4
<1>7. QED
  BY <1>r, <1>a, <1>b, <1>c, <1>d, <1>e, <1>f, <1>g, <1>h DEF PublishOne

-----------------------------------------------------------------------------
(* The initial states. *)
LEMMA InitIInv == Init => IInv
<1> SUFFICES ASSUME Init PROVE IInv
  OBVIOUS
<1> USE DEF Init
<1>1. \A v \in Convs : Len(rows[v]) = 0
  OBVIOUS
<1>2. \A q \in Partitions : Len(push[q]) = 0
  OBVIOUS
<1>3. TypeOK
  BY <1>1, OutboxBounds DEF TypeOK, RowsOK, SlotOK, TasksOK, TopicsOK, NoTask, TaskType, TaskSteps
<1>4. OwnersDiffer /\ Locked /\ AtHead /\ Done /\ InLease
  BY <1>1 DEF OwnersDiffer, Locked, AtHead, Done, InLease, NoTask
<1>5. OfRows
  BY <1>2 DEF OfRows, Pushed
<1>6. HeadOfLine /\ FinalStatusIsTrue
  BY <1>1 DEF HeadOfLine, FinalStatusIsTrue
<1>7. PushInOrderInLease
  BY <1>2 DEF PushInOrderInLease, InOrder
<1>8. QED
  BY <1>3, <1>4, <1>5, <1>6, <1>7 DEF IInv

(* A new row: nothing of it is in a topic yet. *)
LEMMA PersistKeeps ==
    ASSUME IInv, NEW v \in Convs, NEW bad \in BOOLEAN, Persist(v, bad)
    PROVE  IInv'
<1> DEFINE new == [status |-> "Pending", lockedBy |-> 0, retries |-> 0,
                   due |-> TRUE, bad |-> bad, parts |-> {}]
<1>0. /\ rows \in [Convs -> Seq(RowType)]
      /\ \A w \in Convs : Len(rows[w]) \in Nat /\ Len(rows[w]) <= MaxSeq
  BY DEF IInv, TypeOK, RowsOK
<1>1. new \in RowType /\ new.status = "Pending" /\ new.lockedBy = 0
  BY DEF RowType, NonTerminal
<1>2. /\ rows' = [rows EXCEPT ![v] = Append(rows[v], new)]
      /\ Len(rows[v]) < MaxSeq
      /\ UNCHANGED <<slotVars, task, push, dlq, history, faults>>
  BY DEF Persist
<1> HIDE DEF new
<1>3. /\ Append(rows[v], new) \in Seq(RowType)
      /\ Len(Append(rows[v], new)) = Len(rows[v]) + 1
      /\ \A r \in 1..Len(rows[v]) : Append(rows[v], new)[r] = rows[v][r]
      /\ Append(rows[v], new)[Len(rows[v]) + 1] = new
  BY <1>0, <1>1, AppendProperties
<1>4. /\ rows' \in [Convs -> Seq(RowType)]
      /\ \A w \in Convs : Len(rows'[w]) = IF w = v THEN Len(rows[w]) + 1 ELSE Len(rows[w])
      /\ \A w \in Convs : \A r \in 1..Len(rows[w]) : rows'[w][r] = rows[w][r]
      /\ rows'[v][Len(rows[v]) + 1] = new
  BY <1>0, <1>2, <1>3
<1>5. \A w \in Convs : \A r \in 1..Len(rows'[w]) :
          r \in 1..Len(rows[w]) \/ (w = v /\ r = Len(rows[v]) + 1)
  BY <1>0, <1>4
<1>6. TypeOK'
  <2>1. RowsOK'
    BY <1>0, <1>2, <1>4, OutboxBounds DEF RowsOK
  <2>2. SlotOK' /\ TopicsOK'
    BY <1>2 DEF IInv, TypeOK, SlotOK, TopicsOK, slotVars, history
  <2>3. TasksOK'
    BY <1>0, <1>2, <1>4 DEF IInv, TypeOK, TasksOK, slotVars
  <2>4. QED
    BY <2>1, <2>2, <2>3 DEF TypeOK
<1>7. OwnersDiffer'
  BY <1>2 DEF IInv, OwnersDiffer, slotVars
<1>8. Locked'
  BY <1>1, <1>2, <1>4, <1>5 DEF IInv, Locked, slotVars, TypeOK, SlotOK
<1>9. AtHead'
  <2> SUFFICES ASSUME NEW a \in Pubs, NEW w \in Convs, task[a][w].pc # "none",
                      NEW r \in 1..(task[a][w].seq - 1)
               PROVE  rows'[w][r].status \in Terminal
    BY <1>2 DEF AtHead
  <2>1. r \in 1..Len(rows[w])
    BY <1>0 DEF IInv, TypeOK, TasksOK
  <2>2. QED
    BY <1>4, <2>1 DEF IInv, AtHead
<1>10. Done'
  BY <1>2 DEF IInv, Done, Pushed, history
<1>11. InLease'
  <2> SUFFICES ASSUME NEW a \in Pubs, NEW w \in Convs, task[a][w].pc # "none", w \notin overran
               PROVE  /\ rows'[w][task[a][w].seq].lockedBy = owner[a]
                      /\ ~ rows'[w][task[a][w].seq].due
    BY ZenonT(40), <1>2 DEF InLease, Owned, slotVars, history
  <2>1. task[a][w].seq \in 1..Len(rows[w])
    BY DEF IInv, TypeOK, TasksOK
  <2>2. QED
    BY <1>4, <2>1 DEF IInv, InLease, Owned
<1>12. OfRows'
  <2> SUFFICES ASSUME NEW w \in Convs, NEW r \in 1..MaxSeq,
                      (\E q \in Partitions : Pushed(q, w, r)) \/ <<w, r>> \in dlq
               PROVE  r <= Len(rows'[w])
    BY <1>2 DEF OfRows, Pushed
  <2>1. r <= Len(rows[w])
    BY DEF IInv, OfRows
  <2>2. QED
    BY <1>0, <1>4, <2>1, OutboxBounds
<1>13. HeadOfLine'
  <2> SUFFICES ASSUME NEW w \in Convs, NEW r \in 1..Len(rows'[w]), Begun(w, r)',
                      NEW e \in 1..(r - 1)
               PROVE  rows'[w][e].status \in Terminal
    BY DEF HeadOfLine
  <2>1. \/ rows'[w][r].status # "Pending"
        \/ \E q \in Partitions : Pushed(q, w, r)
        \/ <<w, r>> \in dlq
    BY <1>2 DEF Begun, Pushed
  <2>2. CASE r \in 1..Len(rows[w])
    <3>1. Begun(w, r)
      BY <1>4, <2>1, <2>2 DEF Begun
    <3>2. rows[w][e].status \in Terminal
      BY <2>2, <3>1 DEF IInv, HeadOfLine
    <3>3. e \in 1..Len(rows[w])
      BY <1>0, <2>2
    <3>4. QED
      BY <1>4, <3>2, <3>3
  <2>3. CASE w = v /\ r = Len(rows[v]) + 1
    <3>1. r \in 1..MaxSeq /\ ~ (r <= Len(rows[v]))
      BY <1>0, <1>2, <2>3, OutboxBounds
    <3>2. rows'[w][r].status = "Pending"
      BY <1>1, <1>4, <2>3
    <3>3. QED
      BY <2>1, <2>3, <3>1, <3>2 DEF IInv, OfRows
  <2>4. QED
    BY <1>5, <2>2, <2>3
<1>14. FinalStatusIsTrue'
  <2> SUFFICES ASSUME NEW w \in Convs, NEW r \in 1..Len(rows'[w])
               PROVE  /\ rows'[w][r].status = "Published" =>
                            \A q \in rows'[w][r].parts : Pushed(q, w, r) \/ <<q, w, r>> \in swallowed
                      /\ rows'[w][r].status = "Dead" => <<w, r>> \in dlq
    BY <1>2 DEF FinalStatusIsTrue, Pushed, history
  <2>1. CASE r \in 1..Len(rows[w])
    BY <1>4, <2>1 DEF IInv, FinalStatusIsTrue
  <2>2. CASE w = v /\ r = Len(rows[v]) + 1
    BY <1>1, <1>4, <2>2
  <2>3. QED
    BY <1>5, <2>1, <2>2
<1>15. PushInOrderInLease'
  BY <1>2 DEF IInv, PushInOrderInLease, InOrder, history
<1>16. QED
  BY <1>6, <1>7, <1>8, <1>9, <1>10, <1>11, <1>12, <1>13, <1>14, <1>15 DEF IInv

(* A row falls due. *)
LEMMA TimePassesKeeps ==
    ASSUME IInv, NEW v \in Convs, NEW s \in 1..MaxSeq, TimePasses(v, s)
    PROVE  IInv'
<1> DEFINE row == [rows[v][s] EXCEPT !.due = TRUE]
<1>0. /\ rows \in [Convs -> Seq(RowType)] /\ RowsOK
      /\ s \in 1..Len(rows[v])
      /\ rows[v][s] \in RowType
  BY DEF IInv, TypeOK, RowsOK, TimePasses
<1>1. /\ row \in RowType /\ row.status = rows[v][s].status /\ row.lockedBy = rows[v][s].lockedBy
      /\ row.parts = rows[v][s].parts
  BY <1>0 DEF RowType
<1>2. /\ rows' = [rows EXCEPT ![v][s] = row]
      /\ overran' = IF \E p \in Pubs : AtWork(p, v, s) THEN overran \cup {v} ELSE overran
      /\ UNCHANGED <<slotVars, task, push, dlq, swallowed, faults>>
  BY DEF TimePasses
<1> HIDE DEF row
<1>3. RowBecomes(v, s, row)
  BY <1>0, <1>1, <1>2, RowUpdate
<1>4. \A w \in Convs : \A r \in 1..Len(rows[w]) :
          /\ w # v \/ r # s => rows'[w][r] = rows[w][r]
          /\ rows'[w][r].status = rows[w][r].status
          /\ rows'[w][r].lockedBy = rows[w][r].lockedBy
          /\ rows'[w][r].parts = rows[w][r].parts
  BY <1>0, <1>1, <1>3 DEF RowBecomes
<1>5. /\ \A w \in Convs : Len(rows'[w]) = Len(rows[w]) /\ Len(rows[w]) \in Nat
      /\ rows' \in [Convs -> Seq(RowType)]
  BY <1>0, <1>3 DEF RowBecomes
<1>6. TypeOK'
  <2>1. RowsOK'
    BY <1>0, <1>5 DEF RowsOK
  <2>2. SlotOK' /\ TopicsOK'
    BY <1>2 DEF IInv, TypeOK, SlotOK, TopicsOK, slotVars
  <2>3. TasksOK'
    BY <1>2, <1>5 DEF IInv, TypeOK, TasksOK, slotVars
  <2>4. QED
    BY <2>1, <2>2, <2>3 DEF TypeOK
<1>7. OwnersDiffer'
  BY <1>2 DEF IInv, OwnersDiffer, slotVars
<1>8. Locked'
  BY <1>2, <1>4, <1>5 DEF IInv, Locked, slotVars
<1>9. AtHead'
  <2> SUFFICES ASSUME NEW a \in Pubs, NEW w \in Convs, task[a][w].pc # "none",
                      NEW r \in 1..(task[a][w].seq - 1)
               PROVE  rows'[w][r].status \in Terminal
    BY <1>2 DEF AtHead
  <2>1. r \in 1..Len(rows[w])
    BY <1>5 DEF IInv, TypeOK, TasksOK
  <2>2. QED
    BY <1>4, <2>1 DEF IInv, AtHead
<1>10. Done'
  BY <1>2 DEF IInv, Done, Pushed
<1>11. InLease'
  <2> SUFFICES ASSUME NEW a \in Pubs, NEW w \in Convs, task[a][w].pc # "none", w \notin overran'
               PROVE  /\ rows'[w][task[a][w].seq].lockedBy = owner[a]
                      /\ ~ rows'[w][task[a][w].seq].due
    BY <1>2 DEF InLease, Owned, slotVars
  <2>1. task[a][w].seq \in 1..Len(rows[w]) /\ w \notin overran
    BY <1>2 DEF IInv, TypeOK, TasksOK
  <2>2. rows[w][task[a][w].seq].lockedBy = owner[a] /\ ~ rows[w][task[a][w].seq].due
    BY <2>1 DEF IInv, InLease, Owned
  <2>3. w # v \/ task[a][w].seq # s
    BY <1>2, <2>1, <2>2 DEF AtWork
  <2>4. QED
    BY <1>4, <2>1, <2>2, <2>3
<1>12. OfRows'
  BY <1>2, <1>5 DEF IInv, OfRows, Pushed
<1>13. HeadOfLine'
  <2> SUFFICES ASSUME NEW w \in Convs, NEW r \in 1..Len(rows[w]), Begun(w, r)',
                      NEW e \in 1..(r - 1)
               PROVE  rows'[w][e].status \in Terminal
    BY <1>5 DEF HeadOfLine
  <2>1. Begun(w, r)
    BY <1>2, <1>4 DEF Begun, Pushed
  <2>2. e \in 1..Len(rows[w])
    BY <1>5
  <2>3. QED
    BY <1>4, <2>1, <2>2 DEF IInv, HeadOfLine
<1>14. FinalStatusIsTrue'
  <2> SUFFICES ASSUME NEW w \in Convs, NEW r \in 1..Len(rows[w])
               PROVE  /\ rows'[w][r].status = "Published" =>
                            \A q \in rows'[w][r].parts : Pushed(q, w, r) \/ <<q, w, r>> \in swallowed
                      /\ rows'[w][r].status = "Dead" => <<w, r>> \in dlq
    BY <1>2, <1>5 DEF FinalStatusIsTrue, Pushed
  <2>1. QED
    BY <1>4 DEF IInv, FinalStatusIsTrue
<1>15. PushInOrderInLease'
  BY <1>2 DEF IInv, PushInOrderInLease, InOrder
<1>16. QED
  BY <1>6, <1>7, <1>8, <1>9, <1>10, <1>11, <1>12, <1>13, <1>14, <1>15 DEF IInv

(* Rows and topics are left alone; goroutines go on as they were or end.   *)
SlotStep ==
    /\ UNCHANGED <<rows, push, dlq, history>>
    /\ task' \in [Pubs -> [Convs -> TaskType]]
    /\ \A p \in Pubs, v \in Convs :
          \/ task'[p][v] = task[p][v] /\ owner'[p] = owner[p]
          \/ task'[p][v].pc = "none"
    /\ SlotOK'
    /\ OwnersDiffer'
    /\ tokens <= tokens'

LEMMA SlotStepKeeps == ASSUME IInv, SlotStep PROVE IInv'
<1>0. /\ UNCHANGED <<rows, push, dlq, overran, swallowed>>
      /\ \A p \in Pubs, v \in Convs : task'[p][v].pc # "none" =>
            task'[p][v] = task[p][v] /\ owner'[p] = owner[p]
  BY DEF SlotStep, history
<1>1. TypeOK'
  BY <1>0 DEF SlotStep, IInv, TypeOK, RowsOK, TasksOK, TopicsOK
<1>2. OwnersDiffer'
  BY DEF SlotStep
<1>3. Locked'
  <2>1. tokens \in Nat /\ tokens' \in Nat /\ tokens <= tokens'
    BY DEF SlotStep, IInv, TypeOK, SlotOK
  <2>2. ASSUME NEW v \in Convs, NEW s \in 1..Len(rows[v])
        PROVE  rows[v][s].lockedBy \in Nat
    <3>1. rows[v][s] \in RowType
      BY DEF IInv, TypeOK, RowsOK
    <3>2. QED
      BY <3>1 DEF RowType
  <2>3. QED
    BY <1>0, <2>1, <2>2 DEF IInv, Locked
<1>4. AtHead'
  BY <1>0 DEF IInv, AtHead
<1>5. Done'
  <2> SUFFICES ASSUME NEW a \in Pubs, NEW w \in Convs
               PROVE  /\ task'[a][w].pc \in {"push", "published"} =>
                            \A q \in task'[a][w].parts \ task'[a][w].todo :
                                \/ Pushed(q, w, task'[a][w].seq)
                                \/ <<q, w, task'[a][w].seq>> \in swallowed
                      /\ task'[a][w].pc = "published" => task'[a][w].todo = {}
                      /\ task'[a][w].pc = "dead" => <<w, task'[a][w].seq>> \in dlq
    BY <1>0 DEF Done, Pushed
  <2>1. CASE task'[a][w] = task[a][w]
    BY <2>1 DEF IInv, Done
  <2>2. CASE task'[a][w].pc = "none"
    BY <2>2
  <2>3. QED
    BY <1>0, <2>1, <2>2
<1>6. InLease'
  BY <1>0 DEF IInv, InLease, Owned
<1>7. OfRows'
  BY <1>0 DEF IInv, OfRows, Pushed
<1>8. HeadOfLine'
  BY <1>0 DEF IInv, HeadOfLine, Begun, Pushed
<1>9. FinalStatusIsTrue'
  BY <1>0 DEF IInv, FinalStatusIsTrue, Pushed
<1>10. PushInOrderInLease'
  BY <1>0 DEF IInv, PushInOrderInLease, InOrder
<1>11. QED
  BY <1>1, <1>2, <1>3, <1>4, <1>5, <1>6, <1>7, <1>8, <1>9, <1>10 DEF IInv

(* A fresh token belongs to no other publisher. *)
LEMMA AcquireIsSlotStep ==
    ASSUME IInv, NEW p \in Pubs, acquireWorkerSlot(p)
    PROVE  SlotStep
<1>0. /\ UNCHANGED <<rows, task, push, dlq, history, faults>>
      /\ tokens \in Nat /\ tokens' = tokens + 1 /\ holder' = p
      /\ owner \in [Pubs -> 0..tokens] /\ owner' = [owner EXCEPT ![p] = tokens + 1]
      /\ owner[p] = 0
      /\ faults \in 0..MaxFaults
  BY DEF IInv, TypeOK, SlotOK, acquireWorkerSlot
<1>1. SlotOK'
  BY <1>0 DEF SlotOK
<1>2. OwnersDiffer'
  <2>1. \A a \in Pubs : owner[a] # tokens + 1 /\ (a # p => owner'[a] = owner[a])
    BY <1>0
  <2>2. owner'[p] = tokens + 1
    BY <1>0
  <2>3. QED
    BY <2>1, <2>2 DEF IInv, OwnersDiffer
<1>3. \A a \in Pubs, v \in Convs :
          \/ task'[a][v] = task[a][v] /\ owner'[a] = owner[a]
          \/ task'[a][v].pc = "none"
  BY <1>0 DEF IInv, TypeOK, TasksOK
<1>4. QED
  BY <1>0, <1>1, <1>2, <1>3 DEF SlotStep, IInv, TypeOK, TasksOK

LEMMA LoseLockIsSlotStep ==
    ASSUME IInv, LoseLock
    PROVE  SlotStep
BY OutboxBounds DEF SlotStep, LoseLock, IInv, TypeOK, SlotOK, TasksOK, OwnersDiffer

(* A publisher that stops has no goroutine and no token any more. *)
LEMMA StopRunIsSlotStep ==
    ASSUME IInv, NEW p \in Pubs, StopRun(p), faults' \in 0..MaxFaults,
           UNCHANGED <<rows, tokens, push, dlq, history>>
    PROVE  SlotStep
<1>0. /\ owner \in [Pubs -> 0..tokens] /\ owner' = [owner EXCEPT ![p] = 0]
      /\ tokens \in Nat /\ tokens' = tokens
      /\ holder' \in Pubs \cup {NoPub}
      /\ task \in [Pubs -> [Convs -> TaskType]]
      /\ task' = [task EXCEPT ![p] = [v \in Convs |-> NoTask]]
  BY DEF IInv, TypeOK, SlotOK, TasksOK, StopRun
<1>1. SlotOK'
  BY <1>0 DEF SlotOK
<1>2. OwnersDiffer'
  BY <1>0 DEF IInv, OwnersDiffer
<1>3. task' \in [Pubs -> [Convs -> TaskType]]
  BY <1>0 DEF NoTask, TaskType, TaskSteps
<1>4. ASSUME NEW a \in Pubs, NEW v \in Convs
      PROVE  \/ task'[a][v] = task[a][v] /\ owner'[a] = owner[a]
             \/ task'[a][v].pc = "none"
  BY <1>0 DEF NoTask
<1>5. QED
  BY <1>0, <1>1, <1>2, <1>3, <1>4 DEF SlotStep

(* Claim, for the heads it found.                                          *)
ClaimHeads(p, S, head) ==
    /\ rows' = [v \in Convs |->
                  IF v \in S THEN [rows[v] EXCEPT ![head[v]] = ClaimedRow(p, v, head[v])]
                             ELSE rows[v]]
    /\ task' = [task EXCEPT ![p] = [v \in Convs |->
                  IF v \in S THEN ClaimedTask(v, head[v]) ELSE NoTask]]

(* And pointwise: in the conversations of S the head row is locked and     *)
(* gets a goroutine, elsewhere p has none.                                 *)
HeadsClaimed(p, S, head) ==
    /\ rows' \in [Convs -> Seq(RowType)]
    /\ \A v \in Convs : Len(rows'[v]) = Len(rows[v])
    /\ \A v \in Convs : \A r \in 1..Len(rows[v]) :
          IF v \in S /\ r = head[v]
          THEN /\ rows'[v][r].status \in {"DLQPending", "Retrying"}
               /\ rows'[v][r].lockedBy = owner[p]
               /\ rows'[v][r].due = FALSE
          ELSE rows'[v][r] = rows[v][r]
    /\ task' \in [Pubs -> [Convs -> TaskType]]
    /\ \A a \in Pubs, v \in Convs : a # p => task'[a][v] = task[a][v]
    /\ \A v \in S : task'[p][v].pc \in {"dlq", "route"} /\ task'[p][v].seq = head[v]
    /\ \A v \in Convs \ S : task'[p][v].pc = "none"

LEMMA ClaimEffect ==
    ASSUME IInv, NEW p \in Pubs, NEW S \in SUBSET Convs, NEW head \in [S -> 1..MaxSeq],
           \A v \in S : DueHead(v, head[v]), ClaimHeads(p, S, head)
    PROVE  HeadsClaimed(p, S, head)
<1>0. /\ rows \in [Convs -> Seq(RowType)]
      /\ owner[p] \in Nat
      /\ task \in [Pubs -> [Convs -> TaskType]]
  BY DEF IInv, TypeOK, RowsOK, SlotOK, TasksOK
<1>1. ASSUME NEW v \in S
      PROVE  /\ ClaimedRow(p, v, head[v]) \in RowType
             /\ ClaimedRow(p, v, head[v]).status \in {"DLQPending", "Retrying"}
             /\ ClaimedRow(p, v, head[v]).lockedBy = owner[p]
             /\ ClaimedRow(p, v, head[v]).due = FALSE
             /\ head[v] \in 1..Len(rows[v])
  <2>1. head[v] \in 1..Len(rows[v])
    BY DEF DueHead, IsHead
  <2>2. v \in Convs /\ rows[v] \in Seq(RowType)
    BY <1>0
  <2>3. rows[v][head[v]] \in RowType
    BY <2>1, <2>2
  <2>4. QED
    BY <1>0, <2>1, <2>3 DEF RowType, NonTerminal, ClaimedRow
<1>2. ASSUME NEW v \in S
      PROVE  /\ ClaimedTask(v, head[v]) \in TaskType
             /\ ClaimedTask(v, head[v]).pc \in {"dlq", "route"}
             /\ ClaimedTask(v, head[v]).seq = head[v]
  <2>1. head[v] \in Nat
    BY OutboxBounds
  <2>2. QED
    BY <2>1 DEF NoTask, TaskType, TaskSteps, ClaimedTask
<1>3. NoTask \in TaskType /\ NoTask.pc = "none"
  BY DEF NoTask, TaskType, TaskSteps
<1>4. ASSUME NEW v \in S
      PROVE  LET new == [rows[v] EXCEPT ![head[v]] = ClaimedRow(p, v, head[v])]
             IN  /\ new \in Seq(RowType)
                 /\ Len(new) = Len(rows[v])
                 /\ \A r \in 1..Len(rows[v]) :
                       new[r] = IF r = head[v] THEN ClaimedRow(p, v, head[v]) ELSE rows[v][r]
  <2>1. rows[v] \in Seq(RowType)
    BY <1>0
  <2> DEFINE c == ClaimedRow(p, v, head[v])
  <2>2. c \in RowType /\ head[v] \in 1..Len(rows[v])
    BY <1>1
  <2> HIDE DEF c
  <2>3. /\ [rows[v] EXCEPT ![head[v]] = c] \in Seq(RowType)
        /\ Len([rows[v] EXCEPT ![head[v]] = c]) = Len(rows[v])
        /\ \A r \in 1..Len(rows[v]) :
              [rows[v] EXCEPT ![head[v]] = c][r] = IF r = head[v] THEN c ELSE rows[v][r]
    BY <2>1, <2>2, ExceptSeq
  <2>4. QED
    BY <2>3 DEF c
<1>5. /\ rows' \in [Convs -> Seq(RowType)]
      /\ \A v \in Convs : Len(rows'[v]) = Len(rows[v])
  BY <1>0, <1>4 DEF ClaimHeads
<1>6. ASSUME NEW v \in Convs, NEW r \in 1..Len(rows[v])
      PROVE  rows'[v][r] = IF v \in S /\ r = head[v] THEN ClaimedRow(p, v, head[v]) ELSE rows[v][r]
  BY <1>4 DEF ClaimHeads
<1>7. task' = [task EXCEPT ![p] = [v \in Convs |->
                 IF v \in S THEN ClaimedTask(v, head[v]) ELSE NoTask]]
  BY DEF ClaimHeads
<1>8. [v \in Convs |-> IF v \in S THEN ClaimedTask(v, head[v]) ELSE NoTask] \in [Convs -> TaskType]
  BY <1>2, <1>3
<1>9. task' \in [Pubs -> [Convs -> TaskType]]
  BY <1>0, <1>7, <1>8
<1>10. \A a \in Pubs, v \in Convs : a # p => task'[a][v] = task[a][v]
  BY <1>0, <1>7
<1>11. \A v \in Convs : task'[p][v] = IF v \in S THEN ClaimedTask(v, head[v]) ELSE NoTask
  BY <1>0, <1>7
<1>12. \A v \in Convs : \A r \in 1..Len(rows[v]) :
          IF v \in S /\ r = head[v]
          THEN /\ rows'[v][r].status \in {"DLQPending", "Retrying"}
               /\ rows'[v][r].lockedBy = owner[p]
               /\ rows'[v][r].due = FALSE
          ELSE rows'[v][r] = rows[v][r]
  <2> TAKE v \in Convs
  <2> TAKE r \in 1..Len(rows[v])
  <2>1. CASE v \in S /\ r = head[v]
    <3>1. rows'[v][r] = ClaimedRow(p, v, head[v])
      BY <1>6, <2>1
    <3>2. QED
      BY <1>1, <2>1, <3>1
  <2>2. CASE ~ (v \in S /\ r = head[v])
    BY <1>6, <2>2
  <2>3. QED
    BY <2>1, <2>2
<1>13. /\ \A v \in S : task'[p][v].pc \in {"dlq", "route"} /\ task'[p][v].seq = head[v]
       /\ \A v \in Convs \ S : task'[p][v].pc = "none"
  BY <1>2, <1>3, <1>11
<1>14. QED
  BY <1>5, <1>9, <1>10, <1>12, <1>13 DEF HeadsClaimed

(* The claimed rows are heads that were due. *)
LEMMA ClaimKeeps ==
    ASSUME IInv, NEW p \in Pubs, NEW S \in SUBSET Convs, Claim(p, S)
    PROVE  IInv'
<1>0. PICK head \in [S -> 1..MaxSeq] :
          (\A v \in S : DueHead(v, head[v])) /\ ClaimHeads(p, S, head)
  BY DEF Claim, ClaimHeads
<1>1. HeadsClaimed(p, S, head)
  BY <1>0, ClaimEffect
<1> USE <1>1 DEF HeadsClaimed
<1>2. UNCHANGED <<holder, owner, tokens, push, dlq, overran, swallowed, faults>> /\ owner[p] # 0
  BY DEF Claim, slotVars, history
<1>3. \A v \in Convs : Len(rows[v]) \in Nat
  BY DEF IInv, TypeOK, RowsOK
<1>4. \A v \in S : /\ head[v] \in 1..Len(rows[v])
                   /\ rows[v][head[v]].status \in NonTerminal
                   /\ rows[v][head[v]].due
                   /\ \A r \in 1..(head[v] - 1) : rows[v][r].status \in Terminal
  BY <1>0 DEF DueHead, IsHead
<1>5. \A v \in Convs : \A r \in 1..Len(rows[v]) :
          rows[v][r].status \in Terminal => rows'[v][r] = rows[v][r]
  <2> SUFFICES ASSUME NEW v \in Convs, NEW r \in 1..Len(rows[v]), rows[v][r].status \in Terminal
               PROVE  rows'[v][r] = rows[v][r]
    OBVIOUS
  <2>1. ~ (v \in S /\ r = head[v])
    BY <1>4 DEF Terminal, NonTerminal
  <2>2. QED
    BY <2>1
<1>6. TypeOK'
  <2>1. RowsOK'
    BY DEF IInv, TypeOK, RowsOK
  <2>2. SlotOK' /\ TopicsOK'
    BY <1>2 DEF IInv, TypeOK, SlotOK, TopicsOK
  <2>3. TasksOK'
    <3> SUFFICES ASSUME NEW a \in Pubs, NEW w \in Convs, task'[a][w].pc # "none"
                 PROVE  owner[a] # 0 /\ task'[a][w].seq \in 1..Len(rows[w])
      BY <1>2 DEF TasksOK
    <3>1. CASE a = p
      BY <1>2, <1>4, <3>1
    <3>2. CASE a # p
      BY <3>2 DEF IInv, TypeOK, TasksOK
    <3>3. QED
      BY <3>1, <3>2
  <2>4. QED
    BY <2>1, <2>2, <2>3 DEF TypeOK
<1>7. OwnersDiffer'
  BY <1>2 DEF IInv, OwnersDiffer
<1>8. Locked'
  <2> SUFFICES ASSUME NEW w \in Convs, NEW r \in 1..Len(rows[w])
               PROVE  /\ rows'[w][r].lockedBy <= tokens
                      /\ rows'[w][r].lockedBy # 0 => rows'[w][r].status \in NonTerminal
    BY <1>2 DEF Locked
  <2>1. owner[p] <= tokens
    BY DEF IInv, TypeOK, SlotOK
  <2>2. CASE w \in S /\ r = head[w]
    BY <2>1, <2>2 DEF NonTerminal
  <2>3. CASE ~ (w \in S /\ r = head[w])
    BY <2>3 DEF IInv, Locked
  <2>4. QED
    BY <2>2, <2>3
<1>9. AtHead'
  <2> SUFFICES ASSUME NEW a \in Pubs, NEW w \in Convs, task'[a][w].pc # "none",
                      NEW r \in 1..(task'[a][w].seq - 1)
               PROVE  rows'[w][r].status \in Terminal
    BY DEF AtHead
  <2>1. r \in 1..Len(rows[w]) /\ rows[w][r].status \in Terminal
    <3>1. CASE a = p
      <4>1. w \in S /\ task'[a][w].seq = head[w]
        BY <3>1
      <4>2. QED
        BY <1>3, <1>4, <4>1
    <3>2. CASE a # p
      BY <1>3, <3>2 DEF IInv, TypeOK, TasksOK, AtHead
    <3>3. QED
      BY <3>1, <3>2
  <2>2. QED
    BY <1>5, <2>1
<1>10. Done'
  <2> SUFFICES ASSUME NEW a \in Pubs, NEW w \in Convs
               PROVE  /\ task'[a][w].pc \in {"push", "published"} =>
                            \A q \in task'[a][w].parts \ task'[a][w].todo :
                                \/ Pushed(q, w, task'[a][w].seq)
                                \/ <<q, w, task'[a][w].seq>> \in swallowed
                      /\ task'[a][w].pc = "published" => task'[a][w].todo = {}
                      /\ task'[a][w].pc = "dead" => <<w, task'[a][w].seq>> \in dlq
    BY ZenonT(40), <1>2 DEF Done, Pushed
  <2>1. CASE a = p
    BY <2>1
  <2>2. CASE a # p
    <3>1. task'[a][w] = task[a][w]
      BY <2>2
    <3>2. QED
      BY <3>1 DEF IInv, Done
  <2>3. QED
    BY <2>1, <2>2
<1>11. InLease'
  <2> SUFFICES ASSUME NEW a \in Pubs, NEW w \in Convs, task'[a][w].pc # "none", w \notin overran
               PROVE  /\ rows'[w][task'[a][w].seq].lockedBy = owner[a]
                      /\ ~ rows'[w][task'[a][w].seq].due
    BY <1>2 DEF InLease, Owned
  <2>1. CASE a = p
    <3>1. w \in S /\ task'[a][w].seq = head[w]
      BY <2>1
    <3>2. QED
      BY <1>4, <2>1, <3>1
  <2>2. CASE a # p
    <3>1. /\ task'[a][w] = task[a][w] /\ task[a][w].seq \in 1..Len(rows[w])
          /\ rows[w][task[a][w].seq].lockedBy = owner[a] /\ ~ rows[w][task[a][w].seq].due
      BY <2>2 DEF IInv, InLease, Owned, TypeOK, TasksOK
    <3>2. ~ (w \in S /\ task[a][w].seq = head[w])
      BY <1>4, <3>1
    <3>3. QED
      BY <3>1, <3>2
  <2>3. QED
    BY <2>1, <2>2
<1>12. OfRows'
  BY SMTT(30), <1>2 DEF IInv, OfRows, Pushed
<1>13. HeadOfLine'
  <2> SUFFICES ASSUME NEW w \in Convs, NEW r \in 1..Len(rows[w]), Begun(w, r)',
                      NEW e \in 1..(r - 1)
               PROVE  rows'[w][e].status \in Terminal
    BY DEF HeadOfLine
  <2>0. \/ rows'[w][r].status # "Pending"
        \/ \E q \in Partitions : Pushed(q, w, r)
        \/ <<w, r>> \in dlq
    BY <1>2 DEF Begun, Pushed
  <2>1. e \in 1..Len(rows[w])
    BY <1>3
  <2>2. CASE w \in S /\ r = head[w]
    BY <1>4, <1>5, <2>1, <2>2
  <2>3. CASE ~ (w \in S /\ r = head[w])
    <3>1. Begun(w, r)
      BY <2>0, <2>3 DEF Begun
    <3>2. QED
      BY <1>5, <2>1, <3>1 DEF IInv, HeadOfLine
  <2>4. QED
    BY <2>2, <2>3
<1>14. FinalStatusIsTrue'
  <2> SUFFICES ASSUME NEW w \in Convs, NEW r \in 1..Len(rows[w])
               PROVE  /\ rows'[w][r].status = "Published" =>
                            \A q \in rows'[w][r].parts : Pushed(q, w, r) \/ <<q, w, r>> \in swallowed
                      /\ rows'[w][r].status = "Dead" => <<w, r>> \in dlq
    BY <1>2 DEF FinalStatusIsTrue, Pushed
  <2>1. CASE w \in S /\ r = head[w]
    BY <2>1
  <2>2. CASE ~ (w \in S /\ r = head[w])
    BY <2>2 DEF IInv, FinalStatusIsTrue
  <2>3. QED
    BY <2>1, <2>2
<1>15. PushInOrderInLease'
  BY <1>2 DEF IInv, PushInOrderInLease, InOrder
<1>16. QED
  BY <1>6, <1>7, <1>8, <1>9, <1>10, <1>11, <1>12, <1>13, <1>14, <1>15 DEF IInv

-----------------------------------------------------------------------------
LEMMA NextKeeps == IInv /\ [Next]_vars => IInv'
<1> SUFFICES ASSUME IInv, [Next]_vars PROVE IInv'
  OBVIOUS
<1>1. CASE UNCHANGED vars
  <2>1. SlotStep
    BY <1>1 DEF vars, slotVars, history, SlotStep, IInv, TypeOK, SlotOK, TasksOK, OwnersDiffer
  <2>2. QED
    BY <2>1, SlotStepKeeps
<1>2. CASE \E v \in Convs, bad \in BOOLEAN : Persist(v, bad)
  BY <1>2, PersistKeeps
<1>3. CASE \E v \in Convs, s \in 1..MaxSeq : TimePasses(v, s)
  BY <1>3, TimePassesKeeps
<1>4. CASE LoseLock
  BY <1>4, LoseLockIsSlotStep, SlotStepKeeps
<1>5. ASSUME NEW p \in Pubs, acquireWorkerSlot(p)
      PROVE  IInv'
  BY <1>5, AcquireIsSlotStep, SlotStepKeeps
<1>6. ASSUME NEW p \in Pubs, MonitorCancels(p) \/ Crash(p)
      PROVE  IInv'
  <2>1. faults \in 0..MaxFaults
    BY DEF IInv, TypeOK, SlotOK
  <2>2. /\ StopRun(p) /\ UNCHANGED <<rows, tokens, push, dlq, history>>
        /\ faults' \in 0..MaxFaults
    BY <1>6, <2>1, OutboxBounds DEF MonitorCancels, Crash
  <2>3. QED
    BY <2>2, StopRunIsSlotStep, SlotStepKeeps
<1>7. ASSUME NEW p \in Pubs, NEW S \in SUBSET Convs, Claim(p, S)
      PROVE  IInv'
  BY <1>7, ClaimKeeps
<1>8. ASSUME NEW p \in Pubs, NEW v \in Convs, PublishOne(p, v)
      PROVE  IInv'
  <2>1. PICK row, t : GoroutineStep(p, v, task[p][v].seq, row, t)
    BY <1>8, PublishOneSteps
  <2>2. QED
    BY <2>1, GoroutineStepKeeps
<1>9. QED
  BY <1>1, <1>2, <1>3, <1>4, <1>5, <1>6, <1>7, <1>8 DEF Next

LEMMA Inductive == Spec => []IInv
<1>1. QED
  BY InitIInv, NextKeeps, PTL DEF Spec

(* Types: a goroutine of publishOne always has an existing row, and runs   *)
(* only while its publisher holds an owner token.                          *)
THEOREM TypeCorrect == Spec => []TypeOK
<1>1. IInv => TypeOK
  BY DEF IInv
<1>2. QED
  BY <1>1, Inductive, PTL

(* Claim picks heads only: nothing of a message happens before all earlier *)
(* seqs of its conversation are Published or Dead.                         *)
THEOREM OnlyHeadsProceed == Spec => []HeadOfLine
<1>1. IInv => HeadOfLine
  BY DEF IInv
<1>2. QED
  BY <1>1, Inductive, PTL

(* MarkPublished and MarkDead come after what they claim: a Published row  *)
(* was pushed to (or swallowed by) every partition it was routed to, and a *)
(* Dead one has its dead letter.                                           *)
THEOREM StatusIsTrue == Spec => []FinalStatusIsTrue
<1>1. IInv => FinalStatusIsTrue
  BY DEF IInv
<1>2. QED
  BY <1>1, Inductive, PTL

(* As long as no lease of the conversation ran out under a goroutine, each *)
(* partition has its messages in the order of their seqs.                  *)
THEOREM PushOrder == Spec => []PushInOrderInLease
<1>1. IInv => PushInOrderInLease
  BY DEF IInv
<1>2. QED
  BY <1>1, Inductive, PTL

(* The fencing by owner token: no step of any publisher changes a row that *)
(* is Published or Dead.                                                   *)
THEOREM TerminalIsFinal == Spec => TerminalStable
<1> DEFINE Stable == \A v \in Convs : \A s \in 1..Len(rows[v]) :
                        rows[v][s].status \in Terminal => rows'[v][s] = rows[v][s]
<1>1. ASSUME IInv, [Next]_vars PROVE Stable
  <2> SUFFICES ASSUME NEW w \in Convs, NEW r \in 1..Len(rows[w]), rows[w][r].status \in Terminal
               PROVE  rows'[w][r] = rows[w][r]
    OBVIOUS
  <2> USE <1>1
  <2>1. CASE rows' = rows
    BY <2>1
  <2>2. ASSUME NEW v \in Convs, NEW bad \in BOOLEAN, Persist(v, bad)
        PROVE  rows'[w][r] = rows[w][r]
    <3>1. /\ rows \in [Convs -> Seq(RowType)]
          /\ \E row \in RowType : rows' = [rows EXCEPT ![v] = Append(rows[v], row)]
      BY <2>2 DEF IInv, TypeOK, RowsOK, Persist, RowType, NonTerminal
    <3>2. QED
      BY <3>1
  <2>3. ASSUME NEW v \in Convs, NEW s \in 1..MaxSeq, TimePasses(v, s)
        PROVE  rows'[w][r] = rows[w][r]
    BY <2>3 DEF IInv, TypeOK, RowsOK, TimePasses, Terminal, NonTerminal
  <2>4. ASSUME NEW p \in Pubs, NEW S \in SUBSET Convs, Claim(p, S)
        PROVE  rows'[w][r] = rows[w][r]
    <3>1. PICK head \in [S -> 1..MaxSeq] :
              (\A v \in S : DueHead(v, head[v])) /\ ClaimHeads(p, S, head)
      BY <2>4 DEF Claim, ClaimHeads
    <3>2. HeadsClaimed(p, S, head)
      BY <3>1, ClaimEffect
    <3>3. ~ (w \in S /\ r = head[w])
      BY <3>1 DEF DueHead, IsHead, Terminal, NonTerminal
    <3>4. QED
      BY <3>2, <3>3 DEF HeadsClaimed
  <2>5. ASSUME NEW p \in Pubs, NEW v \in Convs, PublishOne(p, v)
        PROVE  rows'[w][r] = rows[w][r]
    <3>1. PICK row, t : GoroutineStep(p, v, task[p][v].seq, row, t)
      BY <2>5, PublishOneSteps
    <3>2. CASE w = v /\ r = task[p][v].seq
      <4>1. owner[p] # 0 /\ rows[w][r].lockedBy = 0
        BY <3>1 DEF GoroutineStep, IInv, TypeOK, TasksOK, Locked, Terminal, NonTerminal
      <4>2. row = rows[w][r]
        BY <3>1, <3>2, <4>1 DEF GoroutineStep, RowMayBecome
      <4>3. QED
        BY <3>1, <3>2, <4>2 DEF GoroutineStep, RowBecomes
    <3>3. CASE ~ (w = v /\ r = task[p][v].seq)
      BY <3>1, <3>3 DEF GoroutineStep, RowBecomes
    <3>4. QED
      BY <3>2, <3>3
  <2>6. QED
    BY <2>1, <2>2, <2>3, <2>4, <2>5
       DEF Next, vars, LoseLock, acquireWorkerSlot, MonitorCancels, Crash
<1>2. IInv /\ [Next]_vars => [Stable]_vars
  BY <1>1
<1>3. QED
  BY <1>2, Inductive, PTL DEF Spec, TerminalStable

-----------------------------------------------------------------------------
(* The refinement: what Publication sees of a step. *)

LEMMA OutcomeIs ==
    /\ Abstract!Open = [end |-> "Open", to |-> {}]
    /\ \A row \in RowType :
          /\ row.status \in NonTerminal => Outcome(row) = Abstract!Open
          /\ row.status = "Published" => Outcome(row) = [end |-> "Published", to |-> row.parts]
          /\ row.status = "Dead" => Outcome(row) = [end |-> "Dead", to |-> {}]
          /\ row.status \in Terminal => Outcome(row) # Abstract!Open
BY DEF Abstract!Open, Outcome, RowType, Terminal, NonTerminal

(* Rows whose outcome stays. *)
LEMMA OutcomesStay ==
    ASSUME \A v \in Convs : Len(rows'[v]) = Len(rows[v]),
           \A v \in Convs : \A r \in 1..Len(rows[v]) : Outcome(rows'[v][r]) = Outcome(rows[v][r])
    PROVE  Outcomes' = Outcomes
BY DEF Outcomes

LEMMA OutcomeChanges ==
    ASSUME NEW v \in Convs, NEW s \in 1..Len(rows[v]), NEW row, RowBecomes(v, s, row)
    PROVE  /\ Outcome(row) = Outcome(rows[v][s]) => Outcomes' = Outcomes
           /\ Outcomes' = [Outcomes EXCEPT ![v][s] = Outcome(row)]
<1>1. /\ \A w \in Convs : Len(rows'[w]) = Len(rows[w])
      /\ \A w \in Convs : \A r \in 1..Len(rows[w]) :
            rows'[w][r] = IF w = v /\ r = s THEN row ELSE rows[w][r]
  BY DEF RowBecomes
<1>2. ASSUME Outcome(row) = Outcome(rows[v][s]) PROVE Outcomes' = Outcomes
  BY <1>1, <1>2, OutcomesStay
<1>3. Outcomes' = [Outcomes EXCEPT ![v][s] = Outcome(row)]
  <2>1. \A w \in Convs : /\ Outcomes'[w] = [r \in 1..Len(rows[w]) |-> Outcome(rows'[w][r])]
                         /\ Outcomes[w] = [r \in 1..Len(rows[w]) |-> Outcome(rows[w][r])]
    BY <1>1 DEF Outcomes
  <2>2. \A w \in Convs : w # v => Outcomes'[w] = Outcomes[w]
    BY ZenonT(40), <1>1, <2>1
  <2>3. Outcomes'[v] = [Outcomes[v] EXCEPT ![s] = Outcome(row)]
    <3> DEFINE g == [Outcomes[v] EXCEPT ![s] = Outcome(row)]
    <3>1. g = [r \in 1..Len(rows[v]) |-> IF r = s THEN Outcome(row) ELSE Outcome(rows[v][r])]
      BY <2>1
    <3>2. \A r \in 1..Len(rows[v]) :
             Outcome(rows'[v][r]) = IF r = s THEN Outcome(row) ELSE Outcome(rows[v][r])
      BY <1>1
    <3> QED
      BY ZenonT(40), <2>1, <3>1, <3>2
  <2>4. Outcomes' = [w \in Convs |-> Outcomes'[w]] /\ Outcomes = [w \in Convs |-> Outcomes[w]]
    BY DEF Outcomes
  <2> HIDE DEF Outcomes
  <2>5. Outcomes' = [Outcomes EXCEPT ![v] = [Outcomes[v] EXCEPT ![s] = Outcome(row)]]
    BY <2>2, <2>3, <2>4
  <2> QED
    BY <2>5
<1> QED
  BY <1>2, <1>3

(* A goroutine is in turn: AtHead, as Publication says it. *)
LEMMA TaskInTurn ==
    ASSUME IInv, NEW p \in Pubs, NEW v \in Convs, task[p][v].pc # "none"
    PROVE  /\ task[p][v].seq \in 1..Len(rows[v])
           /\ task[p][v].seq \in 1..Len(Outcomes[v])
           /\ Abstract!InTurn(v, task[p][v].seq)
<1>1. task[p][v].seq \in 1..Len(rows[v]) /\ rows \in [Convs -> Seq(RowType)]
  BY DEF IInv, TypeOK, TasksOK, RowsOK
<1>2. Len(Outcomes[v]) = Len(rows[v])
  BY <1>1 DEF Outcomes
<1>3. ASSUME NEW r \in 1..(task[p][v].seq - 1) PROVE Outcomes[v][r] # Abstract!Open
  <2>1. r \in 1..Len(rows[v]) /\ rows[v][r] \in RowType /\ rows[v][r].status \in Terminal
    BY <1>1 DEF IInv, AtHead
  <2>2. Outcomes[v][r] = Outcome(rows[v][r])
    BY <2>1 DEF Outcomes
  <2> QED
    BY <2>1, <2>2, OutcomeIs
<1> QED
  BY <1>1, <1>2, <1>3 DEF Abstract!InTurn

LEMMA HandsOver ==
    ASSUME IInv, NEW v \in Convs, NEW bad \in BOOLEAN, Persist(v, bad)
    PROVE  Abstract!HandOver(v)
<1> DEFINE row == [status |-> "Pending", lockedBy |-> 0, retries |-> 0,
                   due |-> TRUE, bad |-> bad, parts |-> {}]
<1>1. row \in RowType /\ row.status \in NonTerminal /\ rows \in [Convs -> Seq(RowType)]
  BY DEF RowType, NonTerminal, IInv, TypeOK, RowsOK
<1>2. rows' = [rows EXCEPT ![v] = Append(rows[v], row)]
  BY DEF Persist
<1>3. Outcome(row) = Abstract!Open
  BY <1>1, OutcomeIs
<1> HIDE DEF row
<1>4. /\ Len(Append(rows[v], row)) = Len(rows[v]) + 1
      /\ \A r \in 1..Len(rows[v]) : Append(rows[v], row)[r] = rows[v][r]
      /\ Append(rows[v], row)[Len(rows[v]) + 1] = row
  BY <1>1, AppendProperties
<1>5. Outcomes'[v] = Append(Outcomes[v], Abstract!Open)
  <2>1. Outcomes'[v] = [s \in 1..(Len(rows[v]) + 1) |-> Outcome(Append(rows[v], row)[s])]
    BY <1>1, <1>2, <1>4 DEF Outcomes
  <2>2. Outcomes[v] = [s \in 1..Len(rows[v]) |-> Outcome(rows[v][s])] /\ Len(rows[v]) \in Nat
    BY <1>1 DEF Outcomes
  <2>3. Append(Outcomes[v], Abstract!Open)
          = [s \in 1..(Len(rows[v]) + 1) |->
                IF s = Len(rows[v]) + 1 THEN Abstract!Open ELSE Outcome(rows[v][s])]
    BY <2>2
  <2>4. \A s \in 1..(Len(rows[v]) + 1) :
           Outcome(Append(rows[v], row)[s])
             = IF s = Len(rows[v]) + 1 THEN Abstract!Open ELSE Outcome(rows[v][s])
    BY <1>3, <1>4, <2>2
  <2> QED
    BY <2>1, <2>3, <2>4
<1>6. \A w \in Convs : w # v => Outcomes'[w] = Outcomes[w]
  BY <1>1, <1>2 DEF Outcomes
<1>7. Outcomes' = [Outcomes EXCEPT ![v] = Append(@, Abstract!Open)]
  BY <1>5, <1>6 DEF Outcomes
<1> QED
  BY <1>7 DEF Persist, history, Abstract!HandOver

(* A goroutine's step is a stutter or a step of Publication on its row. *)
LEMMA PublishOneRefines ==
    ASSUME IInv, NEW p \in Pubs, NEW v \in Convs, PublishOne(p, v)
    PROVE  Abstract!PublicationNext \/ UNCHANGED Abstract!publicationVars
<1>1. task[p][v].pc # "none"
  BY DEF PublishOne, routeTargets, RouteFails, PublishPush, PublishPushSwallowed, PublishPushFails,
         MarkPublished, MarkFailed, PublishDLQ, PublishDLQFails, RetryDLQ, MarkDead, UpdateFails, At
<1>2. PICK s : s = task[p][v].seq
  OBVIOUS
<1>3. s \in 1..Len(rows[v]) /\ s \in 1..Len(Outcomes[v]) /\ Abstract!InTurn(v, s)
  BY <1>1, <1>2, TaskInTurn
<1>4. /\ RowsOK /\ rows[v][s] \in RowType /\ Outcomes[v][s] = Outcome(rows[v][s])
      /\ owner[p] # 0 /\ task[p][v] \in TaskType
  BY <1>1, <1>3 DEF IInv, TypeOK, RowsOK, TasksOK, Outcomes
<1>5. Owned(p, v) => rows[v][s].status \in NonTerminal /\ Outcomes[v][s] = Abstract!Open
  BY <1>2, <1>3, <1>4, OutcomeIs DEF IInv, Locked, Owned
<1>6. ASSUME \/ \E q \in Partitions : Abstract!Deliver(v, s, q) \/ Abstract!Miss(v, s, q)
             \/ Abstract!SendToDLQ(v, s)
             \/ \E to \in SUBSET Partitions : Abstract!SettlePublished(v, s, to)
             \/ Abstract!SettleDead(v, s)
      PROVE  Abstract!PublicationNext
  BY <1>3, <1>6 DEF Abstract!PublicationNext
<1>7. ASSUME UNCHANGED <<rows, push, dlq, swallowed>>
      PROVE  UNCHANGED Abstract!publicationVars
  BY <1>7 DEF Abstract!publicationVars, Outcomes
<1>8. rows' = rows => Outcomes' = Outcomes
  BY DEF Outcomes
<1>a. ASSUME NEW targets \in SUBSET Partitions, routeTargets(p, v, targets)
      PROVE  UNCHANGED Abstract!publicationVars
  BY <1>7, <1>a DEF routeTargets, history
<1>b. ASSUME RouteFails(p, v) \/ UpdateFails(p, v)
      PROVE  UNCHANGED Abstract!publicationVars
  BY <1>7, <1>b DEF RouteFails, UpdateFails, history
<1>c. ASSUME NEW q \in Partitions, PublishPush(p, v, q)
      PROVE  Abstract!PublicationNext
  <2>1. Abstract!Deliver(v, s, q)
    BY <1>2, <1>8, <1>c DEF PublishPush, AppendPush, history, Abstract!Deliver
  <2> QED
    BY <1>6, <2>1
<1>d. ASSUME NEW q \in Partitions, PublishPushSwallowed(p, v, q)
      PROVE  Abstract!PublicationNext
  <2>1. Abstract!Miss(v, s, q)
    BY <1>2, <1>8, <1>d DEF PublishPushSwallowed, Abstract!Miss
  <2> QED
    BY <1>6, <2>1
<1>e. ASSUME NEW q \in Partitions, PublishPushFails(p, v, q)
      PROVE  Abstract!PublicationNext \/ UNCHANGED Abstract!publicationVars
  <2>1. CASE AppendPush(p, v, q)
    <3>1. Abstract!Deliver(v, s, q)
      BY <1>2, <1>8, <1>e, <2>1 DEF PublishPushFails, AppendPush, history, Abstract!Deliver
    <3> QED
      BY <1>6, <3>1
  <2>2. CASE UNCHANGED push
    BY <1>7, <1>e, <2>2 DEF PublishPushFails, history
  <2> QED
    BY <1>e, <2>1, <2>2 DEF PublishPushFails
<1>f. ASSUME MarkPublished(p, v)
      PROVE  Abstract!PublicationNext \/ UNCHANGED Abstract!publicationVars
  <2>1. UNCHANGED <<push, dlq, swallowed>>
    BY <1>f DEF MarkPublished, history
  <2>2. CASE ~ Owned(p, v)
    BY <1>7, <1>f, <2>1, <2>2 DEF MarkPublished
  <2>3. CASE Owned(p, v)
    <3>1. PICK to \in SUBSET Partitions : to = task[p][v].parts
      BY <1>4 DEF TaskType
    <3> DEFINE new == [rows[v][s] EXCEPT !.status = "Published", !.lockedBy = 0, !.parts = to]
    <3>2. new \in RowType /\ new.status = "Published" /\ new.parts = to
      BY <1>4 DEF RowType, Terminal
    <3>3. rows' = [rows EXCEPT ![v][s] = new]
      BY <1>2, <1>f, <2>3, <3>1 DEF MarkPublished, SetRow
    <3> HIDE DEF new
    <3>4. RowBecomes(v, s, new)
      BY <1>3, <1>4, <3>2, <3>3, RowUpdate
    <3>5. Outcomes' = [Outcomes EXCEPT ![v][s] = [end |-> "Published", to |-> to]]
      <4>1. Outcome(new) = [end |-> "Published", to |-> to]
        BY <3>2, OutcomeIs
      <4> QED
        BY <1>3, <3>4, <4>1, OutcomeChanges
    <3>6. \A q \in to : Pushed(q, v, s) \/ <<q, v, s>> \in swallowed
      BY <1>2, <1>f, <3>1 DEF MarkPublished, At, IInv, Done
    <3>7. Abstract!SettlePublished(v, s, to)
      BY <1>5, <2>1, <2>3, <3>5, <3>6 DEF Pushed, Abstract!SettlePublished
    <3> QED
      BY <1>6, <3>7
  <2> QED
    BY <2>2, <2>3
<1>g. ASSUME MarkFailed(p, v)
      PROVE  UNCHANGED Abstract!publicationVars
  <2>1. UNCHANGED <<push, dlq, swallowed>>
    BY <1>g DEF MarkFailed, history
  <2>2. CASE rows' = rows
    BY <1>7, <2>1, <2>2
  <2> DEFINE toDLQ == [rows[v][s] EXCEPT !.status = "DLQPending", !.retries = @ + 1, !.due = FALSE]
             again == [rows[v][s] EXCEPT !.status = "Retrying", !.retries = @ + 1,
                                         !.due = FALSE, !.lockedBy = 0]
  <2>3. rows[v][s].retries + 1 \in Nat
    BY <1>4 DEF RowType
  <2>4. /\ toDLQ \in RowType /\ toDLQ.status \in NonTerminal
        /\ again \in RowType /\ again.status \in NonTerminal
    BY <1>4, <2>3 DEF RowType, NonTerminal
  <2>5. \/ rows' = rows
        \/ Owned(p, v) /\ rows' = [rows EXCEPT ![v][s] = toDLQ]
        \/ Owned(p, v) /\ rows' = [rows EXCEPT ![v][s] = again]
    BY <1>2, <1>g DEF MarkFailed, SetRow
  <2> HIDE DEF toDLQ, again
  <2>6. ASSUME NEW row \in RowType, row.status \in NonTerminal, Owned(p, v),
               rows' = [rows EXCEPT ![v][s] = row]
        PROVE  Outcomes' = Outcomes
    <3>1. RowBecomes(v, s, row)
      BY <1>3, <1>4, <2>6, RowUpdate
    <3>2. Outcome(row) = Outcome(rows[v][s])
      BY <1>4, <1>5, <2>6, OutcomeIs
    <3> QED
      BY <1>3, <3>1, <3>2, OutcomeChanges
  <2>7. Outcomes' = Outcomes
    BY <1>8, <2>4, <2>5, <2>6
  <2> QED
    BY <2>1, <2>7 DEF Abstract!publicationVars
<1>h. ASSUME PublishDLQ(p, v) \/ PublishDLQFails(p, v)
      PROVE  Abstract!PublicationNext \/ UNCHANGED Abstract!publicationVars
  <2>1. rows' = rows /\ UNCHANGED <<push, swallowed>> /\ dlq' \in {dlq, dlq \cup {<<v, s>>}}
    BY <1>2, <1>h DEF PublishDLQ, PublishDLQFails, history
  <2>2. CASE dlq' = dlq
    BY <1>7, <2>1, <2>2
  <2>3. CASE dlq' = dlq \cup {<<v, s>>}
    <3>1. Abstract!SendToDLQ(v, s)
      BY <1>8, <2>1, <2>3 DEF Abstract!SendToDLQ
    <3> QED
      BY <1>6, <3>1
  <2> QED
    BY <2>1, <2>2, <2>3
<1>i. ASSUME RetryDLQ(p, v)
      PROVE  UNCHANGED Abstract!publicationVars
  <2>1. UNCHANGED <<push, dlq, swallowed>>
    BY <1>i DEF RetryDLQ, history
  <2> DEFINE again == [rows[v][s] EXCEPT !.due = FALSE, !.lockedBy = 0]
  <2>2. again \in RowType /\ again.status = rows[v][s].status /\ again.parts = rows[v][s].parts
    BY <1>4 DEF RowType
  <2>3. rows' = rows \/ rows' = [rows EXCEPT ![v][s] = again]
    BY <1>2, <1>i DEF RetryDLQ, SetRow
  <2> HIDE DEF again
  <2>4. ASSUME rows' = [rows EXCEPT ![v][s] = again] PROVE Outcomes' = Outcomes
    <3>1. RowBecomes(v, s, again)
      BY <1>3, <1>4, <2>2, <2>4, RowUpdate
    <3>2. Outcome(again) = Outcome(rows[v][s])
      BY <2>2 DEF Outcome
    <3> QED
      BY <1>3, <3>1, <3>2, OutcomeChanges
  <2> QED
    BY <1>8, <2>1, <2>3, <2>4 DEF Abstract!publicationVars
<1>j. ASSUME MarkDead(p, v)
      PROVE  Abstract!PublicationNext \/ UNCHANGED Abstract!publicationVars
  <2>1. UNCHANGED <<push, dlq, swallowed>> /\ <<v, s>> \in dlq
    BY <1>2, <1>j DEF MarkDead, At, history, IInv, Done
  <2> DEFINE dead == [rows[v][s] EXCEPT !.status = "Dead", !.lockedBy = 0]
  <2>2. dead \in RowType /\ dead.status = "Dead"
    BY <1>4 DEF RowType, Terminal
  <2>3. rows' = rows \/ (Owned(p, v) /\ rows' = [rows EXCEPT ![v][s] = dead])
    BY <1>2, <1>j DEF MarkDead, SetRow
  <2> HIDE DEF dead
  <2>4. CASE rows' = rows
    BY <1>7, <2>1, <2>4
  <2>5. CASE Owned(p, v) /\ rows' = [rows EXCEPT ![v][s] = dead]
    <3>1. RowBecomes(v, s, dead)
      BY <1>3, <1>4, <2>2, <2>5, RowUpdate
    <3>2. Outcome(dead) = [end |-> "Dead", to |-> {}]
      BY <2>2, OutcomeIs
    <3>3. Outcomes' = [Outcomes EXCEPT ![v][s] = [end |-> "Dead", to |-> {}]]
      BY <1>3, <3>1, <3>2, OutcomeChanges
    <3>4. Abstract!SettleDead(v, s)
      BY <1>5, <2>1, <2>5, <3>3 DEF Abstract!SettleDead
    <3> QED
      BY <1>6, <3>4
  <2> QED
    BY <2>3, <2>4, <2>5
<1> QED
  BY <1>a, <1>b, <1>c, <1>d, <1>e, <1>f, <1>g, <1>h, <1>i, <1>j DEF PublishOne

LEMMA StepRefines ==
    ASSUME IInv, [Next]_vars
    PROVE  Abstract!PublicationNext \/ UNCHANGED Abstract!publicationVars
<1>1. ASSUME UNCHANGED <<rows, push, dlq, swallowed>>
      PROVE  UNCHANGED Abstract!publicationVars
  BY <1>1 DEF Abstract!publicationVars, Outcomes
<1>2. ASSUME NEW v \in Convs, NEW bad \in BOOLEAN, Persist(v, bad)
      PROVE  Abstract!PublicationNext
  BY <1>2, HandsOver DEF Abstract!PublicationNext
<1>3. ASSUME NEW v \in Convs, NEW s \in 1..MaxSeq, TimePasses(v, s)
      PROVE  UNCHANGED Abstract!publicationVars
  <2> DEFINE row == [rows[v][s] EXCEPT !.due = TRUE]
  <2>1. s \in 1..Len(rows[v]) /\ RowsOK /\ rows[v][s] \in RowType
    BY <1>3 DEF TimePasses, IInv, TypeOK, RowsOK
  <2>2. row \in RowType /\ row.status = rows[v][s].status /\ row.parts = rows[v][s].parts
    BY <2>1 DEF RowType
  <2>3. rows' = [rows EXCEPT ![v][s] = row]
    BY <1>3 DEF TimePasses
  <2> HIDE DEF row
  <2>4. RowBecomes(v, s, row) /\ Outcome(row) = Outcome(rows[v][s])
    BY <2>1, <2>2, <2>3, RowUpdate DEF Outcome
  <2>5. Outcomes' = Outcomes
    BY <2>1, <2>4, OutcomeChanges
  <2> QED
    BY <1>3, <2>5 DEF TimePasses, Abstract!publicationVars
<1>4. ASSUME NEW p \in Pubs, NEW S \in SUBSET Convs, Claim(p, S)
      PROVE  UNCHANGED Abstract!publicationVars
  <2>1. PICK head \in [S -> 1..MaxSeq] :
            (\A v \in S : DueHead(v, head[v])) /\ ClaimHeads(p, S, head)
    BY <1>4 DEF Claim, ClaimHeads
  <2>2. HeadsClaimed(p, S, head)
    BY <2>1, ClaimEffect
  <2>3. ASSUME NEW v \in Convs, NEW r \in 1..Len(rows[v])
        PROVE  Outcome(rows'[v][r]) = Outcome(rows[v][r])
    <3>1. CASE v \in S /\ r = head[v]
      <4>1. rows[v][r].status \in NonTerminal /\ rows'[v][r].status \in NonTerminal
        BY <2>1, <2>2, <3>1 DEF DueHead, IsHead, HeadsClaimed, NonTerminal
      <4>2. rows[v][r] \in RowType /\ rows'[v][r] \in RowType
        BY <2>2 DEF HeadsClaimed, IInv, TypeOK, RowsOK
      <4> QED
        BY <4>1, <4>2, OutcomeIs
    <3>2. CASE ~ (v \in S /\ r = head[v])
      BY <2>2, <3>2 DEF HeadsClaimed
    <3> QED
      BY <3>1, <3>2
  <2>4. Outcomes' = Outcomes
    BY <2>2, <2>3, OutcomesStay DEF HeadsClaimed
  <2> QED
    BY <1>4, <2>4 DEF Claim, history, Abstract!publicationVars
<1>5. ASSUME NEW p \in Pubs, acquireWorkerSlot(p) \/ MonitorCancels(p) \/ Crash(p)
      PROVE  UNCHANGED Abstract!publicationVars
  BY <1>1, <1>5 DEF acquireWorkerSlot, MonitorCancels, Crash, history
<1>6. ASSUME LoseLock \/ UNCHANGED vars
      PROVE  UNCHANGED Abstract!publicationVars
  BY <1>1, <1>6 DEF LoseLock, vars, history
<1> QED
  BY <1>2, <1>3, <1>4, <1>5, <1>6, PublishOneRefines DEF Next

(* publishOne, Claim and the row updates, for any number of publishers     *)
(* that lose locks, leases and answers, implement Publication: messages    *)
(* are worked on in turn, and each is settled once, on the evidence its    *)
(* final status claims.                                                    *)
THEOREM OutboxImplementsPublication == Spec => ImplementsPublication
<1>1. Init => Abstract!PublicationInit
  <2> SUFFICES ASSUME Init PROVE Abstract!PublicationInit
    OBVIOUS
  <2>1. Outcomes = [v \in Convs |-> <<>>]
    BY DEF Init, Outcomes
  <2> QED
    BY <2>1 DEF Init, Abstract!PublicationInit
<1>2. IInv /\ [Next]_vars => [Abstract!PublicationNext]_(Abstract!publicationVars)
  BY StepRefines
<1> QED
  BY <1>1, <1>2, Inductive, PTL DEF Spec, ImplementsPublication, Abstract!PublicationSpec
=============================================================================
