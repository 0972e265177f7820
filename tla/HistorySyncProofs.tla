------------------------- MODULE HistorySyncProofs --------------------------
(***************************************************************************)
(* Proofs about HistorySync, for any devices, page limits, columns, number *)
(* of requests, of messages and of faults.                                 *)
(*                                                                         *)
(* The inductive invariant says what a device has while it walks back and  *)
(* while it follows (DevOK), what a request may ask for and how it fits    *)
(* the device that waits for it (AskOK, OwnOK), and what a page is worth   *)
(* (PageOK). All of it survives the growth of hidden, lastSeq and sent, so *)
(* a step has to be looked at only where it changes a device or a request. *)
(***************************************************************************)
EXTENDS HistorySync, TLAPS

Active(r) == req[r].pc # "none"

(* At most one request of a device is under way. *)
OneEach ==
    \A r1, r2 \in Requests :
        Active(r1) /\ Active(r2) /\ req[r1].by = req[r2].by /\ req[r1].by # NoDevice => r1 = r2

(* All of a..b that is not hidden is in S. *)
Holds(S, a, b) == \A s \in a..b : s > hidden => s \in S

(* A device that walks has everything from before to top; one that follows *)
(* has everything up to its cursor, and its cursor has reached the end it  *)
(* was told of.                                                            *)
DevOK(v) ==
    /\ v.local \subseteq sent
    /\ v.cursor <= lastSeq /\ v.top <= lastSeq
    /\ Holds(v.local, 1, v.cursor)
    /\ v.walking => v.cursor = 0
    /\ v.before > 0 => /\ v.walking /\ v.before <= v.top /\ v.asOf = v.top
                       /\ Holds(v.local, v.before, v.top)
    /\ ~ v.walking => v.cursor > 0 /\ v.asOf <= v.cursor

(* What a request may ask for. *)
AskOK(q) ==
    /\ q.limit \in Limits
    /\ q.after > 0 => q.before = 0
    /\ q.after <= lastSeq /\ q.before <= lastSeq /\ q.floor <= hidden
    /\ Holds(sent, 1, q.after)

(* A device waits for its answer, and only pushes change it meanwhile.     *)
OwnOK(q) ==
    q.by \in Devices =>
          /\ q.before = dev[q.by].before
          /\ dev[q.by].walking => q.after = 0
          /\ ~ dev[q.by].walking => q.after > 0 /\ q.after <= dev[q.by].cursor

(* The page of a request that has been read.                               *)
PageOK(q) ==
    /\ q.pc = "record" => q.after > 0 /\ ~ q.resync
    /\ q.pc \in {"record", "answered"} =>
          /\ q.lo..q.hi \subseteq sent
          /\ q.hi <= lastSeq
          /\ q.more => q.lo <= q.hi
    /\ q.pc \in {"record", "answered"} /\ q.after > 0 /\ ~ q.resync =>
          /\ q.lo = q.after + 1
          /\ q.next = nextAfter(q.lo, q.hi)
          /\ q.more \/ q.asOf <= q.hi
          /\ q.after <= q.hi
    /\ q.pc = "answered" /\ q.after = 0 =>
          /\ ~ q.resync
          /\ q.next = nextBefore(q.lo, q.hi)
          /\ IF q.before > 0 THEN q.hi = q.before - 1 ELSE q.hi = q.asOf
          /\ q.more \/ q.lo <= hidden + 1

ReqOK(q) == q.pc # "none" => AskOK(q) /\ PageOK(q) /\ OwnOK(q)

SyncedOK == synced <= lastSeq /\ Holds(sent, 1, synced)

IInv ==
    /\ TypeOK
    /\ OneEach
    /\ \A d \in Devices : DevOK(dev[d])
    /\ \A r \in Requests : ReqOK(req[r])
    /\ SyncedOK

-----------------------------------------------------------------------------
(* The assumptions in the form the proofs use. *)
LEMMA ConstantTypes == /\ NoDevice \notin Devices /\ MaxSeq \in Nat /\ MaxFaults \in Nat
                       /\ \A n \in Limits : n \in Nat /\ n > 0
BY SyncConstants

(* Pages are intervals of seqs. *)
LEMMA PageTypes ==
    ASSUME NEW q \in RequestType, lastSeq \in Seqs
    PROVE  /\ LET items == ListBefore(q.before, q.limit)
                  lo == Max2(items.lo, Min2(q.floor, items.hi) + 1)
              IN  /\ items.hi \in Seqs /\ items.hi <= lastSeq
                  /\ lo \in 1..(MaxSeq + 1) /\ lo <= items.hi + 1
                  /\ nextBefore(lo, items.hi) \in Seqs
           /\ LET items == ListAfter(Max2(q.after, q.floor), q.limit)
              IN  /\ items.hi \in Seqs /\ (items.lo <= items.hi => items.hi <= lastSeq)
                  /\ items.lo \in 1..(MaxSeq + 1) /\ items.lo <= items.hi + 1
                  /\ nextAfter(items.lo, items.hi) \in Seqs
<1> USE ConstantTypes DEF RequestType, Seqs
<1>1. q.limit \in Nat /\ q.before \in Nat /\ q.before <= MaxSeq /\ q.after \in Nat /\ q.after <= MaxSeq
      /\ q.floor \in Nat /\ q.floor <= MaxSeq
  OBVIOUS
<1>2. lastSeq \in Nat /\ lastSeq <= MaxSeq
  OBVIOUS
<1> QED BY <1>1, <1>2 DEF ListBefore, ListAfter, Max2, Min2, nextBefore, nextAfter

(* Answer, for any page. *)
LEMMA AnswerTypes ==
    ASSUME TypeOK, NEW r \in Requests, NEW pc \in {"record", "answered"},
           NEW lo \in 1..(MaxSeq + 1), NEW hi \in Seqs, NEW next \in Seqs, NEW resync \in BOOLEAN,
           lo <= hi => hi <= lastSeq,
           Answer(r, pc, lo, hi, next, resync)
    PROVE  TypeOK'
<1>1. req' \in [Requests -> RequestType]
  <2>1. req[r] \in RequestType /\ lastSeq \in Seqs
    BY DEF TypeOK
  <2>2. [req[r] EXCEPT !.pc = pc, !.lo = lo, !.hi = hi, !.next = next, !.resync = resync,
                  !.more = HasMore(req[r].limit, lo, hi), !.asOf = lastSeq] \in RequestType
    BY <2>1 DEF RequestType, HasMore
  <2> QED BY <2>2 DEF TypeOK, Answer
<1>2. sent' \subseteq 1..lastSeq
  BY ConstantTypes DEF TypeOK, Answer, Seqs
<1> QED BY <1>1, <1>2 DEF TypeOK, Answer, rowVars

(* The end of a walk. *)
LEMMA WalkOverType ==
    ASSUME NEW v \in DeviceType, NEW n \in Seqs, NEW b \in BOOLEAN
    PROVE  [v EXCEPT !.before = 0, !.cursor = n, !.walking = b] \in DeviceType
<1>1. 0 \in Seqs
  BY ConstantTypes DEF Seqs
<1> QED BY <1>1 DEF DeviceType

(* A device's new state, for any page. *)
LEMMA ApplyTypes ==
    ASSUME NEW q \in RequestType, NEW v \in DeviceType
    PROVE  Walked(v, q) \in DeviceType /\ Followed(v, q) \in DeviceType /\ NewDevice \in DeviceType
<1> USE ConstantTypes DEF Seqs
<1>1. /\ q.lo \in 1..(MaxSeq + 1) /\ q.hi \in 0..MaxSeq /\ q.next \in 0..MaxSeq /\ q.asOf \in 0..MaxSeq
      /\ q.before \in 0..MaxSeq /\ q.more \in BOOLEAN
  BY DEF RequestType
<1>2. /\ v.local \in SUBSET (1..MaxSeq) /\ v.cursor \in 0..MaxSeq /\ v.top \in 0..MaxSeq
      /\ v.asOf \in 0..MaxSeq /\ v.before \in 0..MaxSeq /\ v.walking \in BOOLEAN
  BY DEF DeviceType
<1>3. nextAfter(q.lo, q.hi) \in 0..MaxSeq
  BY <1>1 DEF nextAfter
<1>4. v.local \cup q.lo..q.hi \in SUBSET (1..MaxSeq)
  BY <1>1, <1>2
<1>5. Walked(v, q) \in DeviceType
  <2> DEFINE top == IF q.before = 0 THEN nextAfter(q.lo, q.hi) ELSE v.top
             asOf == IF q.before = 0 THEN q.asOf ELSE v.asOf
             w == [v EXCEPT !.local = v.local \cup q.lo..q.hi, !.top = top, !.asOf = asOf]
  <2>1. top \in 0..MaxSeq /\ asOf \in 0..MaxSeq
    BY <1>1, <1>2, <1>3
  <2>2. w \in DeviceType
    <3> HIDE DEF top, asOf
    <3> QED BY <1>2, <1>4, <2>1 DEF DeviceType
  <2>3. Walked(v, q) = IF q.more THEN [w EXCEPT !.before = q.next]
                       ELSE [w EXCEPT !.before = 0, !.cursor = top, !.walking = (top = 0)]
    BY DEF Walked
  <2>4. [w EXCEPT !.before = q.next] \in DeviceType
    <3> HIDE DEF w
    <3> QED BY <1>1, <2>2 DEF DeviceType
  <2>5. [w EXCEPT !.before = 0, !.cursor = top, !.walking = (top = 0)] \in DeviceType
    <3> DEFINE empty == top = 0
    <3>1. empty \in BOOLEAN
      OBVIOUS
    <3> HIDE DEF w, top, empty
    <3>2. [w EXCEPT !.before = 0, !.cursor = top, !.walking = empty] \in DeviceType
      BY <2>1, <2>2, <3>1, WalkOverType
    <3> QED BY <3>2 DEF empty
  <2> QED BY <2>3, <2>4, <2>5
<1>6. Followed(v, q) \in DeviceType
  BY <1>1, <1>2, <1>4 DEF Followed, DeviceType, Max2
<1>7. NewDevice \in DeviceType
  BY DEF NewDevice, DeviceType
<1> QED BY <1>5, <1>6, <1>7

(* A device that stores a push, typed. *)
LEMMA PushedType ==
    ASSUME NEW v \in DeviceType, NEW s \in 1..MaxSeq
    PROVE  Pushed(v, s) \in DeviceType
<1> DEFINE local == v.local \cup {s}
           cursor == IF v.walking \/ s # v.cursor + 1 THEN v.cursor ELSE s
<1>1. local \in SUBSET (1..MaxSeq) /\ cursor \in Seqs
  BY ConstantTypes DEF DeviceType, Seqs
<1>2. [v EXCEPT !.local = local, !.cursor = cursor] \in DeviceType
  <2> HIDE DEF local, cursor
  <2> QED BY <1>1 DEF DeviceType
<1> QED BY <1>2 DEF Pushed

(* An empty slot, typed. *)
LEMMA NoRequestType == NoRequest \in RequestType
BY ConstantTypes DEF NoRequest, RequestType, Seqs

(* Types hold at first ... *)
LEMMA TypeInit == Init => TypeOK
<1> SUFFICES ASSUME Init PROVE TypeOK
  OBVIOUS
<1>1. NewDevice \in DeviceType
  BY ConstantTypes DEF NewDevice, DeviceType, Seqs
<1> QED BY <1>1, NoRequestType, ConstantTypes DEF Init, TypeOK, Seqs

(* ... and every action keeps them. *)
LEMMA TypeStep == TypeOK /\ [Next]_vars => TypeOK'
<1> SUFFICES ASSUME TypeOK, [Next]_vars PROVE TypeOK'
  OBVIOUS
<1> USE ConstantTypes
<1>1. CASE Persist
  <2>1. lastSeq' \in Seqs /\ hidden' \in 0..lastSeq'
    BY <1>1 DEF TypeOK, Persist, Seqs
  <2>2. marks' \in [Columns -> 0..lastSeq']
    BY <1>1 DEF TypeOK, Persist, Seqs
  <2>3. sent' \subseteq 1..lastSeq'
    BY <1>1 DEF TypeOK, Persist, Seqs
  <2> QED BY <1>1, <2>1, <2>2, <2>3 DEF TypeOK, Persist
<1>2. CASE Clear
  BY <1>2 DEF TypeOK, Clear, Seqs
<1>3. ASSUME NEW r \in Requests, CheckMember(r) PROVE TypeOK'
  <2>1. req[r] \in RequestType /\ hidden \in Seqs
    BY DEF TypeOK, Seqs
  <2>2. [req[r] EXCEPT !.pc = "checked", !.floor = hidden] \in RequestType
    BY <2>1 DEF RequestType
  <2> QED BY <1>3, <2>2 DEF TypeOK, CheckMember, rowVars
<1>4. ASSUME NEW r \in Requests, ListHistory(r) PROVE TypeOK'
  <2> DEFINE q == req[r]
             b == ListBefore(q.before, q.limit)
             lo == Max2(b.lo, Min2(q.floor, b.hi) + 1)
             a == ListAfter(Max2(q.after, q.floor), q.limit)
  <2>1. q \in RequestType /\ lastSeq \in Seqs /\ hidden \in 0..lastSeq
    BY DEF TypeOK
  <2>2. CASE listBefore(r)
    <3>1. Answer(r, "answered", lo, b.hi, nextBefore(lo, b.hi), FALSE)
      BY <2>2 DEF listBefore
    <3>2. /\ b.hi \in Seqs /\ b.hi <= lastSeq /\ lo \in 1..(MaxSeq + 1)
          /\ nextBefore(lo, b.hi) \in Seqs
      BY <2>1, PageTypes
    <3> HIDE DEF b, lo
    <3> QED BY <3>1, <3>2, AnswerTypes
  <2>3. CASE listAfter(r)
    <3> DEFINE pc == IF q.after < q.floor THEN "answered" ELSE "record"
               resync == q.after < q.floor
    <3>1. Answer(r, pc, a.lo, a.hi, nextAfter(a.lo, a.hi), resync)
      BY <2>3 DEF listAfter
    <3>2. /\ a.hi \in Seqs /\ a.lo \in 1..(MaxSeq + 1) /\ (a.lo <= a.hi => a.hi <= lastSeq)
          /\ nextAfter(a.lo, a.hi) \in Seqs
      BY <2>1, PageTypes
    <3>3. pc \in {"record", "answered"} /\ resync \in BOOLEAN
      OBVIOUS
    <3> HIDE DEF a, pc, resync
    <3> QED BY <3>1, <3>2, <3>3, AnswerTypes
  <2> QED BY <1>4, <2>2, <2>3 DEF ListHistory
<1>5. ASSUME NEW r \in Requests, recordCursor(r) PROVE TypeOK'
  <2>1. req[r] \in RequestType /\ synced \in Seqs
    BY DEF TypeOK
  <2>2. [req[r] EXCEPT !.pc = "answered"] \in RequestType
    BY <2>1 DEF RequestType
  <2>3. synced' \in Seqs
    BY <1>5, <2>1 DEF recordCursor, Synced, Max2, RequestType
  <2> QED BY <1>5, <2>2, <2>3 DEF TypeOK, recordCursor, rowVars
<1>6. ASSUME NEW r \in Requests, Discard(r) PROVE TypeOK'
  BY <1>6, NoRequestType DEF TypeOK, Discard, rowVars
<1>7. ASSUME NEW r \in Requests, RecordFails(r) PROVE TypeOK'
  <2>1. [req[r] EXCEPT !.pc = "answered"] \in RequestType
    BY DEF TypeOK, RequestType
  <2> QED BY <1>7, <2>1 DEF TypeOK, RecordFails, rowVars, Fault
<1>8. ASSUME NEW r \in Requests, RequestFails(r) PROVE TypeOK'
  BY <1>8, NoRequestType DEF TypeOK, RequestFails, rowVars, Fault
<1>9. ASSUME NEW r \in Requests, GiveUp(r) PROVE TypeOK'
  <2>1. [req[r] EXCEPT !.by = NoDevice] \in RequestType
    BY DEF TypeOK, RequestType
  <2> QED BY <1>9, <2>1 DEF TypeOK, GiveUp, rowVars, Fault
<1>10. CASE Acknowledge
  <2>1. PICK k \in Columns, s \in 1..MaxSeq : AdvanceMark(k, s)
    BY <1>10 DEF Acknowledge
  <2>2. s \in 0..lastSeq
    BY <2>1 DEF AdvanceMark, TypeOK, Seqs
  <2> QED BY <2>1, <2>2 DEF TypeOK, AdvanceMark
<1>11. ASSUME NEW d \in Devices, NEW r \in Requests, Apply(d, r) PROVE TypeOK'
  <2>1. req[r] \in RequestType /\ dev[d] \in DeviceType
    BY DEF TypeOK
  <2>2. dev' \in [Devices -> DeviceType]
    <3>1. /\ Walked(dev[d], req[r]) \in DeviceType /\ Followed(dev[d], req[r]) \in DeviceType
          /\ NewDevice \in DeviceType
      BY <2>1, ApplyTypes
    <3> QED BY <1>11, <3>1 DEF TypeOK, Apply
  <2> QED BY <1>11, <2>2, NoRequestType DEF TypeOK, Apply, rowVars
<1>12. ASSUME NEW d \in Devices, NEW r \in Requests, NEW n \in Limits, Pull(d, r, n) PROVE TypeOK'
  <2>1. dev[d] \in DeviceType
    BY DEF TypeOK
  <2>2. [NoRequest EXCEPT !.pc = "sent", !.by = d, !.limit = n, !.before = dev[d].before,
                  !.after = IF dev[d].walking THEN 0 ELSE dev[d].cursor] \in RequestType
    <3>1. dev[d].before \in Seqs /\ (IF dev[d].walking THEN 0 ELSE dev[d].cursor) \in Seqs
      BY <2>1 DEF DeviceType, Seqs
    <3> QED BY <3>1, NoRequestType DEF RequestType
  <2> QED BY <1>12, <2>2 DEF TypeOK, Pull, rowVars
<1>13. ASSUME NEW d \in Devices, NEW s \in 1..MaxSeq, Push(d, s) PROVE TypeOK'
  <2>1. dev[d] \in DeviceType
    BY DEF TypeOK
  <2>2. dev' \in [Devices -> DeviceType]
    BY <1>13, <2>1, PushedType DEF TypeOK, Push
  <2>3. sent' \subseteq 1..lastSeq
    BY <1>13 DEF TypeOK, Push, Seqs
  <2> QED BY <1>13, <2>2, <2>3 DEF TypeOK, Push, rowVars
<1>14. CASE UNCHANGED vars
  BY <1>14 DEF TypeOK, vars, rowVars
<1> QED BY <1>1, <1>2, <1>3, <1>4, <1>5, <1>6, <1>7, <1>8, <1>9, <1>10, <1>11, <1>12, <1>13, <1>14
        DEF Next, Serve

-----------------------------------------------------------------------------
(* Nothing is unsent, unpersisted or shown again.                          *)
Grows == hidden <= hidden' /\ lastSeq <= lastSeq' /\ sent \subseteq sent'

(* Every step grows in this sense. *)
LEMMA StepGrows ==
    ASSUME TypeOK, [Next]_vars PROVE Grows
<1> USE ConstantTypes DEF Grows, TypeOK, Seqs
<1>1. CASE Persist
  BY <1>1 DEF Persist
<1>2. CASE Clear
  BY <1>2 DEF Clear
<1>3. CASE UNCHANGED <<lastSeq, hidden>> /\ sent \subseteq sent'
  BY <1>3
<1> QED BY <1>1, <1>2, <1>3 DEF Next, Serve, CheckMember, ListHistory, listBefore, listAfter, Answer,
           recordCursor, Discard, RecordFails, RequestFails, GiveUp, Acknowledge, AdvanceMark,
           Apply, Pull, Push, vars, rowVars

(* So what is true of a device or a request that a step leaves alone       *)
(* remains true.                                                           *)
LEMMA DevMono ==
    ASSUME TypeOK, TypeOK', Grows, NEW v \in DeviceType, DevOK(v)
    PROVE  DevOK(v)'
<1>1. hidden \in Int /\ hidden' \in Int /\ lastSeq \in Int /\ lastSeq' \in Int
  BY ConstantTypes DEF TypeOK, Seqs
<1>2. v.cursor \in Int /\ v.top \in Int /\ v.before \in Int
  BY ConstantTypes DEF DeviceType, Seqs
<1> QED BY <1>1, <1>2 DEF DevOK, Holds, Grows

(* Requests. *)
LEMMA ReqMono ==
    ASSUME TypeOK, TypeOK', Grows, NEW q \in RequestType
    PROVE  (AskOK(q) => AskOK(q)') /\ (PageOK(q) => PageOK(q)')
<1>1. hidden \in Int /\ hidden' \in Int /\ lastSeq \in Int /\ lastSeq' \in Int
  BY ConstantTypes DEF TypeOK, Seqs
<1>2. /\ q.after \in Int /\ q.before \in Int /\ q.floor \in Int /\ q.lo \in Int /\ q.hi \in Int
      /\ q.asOf \in Int
  BY ConstantTypes DEF RequestType, Seqs
<1>3. AskOK(q) => AskOK(q)'
  BY <1>1, <1>2 DEF AskOK, Holds, Grows
<1>4. PageOK(q) => PageOK(q)'
  BY <1>1, <1>2 DEF PageOK, Grows
<1> QED BY <1>3, <1>4

(* The sync cursor. *)
LEMMA SyncedMono ==
    ASSUME TypeOK, TypeOK', Grows, SyncedOK, synced' = synced PROVE SyncedOK'
<1>1. hidden \in Int /\ hidden' \in Int /\ lastSeq \in Int /\ lastSeq' \in Int /\ synced \in Int
  BY ConstantTypes DEF TypeOK, Seqs
<1> QED BY <1>1 DEF SyncedOK, Holds, Grows

(* A step that changes one request and no device. *)
LEMMA ReqStep ==
    ASSUME IInv, TypeOK', Grows, NEW r \in Requests, NEW q \in RequestType,
           dev' = dev, req' = [req EXCEPT ![r] = q],
           ReqOK(q)', SyncedOK',
           q.pc # "none" /\ q.by # NoDevice =>
               \A r2 \in Requests \ {r} : Active(r2) => req[r2].by # q.by
    PROVE  IInv'
<1>1. \A d \in Devices : DevOK(dev[d])'
  <2> TAKE d \in Devices
  <2>1. dev[d] \in DeviceType /\ DevOK(dev[d]) /\ dev'[d] = dev[d]
    BY DEF IInv, TypeOK
  <2> QED BY <2>1, DevMono DEF IInv, DevOK, Holds
<1>2. \A x \in Requests : ReqOK(req[x])'
  <2> TAKE x \in Requests
  <2>1. CASE x = r
    <3>1. req'[x] = q
      BY <2>1 DEF IInv, TypeOK
    <3> QED BY <3>1 DEF ReqOK, AskOK, PageOK, OwnOK, Holds
  <2>2. CASE x # r
    <3>1. req[x] \in RequestType /\ req'[x] = req[x] /\ ReqOK(req[x])
      BY <2>2 DEF IInv, TypeOK
    <3>2. PICK y \in RequestType : y = req[x]
      BY <3>1
    <3>3. ReqOK(y)
      BY <3>1, <3>2
    <3>4. ReqOK(y)'
      BY <3>3, ReqMono DEF IInv, ReqOK, OwnOK
    <3> QED BY <3>1, <3>2, <3>4 DEF ReqOK, AskOK, PageOK, OwnOK, Holds
  <2> QED BY <2>1, <2>2
<1>3. OneEach'
  BY DEF IInv, OneEach, Active, TypeOK
<1> QED BY <1>1, <1>2, <1>3 DEF IInv

-----------------------------------------------------------------------------
(* The pages *)

(* A page of the walk ends where the last one began; a page that is not    *)
(* full has reached what is hidden.                                        *)
LEMMA BeforePage ==
    ASSUME NEW q \in RequestType, AskOK(q), lastSeq \in Seqs, hidden \in 0..lastSeq
    PROVE  LET hi == ListBefore(q.before, q.limit).hi
               lo == Max2(ListBefore(q.before, q.limit).lo, Min2(q.floor, hi) + 1)
           IN  /\ IF q.before > 0 THEN hi = q.before - 1 ELSE hi = lastSeq
               /\ HasMore(q.limit, lo, hi) => lo <= hi
               /\ HasMore(q.limit, lo, hi) \/ lo <= hidden + 1
<1>1. /\ q.limit \in Nat /\ q.limit > 0 /\ q.before \in Nat /\ q.floor \in Nat
      /\ q.before <= lastSeq /\ q.floor <= hidden /\ lastSeq \in Nat /\ hidden \in Nat
  BY ConstantTypes DEF RequestType, AskOK, Seqs
<1> QED BY <1>1 DEF ListBefore, Max2, Min2, HasMore

(* A page of new messages begins after the cursor; one that is not full    *)
(* has reached the end.                                                    *)
LEMMA AfterPage ==
    ASSUME NEW q \in RequestType, AskOK(q), lastSeq \in Seqs, hidden \in 0..lastSeq
    PROVE  LET items == ListAfter(Max2(q.after, q.floor), q.limit)
           IN  /\ items.hi <= lastSeq
               /\ HasMore(q.limit, items.lo, items.hi) => items.lo <= items.hi
               /\ HasMore(q.limit, items.lo, items.hi) \/ lastSeq <= items.hi
               /\ q.after >= q.floor => items.lo = q.after + 1 /\ q.after <= items.hi
<1>1. /\ q.limit \in Nat /\ q.limit > 0 /\ q.after \in Nat /\ q.floor \in Nat
      /\ q.after <= lastSeq /\ q.floor <= hidden /\ hidden <= lastSeq
      /\ lastSeq \in Nat /\ hidden \in Nat
  BY ConstantTypes DEF RequestType, AskOK, Seqs
<1> QED BY <1>1 DEF ListAfter, Max2, Min2, HasMore

(* A device that stores a page of its walk. *)
LEMMA WalkedOK ==
    ASSUME NEW v \in DeviceType, NEW q \in RequestType, lastSeq \in Seqs, hidden \in 0..lastSeq,
           DevOK(v), AskOK(q), PageOK(q), q.pc = "answered", q.after = 0, q.before = v.before, v.walking
    PROVE  DevOK(Walked(v, q))
<1>1. /\ q.lo \in Nat /\ q.lo > 0 /\ q.hi \in Nat /\ q.next \in Nat /\ q.asOf \in Nat
      /\ q.before \in Nat /\ q.more \in BOOLEAN
  BY ConstantTypes DEF RequestType, Seqs
<1>2. v.cursor = 0 /\ v.top \in Nat /\ v.asOf \in Nat /\ v.before \in Nat /\ v.top <= lastSeq
  BY ConstantTypes DEF DeviceType, Seqs, DevOK
<1>3. lastSeq \in Nat /\ hidden \in Nat
  BY ConstantTypes DEF Seqs
<1>4. /\ q.lo..q.hi \subseteq sent /\ q.hi <= lastSeq /\ (q.more => q.lo <= q.hi)
      /\ q.next = nextBefore(q.lo, q.hi) /\ (q.more \/ q.lo <= hidden + 1)
      /\ IF q.before > 0 THEN q.hi = q.before - 1 ELSE q.hi = q.asOf
  BY DEF PageOK
<1> DEFINE u == Walked(v, q)
<1>5. /\ u.local = v.local \cup q.lo..q.hi
      /\ u.top = IF q.before = 0 THEN nextAfter(q.lo, q.hi) ELSE v.top
      /\ u.asOf = IF q.before = 0 THEN q.asOf ELSE v.asOf
      /\ u.before = IF q.more THEN q.next ELSE 0
      /\ u.cursor = IF q.more THEN v.cursor ELSE u.top
      /\ u.walking = IF q.more THEN TRUE ELSE u.top = 0
  BY <1>1 DEF Walked, DeviceType
<1> HIDE DEF u
<1>6. u.local \subseteq sent /\ u.top \in Nat /\ u.top <= lastSeq /\ u.asOf \in Nat
  BY <1>1, <1>2, <1>3, <1>4, <1>5 DEF nextAfter, DevOK
<1>7. CASE q.more
  <2>1. u.before = q.lo /\ u.before <= u.top /\ u.asOf = u.top
    BY <1>1, <1>2, <1>4, <1>5, <1>7 DEF nextBefore, nextAfter, DevOK
  <2>2. Holds(u.local, u.before, u.top)
    BY <1>1, <1>2, <1>3, <1>4, <1>5, <1>7, <2>1 DEF nextAfter, DevOK, Holds
  <2>3. u.cursor = 0 /\ u.walking
    BY <1>2, <1>5, <1>7
  <2> QED BY <1>3, <1>6, <2>1, <2>2, <2>3 DEF DevOK, Holds, u
<1>8. CASE ~ q.more
  <2>1. u.before = 0 /\ u.cursor = u.top /\ u.walking = (u.top = 0)
    BY <1>5, <1>8
  <2>2. Holds(u.local, 1, u.cursor)
    BY <1>1, <1>2, <1>3, <1>4, <1>5, <1>8, <2>1 DEF nextAfter, DevOK, Holds
  <2>3. u.top > 0 => u.asOf <= u.cursor
    BY <1>1, <1>2, <1>3, <1>4, <1>5, <1>8, <2>1 DEF nextAfter, DevOK
  <2>4. (u.walking => u.top = 0) /\ (~ u.walking => u.top # 0)
    BY <2>1
  <2>5. /\ u.cursor <= lastSeq
        /\ u.walking => u.cursor = 0
        /\ ~ u.walking => u.cursor > 0 /\ u.asOf <= u.cursor
    BY <1>3, <1>6, <2>1, <2>3, <2>4
  <2>6. ~ (u.before > 0)
    BY <2>1
  <2>7. DevOK(u)
    BY <1>6, <2>2, <2>5, <2>6 DEF DevOK
  <2> QED BY <2>7 DEF u
<1> QED BY <1>1, <1>7, <1>8

(* A device that stores a page of new messages. *)
LEMMA FollowedOK ==
    ASSUME NEW v \in DeviceType, NEW q \in RequestType, lastSeq \in Seqs, hidden \in 0..lastSeq,
           DevOK(v), AskOK(q), PageOK(q), q.pc = "answered", q.after > 0, ~ q.resync,
           q.after <= v.cursor, ~ v.walking
    PROVE  DevOK(Followed(v, q))
<1>1. q.lo \in Nat /\ q.hi \in Nat /\ q.next \in Nat /\ q.asOf \in Nat /\ q.after \in Nat
  BY ConstantTypes DEF RequestType, Seqs
<1>2. /\ v.cursor \in Nat /\ v.top \in Nat /\ v.asOf \in Nat /\ v.before \in Nat
      /\ v.cursor <= lastSeq /\ v.top <= lastSeq /\ v.cursor > 0 /\ v.asOf <= v.cursor
      /\ ~ (v.before > 0) /\ v.local \subseteq sent /\ Holds(v.local, 1, v.cursor)
  BY ConstantTypes DEF DeviceType, Seqs, DevOK
<1>3. lastSeq \in Nat /\ hidden \in Nat
  BY ConstantTypes DEF Seqs
<1>4. /\ q.lo..q.hi \subseteq sent /\ q.hi <= lastSeq /\ q.lo = q.after + 1
      /\ q.next = nextAfter(q.lo, q.hi) /\ (q.more \/ q.asOf <= q.hi) /\ q.after <= q.hi
  BY DEF PageOK
<1> DEFINE u == Followed(v, q)
<1>5. /\ u.local = v.local \cup q.lo..q.hi
      /\ u.cursor = Max2(v.cursor, q.next)
      /\ u.asOf = IF q.more THEN v.asOf ELSE Max2(v.asOf, q.asOf)
      /\ u.top = v.top /\ u.before = v.before /\ u.walking = v.walking
  BY DEF Followed, DeviceType
<1> HIDE DEF u
<1>6. /\ u.cursor \in Nat /\ u.cursor <= lastSeq /\ u.cursor > 0 /\ u.asOf <= u.cursor
      /\ u.local \subseteq sent
  BY <1>1, <1>2, <1>3, <1>4, <1>5 DEF nextAfter, Max2
<1>7. Holds(u.local, 1, u.cursor)
  BY <1>1, <1>2, <1>3, <1>4, <1>5 DEF nextAfter, Max2, Holds
<1>8. ~ u.walking /\ u.top <= lastSeq /\ ~ (u.before > 0)
  BY <1>2, <1>5
<1>9. DevOK(u)
  BY <1>6, <1>7, <1>8 DEF DevOK
<1> QED BY <1>9 DEF u

(* A device that stores a push. *)
LEMMA PushedOK ==
    ASSUME NEW v \in DeviceType, NEW s \in 1..MaxSeq, TypeOK, TypeOK', Grows, DevOK(v),
           s \in sent', s <= lastSeq, s > v.cursor
    PROVE  DevOK(Pushed(v, s))'
<1>1. /\ v.cursor \in Nat /\ v.top \in Nat /\ v.asOf \in Nat /\ v.before \in Nat
  BY ConstantTypes DEF DeviceType, Seqs
<1>2. lastSeq \in Nat /\ hidden' \in Nat /\ lastSeq' \in Nat /\ lastSeq <= lastSeq' /\ s \in Nat
  BY ConstantTypes DEF TypeOK, Seqs, Grows
<1>3. DevOK(v)'
  BY DevMono
<1>4. PICK u : u = Pushed(v, s)
  OBVIOUS
<1>5. /\ u.local = v.local \cup {s} /\ u.top = v.top /\ u.before = v.before
      /\ u.walking = v.walking /\ u.asOf = v.asOf
      /\ u.cursor = IF v.walking \/ s # v.cursor + 1 THEN v.cursor ELSE s
  BY <1>4 DEF Pushed, DeviceType
<1>6. /\ u.local \subseteq sent' /\ u.top <= lastSeq'
      /\ u.walking => u.cursor = 0
      /\ u.cursor <= lastSeq'
      /\ ~ u.walking => u.cursor > 0 /\ u.asOf <= u.cursor
  BY <1>1, <1>2, <1>3, <1>5 DEF DevOK
<1>7. Holds(u.local, 1, u.cursor)'
  BY <1>1, <1>2, <1>3, <1>5 DEF DevOK, Holds
<1>8. u.before > 0 => /\ u.walking /\ u.before <= u.top /\ u.asOf = u.top
                      /\ Holds(u.local, u.before, u.top)'
  BY <1>1, <1>2, <1>3, <1>5 DEF DevOK, Holds
<1>9. DevOK(u)'
  BY <1>6, <1>7, <1>8 DEF DevOK
<1> QED BY <1>4, <1>9

-----------------------------------------------------------------------------
(* The inductive invariant *)

LEMMA InvInit == Init => IInv
<1> SUFFICES ASSUME Init PROVE IInv
  OBVIOUS
<1>1. TypeOK
  BY TypeInit
<1>2. OneEach
  BY DEF Init, OneEach, Active, NoRequest
<1>3. \A d \in Devices : DevOK(dev[d])
  <2>1. PICK v : v = NewDevice
    OBVIOUS
  <2>2. /\ v.local = {} /\ v.cursor = 0 /\ v.walking /\ v.top = 0 /\ v.before = 0
    BY <2>1 DEF NewDevice
  <2>3. DevOK(v)
    BY <2>2 DEF Init, DevOK, Holds
  <2> QED BY <2>1, <2>3 DEF Init
<1>4. \A r \in Requests : ReqOK(req[r])
  BY DEF Init, ReqOK, NoRequest
<1>5. SyncedOK
  BY DEF Init, SyncedOK, Holds
<1> QED BY <1>1, <1>2, <1>3, <1>4, <1>5 DEF IInv

(* What is known of a request under way, before and after a step that      *)
(* changes no device.                                                      *)
LEMMA UnderWay ==
    ASSUME IInv, TypeOK', Grows, dev' = dev, NEW r \in Requests, Active(r)
    PROVE  \E p \in RequestType :
               /\ p = req[r]
               /\ AskOK(p) /\ PageOK(p)
               /\ AskOK(p)' /\ PageOK(p)' /\ OwnOK(p)'
               /\ p.by # NoDevice =>
                     \A r2 \in Requests \ {r} : Active(r2) => req[r2].by # p.by
<1>1. PICK p \in RequestType : p = req[r]
  BY DEF IInv, TypeOK
<1>2. AskOK(p) /\ PageOK(p) /\ OwnOK(p)
  BY <1>1 DEF IInv, ReqOK, Active
<1>3. AskOK(p)' /\ PageOK(p)'
  BY <1>2, ReqMono DEF IInv
<1>4. OwnOK(p)'
  BY <1>2 DEF OwnOK
<1>5. p.by # NoDevice => \A r2 \in Requests \ {r} : Active(r2) => req[r2].by # p.by
  BY <1>1 DEF IInv, OneEach
<1> QED BY <1>1, <1>2, <1>3, <1>4, <1>5

(* CheckMember: the bound that was read is at most the current one.        *)
LEMMA CheckMemberInv ==
    ASSUME IInv, TypeOK', Grows, NEW r \in Requests, CheckMember(r)
    PROVE  IInv'
<1>1. /\ Active(r) /\ req[r].pc = "sent" /\ dev' = dev /\ synced' = synced /\ hidden' = hidden
      /\ req' = [req EXCEPT ![r] = [req[r] EXCEPT !.pc = "checked", !.floor = hidden]]
  BY DEF CheckMember, Active, rowVars
<1>2. PICK p \in RequestType :
        /\ p = req[r] /\ AskOK(p)' /\ PageOK(p)' /\ OwnOK(p)'
        /\ p.by # NoDevice => \A r2 \in Requests \ {r} : Active(r2) => req[r2].by # p.by
  BY <1>1, UnderWay
<1>3. PICK q : q = [p EXCEPT !.pc = "checked", !.floor = hidden]
  OBVIOUS
<1>4. /\ q \in RequestType /\ q.pc = "checked" /\ q.floor = hidden
      /\ q.by = p.by /\ q.limit = p.limit /\ q.before = p.before /\ q.after = p.after
  <2>1. hidden \in Seqs
    BY ConstantTypes DEF IInv, TypeOK, Seqs
  <2> QED BY <1>3, <2>1 DEF RequestType
<1>5. ReqOK(q)'
  <2>1. AskOK(q)'
    BY <1>1, <1>2, <1>4, ConstantTypes DEF AskOK, Holds, IInv, TypeOK, Seqs
  <2>2. PageOK(q)'
    BY <1>4 DEF PageOK
  <2>3. OwnOK(q)'
    BY <1>2, <1>4 DEF OwnOK
  <2> QED BY <2>1, <2>2, <2>3 DEF ReqOK
<1>6. SyncedOK'
  BY <1>1, SyncedMono DEF IInv
<1>7. req' = [req EXCEPT ![r] = q]
  BY <1>1, <1>2, <1>3
<1>8. q.by # NoDevice => \A r2 \in Requests \ {r} : Active(r2) => req[r2].by # q.by
  BY <1>2, <1>4
<1> QED BY <1>1, <1>4, <1>5, <1>6, <1>7, <1>8, ReqStep

(* A page as Answer puts it into the request. *)
LEMMA AnswerInv ==
    ASSUME IInv, TypeOK', Grows, NEW r \in Requests, Active(r),
           NEW pc \in {"record", "answered"},
           NEW lo \in 1..(MaxSeq + 1), NEW hi \in Seqs, NEW next \in Seqs, NEW resync \in BOOLEAN,
           Answer(r, pc, lo, hi, next, resync),
           hi <= lastSeq,
           HasMore(req[r].limit, lo, hi) => lo <= hi,
           pc = "record" => req[r].after > 0 /\ ~ resync,
           req[r].after > 0 /\ ~ resync =>
               /\ lo = req[r].after + 1 /\ next = nextAfter(lo, hi) /\ req[r].after <= hi
               /\ HasMore(req[r].limit, lo, hi) \/ lastSeq <= hi,
           req[r].after = 0 =>
               /\ ~ resync /\ next = nextBefore(lo, hi)
               /\ IF req[r].before > 0 THEN hi = req[r].before - 1 ELSE hi = lastSeq
               /\ HasMore(req[r].limit, lo, hi) \/ lo <= hidden + 1
    PROVE  IInv'
<1>1. /\ dev' = dev /\ synced' = synced /\ hidden' = hidden /\ lastSeq' = lastSeq
      /\ sent' = sent \cup lo..hi
  BY DEF Answer, rowVars
<1>2. PICK p \in RequestType :
        /\ p = req[r] /\ AskOK(p)' /\ OwnOK(p)'
        /\ p.by # NoDevice => \A r2 \in Requests \ {r} : Active(r2) => req[r2].by # p.by
  BY <1>1, UnderWay
<1>3. PICK more \in BOOLEAN : more = HasMore(p.limit, lo, hi)
  BY DEF HasMore
<1>4. PICK q : q = [p EXCEPT !.pc = pc, !.lo = lo, !.hi = hi, !.next = next, !.resync = resync,
                             !.more = more, !.asOf = lastSeq]
  OBVIOUS
<1>5. lastSeq \in Seqs
  BY DEF IInv, TypeOK
<1>6. /\ q \in RequestType /\ q.pc = pc /\ q.lo = lo /\ q.hi = hi /\ q.next = next
      /\ q.resync = resync /\ q.more = more /\ q.asOf = lastSeq
      /\ q.by = p.by /\ q.limit = p.limit /\ q.before = p.before /\ q.after = p.after
      /\ q.floor = p.floor
  BY <1>4, <1>5 DEF RequestType
<1>7. ReqOK(q)'
  <2>1. AskOK(q)'
    BY <1>2, <1>6 DEF AskOK, Holds
  <2>2. PageOK(q)'
    BY <1>1, <1>2, <1>3, <1>6 DEF PageOK
  <2>3. OwnOK(q)'
    BY <1>2, <1>6 DEF OwnOK
  <2> QED BY <2>1, <2>2, <2>3 DEF ReqOK
<1>8. SyncedOK'
  BY <1>1, SyncedMono DEF IInv
<1>9. req' = [req EXCEPT ![r] = q]
  BY <1>2, <1>3, <1>4 DEF Answer
<1> QED BY <1>1, <1>2, <1>6, <1>7, <1>8, <1>9, ReqStep

(* Both directions of paging give pages as PageOK wants them.              *)
LEMMA ListHistoryInv ==
    ASSUME IInv, TypeOK', Grows, NEW r \in Requests, ListHistory(r)
    PROVE  IInv'
<1> DEFINE p == req[r]
           b == ListBefore(p.before, p.limit)
           lo == Max2(b.lo, Min2(p.floor, b.hi) + 1)
           a == ListAfter(Max2(p.after, p.floor), p.limit)
<1>1. Active(r) /\ p \in RequestType /\ lastSeq \in Seqs /\ hidden \in 0..lastSeq
  BY DEF ListHistory, Active, IInv, TypeOK
<1>2. AskOK(p)
  BY <1>1 DEF IInv, ReqOK, Active
<1>3. p.after \in Nat /\ p.floor \in Nat
  BY <1>1, ConstantTypes DEF RequestType, Seqs
<1>4. CASE p.after = 0 /\ listBefore(r)
  <2> DEFINE resync == FALSE
  <2>1. Answer(r, "answered", lo, b.hi, nextBefore(lo, b.hi), resync) /\ resync \in BOOLEAN /\ ~ resync
    BY <1>4 DEF listBefore
  <2>2. /\ b.hi \in Seqs /\ b.hi <= lastSeq /\ lo \in 1..(MaxSeq + 1)
        /\ nextBefore(lo, b.hi) \in Seqs
    BY <1>1, PageTypes
  <2>3. /\ IF p.before > 0 THEN b.hi = p.before - 1 ELSE b.hi = lastSeq
        /\ HasMore(p.limit, lo, b.hi) => lo <= b.hi
        /\ HasMore(p.limit, lo, b.hi) \/ lo <= hidden + 1
    BY <1>1, <1>2, BeforePage
  <2> HIDE DEF b, lo, resync
  <2> QED BY <1>1, <1>4, <2>1, <2>2, <2>3, AnswerInv
<1>5. CASE p.after > 0 /\ listAfter(r)
  <2> DEFINE pc == IF p.after < p.floor THEN "answered" ELSE "record"
             resync == p.after < p.floor
  <2>1. Answer(r, pc, a.lo, a.hi, nextAfter(a.lo, a.hi), resync)
    BY <1>5 DEF listAfter
  <2>2. a.hi \in Seqs /\ a.lo \in 1..(MaxSeq + 1) /\ nextAfter(a.lo, a.hi) \in Seqs
    BY <1>1, PageTypes
  <2>3. /\ a.hi <= lastSeq
        /\ HasMore(p.limit, a.lo, a.hi) => a.lo <= a.hi
        /\ HasMore(p.limit, a.lo, a.hi) \/ lastSeq <= a.hi
        /\ p.after >= p.floor => a.lo = p.after + 1 /\ p.after <= a.hi
    BY <1>1, <1>2, AfterPage
  <2>4. /\ pc \in {"record", "answered"} /\ resync \in BOOLEAN
        /\ pc = "record" => ~ resync
        /\ ~ resync => p.after >= p.floor
    BY <1>3
  <2> HIDE DEF a, pc, resync
  <2> QED BY <1>1, <1>3, <1>5, <2>1, <2>2, <2>3, <2>4, AnswerInv
<1> QED BY <1>4, <1>5 DEF ListHistory

(* recordCursor, done or failed: the cursor covers only what was sent.     *)
LEMMA RecordInv ==
    ASSUME IInv, TypeOK', Grows, NEW r \in Requests, recordCursor(r) \/ RecordFails(r)
    PROVE  IInv'
<1>1. /\ Active(r) /\ req[r].pc = "record" /\ dev' = dev
      /\ hidden' = hidden /\ lastSeq' = lastSeq /\ sent' = sent
      /\ req' = [req EXCEPT ![r] = [req[r] EXCEPT !.pc = "answered"]]
  BY DEF recordCursor, RecordFails, Active, rowVars
<1>2. PICK p \in RequestType :
        /\ p = req[r] /\ AskOK(p) /\ PageOK(p) /\ AskOK(p)' /\ PageOK(p)' /\ OwnOK(p)'
        /\ p.by # NoDevice => \A r2 \in Requests \ {r} : Active(r2) => req[r2].by # p.by
  BY <1>1, UnderWay
<1>3. PICK q : q = [p EXCEPT !.pc = "answered"]
  OBVIOUS
<1>4. /\ q \in RequestType /\ q.pc = "answered" /\ q.lo = p.lo /\ q.hi = p.hi /\ q.next = p.next
      /\ q.resync = p.resync /\ q.more = p.more /\ q.asOf = p.asOf
      /\ q.by = p.by /\ q.limit = p.limit /\ q.before = p.before /\ q.after = p.after
      /\ q.floor = p.floor
  BY <1>3 DEF RequestType
<1>5. ReqOK(q)'
  <2>1. AskOK(q)'
    BY <1>2, <1>4 DEF AskOK, Holds
  <2>2. PageOK(q)'
    <3>1. p.after > 0 /\ p.pc = "record" /\ p.after \in Nat
      BY <1>1, <1>2, ConstantTypes DEF PageOK, RequestType, Seqs
    <3> QED BY <1>2, <1>4, <3>1 DEF PageOK
  <2>3. OwnOK(q)'
    BY <1>2, <1>4 DEF OwnOK
  <2> QED BY <2>1, <2>2, <2>3 DEF ReqOK
<1>6. SyncedOK'
  <2>1. CASE RecordFails(r)
    BY <2>1, SyncedMono DEF IInv, RecordFails
  <2>2. CASE recordCursor(r)
    <3>1. /\ p.after \in Nat /\ p.lo \in Nat /\ p.lo > 0 /\ p.hi \in Nat
          /\ synced \in Nat /\ lastSeq \in Nat /\ hidden \in Nat
      BY ConstantTypes DEF RequestType, Seqs, IInv, TypeOK
    <3>2. /\ p.lo = p.after + 1 /\ p.lo..p.hi \subseteq sent /\ p.hi <= lastSeq
          /\ p.next = nextAfter(p.lo, p.hi) /\ p.after <= lastSeq /\ Holds(sent, 1, p.after)
      BY <1>1, <1>2 DEF PageOK, AskOK
    <3>3. Synced(p) \in Nat /\ Synced(p) <= lastSeq /\ Holds(sent, 1, Synced(p))
      BY <3>1, <3>2 DEF Synced, nextAfter, Holds
    <3>4. synced' = Max2(synced, Synced(p))
      BY <1>2, <2>2 DEF recordCursor
    <3>5. synced <= lastSeq /\ Holds(sent, 1, synced)
      BY DEF IInv, SyncedOK
    <3>6. synced' <= lastSeq /\ Holds(sent, 1, synced')
      BY <3>1, <3>3, <3>4, <3>5 DEF Max2
    <3> QED BY <1>1, <3>6 DEF SyncedOK, Holds
  <2> QED BY <2>1, <2>2
<1>7. req' = [req EXCEPT ![r] = q]
  BY <1>1, <1>2, <1>3
<1>8. q.by # NoDevice => \A r2 \in Requests \ {r} : Active(r2) => req[r2].by # q.by
  BY <1>2, <1>4
<1> QED BY <1>1, <1>4, <1>5, <1>6, <1>7, <1>8, ReqStep

(* The request is over. *)
LEMMA OverInv ==
    ASSUME IInv, TypeOK', Grows, NEW r \in Requests, dev' = dev, synced' = synced,
           req' = [req EXCEPT ![r] = NoRequest]
    PROVE  IInv'
<1>1. PICK q \in RequestType : q = NoRequest
  BY NoRequestType
<1>2. q.pc = "none"
  BY <1>1 DEF NoRequest
<1>3. ReqOK(q)'
  BY <1>2 DEF ReqOK
<1>4. SyncedOK'
  BY SyncedMono DEF IInv
<1> QED BY <1>1, <1>2, <1>3, <1>4, ReqStep

(* A request without its client goes on. *)
LEMMA GiveUpInv ==
    ASSUME IInv, TypeOK', Grows, NEW r \in Requests, GiveUp(r)
    PROVE  IInv'
<1>1. /\ Active(r) /\ dev' = dev /\ synced' = synced
      /\ req' = [req EXCEPT ![r] = [req[r] EXCEPT !.by = NoDevice]]
  BY DEF GiveUp, Active, rowVars
<1>2. PICK p \in RequestType : p = req[r] /\ AskOK(p)' /\ PageOK(p)'
  BY <1>1, UnderWay
<1>3. PICK q : q = [p EXCEPT !.by = NoDevice]
  OBVIOUS
<1>4. /\ q \in RequestType /\ q.by = NoDevice
      /\ q.pc = p.pc /\ q.lo = p.lo /\ q.hi = p.hi /\ q.next = p.next
      /\ q.resync = p.resync /\ q.more = p.more /\ q.asOf = p.asOf
      /\ q.limit = p.limit /\ q.before = p.before /\ q.after = p.after /\ q.floor = p.floor
  BY <1>3 DEF RequestType
<1>5. ReqOK(q)'
  <2>1. AskOK(q)'
    BY <1>2, <1>4 DEF AskOK, Holds
  <2>2. PageOK(q)'
    BY <1>2, <1>4 DEF PageOK
  <2>3. OwnOK(q)'
    BY <1>4, ConstantTypes DEF OwnOK
  <2> QED BY <2>1, <2>2, <2>3 DEF ReqOK
<1>6. SyncedOK'
  BY <1>1, SyncedMono DEF IInv
<1>7. req' = [req EXCEPT ![r] = q]
  BY <1>1, <1>2, <1>3
<1> QED BY <1>1, <1>4, <1>5, <1>6, <1>7, ReqStep

(* A new request asks for what its device has not got.                     *)
LEMMA PullInv ==
    ASSUME IInv, TypeOK', Grows, NEW d \in Devices, NEW r \in Requests, NEW n \in Limits, Pull(d, r, n)
    PROVE  IInv'
<1> DEFINE after == IF dev[d].walking THEN 0 ELSE dev[d].cursor
<1>1. /\ dev' = dev /\ synced' = synced /\ hidden' = hidden /\ lastSeq' = lastSeq /\ sent' = sent
      /\ \A r2 \in Requests : Active(r2) => req[r2].by # d
  BY DEF Pull, Waiting, Active, rowVars
<1>2. dev[d] \in DeviceType /\ DevOK(dev[d])
  BY DEF IInv, TypeOK
<1>3. /\ after \in Seqs /\ dev[d].before \in Seqs /\ lastSeq \in Nat /\ hidden \in Nat
      /\ dev[d].cursor \in Nat /\ dev[d].top \in Nat /\ dev[d].before \in Nat /\ after \in Nat
  BY <1>2, ConstantTypes DEF DeviceType, Seqs, IInv, TypeOK
<1>4. PICK q \in RequestType : q = req'[r]
  BY DEF TypeOK
<1>5. req' = [req EXCEPT ![r] = q]
  BY <1>4 DEF Pull, IInv, TypeOK
<1>6. q.pc = "sent" /\ q.by = d /\ q.limit = n /\ q.before = dev[d].before /\ q.after = after /\ q.floor = 0
  BY <1>4 DEF Pull, NoRequest, IInv, TypeOK
<1>7. ReqOK(q)'
  <2>1. AskOK(q)'
    <3>1. after > 0 => ~ (dev[d].before > 0)
      BY <1>2 DEF DevOK
    <3>2. after <= lastSeq /\ dev[d].before <= lastSeq /\ Holds(sent, 1, after)
      BY <1>2, <1>3 DEF DevOK, Holds
    <3> HIDE DEF after
    <3> QED BY <1>1, <1>3, <1>6, <3>1, <3>2 DEF AskOK, Holds
  <2>2. PageOK(q)'
    BY <1>6 DEF PageOK
  <2>3. OwnOK(q)'
    BY <1>1, <1>2, <1>3, <1>6 DEF OwnOK, DevOK
  <2> QED BY <2>1, <2>2, <2>3 DEF ReqOK
<1>8. SyncedOK'
  BY <1>1, SyncedMono DEF IInv
<1> QED BY <1>1, <1>5, <1>6, <1>7, <1>8, ReqStep

(* A step that changes one device, and the request it answers if any.      *)
LEMMA DevStep ==
    ASSUME IInv, TypeOK', Grows, NEW d \in Devices, synced' = synced,
           \A e \in Devices \ {d} : dev'[e] = dev[e],
           DevOK(dev[d])',
           \A r \in Requests : /\ req'[r] = req[r] \/ req'[r] = NoRequest
                               /\ req'[r].pc # "none" /\ req'[r].by = d => OwnOK(req[r])'
    PROVE  IInv'
<1>1. \A e \in Devices : DevOK(dev[e])'
  <2> TAKE e \in Devices
  <2>1. CASE e # d
    <3>1. dev[e] \in DeviceType /\ DevOK(dev[e]) /\ dev'[e] = dev[e]
      BY <2>1 DEF IInv, TypeOK
    <3> QED BY <3>1, DevMono DEF IInv, DevOK, Holds
  <2> QED BY <2>1
<1>2. \A r \in Requests : ReqOK(req[r])'
  <2> TAKE r \in Requests
  <2>1. CASE req'[r] = NoRequest
    BY <2>1 DEF ReqOK, NoRequest
  <2>2. CASE req'[r] = req[r]
    <3>1. PICK y \in RequestType : y = req[r]
      BY DEF IInv, TypeOK
    <3>2. ReqOK(y)
      BY <3>1 DEF IInv
    <3>3. y.pc # "none" => AskOK(y)' /\ PageOK(y)'
      BY <3>2, ReqMono DEF IInv, ReqOK
    <3>4. y.pc # "none" => OwnOK(y)'
      <4>1. CASE y.by = d
        BY <2>2, <3>1, <4>1 DEF OwnOK
      <4>2. CASE y.by # d
        BY <3>2, <4>2 DEF OwnOK, ReqOK
      <4> QED BY <4>1, <4>2
    <3> QED BY <2>2, <3>1, <3>3, <3>4 DEF ReqOK, AskOK, PageOK, OwnOK, Holds
  <2>3. req'[r] = req[r] \/ req'[r] = NoRequest
    OBVIOUS
  <2> QED BY <2>1, <2>2, <2>3
<1>3. OneEach'
  <2>1. NoRequest.pc = "none"
    BY DEF NoRequest
  <2>2. ASSUME NEW r \in Requests, Active(r)' PROVE req'[r] = req[r] /\ Active(r)
    <3>1. req'[r].pc # "none"
      BY <2>2 DEF Active
    <3>2. req'[r] = req[r] \/ req'[r] = NoRequest
      OBVIOUS
    <3> QED BY <2>1, <3>1, <3>2 DEF Active
  <2> QED BY <2>2 DEF IInv, OneEach
<1>4. SyncedOK'
  BY SyncedMono DEF IInv
<1> QED BY <1>1, <1>2, <1>3, <1>4 DEF IInv

(* A device that applies its answer. *)
LEMMA ApplyInv ==
    ASSUME IInv, TypeOK', Grows, NEW d \in Devices, NEW r \in Requests, Apply(d, r)
    PROVE  IInv'
<1>1. PICK v \in DeviceType : v = dev[d] /\ DevOK(v)
  BY DEF IInv, TypeOK
<1>2. PICK p \in RequestType : p = req[r]
  BY DEF IInv, TypeOK
<1>3. /\ p.pc = "answered" /\ p.by = d /\ synced' = synced
      /\ hidden' = hidden /\ lastSeq' = lastSeq /\ sent' = sent
      /\ req' = [req EXCEPT ![r] = NoRequest]
      /\ dev' = [dev EXCEPT ![d] = IF p.resync THEN NewDevice
                                   ELSE IF v.walking THEN Walked(v, p) ELSE Followed(v, p)]
  BY <1>1, <1>2 DEF Apply, rowVars
<1>4. AskOK(p) /\ PageOK(p) /\ OwnOK(p)
  BY <1>2, <1>3 DEF IInv, ReqOK
<1>5. lastSeq \in Seqs /\ hidden \in 0..lastSeq /\ lastSeq \in Nat
  BY ConstantTypes DEF IInv, TypeOK, Seqs
<1>6. PICK u : u = IF p.resync THEN NewDevice
                   ELSE IF v.walking THEN Walked(v, p) ELSE Followed(v, p)
  OBVIOUS
<1>7. DevOK(u)
  <2>1. CASE p.resync
    <3>1. /\ u.local = {} /\ u.cursor = 0 /\ u.walking /\ u.top = 0 /\ u.before = 0
      BY <1>6, <2>1 DEF NewDevice
    <3> QED BY <1>5, <3>1 DEF DevOK, Holds
  <2>2. CASE ~ p.resync /\ v.walking
    <3>1. p.after = 0 /\ p.before = v.before
      BY <1>1, <1>3, <1>4, <2>2 DEF OwnOK
    <3>2. DevOK(Walked(v, p))
      BY <1>1, <1>3, <1>4, <1>5, <2>2, <3>1, WalkedOK
    <3> QED BY <1>6, <2>2, <3>2
  <2>3. CASE ~ p.resync /\ ~ v.walking
    <3>1. p.after > 0 /\ p.after <= v.cursor
      BY <1>1, <1>3, <1>4, <2>3 DEF OwnOK
    <3>2. DevOK(Followed(v, p))
      BY <1>1, <1>3, <1>4, <1>5, <2>3, <3>1, FollowedOK
    <3> QED BY <1>6, <2>3, <3>2
  <2> QED BY <2>1, <2>2, <2>3
<1>8. dev'[d] = u /\ \A e \in Devices \ {d} : dev'[e] = dev[e]
  BY <1>3, <1>6 DEF IInv, TypeOK
<1>9. DevOK(dev[d])'
  BY <1>3, <1>7, <1>8 DEF DevOK, Holds
<1>10. ASSUME NEW x \in Requests
       PROVE  /\ req'[x] = req[x] \/ req'[x] = NoRequest
              /\ req'[x].pc # "none" /\ req'[x].by = d => OwnOK(req[x])'
  <2>1. CASE x = r
    <3>1. req'[x] = NoRequest /\ NoRequest.pc = "none"
      BY <1>3, <2>1 DEF IInv, TypeOK, NoRequest
    <3> QED BY <3>1
  <2>2. CASE x # r
    <3>1. req'[x] = req[x]
      BY <1>3, <2>2 DEF IInv, TypeOK
    <3>2. ~ (req[x].pc # "none" /\ req[x].by = d)
      BY <1>2, <1>3, <2>2, ConstantTypes DEF IInv, OneEach, Active
    <3> QED BY <3>1, <3>2
  <2> QED BY <2>1, <2>2
<1> QED BY <1>3, <1>8, <1>9, <1>10, DevStep

(* A device that gets a push while it may be waiting for a page.           *)
LEMMA PushInv ==
    ASSUME IInv, TypeOK', Grows, NEW d \in Devices, NEW s \in 1..MaxSeq, Push(d, s)
    PROVE  IInv'
<1>1. PICK v \in DeviceType : v = dev[d] /\ DevOK(v)
  BY DEF IInv, TypeOK
<1>2. /\ s <= lastSeq /\ s > v.cursor /\ s \in sent'
      /\ req' = req /\ synced' = synced
      /\ dev' = [dev EXCEPT ![d] = Pushed(v, s)]
  BY <1>1 DEF Push
<1>3. PICK u : u = Pushed(v, s)
  OBVIOUS
<1>4. dev'[d] = u /\ \A e \in Devices \ {d} : dev'[e] = dev[e]
  BY <1>2, <1>3 DEF IInv, TypeOK
<1>5. DevOK(u)'
  BY <1>1, <1>2, <1>3, PushedOK DEF IInv
<1>6. DevOK(dev[d])'
  BY <1>4, <1>5 DEF DevOK, Holds
<1>7. /\ u.before = v.before /\ u.walking = v.walking
      /\ u.cursor \in Nat /\ v.cursor \in Nat /\ v.cursor <= u.cursor
  BY <1>2, <1>3, ConstantTypes DEF Pushed, DeviceType, Seqs
<1>8. ASSUME NEW x \in Requests, req[x].pc # "none", req[x].by = d PROVE OwnOK(req[x])'
  <2>1. OwnOK(req[x]) /\ req[x].after \in Nat
    BY <1>8, ConstantTypes DEF IInv, ReqOK, TypeOK, RequestType, Seqs
  <2> QED BY <1>1, <1>2, <1>4, <1>7, <1>8, <2>1 DEF OwnOK
<1> QED BY <1>2, <1>4, <1>6, <1>8, DevStep

(* A step that changes neither devices nor requests. *)
LEMMA FrameInv ==
    ASSUME IInv, TypeOK', Grows, dev' = dev, req' = req, synced' = synced
    PROVE  IInv'
<1>1. \A d \in Devices : DevOK(dev[d])'
  <2> TAKE d \in Devices
  <2>1. dev[d] \in DeviceType /\ DevOK(dev[d]) /\ dev'[d] = dev[d]
    BY DEF IInv, TypeOK
  <2> QED BY <2>1, DevMono DEF IInv, DevOK, Holds
<1>2. \A r \in Requests : ReqOK(req[r])'
  <2> TAKE r \in Requests
  <2>1. PICK y \in RequestType : y = req[r] /\ ReqOK(y)
    BY DEF IInv, TypeOK
  <2>2. ReqOK(y)'
    BY <2>1, ReqMono DEF IInv, ReqOK, OwnOK
  <2> QED BY <2>1, <2>2 DEF ReqOK, AskOK, PageOK, OwnOK, Holds
<1>3. OneEach'
  BY DEF IInv, OneEach, Active
<1>4. SyncedOK'
  BY SyncedMono DEF IInv
<1> QED BY <1>1, <1>2, <1>3, <1>4 DEF IInv

(* Every action keeps the inductive invariant. *)
LEMMA InvStep == IInv /\ [Next]_vars => IInv'
<1> SUFFICES ASSUME IInv, [Next]_vars PROVE IInv'
  OBVIOUS
<1>1. TypeOK' /\ Grows
  BY TypeStep, StepGrows DEF IInv
<1>2. CASE Persist \/ Clear \/ Acknowledge \/ UNCHANGED vars
  <2>1. dev' = dev /\ req' = req /\ synced' = synced
    BY <1>2 DEF Persist, Clear, Acknowledge, AdvanceMark, vars
  <2> QED BY <1>1, <2>1, FrameInv
<1>3. ASSUME NEW r \in Requests, CheckMember(r) PROVE IInv'
  BY <1>1, <1>3, CheckMemberInv
<1>4. ASSUME NEW r \in Requests, ListHistory(r) PROVE IInv'
  BY <1>1, <1>4, ListHistoryInv
<1>5. ASSUME NEW r \in Requests, recordCursor(r) \/ RecordFails(r) PROVE IInv'
  BY <1>1, <1>5, RecordInv
<1>6. ASSUME NEW r \in Requests, RequestFails(r) \/ Discard(r) PROVE IInv'
  <2>1. dev' = dev /\ synced' = synced /\ req' = [req EXCEPT ![r] = NoRequest]
    BY <1>6 DEF RequestFails, Discard
  <2> QED BY <1>1, <2>1, OverInv
<1>7. ASSUME NEW r \in Requests, GiveUp(r) PROVE IInv'
  BY <1>1, <1>7, GiveUpInv
<1>8. ASSUME NEW d \in Devices, NEW r \in Requests, Apply(d, r) PROVE IInv'
  BY <1>1, <1>8, ApplyInv
<1>9. ASSUME NEW d \in Devices, NEW r \in Requests, NEW n \in Limits, Pull(d, r, n) PROVE IInv'
  BY <1>1, <1>9, PullInv
<1>10. ASSUME NEW d \in Devices, NEW s \in 1..MaxSeq, Push(d, s) PROVE IInv'
  BY <1>1, <1>10, PushInv
<1> QED BY <1>2, <1>3, <1>4, <1>5, <1>6, <1>7, <1>8, <1>9, <1>10 DEF Next, Serve

(* The inductive invariant: devices, requests and pages fit together.      *)
THEOREM Inductive == Spec => []IInv
BY InvInit, InvStep, PTL DEF Spec

-----------------------------------------------------------------------------
(* The variables stay in their types, and the received and read cursors of *)
(* MySQL within the conversation.                                          *)
THEOREM TypeCorrect == Spec => []TypeOK
BY TypeInit, TypeStep, PTL DEF Spec

(* ListHistory: a device that pages as the API asks has every visible      *)
(* message up to its cursor.                                               *)
THEOREM NoGaps == Spec => []NoGapBelowCursor
<1>1. IInv => NoGapBelowCursor
  BY DEF IInv, DevOK, Holds, NoGapBelowCursor, Visible
<1> QED BY <1>1, Inductive, PTL

(* has_more: a device that was told there is no more has all there was.    *)
THEOREM NoMoreIsAll == Spec => []NoMoreMeansAll
<1>1. ASSUME IInv, NEW d \in Devices, ~ dev[d].walking, NEW s \in 1..dev[d].asOf, Visible(s)
      PROVE  s \in dev[d].local
  <2>1. dev[d].asOf \in Nat /\ dev[d].cursor \in Nat
    BY <1>1, ConstantTypes DEF IInv, TypeOK, DeviceType, Seqs
  <2>2. dev[d].asOf <= dev[d].cursor /\ Holds(dev[d].local, 1, dev[d].cursor)
    BY <1>1 DEF IInv, DevOK
  <2> QED BY <1>1, <2>1, <2>2 DEF Holds, Visible
<1>2. IInv => NoMoreMeansAll
  BY <1>1 DEF NoMoreMeansAll
<1> QED BY <1>2, Inductive, PTL

(* recordCursor: the sync cursor in Redis is never ahead of what was sent. *)
THEOREM CursorIsSent == Spec => []SyncedWasSent
<1>1. IInv => SyncedWasSent
  BY DEF IInv, SyncedOK, Holds, SyncedWasSent, Visible
<1> QED BY <1>1, Inductive, PTL

(* The cursors in Redis and MySQL never go back. *)
THEOREM CursorsAdvance == Spec => CursorsOnlyAdvance
<1> DEFINE A == (\A k \in Columns : marks'[k] >= marks[k]) /\ synced' >= synced
<1>1. ASSUME TypeOK, [Next]_vars PROVE [A]_vars
  <2>1. (\A k \in Columns : marks[k] \in Int) /\ synced \in Int
    BY <1>1, ConstantTypes DEF TypeOK, Seqs
  <2>2. CASE marks' = marks /\ synced' = synced
    BY <2>1, <2>2
  <2>3. CASE Acknowledge
    <3>1. PICK k \in Columns, s \in 1..MaxSeq : AdvanceMark(k, s)
      BY <2>3 DEF Acknowledge
    <3> QED BY <1>1, <2>1, <3>1, ConstantTypes DEF AdvanceMark, TypeOK
  <2>4. ASSUME NEW r \in Requests, recordCursor(r) PROVE A
    <3>1. Synced(req[r]) \in Int
      BY <1>1, ConstantTypes DEF TypeOK, RequestType, Synced, Seqs
    <3> QED BY <2>1, <2>4, <3>1 DEF recordCursor, rowVars, Max2
  <2>5. CASE \E r \in Requests : ListHistory(r)
    BY <2>2, <2>5 DEF ListHistory, listBefore, listAfter, Answer, rowVars
  <2> QED BY <1>1, <2>2, <2>3, <2>4, <2>5
         DEF Next, Serve, Persist, Clear, CheckMember, Discard, RecordFails, RequestFails, GiveUp,
             Apply, Pull, Push, vars, rowVars
<1> QED BY <1>1, TypeCorrect, PTL DEF Spec, CursorsOnlyAdvance
=============================================================================
