---------------------------- MODULE HistorySync -----------------------------
(***************************************************************************)
(* How the devices of one user catch up with one conversation: ListHistory *)
(* of the message service with its two directions of paging, the sync      *)
(* cursor it records in Redis, and the received and read cursors in MySQL. *)
(*                                                                         *)
(* The rows of the conversation are 1..lastSeq: they are inserted under    *)
(* the conversation's row lock (SeqsGapFree of PersistWorker). So the      *)
(* result of a query is an interval lo..hi.                                *)
(*                                                                         *)
(* The devices are external: a device asks from its cursor, stores a page  *)
(* before it moves the cursor, walks back from the newest page when it has *)
(* no cursor, and starts afresh when it is told to resync. Devices send no *)
(* other seqs than the ones they were given.                               *)
(***************************************************************************)
EXTENDS Integers

CONSTANTS Devices,
          NoDevice,   \* the device of a request its client gave up on
          Columns,    \* the cursors of the member's row: last_received_seq, last_read_seq
          Requests,   \* slots for requests under way
          Limits,     \* values of query.Limit, within 1..100
          MaxSeq,     \* bound: messages of the conversation
          MaxFaults   \* bound: requests, and writes to Redis, that fail or are given up on

ASSUME SyncConstants ==
    /\ NoDevice \notin Devices
    /\ Limits \subseteq Nat \ {0}
    /\ MaxSeq \in Nat
    /\ MaxFaults \in Nat

VARIABLES lastSeq,   \* conversations.last_seq
          hidden,    \* max(joined_seq, clear_before_seq) of the member's row
          marks,     \* per column: the received or read cursor
          synced,    \* the user's field of the cursor hash, 0 without one
          req,       \* per slot: a ListHistory under way
          dev,       \* per device: what it has
          sent,      \* history: messages in any page or push to this user
          faults

rowVars == <<lastSeq, hidden, marks>>
vars == <<rowVars, synced, req, dev, sent, faults>>

Max2(a, b) == IF a > b THEN a ELSE b
Min2(a, b) == IF a < b THEN a ELSE b

Seqs == 0..MaxSeq

(* floor: visibleAfter; lo..hi, next, more, resync: the MessagePage; asOf  *)
(* is history: last_seq when the page was read.                            *)
RequestType == [pc : {"none", "sent", "checked", "record", "answered"},
                by : Devices \cup {NoDevice}, limit : Limits \cup {0},
                before : Seqs, after : Seqs, floor : Seqs,
                lo : 1..(MaxSeq + 1), hi : Seqs, next : Seqs, more : BOOLEAN, resync : BOOLEAN,
                asOf : Seqs]

NoRequest == [pc |-> "none", by |-> NoDevice, limit |-> 0, before |-> 0, after |-> 0,
              floor |-> 0, lo |-> 1, hi |-> 0, next |-> 0, more |-> FALSE, resync |-> FALSE,
              asOf |-> 0]

(* walking: it has no cursor yet; top, before: the newest seq of the walk  *)
(* and where it goes on; asOf is history: the last_seq it knows it has all *)
(* messages of, or will have once the walk is over.                        *)
DeviceType == [local : SUBSET (1..MaxSeq), cursor : Seqs, walking : BOOLEAN,
               top : Seqs, before : Seqs, asOf : Seqs]

NewDevice == [local |-> {}, cursor |-> 0, walking |-> TRUE, top |-> 0, before |-> 0, asOf |-> 0]

Init ==
    /\ lastSeq = 0 /\ hidden = 0
    /\ marks = [k \in Columns |-> 0] /\ synced = 0
    /\ req = [r \in Requests |-> NoRequest]
    /\ dev = [d \in Devices |-> NewDevice]
    /\ sent = {}
    /\ faults = 0

-----------------------------------------------------------------------------
(* The rows *)

Persist ==
    /\ lastSeq < MaxSeq
    /\ lastSeq' = lastSeq + 1
    /\ UNCHANGED <<hidden, marks, synced, req, dev, sent, faults>>

(* The user clears the conversation. No operation of the program writes    *)
(* joined_seq or clear_before_seq; ListHistory reads both.                 *)
Clear ==
    /\ hidden < lastSeq
    /\ hidden' = lastSeq
    /\ UNCHANGED <<lastSeq, marks, synced, req, dev, sent, faults>>

-----------------------------------------------------------------------------
(* ListHistory *)

(* CheckMember, and the bound below which nothing is shown. The user is a  *)
(* member: no operation of the program changes that.                       *)
CheckMember(r) ==
    /\ req[r].pc = "sent"
    /\ req' = [req EXCEPT ![r] = [@ EXCEPT !.pc = "checked", !.floor = hidden]]
    /\ UNCHANGED <<rowVars, synced, dev, sent, faults>>

(* Mutant: as if the query had asked for one row more. *)
HasMorePastLimit(n, lo, hi) == hi - lo + 1 > n

(* has_more: the page is full. *)
HasMore(n, lo, hi) == hi - lo + 1 = n

(* Mutant: before_seq taken as inclusive. *)
nextBeforeSkips(lo, hi) == IF lo > hi THEN 0 ELSE lo - 1

(* The seq of the last item of a page in descending order.                 *)
nextBefore(lo, hi) == IF lo > hi THEN 0 ELSE lo

(* ... and in ascending order.                                             *)
nextAfter(lo, hi) == IF lo > hi THEN 0 ELSE hi

Answer(r, pc, lo, hi, next, resync) ==
    /\ req' = [req EXCEPT ![r] = [@ EXCEPT
                  !.pc = pc, !.lo = lo, !.hi = hi, !.next = next, !.resync = resync,
                  !.more = HasMore(req[r].limit, lo, hi), !.asOf = lastSeq]]
    /\ sent' = sent \cup lo..hi
    /\ UNCHANGED <<rowVars, synced, dev, faults>>

(* The queries: the newest n rows below before_seq, 0 for no bound, and the *)
(* oldest n rows above after_seq.                                          *)
ListBefore(before, n) ==
    LET hi == IF before > 0 THEN Min2(before - 1, lastSeq) ELSE lastSeq
    IN  [lo |-> Max2(hi - n, 0) + 1, hi |-> hi]

ListAfter(after, n) ==
    [lo |-> after + 1, hi |-> Max2(Min2(after + n, lastSeq), after)]

(* The limit counts rows before the hidden ones are filtered out.          *)
listBefore(r) ==
    LET q     == req[r]
        items == ListBefore(q.before, q.limit)
        lo    == Max2(items.lo, Min2(q.floor, items.hi) + 1)
    IN  Answer(r, "answered", lo, items.hi, nextBefore(lo, items.hi), FALSE)

(* Unless it is to resync, the cursor is recorded before the answer is     *)
(* given.                                                                  *)
listAfter(r) ==
    LET q      == req[r]
        resync == q.after < q.floor
        items  == ListAfter(Max2(q.after, q.floor), q.limit)
    IN  Answer(r, IF resync THEN "answered" ELSE "record", items.lo, items.hi,
               nextAfter(items.lo, items.hi), resync)

ListHistory(r) ==
    /\ req[r].pc = "checked"
    /\ \/ req[r].after > 0 /\ listAfter(r)
       \/ req[r].after = 0 /\ listBefore(r)

(* Mutant: the end of the conversation instead of the page's.              *)
SyncedToEnd(q) == IF q.next = 0 THEN q.after ELSE q.asOf

(* What recordCursor makes of a page. *)
Synced(q) == IF q.next = 0 THEN q.after ELSE q.next

(* Mutant: HSET without the comparison. *)
recordCursorBlind(r) ==
    /\ req[r].pc = "record"
    /\ synced' = Synced(req[r])
    /\ req' = [req EXCEPT ![r].pc = "answered"]
    /\ UNCHANGED <<rowVars, dev, sent, faults>>

(* advance_cursor.lua *)
recordCursor(r) ==
    /\ req[r].pc = "record"
    /\ synced' = Max2(synced, Synced(req[r]))
    /\ req' = [req EXCEPT ![r].pc = "answered"]
    /\ UNCHANGED <<rowVars, dev, sent, faults>>

Fault == faults < MaxFaults /\ faults' = faults + 1

(* The cursor cannot be written: "写失败静默降级".                          *)
RecordFails(r) ==
    /\ req[r].pc = "record"
    /\ Fault
    /\ req' = [req EXCEPT ![r].pc = "answered"]
    /\ UNCHANGED <<rowVars, synced, dev, sent>>

(* MySQL fails, or the request runs into its timeout.                      *)
RequestFails(r) ==
    /\ req[r].pc \in {"sent", "checked"}
    /\ Fault
    /\ req' = [req EXCEPT ![r] = NoRequest]
    /\ UNCHANGED <<rowVars, synced, dev, sent>>

(* An answer nobody waits for. *)
Discard(r) ==
    /\ req[r].pc = "answered" /\ req[r].by = NoDevice
    /\ req' = [req EXCEPT ![r] = NoRequest]
    /\ UNCHANGED <<rowVars, synced, dev, sent, faults>>

-----------------------------------------------------------------------------
(* The received and read cursors *)

(* Mutant: last_seq is not looked at. *)
AdvanceMarkAhead(k, s) ==
    /\ marks[k] < s
    /\ marks' = [marks EXCEPT ![k] = s]
    /\ UNCHANGED <<lastSeq, hidden, synced, req, dev, sent, faults>>

(* The UPDATE of a column. *)
AdvanceMark(k, s) ==
    /\ s <= lastSeq /\ marks[k] < s
    /\ marks' = [marks EXCEPT ![k] = s]
    /\ UNCHANGED <<lastSeq, hidden, synced, req, dev, sent, faults>>

(* AckReceived and MarkRead of any seq. The conditions of the service only *)
(* refuse what the UPDATE, which reads the rows again, leaves alone.       *)
Acknowledge == \E k \in Columns : \E s \in 1..MaxSeq : AdvanceMark(k, s)

-----------------------------------------------------------------------------
(* A device *)

Waiting(d) == \E r \in Requests : req[r].pc # "none" /\ req[r].by = d

Pull(d, r, n) ==
    /\ ~ Waiting(d)
    /\ req[r].pc = "none"
    /\ req' = [req EXCEPT ![r] = [NoRequest EXCEPT
                  !.pc = "sent", !.by = d, !.limit = n, !.before = dev[d].before,
                  !.after = IF dev[d].walking THEN 0 ELSE dev[d].cursor]]
    /\ UNCHANGED <<rowVars, synced, dev, sent, faults>>

(* The device, or its connection, gives up; the server goes on.            *)
GiveUp(r) ==
    /\ req[r].pc # "none" /\ req[r].by # NoDevice
    /\ Fault
    /\ req' = [req EXCEPT ![r].by = NoDevice]
    /\ UNCHANGED <<rowVars, synced, dev, sent>>

(* A page of the walk: store it; with the last one the cursor is known.    *)
Walked(v, q) ==
    LET first == q.before = 0
        top   == IF first THEN nextAfter(q.lo, q.hi) ELSE v.top
        w     == [v EXCEPT !.local = @ \cup q.lo..q.hi, !.top = top,
                           !.asOf = IF first THEN q.asOf ELSE @]
    IN  IF q.more THEN [w EXCEPT !.before = q.next]
                  ELSE [w EXCEPT !.before = 0, !.cursor = top, !.walking = (top = 0)]

(* A page of new messages: store it, move the cursor.                      *)
Followed(v, q) ==
    [v EXCEPT !.local = @ \cup q.lo..q.hi, !.cursor = Max2(@, q.next),
              !.asOf = IF q.more THEN @ ELSE Max2(@, q.asOf)]

Apply(d, r) ==
    /\ req[r].pc = "answered" /\ req[r].by = d
    /\ dev' = [dev EXCEPT ![d] = IF req[r].resync THEN NewDevice
                                 ELSE IF @.walking THEN Walked(@, req[r])
                                 ELSE Followed(@, req[r])]
    /\ req' = [req EXCEPT ![r] = NoRequest]
    /\ UNCHANGED <<rowVars, synced, sent, faults>>

(* A push is stored; it moves the cursor if it is the next message.        *)
Pushed(v, s) ==
    [v EXCEPT !.local = v.local \cup {s},
              !.cursor = IF v.walking \/ s # v.cursor + 1 THEN v.cursor ELSE s]

Push(d, s) ==
    /\ s <= lastSeq /\ s > dev[d].cursor /\ s \notin dev[d].local
    /\ dev' = [dev EXCEPT ![d] = Pushed(@, s)]
    /\ sent' = sent \cup {s}
    /\ UNCHANGED <<rowVars, synced, req, faults>>

-----------------------------------------------------------------------------
Serve(r) ==
    \/ CheckMember(r) \/ ListHistory(r) \/ recordCursor(r) \/ Discard(r)

Next ==
    \/ Persist \/ Clear
    \/ \E r \in Requests : Serve(r) \/ RecordFails(r) \/ RequestFails(r) \/ GiveUp(r)
    \/ Acknowledge
    \/ \E d \in Devices : \/ \E r \in Requests : Apply(d, r) \/ \E n \in Limits : Pull(d, r, n)
                          \/ \E s \in 1..MaxSeq : Push(d, s)

Spec == Init /\ [][Next]_vars

-----------------------------------------------------------------------------
(* Types; the cursors of the member's row stay within the conversation.    *)
TypeOK ==
    /\ lastSeq \in Seqs
    /\ hidden \in 0..lastSeq
    /\ marks \in [Columns -> 0..lastSeq]
    /\ synced \in Seqs
    /\ req \in [Requests -> RequestType]
    /\ dev \in [Devices -> DeviceType]
    /\ sent \subseteq 1..lastSeq
    /\ faults \in 0..MaxFaults

Visible(s) == s > hidden /\ s <= lastSeq

(* ListHistory, both directions: a device has every visible message up to  *)
(* its cursor, whatever was persisted, cleared or pushed between two pages *)
(* and wherever the page boundaries fell.                                  *)
NoGapBelowCursor ==
    \A d \in Devices : \A s \in 1..dev[d].cursor : Visible(s) => s \in dev[d].local

(* HasMore: a device that was told there is no more has every visible      *)
(* message there was when the page was read.                               *)
NoMoreMeansAll ==
    \A d \in Devices : ~ dev[d].walking =>
        \A s \in 1..dev[d].asOf : Visible(s) => s \in dev[d].local

(* recordCursor: "推进到本次响应覆盖的最大 seq". Whatever requests overlap,   *)
(* are repeated or given up on, every visible message up to the recorded   *)
(* cursor was sent to the user.                                            *)
SyncedWasSent ==
    \A s \in 1..synced : Visible(s) => s \in sent

(* "游标只增不减": no request, however late, moves a cursor back.            *)
CursorsOnlyAdvance ==
    [][(\A k \in Columns : marks'[k] >= marks[k]) /\ synced' >= synced]_vars
=============================================================================
