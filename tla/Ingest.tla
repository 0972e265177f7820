------------------------------- MODULE Ingest -------------------------------
(***************************************************************************)
(* What the persistence stage promises, with no worker in sight: records   *)
(* of one inbox partition become rows of `messages` (with their outbox row *)
(* and the conversation's next seq) or entries of the dead-letter topic,   *)
(* and the committed offset passes no other record, except one that came   *)
(* in a poll which also carried an error.                                  *)
(*                                                                         *)
(* PersistWorker implements this specification.                            *)
(***************************************************************************)
EXTENDS Integers, Sequences

CONSTANTS Keys,       \* (sender_id, client_msg_id) pairs
          Convs,      \* conversations whose key hashes to this partition
          Dismissed,  \* conversations whose row is not status = 1
          Records,    \* the records producers may append
          MaxInbox    \* bound on the length of the inbox partition

ASSUME RecordsAssumption ==
    Records \subseteq [key : Keys, conv : Convs, valid : BOOLEAN]
ASSUME DismissedAssumption == Dismissed \subseteq Convs
ASSUME MaxInboxAssumption == MaxInbox \in Nat

VARIABLES inbox,      \* the partition's log; offsets are its indices, from 1
          committed,  \* the group's committed offset: records up to it are skipped
          lastSeq,    \* conversations.last_seq
          messages,   \* rows of messages; `off` is history: the record it came from
          outbox,     \* rows of message_outbox, all Pending here
          dlq,        \* offsets published to the dead-letter topic
          dropped     \* history: offsets a poll with an error has dropped

ingestVars == <<inbox, committed, lastSeq, messages, outbox, dlq, dropped>>

Row == [conv : Convs, seq : Nat, key : Keys, off : Nat]

(* The unique index (sender_id, client_msg_id) has an entry for k.         *)
Persisted(k) == \E m \in messages : m.key = k

(* Record o needs no more work: its message exists or it is dead-lettered. *)
Done(o) == Persisted(inbox[o].key) \/ o \in dlq

(* Done, or gone for a reason FetchMessage has.                            *)
Settled(o) == Done(o) \/ o \in dropped

IngestInit ==
    /\ inbox = <<>>
    /\ committed = 0
    /\ lastSeq = [k \in Convs |-> 0]
    /\ messages = {}
    /\ outbox = {}
    /\ dlq = {}
    /\ dropped = {}

(* A gateway's PublishIngress reaches the partition.                       *)
PublishIngress(r) ==
    /\ Len(inbox) < MaxInbox
    /\ inbox' = Append(inbox, r)
    /\ UNCHANGED <<committed, lastSeq, messages, outbox, dlq, dropped>>

(* Record o gets the next seq of its conversation: the message row, the    *)
(* conversation's last_seq and the outbox row appear together.             *)
PersistRecord(o) ==
    LET r   == inbox[o]
        row == [conv |-> r.conv, seq |-> lastSeq[r.conv] + 1, key |-> r.key, off |-> o]
    IN  /\ r.valid
        /\ r.conv \notin Dismissed
        /\ ~ Persisted(r.key)
        /\ messages' = messages \cup {row}
        /\ outbox' = outbox \cup {row}
        /\ lastSeq' = [lastSeq EXCEPT ![r.conv] = @ + 1]
        /\ UNCHANGED <<inbox, committed, dlq, dropped>>

DeadLetter(o) ==
    /\ dlq' = dlq \cup {o}
    /\ UNCHANGED <<inbox, committed, lastSeq, messages, outbox, dropped>>

DropRecord(o) ==
    /\ dropped' = dropped \cup {o}
    /\ UNCHANGED <<inbox, committed, lastSeq, messages, outbox, dlq>>

(* The offset may move, forwards or backwards, to any point below which    *)
(* every record is settled.                                                *)
CommitOffset(o) ==
    /\ \A p \in 1..o : Settled(p)
    /\ committed' = o
    /\ UNCHANGED <<inbox, lastSeq, messages, outbox, dlq, dropped>>

IngestNext ==
    \/ \E r \in Records : PublishIngress(r)
    \/ \E o \in 1..Len(inbox) :
          PersistRecord(o) \/ DeadLetter(o) \/ DropRecord(o) \/ CommitOffset(o)

IngestSpec == IngestInit /\ [][IngestNext]_ingestVars
=============================================================================
