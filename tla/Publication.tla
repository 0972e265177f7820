----------------------------- MODULE Publication ----------------------------
(***************************************************************************)
(* What publishing promises, with no publisher, lock or lease in sight.    *)
(* The messages of a conversation are worked on in the order of their      *)
(* seqs: none is delivered, missed or dead-lettered before all earlier     *)
(* ones are settled. A message is settled once and for all, as Published   *)
(* to the partitions it was routed to or as Dead with its dead letter.     *)
(* It may be delivered several times, and late.                            *)
(*                                                                         *)
(* Outbox implements this specification.                                   *)
(***************************************************************************)
EXTENDS Integers, Sequences

CONSTANTS Convs, Partitions

VARIABLES outcome,  \* per conversation and seq: how the message ended, and where it went
          push,     \* per partition: the records delivered, <<conversation, seq>>
          dlq,      \* the dead letters
          missed    \* deliveries that were taken for done

publicationVars == <<outcome, push, dlq, missed>>

Open == [end |-> "Open", to |-> {}]

PublicationInit ==
    /\ outcome = [v \in Convs |-> <<>>]
    /\ push = [q \in Partitions |-> <<>>]
    /\ dlq = {}
    /\ missed = {}

(* The persist transaction hands a message over.                           *)
HandOver(v) ==
    /\ outcome' = [outcome EXCEPT ![v] = Append(@, Open)]
    /\ UNCHANGED <<push, dlq, missed>>

Deliver(v, s, q) ==
    /\ push' = [push EXCEPT ![q] = Append(@, <<v, s>>)]
    /\ UNCHANGED <<outcome, dlq, missed>>

Miss(v, s, q) ==
    /\ missed' = missed \cup {<<q, v, s>>}
    /\ UNCHANGED <<outcome, push, dlq>>

SendToDLQ(v, s) ==
    /\ dlq' = dlq \cup {<<v, s>>}
    /\ UNCHANGED <<outcome, push, missed>>

(* Every partition the message was routed to has it, or was missed.        *)
SettlePublished(v, s, to) ==
    /\ outcome[v][s] = Open
    /\ \A q \in to : <<q, v, s>> \in missed \/ \E i \in 1..Len(push[q]) : push[q][i] = <<v, s>>
    /\ outcome' = [outcome EXCEPT ![v][s] = [end |-> "Published", to |-> to]]
    /\ UNCHANGED <<push, dlq, missed>>

SettleDead(v, s) ==
    /\ outcome[v][s] = Open
    /\ <<v, s>> \in dlq
    /\ outcome' = [outcome EXCEPT ![v][s] = [end |-> "Dead", to |-> {}]]
    /\ UNCHANGED <<push, dlq, missed>>

(* Nothing before s is open.                                               *)
InTurn(v, s) == \A r \in 1..(s - 1) : outcome[v][r] # Open

PublicationNext ==
    \/ \E v \in Convs : HandOver(v)
    \/ \E v \in Convs : \E s \in 1..Len(outcome[v]) :
          /\ InTurn(v, s)
          /\ \/ \E q \in Partitions : Deliver(v, s, q) \/ Miss(v, s, q)
             \/ SendToDLQ(v, s)
             \/ \E to \in SUBSET Partitions : SettlePublished(v, s, to)
             \/ SettleDead(v, s)

PublicationSpec == PublicationInit /\ [][PublicationNext]_publicationVars
=============================================================================
