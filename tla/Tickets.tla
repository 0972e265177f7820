------------------------------- MODULE Tickets ------------------------------
(***************************************************************************)
(* One-time WebSocket tickets in Redis. A token is random, so each request *)
(* that creates one has its own, and the token is named after the request. *)
(***************************************************************************)
EXTENDS EdgeBase, Integers

CONSTANT TicketTTL    \* in ticks of Redis' clock

ASSUME TicketAssumption == TicketTTL \in Nat \ {0}

VARIABLE tickets       \* token -> the ticket in Redis, or Gone

Gone == [user |-> 0, exp |-> 0, held |-> FALSE]

TicketType == [user : Nat, exp : Int, held : BOOLEAN]

TicketsTypeOK == tickets \in [Requests -> TicketType]

TicketsInit == tickets = [t \in Requests |-> Gone]

(* A ticket Redis still has at time at.                                    *)
Held(t, at) == tickets[t].held /\ at < tickets[t].exp

(* Create's SetNX that sets the ticket.                                    *)
SetTicket(t, user, at) ==
    /\ ~Held(t, at)
    /\ tickets' = [tickets EXCEPT ![t] = [user |-> user, exp |-> at + TicketTTL, held |-> TRUE]]

(* Mutant: read without removing, as GET and DEL in two calls would.       *)
ReadTicket(t, at) == Held(t, at) /\ UNCHANGED tickets

(* Consume: consume_ws_ticket.lua finds the ticket and removes it.         *)
TakeTicket(t, at) == Held(t, at) /\ tickets' = [tickets EXCEPT ![t] = Gone]
=============================================================================
