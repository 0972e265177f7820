-------------------------------- MODULE Edge --------------------------------
(***************************************************************************)
(* The edge of the system: HTTP requests on several processes that share   *)
(* Redis and MySQL, the access token, the rate limiter, the bulkhead and   *)
(* the one-time ticket they have to get past, and the shutdown of a        *)
(* process under them.                                                     *)
(*                                                                         *)
(*   register: next id -> insert                                           *)
(*   login:    rate limit -> find and verify -> access token               *)
(*   ticket:   access token -> create the ticket                           *)
(*   upgrade:  consume the ticket -> rate limits (ip, user) -> connection  *)
(*   history:  access token -> rate limit -> slot -> query -> give it back *)
(*                                                                         *)
(* The Redis client repeats a command whose answer it missed, so a command *)
(* may have run before the run that counts.                                *)
(***************************************************************************)
EXTENDS RateLimiter, Bulkhead, Tickets, Accounts

CONSTANTS FirstUser,    \* a user who is registered when the model starts
          Registrations, Logins,    \* <<name, password>> that clients use
          Traffic,      \* bound: how many requests of which kinds come together
          MaxStops,     \* bound: processes that stop
          MaxFaults     \* bound: failures and lost answers

Kinds == {"none", "register", "login", "ticket", "upgrade", "history"}

ASSUME EdgeAssumption ==
    /\ FirstUser \in UserType
    /\ Registrations \subseteq Names \X Passwords /\ Logins \subseteq Names \X Passwords
    /\ Traffic \subseteq [Kinds \ {"none"} -> Nat]
    /\ MaxStops \in Nat /\ MaxFaults \in Nat
    /\ Procs # {}

(* The keys of the four limits the handlers ask for.                       *)
ASSUME RateKeysAssumption ==
    /\ <<"ip", 0>> \in RateKeys
    /\ \A c \in Logins : <<"login", c[1]>> \in RateKeys
    /\ {"user", "history"} \X UserIds \subseteq RateKeys

VARIABLES req,          \* per request: where its handler is
          tokens,       \* access tokens that clients hold
          server,       \* per process
          faults

vars == <<rateVars, bulkheadVars, tickets, accountVars, req, tokens, server, faults>>

NoArg == "-"

Places == {"none", "id", "insert", "rate", "local", "rateUser", "localUser", "find",
           "create", "consume", "upgrade", "open", "acquire", "waiting", "count", "query",
           "free", "uncount", "done"}

(* arg: the name of a login or registration, the token of an upgrade.      *)
RequestType ==
    [pc : Places, kind : Kinds, proc : Procs, arg : Names \cup Requests \cup {NoArg},
     secret : Passwords, user : UserIds \cup {0},
     answer : {"", "ok", "conflict", "refused"}]

NoRequest == [pc |-> "none", kind |-> "none", proc |-> CHOOSE p \in Procs : TRUE,
              arg |-> NoArg, secret |-> CHOOSE s \in Passwords : TRUE, user |-> 0, answer |-> ""]

Init ==
    /\ RateInit /\ BulkheadInit /\ TicketsInit
    /\ users = {FirstUser} /\ lastUserId = FirstUser.id
    /\ req = [r \in Requests |-> NoRequest]
    /\ tokens = {Issue(FirstUser.id, 0)}
    /\ server = [p \in Procs |-> "up"]
    /\ faults = 0

Fail == faults < MaxFaults /\ faults' = faults + 1
NoFault == UNCHANGED faults

Goto(r, pc) == req' = [req EXCEPT ![r].pc = pc]

(* Answered, and of interest for what it was told.                         *)
Answer(r, a) == req' = [req EXCEPT ![r] = [@ EXCEPT !.pc = "done", !.answer = a]]

(* Answered with an error, whichever, or cut off: of no more interest.     *)
Refused(kind) == [NoRequest EXCEPT !.kind = kind, !.pc = "done", !.answer = "refused"]
Refuse(r) == req' = [req EXCEPT ![r] = Refused(@.kind)]

(* A request reaches a process that still listens.                         *)
Arrive(r, p, q) ==
    /\ req[r].pc = "none"
    /\ server[p] = "up"
    /\ \E mix \in Traffic : \A k \in Kinds \ {"none"} :
          Cardinality({s \in Requests : k = IF s = r THEN q.kind ELSE req[s].kind}) <= mix[k]
    /\ req' = [req EXCEPT ![r] = IF q.pc = "done" THEN q ELSE [q EXCEPT !.proc = p]]
    /\ UNCHANGED <<rateVars, bulkheadVars, tickets, accountVars, tokens, server, faults>>

-----------------------------------------------------------------------------
(* Accounts *)

(* A nickname that is too long is refused like a password that is too      *)
(* short; it is not kept apart.                                            *)
Register(r, p, name, password) ==
    Arrive(r, p, IF Normalise[name] \in ValidNames /\ password \in ValidPasswords
                 THEN [NoRequest EXCEPT !.pc = "id", !.kind = "register", !.arg = name,
                                        !.secret = password]
                 ELSE Refused("register"))

RegisterId(r) ==
    /\ req[r].pc = "id"
    /\ \/ \E id \in UserIds, repeats \in BOOLEAN :
            /\ NextUserId(id, repeats)
            /\ req' = [req EXCEPT ![r] = [@ EXCEPT !.pc = "insert", !.user = id]]
            /\ IF repeats THEN Fail ELSE NoFault
       \/ Refuse(r) /\ Fail /\ UNCHANGED accountVars
    /\ UNCHANGED <<rateVars, bulkheadVars, tickets, tokens, server>>

RegisterInsert(r) ==
    /\ req[r].pc = "insert"
    /\ \E result \in {"ok", "conflict", "error"} :
          /\ CreateUser(req[r].user, Normalise[req[r].arg], req[r].secret, result)
          /\ IF result = "error" THEN Refuse(r) ELSE Answer(r, result)
          /\ IF result = "error" THEN Fail ELSE NoFault
    /\ UNCHANGED <<rateVars, bulkheadVars, tickets, tokens, server>>

Login(r, p, name, password) ==
    Arrive(r, p, [NoRequest EXCEPT !.pc = "rate", !.kind = "login", !.arg = name,
                                   !.secret = password])

(* FindByUsername, VerifyPassword, Issue. The status of a found user is    *)
(* always normal: nothing in the program writes another.                   *)
LoginFind(r) ==
    /\ req[r].pc = "find"
    /\ LET found == FindByUsername(Normalise[req[r].arg])
       IN  \/ \E u \in found :
                /\ VerifyPassword(req[r].secret, u.hash)
                /\ tokens' = tokens \cup {Issue(u.id, ticks)}
                /\ req' = [req EXCEPT ![r] = [@ EXCEPT !.pc = "done", !.answer = "ok",
                                                       !.user = u.id]]
                /\ NoFault
           \/ /\ \A u \in found : ~VerifyPassword(req[r].secret, u.hash)
              /\ Refuse(r)
              /\ NoFault /\ UNCHANGED tokens
           \/ Refuse(r) /\ Fail /\ UNCHANGED tokens
    /\ UNCHANGED <<rateVars, bulkheadVars, tickets, accountVars, server>>

(* The Auth middleware in front of a handler that goes on at pc.           *)
Authorized(r, p, token, kind, pc) ==
    Arrive(r, p, IF Expired(token, ticks) THEN Refused(kind)
                 ELSE [NoRequest EXCEPT !.pc = pc, !.kind = kind, !.user = token.user])

-----------------------------------------------------------------------------
(* Redis and the rate limiter *)

(* The context of an upgrade is the application's: it is cancelled when    *)
(* the process begins to shut down, and its Redis calls then fail at once. *)
Cancelled(r) == req[r].kind = "upgrade" /\ server[req[r].proc] = "draining"

(* A Redis call that does not get through, for good.                       *)
CallFails(r) == IF Cancelled(r) THEN NoFault ELSE Fail

RateKeyOf(q) ==
    CASE q.kind = "login"   -> <<"login", q.arg>>
      [] q.kind = "history" -> <<"history", q.user>>
      [] q.kind = "upgrade" -> IF q.pc \in {"rate", "local"} THEN <<"ip", 0>>
                                                             ELSE <<"user", q.user>>

(* Where a handler goes on when its call is let through.                   *)
Admitted(q) ==
    CASE q.kind = "login"   -> "find"
      [] q.kind = "history" -> "acquire"
      [] q.kind = "upgrade" -> IF q.pc \in {"rate", "local"} THEN "rateUser" ELSE "upgrade"

(* An upgrade that is refused here has used its ticket up.                 *)
Decide(r, ok) ==
    IF ok THEN Goto(r, Admitted(req[r]))
    ELSE IF req[r].kind = "upgrade" THEN Answer(r, "refused") ELSE Refuse(r)

AllowL2(r) ==
    /\ req[r].pc \in {"rate", "rateUser"}
    /\ ~Cancelled(r)
    /\ \E ok \in BOOLEAN : allowL2(RateKeyOf(req[r]), ok) /\ Decide(r, ok)
    /\ UNCHANGED <<bulkheadVars, tickets, accountVars, tokens, server, faults>>

(* Allow turns to the local bucket.                                        *)
Fallback(r) ==
    /\ req[r].pc \in {"rate", "rateUser"}
    /\ CallFails(r)
    /\ Goto(r, IF req[r].pc = "rate" THEN "local" ELSE "localUser")
    /\ UNCHANGED <<rateVars, bulkheadVars, tickets, accountVars, tokens, server>>

AllowL1(r) ==
    /\ req[r].pc \in {"local", "localUser"}
    /\ \E ok \in BOOLEAN : allowL1(req[r].proc, RateKeyOf(req[r]), ok) /\ Decide(r, ok)
    /\ UNCHANGED <<bulkheadVars, tickets, accountVars, tokens, server, faults>>

(* A command runs, its answer is lost, and the client repeats it.          *)
AnswerLost(r) ==
    /\ Fail
    /\ \/ /\ req[r].pc \in {"rate", "rateUser"}
          /\ unansweredL2(RateKeyOf(req[r]))
          /\ UNCHANGED tickets
       \/ /\ req[r].pc = "create"
          /\ SetTicket(r, req[r].user, now)
          /\ UNCHANGED rateVars
       \/ /\ req[r].pc = "consume" /\ req[r].arg # NoArg
          /\ TakeTicket(req[r].arg, now)
          /\ UNCHANGED rateVars
    /\ UNCHANGED <<bulkheadVars, accountVars, req, tokens, server>>

-----------------------------------------------------------------------------
(* Tickets and connections *)

PostTicket(r, p, token) == Authorized(r, p, token, "ticket", "create")

(* A repeated SetNX finds the key of its first run: a conflict, a 503.     *)
CreateTicket(r) ==
    /\ req[r].pc = "create"
    /\ \/ SetTicket(r, req[r].user, now) /\ Answer(r, "ok") /\ NoFault
       \/ Held(r, now) /\ Refuse(r) /\ NoFault /\ UNCHANGED tickets
       \/ Refuse(r) /\ Fail /\ UNCHANGED tickets
    /\ UNCHANGED <<rateVars, bulkheadVars, accountVars, tokens, server>>

(* A client presents a ticket it was given, or none.                       *)
GetWS(r, p, t) ==
    /\ t # NoArg => req[t].kind = "ticket" /\ req[t].answer = "ok"
    /\ Arrive(r, p, [NoRequest EXCEPT !.pc = "consume", !.kind = "upgrade", !.arg = t])

Consume(r) ==
    LET t == req[r].arg
    IN  /\ req[r].pc = "consume"
        /\ \/ /\ t # NoArg /\ ~Cancelled(r)
              /\ TakeTicket(t, now)
              /\ req' = [req EXCEPT ![r] = [@ EXCEPT !.pc = "rate", !.user = tickets[t].user]]
              /\ NoFault
           \/ /\ t # NoArg => ~Cancelled(r) /\ ~Held(t, now)
              /\ Refuse(r)
              /\ NoFault /\ UNCHANGED tickets
           \/ /\ t # NoArg
              /\ CallFails(r)
              /\ Refuse(r)
              /\ UNCHANGED tickets
        /\ UNCHANGED <<rateVars, bulkheadVars, accountVars, tokens, server>>

(* The connection is hijacked and registered; Delivery and Presence go on. *)
Upgrade(r) ==
    /\ req[r].pc = "upgrade"
    /\ \/ Goto(r, "open") /\ NoFault
       \/ Answer(r, "refused") /\ Fail
    /\ UNCHANGED <<rateVars, bulkheadVars, tickets, accountVars, tokens, server>>

-----------------------------------------------------------------------------
(* History queries *)

GetHistory(r, p, token) == Authorized(r, p, token, "history", "rate")

HistoryUnchanged == UNCHANGED <<rateVars, tickets, accountVars, tokens, server, faults>>

Acquire(r) ==
    /\ \/ req[r].pc \in {"acquire", "waiting"} /\ TakeSlot(req[r].proc) /\ Goto(r, "count")
       \/ req[r].pc = "acquire" /\ NoSlot(req[r].proc) /\ Goto(r, "waiting")
       \/ req[r].pc = "waiting" /\ Rejected(req[r].proc) /\ Refuse(r)
       \/ req[r].pc = "count" /\ AddActive(req[r].proc, 1) /\ Goto(r, "query")
    /\ HistoryUnchanged

(* ListHistory answers or fails; the deferred Release runs either way.     *)
Query(r) ==
    /\ req[r].pc = "query"
    /\ \E a \in {"ok", "refused"} :
          /\ req' = [req EXCEPT ![r] = [@ EXCEPT !.pc = "free", !.answer = a]]
          /\ IF a = "refused" THEN Fail ELSE NoFault
    /\ UNCHANGED <<rateVars, bulkheadVars, tickets, accountVars, tokens, server>>

Release(r) ==
    /\ \/ /\ req[r].pc = "free" /\ FreeSlot(req[r].proc)
          /\ Goto(r, IF sem[req[r].proc] > 0 THEN "uncount" ELSE "done")
       \/ req[r].pc = "uncount" /\ AddActive(req[r].proc, -1) /\ Goto(r, "done")
    /\ HistoryUnchanged

-----------------------------------------------------------------------------
(* Shutdown *)

(* Requests the HTTP server waits for: hijacked connections are not.       *)
InFlight(p) == {r \in Requests : req[r].proc = p /\ req[r].pc \notin {"none", "open", "done"}}

Serving(p, from, to) ==
    /\ server[p] = from
    /\ from = "up" => Cardinality({q \in Procs : server[q] # "up"}) < MaxStops
    /\ server' = [server EXCEPT ![p] = to]
    /\ UNCHANGED <<rateVars, bulkheadVars, tickets, accountVars, tokens, faults>>

(* The application's context is cancelled and the listener closed.         *)
Drain(p) == Serving(p, "up", "draining") /\ UNCHANGED req

(* Shutdown has returned: everything is closed and Run returns.            *)
Stop(p) ==
    /\ InFlight(p) = {}
    /\ Serving(p, "draining", "stopped")
    /\ UNCHANGED req

(* Shutdown has run out of time, or the listener failed: the requests go   *)
(* down with the process.                                                  *)
Kill(p) ==
    /\ \/ Serving(p, "draining", "killed")
       \/ Serving(p, "up", "killed")
    /\ req' = [r \in Requests |-> IF r \in InFlight(p) THEN Refused(req[r].kind)
                                  ELSE req[r]]

-----------------------------------------------------------------------------
(* The specification *)

Time == (Tick \/ ClockBack \/ ClockForward)
        /\ UNCHANGED <<bulkheadVars, tickets, accountVars, req, tokens, server, faults>>

Next ==
    \/ \E r \in Requests, p \in Procs :
          \/ \E c \in Registrations : Register(r, p, c[1], c[2])
          \/ \E c \in Logins : Login(r, p, c[1], c[2])
          \/ \E token \in tokens : PostTicket(r, p, token) \/ GetHistory(r, p, token)
          \/ \E t \in Requests \cup {NoArg} : GetWS(r, p, t)
    \/ \E r \in Requests :
          \/ RegisterId(r) \/ RegisterInsert(r) \/ LoginFind(r)
          \/ AllowL2(r) \/ Fallback(r) \/ AllowL1(r) \/ AnswerLost(r)
          \/ CreateTicket(r) \/ Consume(r) \/ Upgrade(r)
          \/ Acquire(r) \/ Query(r) \/ Release(r)
    \/ \E p \in Procs : Drain(p) \/ Stop(p) \/ Kill(p)
    \/ Time

Spec == Init /\ [][Next]_vars

-----------------------------------------------------------------------------
(* Properties *)

(* Types of the components and of the requests.                            *)
TypeOK ==
    /\ RateTypeOK /\ BulkheadTypeOK /\ TicketsTypeOK /\ AccountsTypeOK
    /\ req \in [Requests -> RequestType]
    /\ tokens \subseteq [user : UserIds, exp : Nat]
    /\ server \in [Procs -> {"up", "draining", "stopped", "killed"}]
    /\ faults \in 0..MaxFaults

At(p, pcs) == {r \in Requests : req[r].proc = p /\ req[r].pc \in pcs}

(* Acquire, Release: there are never more than Limit queries at work, a    *)
(* slot is held by exactly those between the two, and the counter is off   *)
(* by those in the middle of one, whoever waits, gives up or overtakes.    *)
SlotsBalanced ==
    \A p \in Procs : server[p] # "killed" =>
        /\ sem[p] <= Limit
        /\ sem[p] = Cardinality(At(p, {"count", "query", "free"}))
        /\ active[p] = Cardinality(At(p, {"query", "free", "uncount"}))

PastTicket(t) ==
    {r \in Requests : req[r].kind = "upgrade" /\ req[r].arg = t /\ req[r].user # 0}

(* Consume, Upgrade: a ticket lets one upgrade past, on whatever process,  *)
(* as the user whose access token it was made with, and is then gone.      *)
TicketOnce ==
    \A t \in Requests : \A r \in PastTicket(t) :
        /\ PastTicket(t) = {r}
        /\ ~tickets[t].held
        /\ req[t].answer = "ok" /\ req[r].user = req[t].user

(* UserRepository.Create, Login: a name has one owner. A registration that *)
(* was told so owns its row, one that was told of a conflict met the       *)
(* owner (or an id the generator repeated), and a login was let in as the  *)
(* owner, with the owner's password.                                       *)
OneOwnerPerName ==
    /\ \A u, v \in users : u.name = v.name => u = v
    /\ \A r \in Requests :
        LET q == req[r]
            own == [id |-> q.user, name |-> Normalise[q.arg], hash |-> HashPassword(q.secret)]
        IN  /\ q.kind = "register" /\ q.answer = "ok" => own \in users
            /\ q.kind = "register" /\ q.answer = "conflict" =>
                  \E u \in users : u.name = own.name \/ u.id = q.user
            /\ q.kind = "login" /\ q.answer = "ok" => own \in users
=============================================================================
