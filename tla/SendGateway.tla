----------------------------- MODULE SendGateway -----------------------------
(***************************************************************************)
(* Service.Send on several gateway processes: the fast idempotency entry   *)
(* in Redis (IdempotencyStore and its two Lua scripts), the publish to the *)
(* inbox topic through the circuit breaker, and the answer to the client.  *)
(*                                                                         *)
(*   acquire -> publish -> mark -> accepted                                *)
(*                  \----> release -> retryable error                      *)
(*                                                                         *)
(* A request is a call of Send in a slot of a gateway. The checks before   *)
(* Acquire (format, rate limit, membership, conversation status) can only  *)
(* end the request with an error and touch none of this state, so a        *)
(* request starts at acquire.                                              *)
(***************************************************************************)
EXTENDS Integers

CONSTANTS Keys,          \* (sender_id, client_msg_id) pairs
          Gateways, Slots,
          NoReq,         \* no request
          IdemFallback,  \* go on without the entry when Redis fails?
          MaxNonce,      \* bound: calls of newNonce in a process
          MaxCrashes     \* bound: process crashes

ASSUME NoReqAssumption == NoReq \notin Gateways \X Slots
ASSUME IdemFallbackAssumption == IdemFallback \in BOOLEAN
ASSUME SendBounds == MaxNonce \in Nat /\ MaxCrashes \in Nat

Reqs == Gateways \X Slots

VARIABLES idem,      \* the Redis entry of each key
          nonceSeq,  \* per gateway: nonceSeq of its process
          pc,        \* per request
          key,       \* per request: the client message it carries
          nonce,     \* per request: the nonce Acquire gave it, 0 for ""
          inbox,     \* keys that have a record in the inbox topic
          accepted,  \* keys a client was told are accepted
          taker,     \* history, per key: the request whose script took the entry last
          swallowed, \* history: keys of publishes whose error was swallowed
          overran,   \* history: keys whose entry expired under the request that held it
          crashes

history == <<taker, swallowed, overran>>
sendVars == <<idem, nonceSeq, pc, key, nonce, inbox, accepted, history, crashes>>

Steps   == {"idle", "acquire", "publish", "mark", "release"}
Entries == [st : {"none", "processing", "accepted"}, nonce : 0..MaxNonce]

NoEntry       == [st |-> "none", nonce |-> 0]
Accepted      == [st |-> "accepted", nonce |-> 0]
Processing(n) == [st |-> "processing", nonce |-> n]

SendInit ==
    /\ idem = [k \in Keys |-> NoEntry]
    /\ nonceSeq = [g \in Gateways |-> 0]
    /\ pc = [r \in Reqs |-> "idle"]
    /\ key \in [Reqs -> Keys]
    /\ nonce = [r \in Reqs |-> 0]
    /\ inbox = {}
    /\ accepted = {}
    /\ taker = [k \in Keys |-> NoReq]
    /\ swallowed = {}
    /\ overran = {}
    /\ crashes = 0

Goto(r, step) == pc' = [pc EXCEPT ![r] = step]

-----------------------------------------------------------------------------
(* A client, or its retry of the same client_msg_id, reaches Acquire.      *)
Send(r, k) ==
    /\ pc[r] = "idle"
    /\ key' = [key EXCEPT ![r] = k]
    /\ nonce' = [nonce EXCEPT ![r] = 0]
    /\ Goto(r, "acquire")
    /\ UNCHANGED <<idem, nonceSeq, inbox, accepted, history, crashes>>

newNonce(r) ==
    /\ nonceSeq[r[1]] < MaxNonce
    /\ nonceSeq' = [nonceSeq EXCEPT ![r[1]] = @ + 1]

(* Mutant: an entry somebody is processing is taken over.                  *)
AcquireOver(r) ==
    LET k == key[r]
        n == nonceSeq[r[1]] + 1
    IN  /\ pc[r] = "acquire"
        /\ newNonce(r)
        /\ idem[k].st # "accepted"
        /\ idem' = [idem EXCEPT ![k] = Processing(n)]
        /\ taker' = [taker EXCEPT ![k] = r]
        /\ nonce' = [nonce EXCEPT ![r] = n]
        /\ Goto(r, "publish")
        /\ UNCHANGED <<key, inbox, accepted, swallowed, overran, crashes>>

(* acquire_message_idem.lua: taken, already accepted (answered as such at  *)
(* once), or being processed (a retryable error).                          *)
Acquire(r) ==
    LET k == key[r]
        n == nonceSeq[r[1]] + 1
    IN  /\ pc[r] = "acquire"
        /\ newNonce(r)
        /\ \/ /\ idem[k].st = "none"
              /\ idem' = [idem EXCEPT ![k] = Processing(n)]
              /\ taker' = [taker EXCEPT ![k] = r]
              /\ nonce' = [nonce EXCEPT ![r] = n]
              /\ Goto(r, "publish")
              /\ UNCHANGED accepted
           \/ /\ idem[k].st = "accepted"
              /\ accepted' = accepted \cup {k}
              /\ Goto(r, "idle")
              /\ UNCHANGED <<idem, taker, nonce>>
           \/ /\ idem[k].st = "processing"
              /\ Goto(r, "idle")
              /\ UNCHANGED <<idem, taker, nonce, accepted>>
        /\ UNCHANGED <<key, inbox, swallowed, overran, crashes>>

(* The call fails, whether or not the script ran; Send has no nonce and    *)
(* goes on without one, or gives up.                                       *)
AcquireFails(r) ==
    LET k == key[r]
        n == nonceSeq[r[1]] + 1
    IN  /\ pc[r] = "acquire"
        /\ newNonce(r)
        /\ \/ /\ idem[k].st = "none"
              /\ idem' = [idem EXCEPT ![k] = Processing(n)]
              /\ taker' = [taker EXCEPT ![k] = r]
           \/ UNCHANGED <<idem, taker>>
        /\ Goto(r, IF IdemFallback THEN "publish" ELSE "idle")
        /\ UNCHANGED <<key, nonce, inbox, accepted, swallowed, overran, crashes>>

-----------------------------------------------------------------------------
(* After an acknowledged, or seemingly acknowledged, publish: mark the     *)
(* entry if there is a nonce, and answer.                                  *)
Published(r) ==
    IF nonce[r] # 0
    THEN Goto(r, "mark") /\ UNCHANGED accepted
    ELSE Goto(r, "idle") /\ accepted' = accepted \cup {key[r]}

(* PublishIngress with acks=all.                                           *)
PublishIngress(r) ==
    /\ pc[r] = "publish"
    /\ inbox' = inbox \cup {key[r]}
    /\ Published(r)
    /\ UNCHANGED <<idem, nonceSeq, key, nonce, history, crashes>>

(* Its context ends first: Breaker.Execute takes context errors for non-   *)
(* technical ones and returns nil.                                         *)
PublishSwallowed(r) ==
    /\ pc[r] = "publish"
    /\ Published(r)
    /\ swallowed' = swallowed \cup {key[r]}
    /\ UNCHANGED <<idem, nonceSeq, key, nonce, inbox, taker, overran, crashes>>

(* Mutant: a failed publish is answered like a successful one.             *)
PublishFailureIgnored(r) ==
    /\ pc[r] = "publish"
    /\ Published(r)
    /\ UNCHANGED <<idem, nonceSeq, key, nonce, inbox, history, crashes>>

(* It fails, by an error or an open breaker, whether or not the record     *)
(* reached the topic.                                                      *)
PublishFails(r) ==
    /\ pc[r] = "publish"
    /\ inbox' \in {inbox, inbox \cup {key[r]}}
    /\ Goto(r, IF nonce[r] # 0 THEN "release" ELSE "idle")
    /\ UNCHANGED <<idem, nonceSeq, key, nonce, accepted, history, crashes>>

(* Mutant: the scripts do not compare the nonce.                           *)
AnyEntry(r) == idem[key[r]].st # "none"

(* The comparison of release_message_idem.lua.                             *)
Owns(r) == idem[key[r]] = Processing(nonce[r])

(* release_message_idem.lua with `value`: nothing, or accepted.            *)
ReplaceOwn(r, value) ==
    idem' = IF Owns(r) THEN [idem EXCEPT ![key[r]] = value] ELSE idem

MarkAccepted(r) ==
    /\ pc[r] = "mark"
    /\ ReplaceOwn(r, Accepted) \/ UNCHANGED idem
    /\ accepted' = accepted \cup {key[r]}
    /\ Goto(r, "idle")
    /\ UNCHANGED <<nonceSeq, key, nonce, inbox, history, crashes>>

Release(r) ==
    /\ pc[r] = "release"
    /\ ReplaceOwn(r, NoEntry) \/ UNCHANGED idem
    /\ Goto(r, "idle")
    /\ UNCHANGED <<nonceSeq, key, nonce, inbox, accepted, history, crashes>>

-----------------------------------------------------------------------------
InFlight(r) == pc[r] \in {"publish", "mark", "release"}

(* r is past Acquire and knows the nonce it took the entry with.           *)
Holds(r) == InFlight(r) /\ nonce[r] # 0

(* The TTL of an entry ends; processingTTL need not outlast the request.   *)
Expire(k) ==
    /\ idem[k].st # "none"
    /\ idem' = [idem EXCEPT ![k] = NoEntry]
    /\ overran' = IF \E r \in Reqs : Holds(r) /\ key[r] = k /\ taker[k] = r
                  THEN overran \cup {k} ELSE overran
    /\ UNCHANGED <<nonceSeq, pc, key, nonce, inbox, accepted, taker, swallowed, crashes>>

(* A gateway process dies and starts again, its nonces from 1.             *)
GatewayCrash(g) ==
    /\ crashes < MaxCrashes
    /\ crashes' = crashes + 1
    /\ nonceSeq' = [nonceSeq EXCEPT ![g] = 0]
    /\ pc' = [r \in Reqs |-> IF r[1] = g THEN "idle" ELSE pc[r]]
    /\ nonce' = [r \in Reqs |-> IF r[1] = g THEN 0 ELSE nonce[r]]
    /\ UNCHANGED <<idem, key, inbox, accepted, history>>

SendNext ==
    \/ \E r \in Reqs :
          \/ \E k \in Keys : Send(r, k)
          \/ Acquire(r) \/ AcquireFails(r)
          \/ PublishIngress(r) \/ PublishSwallowed(r) \/ PublishFails(r)
          \/ MarkAccepted(r) \/ Release(r)
    \/ \E k \in Keys : Expire(k)
    \/ \E g \in Gateways : GatewayCrash(g)

SendSpec == SendInit /\ [][SendNext]_sendVars

-----------------------------------------------------------------------------
(* Types of the Redis entries, the requests and the topics.                *)
SendTypeOK ==
    /\ idem \in [Keys -> Entries]
    /\ nonceSeq \in [Gateways -> 0..MaxNonce]
    /\ pc \in [Reqs -> Steps]
    /\ key \in [Reqs -> Keys]
    /\ nonce \in [Reqs -> 0..MaxNonce]
    /\ inbox \subseteq Keys
    /\ accepted \subseteq Keys
    /\ taker \in [Keys -> Reqs \cup {NoReq}]
    /\ swallowed \subseteq Keys
    /\ overran \subseteq Keys
    /\ crashes \in 0..MaxCrashes

(* README: "Kafka inbox 不可用快速失败（不假成功）". A client is told accepted *)
(* only about messages whose record is in the inbox, but for publishes     *)
(* whose error Breaker.Execute swallowed: whatever retries met in Redis,   *)
(* whichever entry was expired, released, marked by another request or     *)
(* left over by a dead process, nothing else makes Send answer accepted    *)
(* for a message Kafka does not have.                                      *)
AcceptedUnlessSwallowed == accepted \subseteq inbox \cup swallowed

(* acquire_message_idem.lua: of the requests that hold a nonce, on all     *)
(* gateways together, one at a time publishes a given message, unless its  *)
(* entry expired under it.                                                 *)
OneSender ==
    \A r1, r2 \in Reqs :
        Holds(r1) /\ Holds(r2) /\ key[r1] = key[r2] /\ key[r1] \notin overran => r1 = r2

(* IdempotencyStore: "仅当值等于自己的 nonce". MarkAccepted and Release of a *)
(* request, however late, leave the entries of other requests alone; as    *)
(* nonces are counted per process from 1, this is only so among requests   *)
(* of one gateway that has not restarted.                                  *)
OwnEntryOnly ==
    [][\A r \in Reqs :
          /\ pc[r] \in {"mark", "release"} /\ pc'[r] = "idle"
          /\ idem'[key[r]] # idem[key[r]]
          /\ crashes' = 0 /\ taker[key[r]][1] = r[1]
          => taker[key[r]] = r]_sendVars
=============================================================================
