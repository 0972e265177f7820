--------------------------- MODULE Conversations ----------------------------
(***************************************************************************)
(* Conversations: Create of the conversation service with its two looks at *)
(* the table around the id generator and the insert, the membership checks *)
(* every other component relies on, and the paged list of a user's         *)
(* conversations, newest first, while messages reorder it.                 *)
(*                                                                         *)
(*   Create: look up -> next id -> insert -> (look up again) -> answer     *)
(*                                                                         *)
(* Ids are integers because sortPair and the list's cursor compare them.   *)
(* The id generator counts up and repeats no id but for the race that      *)
(* SegmentGenerator describes.                                             *)
(* Nothing in the program dismisses a conversation; an operator may.       *)
(***************************************************************************)
EXTENDS Integers, Sequences, FiniteSets

CONSTANTS Users,            \* user ids
          Listers,          \* the users whose clients page through their list
          Requests,         \* create requests
          Commands,         \* what they may ask for
          Limits,           \* page sizes clients ask for
          MaxGroupMembers,
          MaxIds,           \* bound: ids of the generator
          MaxTime,          \* bound: ticks of the clock
          Skew,             \* ticks a node's clock may be behind
          MaxFaults         \* bound: failures, repeated ids, dismissals

CommandType == [sender : Users, type : {"single", "group"}, named : BOOLEAN, ids : Seq(Users)]

ASSUME UsersAssumption == Users \subseteq Nat \ {0} /\ Listers \subseteq Users
ASSUME CommandsAssumption == Commands \subseteq CommandType
ASSUME ConversationBounds ==
    /\ Limits \subseteq 1..100
    /\ MaxGroupMembers \in Nat \ {0}
    /\ MaxIds \in Nat
    /\ MaxTime \in Nat
    /\ Skew \in Nat
    /\ MaxFaults \in Nat

VARIABLES rows,    \* conversations with their members
          lastId,  \* the last id the generator has handed out
          clock,
          req,     \* per create request: where it is, what it was told
          list,    \* per lister: the listing its client is paging through
          reused,  \* history: ids handed out twice
          faults

vars == <<rows, lastId, clock, req, list, reused, faults>>

Ids == 1..MaxIds
NoId == 0
NoKey == <<0, 0>>
Keys == {NoKey} \cup (Users \X Users)

(* at: COALESCE(last_message_at, created_at).                              *)
RowType == [id : Ids, type : {"single", "group"}, key : Keys, members : SUBSET Users,
            normal : BOOLEAN, at : 0..MaxTime]

NoCommand == [sender |-> 0, type |-> "single", named |-> FALSE, ids |-> <<>>]

RequestType == [pc : {"none", "next", "insert", "again", "answered"},
                cmd : Commands \cup {NoCommand},
                id : Ids \cup {NoId}, at : 0..MaxTime,
                result : {"", "ok", "invalid", "error"}, conv : Ids \cup {NoId}]

NoRequest == [pc |-> "none", cmd |-> NoCommand, id |-> NoId, at |-> 0,
              result |-> "", conv |-> NoId]

(* cursor: <<id, timestamp>> of the last page's last row, <<0, 0>> without *)
(* one. The rest is history. missing: conversations the user had when the  *)
(* listing began that no page has held and nothing has touched since.      *)
(* shown: those a page has held and nothing has moved back since. twice:   *)
(* those a page held once more all the same.                               *)
ListingType == [pc : {"none", "paging", "done"}, cursor : (0..MaxIds) \X (0..MaxTime),
                missing : SUBSET Ids, shown : SUBSET Ids, twice : SUBSET Ids]

NoListing == [pc |-> "none", cursor |-> <<0, 0>>, missing |-> {}, shown |-> {}, twice |-> {}]

Init ==
    /\ rows = {}
    /\ lastId = 0
    /\ clock = 0
    /\ req = [r \in Requests |-> NoRequest]
    /\ list = [u \in Listers |-> NoListing]
    /\ reused = {}
    /\ faults = 0

-----------------------------------------------------------------------------
(* Commands *)

(* Mutant: the pair as the caller wrote it.                                *)
AsWritten(a, b) == <<a, b>>

sortPair(a, b) == IF a < b THEN <<a, b>> ELSE <<b, a>>

(* dedupe(append(MemberIDs, SenderID)): as a set, and its first element.   *)
Members(cmd) == {cmd.ids[i] : i \in 1..Len(cmd.ids)} \cup {cmd.sender}

FirstMember(cmd) == IF cmd.ids = <<>> THEN cmd.sender ELSE cmd.ids[1]

membersWithout(cmd) == Members(cmd) \ {cmd.sender}

(* membersWithout(members, sender)[0]: the first member who is not the     *)
(* sender, in the order of the request.                                    *)
FirstOther(cmd) ==
    cmd.ids[CHOOSE i \in 1..Len(cmd.ids) :
               cmd.ids[i] # cmd.sender /\ \A j \in 1..(i - 1) : cmd.ids[j] = cmd.sender]

(* The direct pair the service looks up.                                   *)
Pair(cmd) == sortPair(cmd.sender, FirstOther(cmd))

(* uk_direct_conversation of the row CreateWithMembers inserts: the owner  *)
(* and memberIDs[0], which is the owner when the request begins with it.   *)
DirectKey(cmd) ==
    IF cmd.type = "single" THEN sortPair(cmd.sender, FirstMember(cmd)) ELSE NoKey

(* GetByDirectUsers: direct conversations of the pair that are normal.     *)
GetByDirectUsers(pair) == {c \in rows : c.type = "single" /\ c.key = pair /\ c.normal}

-----------------------------------------------------------------------------
(* Create *)

(* A request that is answered with an error is of no more interest.        *)
Refuse(r, result) ==
    req' = [req EXCEPT ![r] = [NoRequest EXCEPT !.pc = "answered", !.result = result]]

Answer(r, cmd, conv) ==
    req' = [req EXCEPT ![r] = [NoRequest EXCEPT !.pc = "answered", !.result = "ok",
                                                !.cmd = cmd, !.conv = conv]]

(* Up to and including the first look at the table.                        *)
Create(r, cmd) ==
    /\ req[r].pc = "none"
    /\ \/ /\ cmd.type = "single" /\ Cardinality(membersWithout(cmd)) # 1
          /\ Refuse(r, "invalid")
       \/ /\ cmd.type = "single" /\ Cardinality(membersWithout(cmd)) = 1
          /\ \E c \in GetByDirectUsers(Pair(cmd)) : Answer(r, cmd, c.id)
       \/ /\ \/ cmd.type = "group"
             \/ /\ Cardinality(membersWithout(cmd)) = 1
                /\ GetByDirectUsers(Pair(cmd)) = {}
          /\ req' = [req EXCEPT ![r] = [NoRequest EXCEPT !.pc = "next", !.cmd = cmd]]
    /\ UNCHANGED <<rows, lastId, clock, list, reused, faults>>

(* What a node may read on its clock.                                      *)
NodeTimes == {t \in 0..clock : t + Skew >= clock}

(* The group's name and size are checked once the id is spent; created_at  *)
(* is the node's time of this moment.                                      *)
HaveId(r, i) ==
    LET cmd == req[r].cmd
    IN  IF cmd.type = "group" /\ (~ cmd.named \/ Cardinality(Members(cmd)) > MaxGroupMembers)
        THEN Refuse(r, "invalid")
        ELSE \E t \in NodeTimes :
                req' = [req EXCEPT ![r] = [@ EXCEPT !.pc = "insert", !.id = i, !.at = t]]

NextId(r, i) ==
    /\ req[r].pc = "next"
    /\ i = lastId + 1
    /\ lastId' = i
    /\ HaveId(r, i)
    /\ UNCHANGED <<rows, clock, list, reused, faults>>

(* The generator repeats an id after the race of its switchSegment.        *)
NextIdRepeats(r, i) ==
    /\ req[r].pc = "next"
    /\ i \in 1..lastId
    /\ faults < MaxFaults
    /\ reused' = reused \cup {i}
    /\ faults' = faults + 1
    /\ HaveId(r, i)
    /\ UNCHANGED <<rows, lastId, clock, list>>

(* Mutant: a repeated id goes unnoticed.                                   *)
DirectKeyOnly(r) ==
    \E c \in rows : req[r].cmd.type = "single" /\ c.key = DirectKey(req[r].cmd)

(* MySQL 1062 on the row: the primary key or uk_direct_conversation.       *)
isDuplicateKey(r) ==
    \E c \in rows :
        \/ c.id = req[r].id
        \/ /\ req[r].cmd.type = "single" /\ c.type = "single"
           /\ c.key = DirectKey(req[r].cmd)

NewRow(r) ==
    [id |-> req[r].id, type |-> req[r].cmd.type, key |-> DirectKey(req[r].cmd),
     members |-> Members(req[r].cmd), normal |-> TRUE, at |-> req[r].at]

(* The transaction inserts the conversation and its members, or finds the  *)
(* row already there and inserts nothing.                                  *)
CreateWithMembers(r) ==
    /\ req[r].pc = "insert"
    /\ \/ /\ ~ isDuplicateKey(r)
          /\ rows' = rows \cup {NewRow(r)}
          /\ Answer(r, req[r].cmd, req[r].id)
       \/ /\ isDuplicateKey(r)
          /\ req' = [req EXCEPT ![r] = [@ EXCEPT !.pc = "again"]]
          /\ UNCHANGED rows
    /\ UNCHANGED <<lastId, clock, list, reused, faults>>

(* Mutant: the conversation that lost the race is answered as if created.  *)
LookupForgotten(r) ==
    /\ req[r].pc = "again"
    /\ Answer(r, req[r].cmd, req[r].id)
    /\ UNCHANGED <<rows, lastId, clock, list, reused, faults>>

(* The duplicate is taken for a direct chat that somebody else created     *)
(* first. A group without other members has no pair: the index panics, and *)
(* Recovery answers with an error.                                         *)
LookupAgain(r) ==
    LET cmd == req[r].cmd
        there == IF membersWithout(cmd) = {} THEN {} ELSE GetByDirectUsers(Pair(cmd))
    IN  /\ req[r].pc = "again"
        /\ \/ \E c \in there : Answer(r, cmd, c.id)
           \/ there = {} /\ Refuse(r, "error")
        /\ UNCHANGED <<rows, lastId, clock, list, reused, faults>>

(* A query, the generator or the transaction fails; the commit's answer    *)
(* may be what was lost.                                                   *)
CreateFails(r) ==
    /\ req[r].pc \in {"next", "insert", "again"}
    /\ faults < MaxFaults
    /\ faults' = faults + 1
    /\ Refuse(r, "error")
    /\ \/ UNCHANGED rows
       \/ /\ req[r].pc = "insert" /\ ~ isDuplicateKey(r)
          /\ rows' = rows \cup {NewRow(r)}
    /\ UNCHANGED <<lastId, clock, list, reused>>

-----------------------------------------------------------------------------
(* Time, messages and dismissals *)

Tick ==
    /\ clock < MaxTime
    /\ clock' = clock + 1
    /\ UNCHANGED <<rows, lastId, req, list, reused, faults>>

SetRow(c, new) == rows' = (rows \ {c}) \cup {new}

(* Row c changes under every listing that is going on.                     *)
Disturb(c, backwards) ==
    list' = [u \in Listers |->
               [list[u] EXCEPT !.missing = @ \ {c.id},
                               !.shown = IF backwards THEN @ \ {c.id} ELSE @]]

(* The persist transaction stamps last_message_at with its node's clock.   *)
Persist(c, t) ==
    /\ c.normal
    /\ t \in NodeTimes
    /\ SetRow(c, [c EXCEPT !.at = t])
    /\ Disturb(c, t < c.at)
    /\ UNCHANGED <<lastId, clock, req, reused, faults>>

Dismiss(c) ==
    /\ c.normal
    /\ faults < MaxFaults
    /\ faults' = faults + 1
    /\ SetRow(c, [c EXCEPT !.normal = FALSE])
    /\ Disturb(c, FALSE)
    /\ UNCHANGED <<lastId, clock, req, reused>>

-----------------------------------------------------------------------------
(* List *)

(* ORDER BY COALESCE(last_message_at, created_at) DESC, id DESC.           *)
ListedBefore(c, d) == c.at > d.at \/ (c.at = d.at /\ c.id > d.id)

(* Mutants: the tie on the timestamp is dropped, or the cursor's own row   *)
(* is taken again.                                                         *)
OlderOnly(c, cursor) == cursor[1] = 0 \/ c.at < cursor[2]
AtOrAfterCursor(c, cursor) ==
    cursor[1] = 0 \/ c.at < cursor[2] \/ (c.at = cursor[2] /\ c.id <= cursor[1])

AfterCursor(c, cursor) ==
    cursor[1] = 0 \/ c.at < cursor[2] \/ (c.at = cursor[2] /\ c.id < cursor[1])

(* The rows ListByUser would return, were there no limit.                  *)
ListByUser(u, cursor) == {c \in rows : u \in c.members /\ c.normal /\ AfterCursor(c, cursor)}

LastOf(page) == CHOOSE c \in page : \A d \in page : d = c \/ ListedBefore(d, c)

(* The cursor that continues after row c, with orderTS.                    *)
encodeCursor(c) == <<c.id, c.at>>

(* One page: the first `limit` of limit + 1 rows, and a next cursor only   *)
(* if there was one more.                                                  *)
List(u, limit) ==
    LET l    == list[u]
        left == ListByUser(u, l.cursor)
        page == {c \in left : Cardinality({d \in left : ListedBefore(d, c)}) < limit}
        had  == IF l.pc = "none" THEN {c.id : c \in left} ELSE l.missing
        ids  == {c.id : c \in page}
        seen == [l EXCEPT !.missing = had \ ids, !.twice = @ \cup (l.shown \cap ids)]
    IN  /\ l.pc # "done"
        /\ list' = [list EXCEPT ![u] =
                       IF Cardinality(left) > limit
                       THEN [seen EXCEPT !.pc = "paging",
                                         !.cursor = encodeCursor(LastOf(page)),
                                         !.shown = @ \cup ids]
                       ELSE [seen EXCEPT !.pc = "done", !.cursor = <<0, 0>>, !.shown = {}]]
        /\ UNCHANGED <<rows, lastId, clock, req, reused, faults>>

-----------------------------------------------------------------------------
Next ==
    \/ \E r \in Requests :
          \/ \E cmd \in Commands : Create(r, cmd)
          \/ \E i \in Ids : NextId(r, i) \/ NextIdRepeats(r, i)
          \/ CreateWithMembers(r) \/ LookupAgain(r) \/ CreateFails(r)
    \/ Tick
    \/ \E c \in rows : Dismiss(c) \/ \E t \in 0..MaxTime : Persist(c, t)
    \/ \E u \in Listers, limit \in Limits : List(u, limit)

Spec == Init /\ [][Next]_vars

-----------------------------------------------------------------------------
(* Membership, as the other components ask for it *)

ListMemberIDs(id) == UNION {c.members : c \in {c \in rows : c.id = id}}

GetMember(id, u) == {c \in rows : c.id = id /\ u \in c.members}

CheckMember(id, u) == GetMember(id, u) # {}

Get(u, id) ==
    IF ~ CheckMember(id, u) THEN "forbidden"
    ELSE IF \E c \in rows : c.id = id /\ c.normal THEN "ok"
    ELSE "not found"

-----------------------------------------------------------------------------
(* Types; no two rows share an id, and a direct chat's row names its pair  *)
(* or, when the request began with the owner's id, the owner twice.        *)
TypeOK ==
    /\ rows \subseteq RowType
    /\ \A c, d \in rows : c.id = d.id => c = d
    /\ lastId \in 0..MaxIds /\ reused \subseteq 1..lastId
    /\ clock \in 0..MaxTime
    /\ req \in [Requests -> RequestType]
    /\ list \in [Listers -> ListingType]
    /\ faults \in 0..MaxFaults

Ok(r) == req[r].result = "ok"

(* The conversation the client was told of has this type and admits these  *)
(* members and nobody else.                                                *)
LetsIn(r, type, members) ==
    /\ \E c \in rows : c.id = req[r].conv /\ c.type = type
    /\ ListMemberIDs(req[r].conv) = members
    /\ \A u \in Users : Get(u, req[r].conv) = "forbidden" <=> u \notin members

(* Create of the service: whatever race it lost on the way, a conversation *)
(* it answers with has the type that was asked for and admits the members  *)
(* that were named, the sender among them, and nobody else. Only a group   *)
(* may be answered with something else, once the generator has repeated an *)
(* id, and then with the direct chat of its sender and the first other     *)
(* member: nobody the sender did not name is ever let in.                  *)
CreatedAsAsked ==
    \A r \in Requests : Ok(r) =>
        LET cmd == req[r].cmd
        IN  \/ LetsIn(r, cmd.type, Members(cmd))
            \/ /\ cmd.type = "group" /\ reused # {}
               /\ LetsIn(r, "single", {cmd.sender, FirstOther(cmd)})

(* Begins with its own sender's id: its row is keyed <<sender, sender>>.   *)
SelfFirst(cmd) == FirstMember(cmd) = cmd.sender

Registry == INSTANCE DirectRegistry WITH
    Pairs  <- {p \in Users \X Users : p[1] < p[2]},
    Askers <- Requests,
    given  <- {<<c.key, c.id>> : c \in {c \in rows : c.key[1] < c.key[2]}},
    told   <- {<<r, Pair(req[r].cmd), req[r].conv>> :
                  r \in {r \in Requests : /\ Ok(r) /\ req[r].cmd.type = "single"
                                          /\ ~ SelfFirst(req[r].cmd)}}

(* Create for direct chats implements DirectRegistry: two users who create *)
(* their chat at the same moment, from either side, and everyone who       *)
(* retries, are told one and the same conversation. Requests that begin    *)
(* with the sender's own id are left out: CreateWithMembers keys their row *)
(* by the sender twice, where nobody finds it.                             *)
ImplementsRegistry == Registry!RegistrySpec

(* ListByUser's cursor: a conversation the user had when the first page    *)
(* was read is on one of the pages unless its row was touched while the    *)
(* client was paging, whatever was created or stamped in between.          *)
ListMissesOnlyMoved ==
    \A u \in Listers : list[u].pc = "done" => list[u].missing = {}

(* No conversation is on two pages, unless a node whose clock is behind    *)
(* stamped it with an earlier time than it had.                            *)
ListRepeatsOnlyBackdated == \A u \in Listers : list[u].twice = {}
=============================================================================
