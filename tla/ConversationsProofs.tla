------------------------- MODULE ConversationsProofs -------------------------
(***************************************************************************)
(* Proofs about conversations, for any set of users, requests and commands,*)
(* every page size and every skew of the clocks.                           *)
(*                                                                         *)
(* Create is right because the two unique keys decide what the looks at    *)
(* the table around them may be told: a row of a direct chat names its     *)
(* pair and has the pair for members (RowOK), and while the generator      *)
(* repeats no id only the pair's key can be the duplicate (Exclusive). The *)
(* list is right because the cursor divides the table: what was shown and  *)
(* has not gone back is not after it, what is missing and has not been     *)
(* touched is (ListOK).                                                    *)
(***************************************************************************)
EXTENDS Conversations, FiniteSetTheorems, WellFoundedInduction, TLAPS

(* A row's id has been handed out; a direct chat keyed by two users has    *)
(* those two members.                                                      *)
RowOK(c) ==
    /\ c.id <= lastId
    /\ c.type = "group" => c.key = NoKey
    /\ c.key[1] <= c.key[2]
    /\ c.key[1] < c.key[2] => c.members = {c.key[1], c.key[2]}

(* A command that has passed the check of a direct chat's members.         *)
Checked(cmd) ==
    /\ cmd \in Commands
    /\ cmd.type = "single" => Cardinality(membersWithout(cmd)) = 1

ReqOK(r) ==
    /\ req[r].pc # "answered" => req[r].result = ""
    /\ req[r].pc \in {"next", "insert", "again"} \/ Ok(r) => Checked(req[r].cmd)
    /\ req[r].pc = "insert" => req[r].id \in 1..lastId

(* While no id is repeated, ids about to be inserted are new and only a    *)
(* direct chat meets a duplicate.                                          *)
Exclusive ==
    /\ \A r \in Requests : req[r].pc = "insert" => \A c \in rows : c.id # req[r].id
    /\ \A r, s \in Requests :
          r # s /\ req[r].pc = "insert" /\ req[s].pc = "insert" => req[r].id # req[s].id
    /\ \A r \in Requests : req[r].pc = "again" => req[r].cmd.type = "single"

(* Row c is what cmd asked for or, with an id repeated, the direct chat of *)
(* a group's sender and its first other member.                            *)
Fits(c, cmd) ==
    \/ c.type = cmd.type /\ c.members = Members(cmd)
    \/ /\ cmd.type = "group" /\ reused # {}
       /\ c.type = "single" /\ c.members = {cmd.sender, FirstOther(cmd)}

AsAsked(r) == \E c \in rows : c.id = req[r].conv /\ Fits(c, req[r].cmd)

Missing(u, i) == \E c \in rows : c.id = i /\ c \in ListByUser(u, list[u].cursor)

Shown(u, i) == \E c \in rows : c.id = i /\ ~ AfterCursor(c, list[u].cursor)

(* The cursor divides the table.                                           *)
ListOK(u) ==
    /\ \A i \in list[u].missing : Missing(u, i)
    /\ \A i \in list[u].shown : Shown(u, i)
    /\ list[u].twice = {}
    /\ list[u].pc # "paging" => list[u].missing = {} /\ list[u].shown = {}
    /\ list[u].pc = "none" => list[u].cursor = <<0, 0>>

IInv ==
    /\ TypeOK
    /\ IsFiniteSet(rows)
    /\ \A c \in rows : RowOK(c)
    /\ \A r \in Requests : ReqOK(r)
    /\ reused = {} => Exclusive
    /\ \A r \in Requests : Ok(r) => AsAsked(r)
    /\ \A u \in Listers : ListOK(u)

-----------------------------------------------------------------------------
(* Pages. Rows with different ids are totally ordered by ListedBefore.     *)

LEMMA LeastNumber ==
    ASSUME NEW T, T \subseteq Nat, T # {}
    PROVE  \E m \in T : \A n \in T : m <= n
<1>1. PICK x \in T : \A y \in T : ~ (<<y, x>> \in OpToRel(<, Nat))
  BY NatLessThanWellFounded, WFMin, Zenon
<1>2. \A y \in T : ~ (y < x)
  BY <1>1 DEF OpToRel
<1>3. QED
  BY <1>2

LEMMA RowNumbers ==
    ASSUME NEW c \in RowType
    PROVE  c.id \in Nat \ {0} /\ c.id \in Ids /\ c.at \in Nat /\ c.at \in 0..MaxTime
BY ConversationBounds DEF RowType, Ids

LEMMA ListedOrder ==
    /\ \A c, d, e \in RowType : ListedBefore(c, d) /\ ListedBefore(d, e) => ListedBefore(c, e)
    /\ \A c \in RowType : ~ ListedBefore(c, c)
    /\ \A c, d \in RowType : c.id # d.id => ListedBefore(c, d) \/ ListedBefore(d, c)
BY RowNumbers DEF ListedBefore

(* What AfterCursor says of a cursor that was made of a row.               *)
LEMMA CursorOrder ==
    ASSUME NEW c \in RowType, NEW d \in RowType
    PROVE  /\ AfterCursor(d, encodeCursor(c)) <=> ListedBefore(c, d)
           /\ \A k \in (0..MaxIds) \X (0..MaxTime) :
                 ~ AfterCursor(d, k) /\ AfterCursor(c, k) => ~ AfterCursor(d, encodeCursor(c))
BY RowNumbers, ConversationBounds DEF AfterCursor, encodeCursor, ListedBefore

Before(S, c) == {d \in S : ListedBefore(d, c)}

(* Rows of a table: finitely many, each with its own id.                   *)
Table(S) ==
    /\ S \subseteq RowType
    /\ IsFiniteSet(S)
    /\ \A c, d \in S : c.id = d.id => c = d

LEMMA BeforeCounts ==
    ASSUME NEW S, Table(S), NEW c \in S
    PROVE  /\ IsFiniteSet(Before(S, c)) /\ Cardinality(Before(S, c)) \in Nat
           /\ Cardinality(S) \in Nat /\ Cardinality(Before(S, c)) < Cardinality(S)
           /\ \A d \in S : ListedBefore(d, c) =>
                 Cardinality(Before(S, d)) < Cardinality(Before(S, c))
<1>1. IsFiniteSet(S) /\ Cardinality(S) \in Nat
  BY FS_CardinalityType DEF Table
<1>2. ASSUME NEW A, NEW B, IsFiniteSet(B), A \subseteq B, NEW x \in B, x \notin A
      PROVE  /\ IsFiniteSet(A) /\ Cardinality(A) \in Nat
             /\ Cardinality(A) < Cardinality(B)
  <2>1. IsFiniteSet(A) /\ Cardinality(A) <= Cardinality(B) /\ (Cardinality(B) = Cardinality(A) => B = A)
    BY <1>2, FS_Subset
  <2>2. Cardinality(A) \in Nat /\ Cardinality(B) \in Nat
    BY <1>2, <2>1, FS_CardinalityType
  <2>3. QED
    BY <1>2, <2>1, <2>2
<1>3. Before(S, c) \subseteq S /\ c \notin Before(S, c)
  BY ListedOrder DEF Before, Table
<1>4. IsFiniteSet(Before(S, c)) /\ Cardinality(Before(S, c)) \in Nat
      /\ Cardinality(Before(S, c)) < Cardinality(S)
  BY <1>1, <1>2, <1>3
<1>5. ASSUME NEW d \in S, ListedBefore(d, c)
      PROVE  Cardinality(Before(S, d)) < Cardinality(Before(S, c))
  <2>1. Before(S, d) \subseteq Before(S, c) /\ d \in Before(S, c) /\ d \notin Before(S, d)
    BY <1>5, ListedOrder DEF Before, Table
  <2>2. QED
    BY <1>2, <1>4, <2>1
<1>6. QED
  BY <1>1, <1>4, <1>5

LEMMA LastExists ==
    ASSUME NEW S, Table(S), S # {}
    PROVE  LastOf(S) \in S /\ \A d \in S : d = LastOf(S) \/ ListedBefore(d, LastOf(S))
<1> DEFINE After(c) == Cardinality(S) - Cardinality(Before(S, c))
           T == {After(c) : c \in S}
<1>1. \A c \in S : After(c) \in Nat
  BY BeforeCounts
<1>2. T \subseteq Nat /\ T # {}
  BY <1>1
<1>3. PICK m \in T : \A n \in T : m <= n
  BY <1>2, LeastNumber
<1>4. PICK c \in S : m = After(c)
  OBVIOUS
<1>5. ASSUME NEW d \in S, d # c PROVE ListedBefore(d, c)
  <2>1. ListedBefore(c, d) => After(d) < After(c)
    BY BeforeCounts
  <2>2. After(c) <= After(d)
    BY <1>3, <1>4
  <2>3. ListedBefore(c, d) \/ ListedBefore(d, c)
    BY <1>5, ListedOrder DEF Table
  <2>4. QED
    BY <1>1, <2>1, <2>2, <2>3
<1>6. \E e \in S : \A d \in S : d = e \/ ListedBefore(d, e)
  BY <1>5
<1>7. QED
  BY <1>6 DEF LastOf

Page(S, limit) == {c \in S : Cardinality(Before(S, c)) < limit}

(* A page is what comes first: all of it if it fits, and otherwise not     *)
(* empty, with the rest listed after its last row.                         *)
LEMMA PageIsPrefix ==
    ASSUME NEW S, Table(S), NEW limit \in Nat \ {0}
    PROVE  /\ Cardinality(S) <= limit => Page(S, limit) = S
           /\ Cardinality(S) > limit =>
                 LET last == LastOf(Page(S, limit))
                 IN  /\ last \in Page(S, limit)
                     /\ \A c \in Page(S, limit) : ~ ListedBefore(last, c)
                     /\ \A c \in S \ Page(S, limit) : ListedBefore(last, c)
<1>0. Cardinality(S) \in Nat
  BY FS_CardinalityType DEF Table
<1>1. Cardinality(S) <= limit => Page(S, limit) = S
  BY <1>0, BeforeCounts DEF Page
<1>2. ASSUME Cardinality(S) > limit PROVE Page(S, limit) # {}
  <2> DEFINE T == {Cardinality(Before(S, c)) : c \in S}
  <2>1. S # {}
    BY <1>2, FS_EmptySet
  <2>2. T \subseteq Nat /\ T # {}
    BY <2>1, BeforeCounts
  <2>3. PICK m \in T : \A n \in T : m <= n
    BY <2>2, LeastNumber
  <2>4. PICK c \in S : m = Cardinality(Before(S, c))
    OBVIOUS
  <2>5. ASSUME NEW d \in S PROVE ~ ListedBefore(d, c)
    <3>1. ListedBefore(d, c) => Cardinality(Before(S, d)) < Cardinality(Before(S, c))
      BY BeforeCounts
    <3>2. Cardinality(Before(S, c)) <= Cardinality(Before(S, d))
      BY <2>3, <2>4
    <3>3. Cardinality(Before(S, c)) \in Nat /\ Cardinality(Before(S, d)) \in Nat
      BY BeforeCounts
    <3>4. QED
      BY <3>1, <3>2, <3>3
  <2>6. Before(S, c) = {}
    BY <2>5 DEF Before
  <2>7. Cardinality(Before(S, c)) = 0
    BY <2>6, FS_EmptySet
  <2>8. QED
    BY <2>7 DEF Page
<1>3. ASSUME Cardinality(S) > limit
      PROVE  LET last == LastOf(Page(S, limit))
             IN  /\ last \in Page(S, limit)
                 /\ \A c \in Page(S, limit) : ~ ListedBefore(last, c)
                 /\ \A c \in S \ Page(S, limit) : ListedBefore(last, c)
  <2>1. Table(Page(S, limit))
    <3>1. Page(S, limit) \subseteq S
      BY DEF Page
    <3>2. IsFiniteSet(Page(S, limit))
      BY <3>1, FS_Subset DEF Table
    <3>3. QED
      BY <3>1, <3>2 DEF Table
  <2>2. PICK last \in Page(S, limit) :
            /\ last = LastOf(Page(S, limit))
            /\ \A d \in Page(S, limit) : d = last \/ ListedBefore(d, last)
    BY <1>2, <1>3, <2>1, LastExists
  <2>3. last \in S /\ Page(S, limit) \subseteq S /\ S \subseteq RowType
    BY DEF Page, Table
  <2>4. \A c \in Page(S, limit) : ~ ListedBefore(last, c)
    BY <2>2, <2>3, ListedOrder
  <2>5. ASSUME NEW c \in S \ Page(S, limit) PROVE ListedBefore(last, c)
    <3>1. Cardinality(Before(S, last)) < limit /\ ~ (Cardinality(Before(S, c)) < limit)
      BY <2>5 DEF Page
    <3>2. ListedBefore(c, last) => Cardinality(Before(S, c)) < Cardinality(Before(S, last))
      BY <2>3, BeforeCounts
    <3>3. Cardinality(Before(S, c)) \in Nat /\ Cardinality(Before(S, last)) \in Nat
      BY <2>3, BeforeCounts
    <3>4. c # last
      BY <2>5
    <3>5. ListedBefore(c, last) \/ ListedBefore(last, c)
      BY <2>3, <3>4, ListedOrder DEF Table
    <3>6. QED
      BY <3>1, <3>2, <3>3, <3>5
  <2>6. QED
    BY <2>2, <2>4, <2>5
<1>4. QED
  BY <1>1, <1>3

-----------------------------------------------------------------------------
(* Commands. The one other member of a direct chat is whom the lookup and, *)
(* unless the request begins with the sender, the row's key name.          *)

LEMMA FirstOtherIsOther ==
    ASSUME NEW cmd \in CommandType, membersWithout(cmd) # {}
    PROVE  /\ FirstOther(cmd) \in membersWithout(cmd)
           /\ FirstOther(cmd) \in Users /\ FirstOther(cmd) # cmd.sender
<1> DEFINE n == Len(cmd.ids)
           First(i) == cmd.ids[i] # cmd.sender /\ \A j \in 1..(i - 1) : cmd.ids[j] = cmd.sender
           T == {i \in 1..n : cmd.ids[i] # cmd.sender}
<1>1. n \in Nat /\ \A i \in 1..n : cmd.ids[i] \in Users
  BY DEF CommandType
<1>2. T \subseteq Nat /\ T # {}
  BY <1>1 DEF membersWithout, Members
<1>3. PICK m \in T : \A k \in T : m <= k
  BY <1>2, LeastNumber
<1>4. \A j \in 1..(m - 1) : j \in 1..n /\ j \notin T
  BY <1>1, <1>3
<1>5. \E i \in 1..n : First(i)
  BY <1>4
<1>6. (CHOOSE i \in 1..n : First(i)) \in T
  BY <1>5
<1>7. \E i \in T : FirstOther(cmd) = cmd.ids[i]
  BY <1>6 DEF FirstOther
<1>8. QED
  BY <1>1, <1>7 DEF membersWithout, Members

LEMMA OtherMember ==
    ASSUME NEW cmd \in CommandType, Cardinality(membersWithout(cmd)) = 1
    PROVE  \E x \in Users : /\ x # cmd.sender
                            /\ Members(cmd) = {cmd.sender, x}
                            /\ FirstOther(cmd) = x
                            /\ FirstMember(cmd) \in {cmd.sender, x}
<1> DEFINE n == Len(cmd.ids)
           all == {cmd.ids[i] : i \in 1..n}
<1>1. cmd.ids \in Seq(Users) /\ n \in Nat /\ \A i \in 1..n : cmd.ids[i] \in Users
  BY DEF CommandType
<1>2. IsFiniteSet(all)
  <2>1. cmd.ids \in Surjection(1..n, all)
    BY <1>1 DEF Surjection
  <2>2. IsFiniteSet(1..n)
    BY <1>1, FS_Interval
  <2>3. QED
    BY <2>1, <2>2, FS_Surjection
<1>3. membersWithout(cmd) = all \ {cmd.sender}
  BY DEF membersWithout, Members
<1>4. IsFiniteSet(membersWithout(cmd))
  <2> HIDE DEF all
  <2>1. IsFiniteSet(all \ {cmd.sender})
    BY <1>2, FS_RemoveElement
  <2>2. QED
    BY <1>3, <2>1
<1>5. PICK x : membersWithout(cmd) = {x}
  BY <1>4, FS_Singleton
<1>6. x \in all /\ x # cmd.sender /\ \A i \in 1..n : cmd.ids[i] = x \/ cmd.ids[i] = cmd.sender
  BY <1>3, <1>5
<1>7. Members(cmd) = {cmd.sender, x}
  BY <1>6 DEF Members
<1>8. FirstOther(cmd) = x
  BY <1>5, FirstOtherIsOther
<1>9. FirstMember(cmd) \in {cmd.sender, x}
  <2>1. cmd.ids = <<>> \/ n >= 1
    BY <1>1
  <2>2. QED
    BY <1>1, <1>6, <2>1 DEF FirstMember
<1>10. QED
  BY <1>1, <1>6, <1>7, <1>8, <1>9

LEMMA DirectPair ==
    ASSUME NEW cmd, Checked(cmd), cmd.type = "single"
    PROVE  /\ Pair(cmd) \in Users \X Users
           /\ Pair(cmd)[1] < Pair(cmd)[2]
           /\ Members(cmd) = {Pair(cmd)[1], Pair(cmd)[2]}
           /\ ~ SelfFirst(cmd) => DirectKey(cmd) = Pair(cmd)
           /\ SelfFirst(cmd) => DirectKey(cmd) = <<cmd.sender, cmd.sender>>
<1>1. cmd \in CommandType /\ cmd.sender \in Users /\ Cardinality(membersWithout(cmd)) = 1
  BY CommandsAssumption DEF Checked, CommandType
<1>2. PICK x \in Users : /\ x # cmd.sender
                         /\ Members(cmd) = {cmd.sender, x}
                         /\ FirstOther(cmd) = x
                         /\ FirstMember(cmd) \in {cmd.sender, x}
  BY <1>1, OtherMember
<1>3. cmd.sender \in Nat /\ x \in Nat
  BY <1>1, UsersAssumption
<1>4. Pair(cmd) = sortPair(cmd.sender, x)
  BY <1>2 DEF Pair
<1>5. /\ Pair(cmd) \in Users \X Users
      /\ Pair(cmd)[1] < Pair(cmd)[2]
      /\ {cmd.sender, x} = {Pair(cmd)[1], Pair(cmd)[2]}
  <2>1. CASE cmd.sender < x
    BY <1>1, <1>2, <1>3, <1>4, <2>1 DEF sortPair
  <2>2. CASE x < cmd.sender
    BY <1>1, <1>2, <1>3, <1>4, <2>2 DEF sortPair
  <2>3. QED
    BY <1>2, <1>3, <2>1, <2>2
<1>6. ~ SelfFirst(cmd) => DirectKey(cmd) = Pair(cmd)
  BY <1>2, <1>4 DEF SelfFirst, DirectKey
<1>7. SelfFirst(cmd) => DirectKey(cmd) = <<cmd.sender, cmd.sender>>
  BY <1>3 DEF SelfFirst, DirectKey, sortPair
<1>8. QED
  BY <1>2, <1>5, <1>6, <1>7

(* The key of the row that is inserted.                                    *)
LEMMA KeyOK ==
    ASSUME NEW cmd, Checked(cmd)
    PROVE  /\ DirectKey(cmd) \in Keys
           /\ cmd.type = "group" => DirectKey(cmd) = NoKey
           /\ DirectKey(cmd)[1] <= DirectKey(cmd)[2]
           /\ DirectKey(cmd)[1] < DirectKey(cmd)[2] <=> cmd.type = "single" /\ ~ SelfFirst(cmd)
           /\ DirectKey(cmd)[1] < DirectKey(cmd)[2] =>
                 Members(cmd) = {DirectKey(cmd)[1], DirectKey(cmd)[2]}
           /\ Members(cmd) \subseteq Users
           /\ cmd.type \in {"single", "group"}
<1>1. /\ cmd.sender \in Users /\ cmd.type \in {"single", "group"}
      /\ \A i \in 1..Len(cmd.ids) : cmd.ids[i] \in Users
  BY CommandsAssumption DEF Checked, CommandType
<1>2. Members(cmd) \subseteq Users
  BY <1>1 DEF Members
<1>3. Users \subseteq Nat
  BY UsersAssumption
<1>4. CASE cmd.type = "group"
  BY <1>1, <1>2, <1>4 DEF DirectKey, NoKey, Keys
<1>5. CASE cmd.type = "single" /\ SelfFirst(cmd)
  <2>1. DirectKey(cmd) = <<cmd.sender, cmd.sender>>
    BY <1>5, DirectPair
  <2>2. cmd.sender \in Nat
    BY <1>1, <1>3
  <2>3. QED
    BY <1>1, <1>2, <1>5, <2>1, <2>2 DEF Keys
<1>6. CASE cmd.type = "single" /\ ~ SelfFirst(cmd)
  <2>1. /\ DirectKey(cmd) = Pair(cmd) /\ Pair(cmd) \in Users \X Users
        /\ Pair(cmd)[1] < Pair(cmd)[2]
        /\ Members(cmd) = {Pair(cmd)[1], Pair(cmd)[2]}
    BY <1>6, DirectPair
  <2>2. PICK p \in Users \X Users : p = Pair(cmd)
    BY <2>1
  <2>3. p \in Keys /\ p[1] \in Nat /\ p[2] \in Nat /\ p[1] < p[2]
    BY <1>3, <2>1, <2>2 DEF Keys
  <2>4. p[1] <= p[2]
    BY <2>3
  <2>5. QED
    BY <1>2, <1>6, <2>1, <2>2, <2>3, <2>4
<1>7. QED
  BY <1>1, <1>4, <1>5, <1>6

-----------------------------------------------------------------------------
LEMMA Types ==
    ASSUME IInv
    PROVE  /\ rows \subseteq RowType /\ Table(rows)
           /\ lastId \in 0..MaxIds /\ lastId \in Nat /\ MaxIds \in Nat
           /\ reused \subseteq 1..lastId
           /\ clock \in 0..MaxTime /\ clock \in Nat /\ MaxTime \in Nat
           /\ req \in [Requests -> RequestType]
           /\ list \in [Listers -> ListingType]
           /\ faults \in 0..MaxFaults /\ faults \in Nat /\ MaxFaults \in Nat
BY ConversationBounds DEF IInv, TypeOK, Table

LEMMA InitIInv == Init => IInv
<1> SUFFICES ASSUME Init PROVE IInv
  OBVIOUS
<1> USE ConversationBounds
<1>1. NoRequest \in RequestType
  BY DEF NoRequest, RequestType, NoId
<1>2. NoListing \in ListingType
  BY DEF NoListing, ListingType
<1>3. TypeOK
  BY <1>1, <1>2 DEF Init, TypeOK
<1>4. IsFiniteSet(rows)
  BY FS_EmptySet DEF Init
<1>5. \A r \in Requests : ReqOK(r)
  BY DEF Init, ReqOK, Ok, NoRequest
<1>6. Exclusive /\ \A r \in Requests : Ok(r) => AsAsked(r)
  BY DEF Init, Exclusive, Ok, NoRequest
<1>7. \A u \in Listers : ListOK(u)
  BY DEF Init, ListOK, NoListing
<1>8. QED
  BY <1>3, <1>4, <1>5, <1>6, <1>7 DEF IInv, Init

LEMMA Grows ==
    ASSUME NEW a \in Nat, NEW m \in Nat, NEW b \in a..m
    PROVE  b \in 0..m /\ b \in Nat /\ b >= a /\ 1..a \subseteq 1..b
OBVIOUS

(* A step of request r, after which its record is q and the table may have *)
(* grown.                                                                  *)
LEMMA RequestStep ==
    ASSUME IInv, NEW r \in Requests, NEW q \in RequestType,
           req' = [req EXCEPT ![r] = q],
           lastId' \in lastId..MaxIds, reused \subseteq reused', reused' \subseteq 1..lastId',
           clock' = clock, list' = list, faults' \in 0..MaxFaults,
           rows \subseteq rows', Table(rows'), \A c \in rows' : RowOK(c)',
           q.pc # "answered" => q.result = "",
           q.pc \in {"next", "insert", "again"} \/ q.result = "ok" => Checked(q.cmd),
           q.pc = "insert" => q.id \in 1..lastId',
           reused' = {} =>
               /\ q.pc = "insert" => /\ \A c \in rows' : c.id # q.id
                                     /\ \A s \in Requests : req[s].pc = "insert" => req[s].id # q.id
               /\ q.pc = "again" => q.cmd.type = "single"
               /\ \A s \in Requests \ {r} : req[s].pc = "insert" => \A c \in rows' : c.id # req[s].id,
           q.result = "ok" => \E c \in rows' : c.id = q.conv /\ Fits(c, q.cmd)'
    PROVE  IInv'
<1>0. /\ req'[r] = q /\ \A s \in Requests \ {r} : req'[s] = req[s]
      /\ req' \in [Requests -> RequestType]
  BY Types
<1>1. TypeOK'
  <2>1. lastId' \in 0..MaxIds
    BY Types, Grows
  <2>2. QED
    BY <1>0, <2>1, Types DEF TypeOK, Table
<1>2. IsFiniteSet(rows)' /\ \A c \in rows' : RowOK(c)'
  BY DEF Table
<1>3. \A s \in Requests : ReqOK(s)'
  <2>1. ReqOK(r)'
    BY <1>0 DEF ReqOK, Ok
  <2>2. ASSUME NEW s \in Requests \ {r} PROVE ReqOK(s)'
    <3>1. ReqOK(s) /\ req'[s] = req[s]
      BY <1>0 DEF IInv
    <3>2. 1..lastId \subseteq 1..lastId'
      BY Types, Grows
    <3>3. QED
      BY <3>1, <3>2 DEF ReqOK, Ok
  <2>3. QED
    BY <2>1, <2>2
<1>4. ASSUME reused' = {} PROVE Exclusive'
  <2>1. reused = {} /\ Exclusive
    BY <1>4 DEF IInv
  <2>2. QED
    BY <1>0, <1>4, <2>1 DEF Exclusive
<1>a. ASSUME NEW s \in Requests, Ok(s)' PROVE AsAsked(s)'
  <2>1. CASE s = r
    BY <1>0, <1>a, <2>1 DEF Ok, AsAsked
  <2>2. CASE s # r
    <3>1. PICK c \in rows : c.id = req[s].conv /\ Fits(c, req[s].cmd)
      BY <1>0, <1>a, <2>2 DEF IInv, Ok, AsAsked
    <3>2. c \in rows' /\ Fits(c, req[s].cmd)'
      BY <1>0, <2>2, <3>1 DEF Fits
    <3>3. QED
      BY <1>0, <2>2, <3>1, <3>2 DEF AsAsked, Fits
  <2>3. QED
    BY <2>1, <2>2
<1>5. ASSUME NEW u \in Listers PROVE ListOK(u)'
  <2>1. ListOK(u)
    BY DEF IInv
  <2>2. QED
    BY <2>1 DEF ListOK, Missing, Shown, ListByUser
<1>6. QED
  BY <1>1, <1>2, <1>3, <1>4, <1>a, <1>5 DEF IInv

(* What a request's step leaves of the table when it inserts nothing.      *)
LEMMA TableStays ==
    ASSUME IInv, rows' = rows, lastId' \in lastId..MaxIds
    PROVE  rows \subseteq rows' /\ Table(rows') /\ \A c \in rows' : RowOK(c)'
<1>1. \A c \in rows : RowOK(c) /\ c.id \in Nat
  BY Types, RowNumbers DEF IInv
<1>2. QED
  BY <1>1, Types DEF RowOK

(* Ids of other requests are not in the table, unless one is repeated.     *)
Apart(r) ==
    reused' = {} => \A s \in Requests \ {r} : req[s].pc = "insert" => \A c \in rows' : c.id # req[s].id

LEMMA ApartStays ==
    ASSUME IInv, rows' = rows, reused \subseteq reused', NEW r \in Requests
    PROVE  Apart(r)
BY DEF IInv, Exclusive, Apart

LEMMA BlankFields == 0 \in 0..MaxTime /\ NoId \in Ids \cup {NoId} /\ NoCommand \in Commands \cup {NoCommand}
BY ConversationBounds

LEMMA RefuseKeeps ==
    ASSUME IInv, NEW r \in Requests, NEW result \in {"invalid", "error"}, Refuse(r, result),
           lastId' \in lastId..MaxIds, reused \subseteq reused', reused' \subseteq 1..lastId',
           clock' = clock, list' = list, faults' \in 0..MaxFaults,
           rows \subseteq rows', Table(rows'), \A c \in rows' : RowOK(c)', Apart(r)
    PROVE  IInv'
<1> DEFINE q == [NoRequest EXCEPT !.pc = "answered", !.result = result]
<1>1. q \in RequestType
  BY BlankFields DEF NoRequest, RequestType
<1>2. q.pc = "answered" /\ q.result = result /\ result # "ok"
  BY DEF NoRequest
<1>3. req' = [req EXCEPT ![r] = q]
  BY DEF Refuse
<1> HIDE DEF q
<1>4. QED
  BY <1>1, <1>2, <1>3, RequestStep DEF Apart

LEMMA AnswerKeeps ==
    ASSUME IInv, NEW r \in Requests, NEW cmd, NEW c \in rows', Answer(r, cmd, c.id), Checked(cmd),
           Fits(c, cmd), lastId' = lastId, reused' = reused,
           clock' = clock, list' = list, faults' = faults,
           rows \subseteq rows', Table(rows'), \A d \in rows' : RowOK(d)', Apart(r)
    PROVE  IInv'
<1> DEFINE q == [NoRequest EXCEPT !.pc = "answered", !.result = "ok", !.cmd = cmd, !.conv = c.id]
<1>1. q \in RequestType
  <2>1. cmd \in Commands /\ c.id \in Ids
    BY RowNumbers DEF Checked, Table
  <2>2. QED
    BY <2>1, BlankFields DEF NoRequest, RequestType
<1>2. q.pc = "answered" /\ q.result = "ok" /\ q.cmd = cmd /\ q.conv = c.id
  BY DEF NoRequest
<1>3. req' = [req EXCEPT ![r] = q]
  BY DEF Answer
<1>4. lastId' \in lastId..MaxIds /\ reused' \subseteq 1..lastId' /\ faults' \in 0..MaxFaults
  BY Types
<1>5. Fits(c, q.cmd)'
  BY <1>2 DEF Fits
<1> HIDE DEF q
<1>6. QED
  BY <1>1, <1>2, <1>3, <1>4, <1>5, RequestStep DEF Apart

(* What a lookup finds has the pair for members.                           *)
LEMMA Found ==
    ASSUME IInv, NEW cmd, Checked(cmd), cmd.type = "single", NEW c \in GetByDirectUsers(Pair(cmd))
    PROVE  c \in rows /\ c.type = cmd.type /\ c.key = Pair(cmd) /\ c.members = Members(cmd)
<1>1. c \in rows /\ c.type = cmd.type /\ c.key = Pair(cmd) /\ RowOK(c)
  BY DEF GetByDirectUsers, IInv
<1>2. Pair(cmd)[1] < Pair(cmd)[2] /\ Members(cmd) = {Pair(cmd)[1], Pair(cmd)[2]}
  BY DirectPair
<1>3. QED
  BY <1>1, <1>2 DEF RowOK

(* Also for a group, which the service takes for a direct chat.            *)
LEMMA FoundForGroup ==
    ASSUME IInv, NEW cmd \in Commands, membersWithout(cmd) # {},
           NEW c \in GetByDirectUsers(Pair(cmd))
    PROVE  c \in rows /\ c.type = "single" /\ c.members = {cmd.sender, FirstOther(cmd)}
<1>1. c \in rows /\ c.type = "single" /\ c.key = Pair(cmd) /\ RowOK(c)
  BY DEF GetByDirectUsers, IInv
<1>2. /\ cmd.sender \in Nat /\ FirstOther(cmd) \in Nat /\ FirstOther(cmd) # cmd.sender
  BY FirstOtherIsOther, CommandsAssumption, UsersAssumption DEF CommandType
<1>3. /\ Pair(cmd)[1] < Pair(cmd)[2]
      /\ {cmd.sender, FirstOther(cmd)} = {Pair(cmd)[1], Pair(cmd)[2]}
  <2>1. CASE cmd.sender < FirstOther(cmd)
    BY <1>2, <2>1 DEF Pair, sortPair
  <2>2. CASE FirstOther(cmd) < cmd.sender
    BY <1>2, <2>2 DEF Pair, sortPair
  <2>3. QED
    BY <1>2, <2>1, <2>2
<1>4. QED
  BY <1>1, <1>3 DEF RowOK

LEMMA CreateKeeps ==
    ASSUME IInv, NEW r \in Requests, NEW cmd \in Commands, Create(r, cmd)
    PROVE  IInv'
<1>1. /\ rows' = rows /\ lastId' = lastId /\ clock' = clock /\ list' = list
      /\ reused' = reused /\ faults' = faults /\ req[r].pc = "none"
  BY DEF Create
<1>2. lastId' \in lastId..MaxIds /\ reused' \subseteq 1..lastId' /\ faults' \in 0..MaxFaults
  BY <1>1, Types
<1>3. rows \subseteq rows' /\ Table(rows') /\ (\A c \in rows' : RowOK(c)') /\ Apart(r)
  BY <1>1, <1>2, TableStays, ApartStays
<1>4. cmd.type \in {"single", "group"}
  BY CommandsAssumption DEF CommandType
<1>5. CASE Refuse(r, "invalid")
  BY <1>1, <1>2, <1>3, <1>5, RefuseKeeps
<1>6. ASSUME cmd.type = "single", Cardinality(membersWithout(cmd)) = 1,
             NEW c \in GetByDirectUsers(Pair(cmd)), Answer(r, cmd, c.id)
      PROVE  IInv'
  <2>1. Checked(cmd)
    BY <1>6 DEF Checked
  <2>2. c \in rows' /\ c.type = cmd.type /\ c.members = Members(cmd)
    BY <1>1, <1>6, <2>1, Found
  <2>3. Fits(c, cmd)
    BY <2>2 DEF Fits
  <2>4. QED
    BY <1>1, <1>3, <1>6, <2>1, <2>2, <2>3, AnswerKeeps
<1>7. ASSUME cmd.type = "group" \/ Cardinality(membersWithout(cmd)) = 1,
             req' = [req EXCEPT ![r] = [NoRequest EXCEPT !.pc = "next", !.cmd = cmd]]
      PROVE  IInv'
  <2> DEFINE q == [NoRequest EXCEPT !.pc = "next", !.cmd = cmd]
  <2>1. q \in RequestType
    BY BlankFields DEF NoRequest, RequestType
  <2>2. q.pc = "next" /\ q.cmd = cmd /\ q.result = ""
    BY DEF NoRequest
  <2>3. Checked(cmd)
    BY <1>7 DEF Checked
  <2>4. req' = [req EXCEPT ![r] = q]
    BY <1>7
  <2> HIDE DEF q
  <2>5. QED
    BY <1>1, <1>2, <1>3, <2>1, <2>2, <2>3, <2>4, RequestStep DEF Apart
<1>8. QED
  BY <1>5, <1>6, <1>7 DEF Create

(* The id is spent on a group that is refused, or taken to the insert.     *)
LEMMA HaveIdKeeps ==
    ASSUME IInv, NEW r \in Requests, NEW i \in Ids, req[r].pc = "next", HaveId(r, i),
           lastId' \in lastId..MaxIds, reused \subseteq reused', reused' \subseteq 1..lastId',
           i \in 1..lastId', reused' = {} => i > lastId,
           clock' = clock, list' = list, faults' \in 0..MaxFaults, rows' = rows
    PROVE  IInv'
<1>1. rows \subseteq rows' /\ Table(rows') /\ (\A c \in rows' : RowOK(c)') /\ Apart(r)
  BY TableStays, ApartStays
<1>2. CASE Refuse(r, "invalid")
  BY <1>1, <1>2, RefuseKeeps
<1>3. ASSUME NEW t \in NodeTimes,
             req' = [req EXCEPT ![r] = [@ EXCEPT !.pc = "insert", !.id = i, !.at = t]]
      PROVE  IInv'
  <2> DEFINE q == [req[r] EXCEPT !.pc = "insert", !.id = i, !.at = t]
  <2>0. req[r] \in RequestType
    BY Types
  <2>1. t \in 0..MaxTime
    BY Types DEF NodeTimes
  <2>2. q \in RequestType
    BY <2>0, <2>1 DEF RequestType
  <2>3. q.pc = "insert" /\ q.id = i /\ q.cmd = req[r].cmd /\ q.result = req[r].result
    BY <2>0 DEF RequestType
  <2>4. req[r].result = "" /\ Checked(req[r].cmd)
    BY DEF IInv, ReqOK
  <2>5. \A c \in rows' : c.id \in Nat /\ c.id <= lastId
    BY Types, RowNumbers DEF IInv, RowOK
  <2>6. \A s \in Requests : req[s].pc = "insert" => req[s].id \in 1..lastId
    BY DEF IInv, ReqOK
  <2>7. reused' = {} => /\ \A c \in rows' : c.id # i
                        /\ \A s \in Requests : req[s].pc = "insert" => req[s].id # i
    BY <2>5, <2>6, Types DEF Ids
  <2>8. req' = [req EXCEPT ![r] = q]
    BY <1>3
  <2> HIDE DEF q
  <2>9. QED
    BY <1>1, <2>2, <2>3, <2>4, <2>7, <2>8, RequestStep DEF Apart
<1>4. QED
  BY <1>2, <1>3 DEF HaveId

LEMMA NextIdKeeps ==
    ASSUME IInv, NEW r \in Requests, NEW i \in Ids, NextId(r, i) \/ NextIdRepeats(r, i)
    PROVE  IInv'
<1>1. CASE NextId(r, i)
  <2>1. /\ i = lastId + 1 /\ lastId' = i /\ req[r].pc = "next" /\ HaveId(r, i)
        /\ rows' = rows /\ clock' = clock /\ list' = list /\ reused' = reused /\ faults' = faults
    BY <1>1 DEF NextId
  <2>2. lastId' \in lastId..MaxIds /\ i \in 1..lastId' /\ i > lastId
    BY <2>1, Types DEF Ids
  <2>3. reused' \subseteq 1..lastId'
    BY <2>1, <2>2, Types, Grows
  <2>4. faults' \in 0..MaxFaults
    BY <2>1, Types
  <2>5. QED
    BY <2>1, <2>2, <2>3, <2>4, HaveIdKeeps
<1>2. CASE NextIdRepeats(r, i)
  <2>1. /\ i \in 1..lastId /\ lastId' = lastId /\ req[r].pc = "next" /\ HaveId(r, i)
        /\ rows' = rows /\ clock' = clock /\ list' = list
        /\ reused' = reused \cup {i} /\ faults' = faults + 1 /\ faults < MaxFaults
    BY <1>2 DEF NextIdRepeats
  <2>2. lastId' \in lastId..MaxIds /\ i \in 1..lastId'
    BY <2>1, Types
  <2>3. reused \subseteq reused' /\ reused' # {} /\ reused' \subseteq 1..lastId'
    BY <2>1, Types
  <2>4. faults' \in 0..MaxFaults
    BY <2>1, Types
  <2>5. QED
    BY <2>1, <2>2, <2>3, <2>4, HaveIdKeeps
<1>3. QED
  BY <1>1, <1>2

(* The row that is inserted when neither key is taken.                     *)
LEMMA Inserted ==
    ASSUME IInv, NEW r \in Requests, req[r].pc = "insert", ~ isDuplicateKey(r),
           rows' = rows \cup {NewRow(r)}, lastId' = lastId, reused' = reused
    PROVE  /\ rows \subseteq rows' /\ Table(rows') /\ (\A c \in rows' : RowOK(c)') /\ Apart(r)
           /\ Checked(req[r].cmd)
           /\ NewRow(r).id = req[r].id /\ NewRow(r).type = req[r].cmd.type
           /\ NewRow(r).members = Members(req[r].cmd)
           /\ NewRow(r).key = DirectKey(req[r].cmd)
<1> DEFINE new == NewRow(r)
           cmd == req[r].cmd
<1>1. Checked(cmd) /\ req[r].id \in 1..lastId
  BY DEF IInv, ReqOK
<1>2. /\ new.id = req[r].id /\ new.type = cmd.type /\ new.key = DirectKey(cmd)
      /\ new.members = Members(cmd) /\ new.normal = TRUE /\ new.at = req[r].at
  BY DEF NewRow
<1>3. req[r].at \in 0..MaxTime /\ req[r].id \in Ids
  <2>1. req[r] \in RequestType
    BY Types
  <2>2. req[r].id \in Ids
    BY <1>1, Types DEF Ids
  <2>3. QED
    BY <2>1, <2>2 DEF RequestType
<1>4. new \in RowType
  BY <1>1, <1>3, KeyOK DEF NewRow, RowType
<1>5. RowOK(new)
  <2>1. new.id <= lastId
    BY <1>1, <1>2, Types
  <2>2. QED
    BY <1>1, <1>2, <2>1, KeyOK DEF RowOK
<1>6. \A c \in rows : c.id # new.id
  BY <1>2 DEF isDuplicateKey
<1> HIDE DEF new, cmd
<1>7. rows' = rows \cup {new}
  BY DEF new
<1>8. IsFiniteSet(rows')
  BY <1>7, Types, FS_AddElement DEF Table
<1>9. Table(rows')
  BY <1>4, <1>6, <1>7, <1>8, Types DEF Table
<1>10. \A c \in rows' : RowOK(c)'
  <2>1. \A c \in rows : RowOK(c)
    BY DEF IInv
  <2>2. QED
    BY <1>5, <1>7, <2>1 DEF RowOK
<1>11. Apart(r)
  BY <1>2, <1>7 DEF Apart, IInv, Exclusive
<1>12. QED
  BY <1>1, <1>2, <1>7, <1>9, <1>10, <1>11 DEF new, cmd

LEMMA CreateWithMembersKeeps ==
    ASSUME IInv, NEW r \in Requests, CreateWithMembers(r)
    PROVE  IInv'
<1>1. /\ lastId' = lastId /\ clock' = clock /\ list' = list
      /\ reused' = reused /\ faults' = faults /\ req[r].pc = "insert"
  BY DEF CreateWithMembers
<1>2. lastId' \in lastId..MaxIds /\ reused' \subseteq 1..lastId' /\ faults' \in 0..MaxFaults
  BY <1>1, Types
<1>3. ASSUME ~ isDuplicateKey(r), rows' = rows \cup {NewRow(r)}, Answer(r, req[r].cmd, req[r].id)
      PROVE  IInv'
  <2> DEFINE new == NewRow(r)
  <2>1. /\ rows \subseteq rows' /\ Table(rows') /\ (\A c \in rows' : RowOK(c)') /\ Apart(r)
        /\ Checked(req[r].cmd)
        /\ new.id = req[r].id /\ new.type = req[r].cmd.type /\ new.members = Members(req[r].cmd)
    BY <1>1, <1>3, Inserted
  <2>2. new \in rows'
    BY <1>3
  <2> HIDE DEF new
  <2>3. Answer(r, req[r].cmd, new.id)
    BY <1>3, <2>1
  <2>4. Fits(new, req[r].cmd)
    BY <2>1 DEF Fits
  <2>5. QED
    BY <1>1, <2>1, <2>2, <2>3, <2>4, AnswerKeeps
<1>4. ASSUME isDuplicateKey(r), rows' = rows,
             req' = [req EXCEPT ![r] = [@ EXCEPT !.pc = "again"]]
      PROVE  IInv'
  <2> DEFINE q == [req[r] EXCEPT !.pc = "again"]
  <2>0. req[r] \in RequestType
    BY Types
  <2>1. q \in RequestType
    BY <2>0 DEF RequestType
  <2>2. q.pc = "again" /\ q.cmd = req[r].cmd /\ q.result = req[r].result
    BY <2>0 DEF RequestType
  <2>3. req[r].result = "" /\ Checked(req[r].cmd)
    BY <1>1 DEF IInv, ReqOK
  <2>4. rows \subseteq rows' /\ Table(rows') /\ (\A c \in rows' : RowOK(c)') /\ Apart(r)
    BY <1>1, <1>2, <1>4, TableStays, ApartStays
  <2>5. reused' = {} => req[r].cmd.type = "single"
    BY <1>1, <1>4 DEF IInv, Exclusive, isDuplicateKey
  <2>6. req' = [req EXCEPT ![r] = q]
    BY <1>4
  <2> HIDE DEF q
  <2>7. QED
    BY <1>1, <1>2, <2>1, <2>2, <2>3, <2>4, <2>5, <2>6, RequestStep DEF Apart
<1>5. QED
  BY <1>3, <1>4 DEF CreateWithMembers

LEMMA LookupAgainKeeps ==
    ASSUME IInv, NEW r \in Requests, LookupAgain(r)
    PROVE  IInv'
<1>1. /\ rows' = rows /\ lastId' = lastId /\ clock' = clock /\ list' = list
      /\ reused' = reused /\ faults' = faults /\ req[r].pc = "again"
  BY DEF LookupAgain
<1>2. lastId' \in lastId..MaxIds /\ reused' \subseteq 1..lastId' /\ faults' \in 0..MaxFaults
  BY <1>1, Types
<1>3. rows \subseteq rows' /\ Table(rows') /\ (\A c \in rows' : RowOK(c)') /\ Apart(r)
  BY <1>1, <1>2, TableStays, ApartStays
<1>4. CASE Refuse(r, "error")
  BY <1>1, <1>2, <1>3, <1>4, RefuseKeeps
<1>5. ASSUME membersWithout(req[r].cmd) # {},
             NEW c \in GetByDirectUsers(Pair(req[r].cmd)), Answer(r, req[r].cmd, c.id)
      PROVE  IInv'
  <2>1. Checked(req[r].cmd)
    BY <1>1 DEF IInv, ReqOK
  <2>2. c \in rows'
    BY <1>1 DEF GetByDirectUsers
  <2>3. Fits(c, req[r].cmd)
    <3>1. CASE req[r].cmd.type = "single"
      BY <2>1, <3>1, Found DEF Fits
    <3>2. CASE req[r].cmd.type = "group"
      <4>1. reused # {}
        BY <1>1, <3>2 DEF IInv, Exclusive
      <4>2. c.type = "single" /\ c.members = {req[r].cmd.sender, FirstOther(req[r].cmd)}
        BY <1>5, <2>1, FoundForGroup DEF Checked
      <4>3. QED
        BY <3>2, <4>1, <4>2 DEF Fits
    <3>3. req[r].cmd.type \in {"single", "group"}
      BY <2>1, KeyOK
    <3>4. QED
      BY <3>1, <3>2, <3>3
  <2>4. QED
    BY <1>1, <1>3, <1>5, <2>1, <2>2, <2>3, AnswerKeeps
<1>6. QED
  BY <1>4, <1>5 DEF LookupAgain

LEMMA CreateFailsKeeps ==
    ASSUME IInv, NEW r \in Requests, CreateFails(r)
    PROVE  IInv'
<1>1. /\ lastId' = lastId /\ clock' = clock /\ list' = list /\ reused' = reused
      /\ faults' = faults + 1 /\ faults < MaxFaults /\ Refuse(r, "error")
  BY DEF CreateFails
<1>2. lastId' \in lastId..MaxIds /\ reused' \subseteq 1..lastId'
  BY <1>1, Types
<1>3. faults' \in 0..MaxFaults
  BY <1>1, Types
<1>4. rows \subseteq rows' /\ Table(rows') /\ (\A c \in rows' : RowOK(c)') /\ Apart(r)
  <2>1. CASE rows' = rows
    BY <1>1, <1>2, <2>1, TableStays, ApartStays
  <2>2. CASE req[r].pc = "insert" /\ ~ isDuplicateKey(r) /\ rows' = rows \cup {NewRow(r)}
    BY <1>1, <2>2, Inserted
  <2>3. QED
    BY <2>1, <2>2 DEF CreateFails
<1>5. QED
  BY <1>1, <1>2, <1>3, <1>4, RefuseKeeps

-----------------------------------------------------------------------------
LEMMA TickKeeps ==
    ASSUME IInv, Tick
    PROVE  IInv'
<1>1. /\ rows' = rows /\ lastId' = lastId /\ req' = req /\ list' = list
      /\ reused' = reused /\ faults' = faults /\ clock' = clock + 1 /\ clock < MaxTime
  BY DEF Tick
<1>2. clock' \in 0..MaxTime
  BY <1>1, Types
<1>3. TypeOK'
  BY <1>1, <1>2 DEF IInv, TypeOK
<1>4. /\ IsFiniteSet(rows)'
      /\ \A c \in rows' : RowOK(c)'
      /\ \A r \in Requests : ReqOK(r)'
  BY <1>1 DEF IInv, RowOK, ReqOK, Ok
<1>5. (reused = {} => Exclusive)' /\ \A r \in Requests : Ok(r)' => AsAsked(r)'
  BY <1>1 DEF IInv, Exclusive, Ok, AsAsked, Fits
<1>6. \A u \in Listers : ListOK(u)'
  BY <1>1 DEF IInv, ListOK, Missing, Shown, ListByUser
<1>7. QED
  BY <1>3, <1>4, <1>5, <1>6 DEF IInv

(* A row is stamped or dismissed: who it belongs to stays, and listings    *)
(* that it could escape or enter again forget it.                          *)
LEMMA RowChanges ==
    ASSUME IInv, NEW c \in rows, NEW new \in RowType, NEW back \in BOOLEAN,
           new.id = c.id, new.type = c.type, new.key = c.key, new.members = c.members,
           new.at >= c.at \/ back,
           SetRow(c, new), Disturb(c, back), faults' \in 0..MaxFaults,
           lastId' = lastId, clock' = clock, req' = req, reused' = reused
    PROVE  IInv'
<1>1. rows' = (rows \ {c}) \cup {new}
  BY DEF SetRow
<1>2. Table(rows')
  <2>1. IsFiniteSet(rows')
    <3>1. IsFiniteSet(rows \ {c})
      BY Types, FS_RemoveElement DEF Table
    <3>2. QED
      BY <1>1, <3>1, FS_AddElement
  <2>2. QED
    BY <1>1, <2>1, Types DEF Table
<1>3. list' \in [Listers -> ListingType]
      /\ \A u \in Listers : /\ list'[u].missing = list[u].missing \ {c.id}
                            /\ list'[u].shown \subseteq list[u].shown
                            /\ back => c.id \notin list'[u].shown
                            /\ list'[u].twice = list[u].twice
                            /\ list'[u].pc = list[u].pc
                            /\ list'[u].cursor = list[u].cursor
  <2>1. ASSUME NEW u \in Listers
        PROVE  LET l == [list[u] EXCEPT !.missing = @ \ {c.id},
                                        !.shown = IF back THEN @ \ {c.id} ELSE @]
               IN  /\ l \in ListingType
                   /\ l.missing = list[u].missing \ {c.id}
                   /\ l.shown \subseteq list[u].shown
                   /\ back => c.id \notin l.shown
                   /\ l.twice = list[u].twice /\ l.pc = list[u].pc /\ l.cursor = list[u].cursor
    <3>1. list[u] \in ListingType
      BY Types
    <3>2. QED
      BY <3>1 DEF ListingType
  <2>2. QED
    BY <2>1 DEF Disturb
<1>4. TypeOK'
  BY <1>2, <1>3, Types DEF TypeOK, Table
<1>5. \A d \in rows' : RowOK(d)'
  <2>1. \A d \in rows : RowOK(d)
    BY DEF IInv
  <2>2. RowOK(new)
    BY <2>1 DEF RowOK
  <2>3. QED
    BY <1>1, <2>1, <2>2 DEF RowOK
<1>6. \A r \in Requests : ReqOK(r)'
  BY DEF IInv, ReqOK, Ok
<1>7. ASSUME reused' = {} PROVE Exclusive'
  BY <1>1, <1>7 DEF IInv, Exclusive
<1>a. ASSUME NEW r \in Requests, Ok(r)' PROVE AsAsked(r)'
  <2>1. PICK d \in rows : d.id = req[r].conv /\ Fits(d, req[r].cmd)
    BY <1>a DEF IInv, Ok, AsAsked
  <2>2. PICK e \in rows' : e.id = d.id /\ e.type = d.type /\ e.members = d.members
    BY <1>1
  <2>3. QED
    BY <2>1, <2>2 DEF AsAsked, Fits
<1>8. ASSUME NEW u \in Listers PROVE ListOK(u)'
  <2>1. ListOK(u)
    BY DEF IInv
  <2>2. ASSUME NEW i \in list'[u].missing PROVE Missing(u, i)'
    <3>1. i \in list[u].missing /\ i # c.id
      BY <1>3
    <3>2. PICK d \in rows : d.id = i /\ d \in ListByUser(u, list[u].cursor)
      BY <2>1, <3>1 DEF ListOK, Missing
    <3>3. d \in rows'
      BY <1>1, <3>1, <3>2
    <3>4. QED
      BY <1>3, <3>2, <3>3 DEF Missing, ListByUser
  <2>3. ASSUME NEW i \in list'[u].shown PROVE Shown(u, i)'
    <3>1. i \in list[u].shown /\ (back => i # c.id)
      BY <1>3
    <3>2. PICK d \in rows : d.id = i /\ ~ AfterCursor(d, list[u].cursor)
      BY <2>1, <3>1 DEF ListOK, Shown
    <3>3. CASE d # c
      BY <1>1, <1>3, <3>2, <3>3 DEF Shown
    <3>4. CASE d = c
      <4>1. new.at >= c.at /\ c.at \in Nat /\ new.at \in Nat
        BY <3>1, <3>2, <3>4, Types, RowNumbers
      <4>2. list[u].cursor[2] \in Nat
        <5>1. list[u] \in ListingType
          BY Types
        <5>2. list[u].cursor \in (0..MaxIds) \X (0..MaxTime)
          BY <5>1 DEF ListingType
        <5>3. QED
          BY <5>2
      <4>3. ~ AfterCursor(new, list[u].cursor)
        BY <3>2, <3>4, <4>1, <4>2 DEF AfterCursor
      <4>4. QED
        BY <1>1, <1>3, <3>2, <3>4, <4>3 DEF Shown
    <3>5. QED
      BY <3>3, <3>4
  <2>4. QED
    BY <1>3, <2>1, <2>2, <2>3 DEF ListOK
<1>9. QED
  BY <1>2, <1>4, <1>5, <1>6, <1>7, <1>a, <1>8 DEF IInv, Table

LEMMA PersistKeeps ==
    ASSUME IInv, NEW c \in rows, NEW t \in 0..MaxTime, Persist(c, t)
    PROVE  IInv'
<1> DEFINE new == [c EXCEPT !.at = t]
<1>0. c \in RowType
  BY Types
<1>1. /\ new \in RowType /\ new.id = c.id /\ new.type = c.type /\ new.key = c.key
      /\ new.members = c.members /\ new.at = t
  BY <1>0 DEF RowType
<1>2. /\ SetRow(c, new) /\ Disturb(c, t < c.at)
      /\ lastId' = lastId /\ clock' = clock /\ req' = req /\ reused' = reused /\ faults' = faults
  BY DEF Persist
<1>3. new.at >= c.at \/ t < c.at
  BY <1>0, <1>1, RowNumbers
<1>4. faults' \in 0..MaxFaults /\ (t < c.at) \in BOOLEAN
  BY <1>2, Types
<1> HIDE DEF new
<1>5. QED
  BY <1>1, <1>2, <1>3, <1>4, RowChanges

LEMMA DismissKeeps ==
    ASSUME IInv, NEW c \in rows, Dismiss(c)
    PROVE  IInv'
<1> DEFINE new == [c EXCEPT !.normal = FALSE]
<1>0. c \in RowType
  BY Types
<1>1. /\ new \in RowType /\ new.id = c.id /\ new.type = c.type /\ new.key = c.key
      /\ new.members = c.members /\ new.at = c.at
  BY <1>0 DEF RowType
<1>2. /\ SetRow(c, new) /\ Disturb(c, FALSE) /\ faults' = faults + 1 /\ faults < MaxFaults
      /\ lastId' = lastId /\ clock' = clock /\ req' = req /\ reused' = reused
  BY DEF Dismiss
<1>3. new.at >= c.at
  BY <1>0, <1>1, RowNumbers
<1>4. faults' \in 0..MaxFaults
  BY <1>2, Types
<1> HIDE DEF new
<1>5. QED
  BY <1>1, <1>2, <1>3, <1>4, RowChanges

(* A page moves the cursor past what it shows and before what is left.     *)
LEMMA ListKeeps ==
    ASSUME IInv, NEW u \in Listers, NEW limit \in Limits, List(u, limit)
    PROVE  IInv'
<1> DEFINE l    == list[u]
           left == ListByUser(u, l.cursor)
           page == Page(left, limit)
           had  == IF l.pc = "none" THEN {c.id : c \in left} ELSE l.missing
           ids  == {c.id : c \in page}
           seen == [l EXCEPT !.missing = had \ ids, !.twice = @ \cup (l.shown \cap ids)]
           last == LastOf(page)
           new  == IF Cardinality(left) > limit
                   THEN [seen EXCEPT !.pc = "paging", !.cursor = encodeCursor(last),
                                     !.shown = @ \cup ids]
                   ELSE [seen EXCEPT !.pc = "done", !.cursor = <<0, 0>>, !.shown = {}]
<1>0. /\ l.pc # "done"
      /\ list' = [list EXCEPT ![u] = new]
      /\ rows' = rows /\ lastId' = lastId /\ clock' = clock /\ req' = req
      /\ reused' = reused /\ faults' = faults
  BY DEF List, Page, Before
<1>1. limit \in Nat \ {0}
  BY ConversationBounds
<1>2. left \subseteq rows /\ Table(left)
  <2>1. left \subseteq rows
    BY DEF ListByUser
  <2>2. IsFiniteSet(left)
    BY <2>1, Types, FS_Subset DEF Table
  <2>3. QED
    BY <2>1, <2>2, Types DEF Table
<1>3. /\ l \in ListingType /\ ListOK(u)
      /\ l.cursor \in (0..MaxIds) \X (0..MaxTime)
      /\ l.missing \subseteq Ids /\ l.shown \subseteq Ids /\ l.twice = {}
  <2>1. l \in ListingType /\ ListOK(u)
    BY Types DEF IInv
  <2>2. QED
    BY <2>1 DEF ListingType, ListOK
<1>4. /\ page \subseteq left
      /\ Cardinality(left) <= limit => page = left
      /\ Cardinality(left) > limit => /\ last \in page
                                      /\ \A c \in page : ~ ListedBefore(last, c)
                                      /\ \A c \in left \ page : ListedBefore(last, c)
  <2>1. page \subseteq left
    BY DEF Page
  <2> HIDE DEF left
  <2>2. QED
    BY <1>1, <1>2, <2>1, PageIsPrefix
<1>5. /\ \A i \in had : \E c \in left : c.id = i
      /\ \A i \in l.shown : \E c \in rows : c.id = i /\ ~ AfterCursor(c, l.cursor)
      /\ \A c \in left : c \in RowType /\ AfterCursor(c, l.cursor) /\ c.id \in Ids
  <2>1. \A i \in had : \E c \in left : c.id = i
    BY <1>3 DEF ListOK, Missing
  <2>2. \A i \in l.shown : \E c \in rows : c.id = i /\ ~ AfterCursor(c, l.cursor)
    BY <1>3 DEF ListOK, Shown
  <2>3. \A c \in left : c \in RowType /\ AfterCursor(c, l.cursor) /\ c.id \in Ids
    BY <1>2, Types, RowNumbers DEF ListByUser
  <2>4. QED
    BY <2>1, <2>2, <2>3
<1>6. ids \subseteq Ids /\ had \subseteq Ids
  BY <1>4, <1>5
<1>7. l.shown \cap ids = {}
  <2> SUFFICES ASSUME NEW i \in l.shown, i \in ids PROVE FALSE
    OBVIOUS
  <2>1. PICK c \in rows : c.id = i /\ ~ AfterCursor(c, l.cursor)
    BY <1>5
  <2>2. PICK d \in page : d.id = i
    OBVIOUS
  <2>3. d \in rows /\ AfterCursor(d, l.cursor)
    BY <1>2, <1>4, <1>5
  <2>4. c = d
    BY <2>1, <2>2, <2>3, Types DEF Table
  <2>5. QED
    BY <2>1, <2>3, <2>4
<1> HIDE DEF left, page, had, ids, last
<1>8. ASSUME Cardinality(left) > limit
      PROVE  /\ new \in ListingType /\ new.pc = "paging" /\ new.cursor = encodeCursor(last)
             /\ new.missing = had \ ids /\ new.shown = l.shown \cup ids /\ new.twice = {}
  <2>1. encodeCursor(last) \in (0..MaxIds) \X (0..MaxTime)
    <3>1. last \in RowType
      BY <1>4, <1>5, <1>8
    <3>2. last.id \in 0..MaxIds /\ last.at \in 0..MaxTime
      BY <3>1, RowNumbers, ConversationBounds DEF Ids
    <3>3. QED
      BY <3>2 DEF encodeCursor
  <2>2. QED
    BY <1>3, <1>6, <1>7, <1>8, <2>1 DEF ListingType
<1>9. ASSUME ~ (Cardinality(left) > limit)
      PROVE  /\ new \in ListingType /\ new.pc = "done"
             /\ new.missing = had \ ids /\ new.shown = {} /\ new.twice = {}
  <2>1. <<0, 0>> \in (0..MaxIds) \X (0..MaxTime)
    BY ConversationBounds
  <2>2. QED
    BY <1>3, <1>6, <1>7, <1>9, <2>1 DEF ListingType
<1> HIDE DEF new
<1>10. list' \in [Listers -> ListingType] /\ list'[u] = new /\ \A v \in Listers \ {u} : list'[v] = list[v]
  BY <1>0, <1>8, <1>9, Types
<1>11. TypeOK'
  BY <1>0, <1>10 DEF IInv, TypeOK
<1>12. /\ IsFiniteSet(rows)'
       /\ \A c \in rows' : RowOK(c)'
       /\ \A r \in Requests : ReqOK(r)'
       /\ (reused = {} => Exclusive)' /\ \A r \in Requests : Ok(r)' => AsAsked(r)'
  BY <1>0 DEF IInv, RowOK, ReqOK, Ok, Exclusive, AsAsked, Fits
<1>13. ASSUME NEW v \in Listers \ {u} PROVE ListOK(v)'
  <2>1. ListOK(v)
    BY DEF IInv
  <2>2. QED
    BY <1>0, <1>10, <2>1 DEF ListOK, Missing, Shown, ListByUser
<1>14. ListOK(u)'
  <2>1. CASE Cardinality(left) > limit
    <3>1. ASSUME NEW i \in had \ ids PROVE Missing(u, i)'
      <4>1. PICK c \in left : c.id = i
        BY <1>5
      <4>2. c \notin page
        BY <3>1, <4>1 DEF ids
      <4>3. ListedBefore(last, c) /\ last \in RowType /\ c \in RowType
        BY <1>4, <1>5, <2>1, <4>2
      <4>4. AfterCursor(c, encodeCursor(last))
        BY <4>3, CursorOrder
      <4>5. c \in rows /\ u \in c.members /\ c.normal
        BY DEF left, ListByUser
      <4>6. list'[u].cursor = encodeCursor(last)
        BY <1>8, <1>10, <2>1
      <4>7. c \in rows' /\ c \in ListByUser(u, list[u].cursor)'
        BY <1>0, <4>4, <4>5, <4>6 DEF ListByUser
      <4>8. QED
        BY <4>1, <4>7 DEF Missing
    <3>2. ASSUME NEW i \in l.shown \cup ids PROVE Shown(u, i)'
      <4>1. PICK c \in rows : c.id = i /\ ~ AfterCursor(c, encodeCursor(last))
        <5>1. last \in RowType /\ AfterCursor(last, l.cursor)
          BY <1>4, <1>5, <2>1
        <5>2. CASE i \in l.shown
          <6>1. PICK c \in rows : c.id = i /\ ~ AfterCursor(c, l.cursor)
            BY <1>5, <5>2
          <6>2. ~ AfterCursor(c, encodeCursor(last))
            BY <1>3, <5>1, <6>1, CursorOrder, Types
          <6>3. QED
            BY <6>1, <6>2
        <5>3. CASE i \in ids
          <6>1. PICK c \in page : c.id = i
            BY <5>3 DEF ids
          <6>2. c \in rows /\ c \in RowType /\ ~ ListedBefore(last, c)
            BY <1>2, <1>4, <1>5, <2>1
          <6>3. ~ AfterCursor(c, encodeCursor(last))
            BY <5>1, <6>2, CursorOrder
          <6>4. QED
            BY <6>1, <6>2, <6>3
        <5>4. QED
          BY <3>2, <5>2, <5>3
      <4>2. list'[u].cursor = encodeCursor(last)
        BY <1>8, <1>10, <2>1
      <4>3. QED
        BY <1>0, <4>1, <4>2 DEF Shown
    <3>3. QED
      BY <1>8, <1>10, <2>1, <3>1, <3>2 DEF ListOK
  <2>2. CASE ~ (Cardinality(left) > limit)
    <3>1. page = left
      <4>1. Cardinality(left) \in Nat
        BY <1>2, FS_CardinalityType DEF Table
      <4>2. QED
        BY <1>1, <1>4, <2>2, <4>1
    <3>2. had \ ids = {}
      BY <1>5, <3>1 DEF ids
    <3>3. QED
      BY <1>9, <1>10, <2>2, <3>2 DEF ListOK
  <2>3. QED
    BY <2>1, <2>2
<1>15. QED
  BY <1>11, <1>12, <1>13, <1>14 DEF IInv

-----------------------------------------------------------------------------
LEMMA NextKeeps == IInv /\ [Next]_vars => IInv'
<1> SUFFICES ASSUME IInv, [Next]_vars PROVE IInv'
  OBVIOUS
<1>1. CASE UNCHANGED vars
  <2>1. TypeOK'
    BY <1>1 DEF vars, IInv, TypeOK
  <2>2. /\ IsFiniteSet(rows)'
        /\ \A c \in rows' : RowOK(c)'
        /\ \A r \in Requests : ReqOK(r)'
        /\ (reused = {} => Exclusive)' /\ \A r \in Requests : Ok(r)' => AsAsked(r)'
    BY <1>1 DEF vars, IInv, RowOK, ReqOK, Ok, Exclusive, AsAsked, Fits
  <2>3. \A u \in Listers : ListOK(u)'
    BY <1>1 DEF vars, IInv, ListOK, Missing, Shown, ListByUser
  <2>4. QED
    BY <2>1, <2>2, <2>3 DEF IInv
<1>2. QED
  BY <1>1, CreateKeeps, NextIdKeeps, CreateWithMembersKeeps, LookupAgainKeeps, CreateFailsKeeps,
     TickKeeps, DismissKeeps, PersistKeeps, ListKeeps DEF Next

LEMMA Induction == Spec => []IInv
<1>1. QED
  BY InitIInv, NextKeeps, PTL DEF Spec

(* Types of the conversation table, the requests and the listings hold for *)
(* every set of users and requests, and no two rows share an id.           *)
THEOREM TypeCorrect == Spec => []TypeOK
<1>1. IInv => TypeOK
  BY DEF IInv
<1>2. QED
  BY <1>1, Induction, PTL

(* Create answers with a conversation of the type and the members that     *)
(* were asked for, whichever of its two looks at the table found it, or,   *)
(* for a group after a repeated id, with a direct chat of two of them.     *)
THEOREM CreatesAsAsked == Spec => []CreatedAsAsked
<1>1. ASSUME IInv, NEW r \in Requests, NEW c \in rows, c.id = req[r].conv
      PROVE  LetsIn(r, c.type, c.members)
  <2>1. \A d \in rows : d.id = req[r].conv => d = c
    BY <1>1, Types DEF Table
  <2>2. ListMemberIDs(req[r].conv) = c.members
    BY <1>1, <2>1 DEF ListMemberIDs
  <2>3. ASSUME NEW u \in Users
        PROVE  Get(u, req[r].conv) = "forbidden" <=> u \notin c.members
    <3>1. CheckMember(req[r].conv, u) <=> u \in c.members
      BY <1>1, <2>1 DEF CheckMember, GetMember
    <3>2. QED
      BY <3>1 DEF Get
  <2>4. QED
    BY <1>1, <2>2, <2>3 DEF LetsIn
<1>2. ASSUME IInv, NEW r \in Requests, Ok(r)
      PROVE  \/ LetsIn(r, req[r].cmd.type, Members(req[r].cmd))
             \/ /\ req[r].cmd.type = "group" /\ reused # {}
                /\ LetsIn(r, "single", {req[r].cmd.sender, FirstOther(req[r].cmd)})
  <2>1. PICK c \in rows : c.id = req[r].conv /\ Fits(c, req[r].cmd)
    BY <1>2 DEF IInv, AsAsked
  <2>2. LetsIn(r, c.type, c.members)
    BY <1>1, <1>2, <2>1
  <2>3. QED
    BY <2>1, <2>2 DEF Fits
<1>3. IInv => CreatedAsAsked
  BY <1>2 DEF CreatedAsAsked
<1>4. QED
  BY <1>3, Induction, PTL

(* ListByUser's pages miss only what was touched while the client paged,   *)
(* whatever the page sizes and however the table changes in between.       *)
THEOREM PagesMissOnlyMoved == Spec => []ListMissesOnlyMoved
<1>1. IInv => ListMissesOnlyMoved
  BY DEF IInv, ListOK, ListMissesOnlyMoved
<1>2. QED
  BY <1>1, Induction, PTL

(* ... and repeat only what was stamped with an earlier time.              *)
THEOREM PagesRepeatOnlyBackdated == Spec => []ListRepeatsOnlyBackdated
<1>1. IInv => ListRepeatsOnlyBackdated
  BY DEF IInv, ListOK, ListRepeatsOnlyBackdated
<1>2. QED
  BY <1>1, Induction, PTL

-----------------------------------------------------------------------------
(* Refinement. Seen through the keys of the direct chats and the answers,  *)
(* a step gives a pair its conversation, tells it to somebody, does both   *)
(* or does nothing.                                                        *)

Given == {<<c.key, c.id>> : c \in {c \in rows : c.key[1] < c.key[2]}}

Asked(q) == q.result = "ok" /\ q.cmd.type = "single" /\ ~ SelfFirst(q.cmd)

Told == {<<r, Pair(req[r].cmd), req[r].conv>> : r \in {r \in Requests : Asked(req[r])}}

RegistryPairs == {p \in Users \X Users : p[1] < p[2]}

GivesOne(p, i) ==
    /\ \A g \in Given : g[1] # p /\ g[2] # i
    /\ Given' = Given \cup {<<p, i>>}

TellsOne(r, p, i) ==
    /\ \A t \in Told : t[1] # r
    /\ Told' = Told \cup {<<r, p, i>>}

LEMMA Mapped ==
    /\ Given = {} /\ Told = {} => Registry!RegistryInit
    /\ UNCHANGED <<Given, Told>> => UNCHANGED Registry!registryVars
    /\ \A p \in RegistryPairs, i \in Ids :
          GivesOne(p, i) /\ Told' = Told => Registry!RegistryNext
    /\ \A p \in RegistryPairs, i \in Ids, r \in Requests :
          GivesOne(p, i) /\ TellsOne(r, p, i) => Registry!RegistryNext
    /\ \A g \in Given, r \in Requests :
          TellsOne(r, g[1], g[2]) /\ Given' = Given => Registry!RegistryNext
<1> USE DEF Given, Told, Asked, Ok
<1>1. Given = {} /\ Told = {} => Registry!RegistryInit
  BY DEF Registry!RegistryInit
<1>2. UNCHANGED <<Given, Told>> => UNCHANGED Registry!registryVars
  BY DEF Registry!registryVars
<1>3. \A p \in RegistryPairs, i \in Ids :
          GivesOne(p, i) /\ Told' = Told => Registry!RegistryNext
  BY DEF GivesOne, RegistryPairs, Registry!RegistryNext, Registry!Give
<1>4. \A p \in RegistryPairs, i \in Ids, r \in Requests :
          GivesOne(p, i) /\ TellsOne(r, p, i) => Registry!RegistryNext
  BY DEF GivesOne, TellsOne, RegistryPairs, Registry!RegistryNext, Registry!Give, Registry!Tell
<1>5. \A g \in Given, r \in Requests :
          TellsOne(r, g[1], g[2]) /\ Given' = Given => Registry!RegistryNext
  BY DEF TellsOne, Registry!RegistryNext, Registry!Tell
<1>6. QED
  BY <1>1, <1>2, <1>3, <1>4, <1>5

(* A request that has not been answered adds to Told by being answered.    *)
LEMMA ToldStep ==
    ASSUME IInv, NEW r \in Requests, NEW q, req' = [req EXCEPT ![r] = q], req[r].pc # "answered"
    PROVE  /\ Asked(q) => TellsOne(r, Pair(q.cmd), q.conv)
           /\ ~ Asked(q) => Told' = Told
<1>1. req'[r] = q /\ \A s \in Requests \ {r} : req'[s] = req[s]
  BY Types
<1>2. ~ Asked(req[r])
  BY DEF IInv, ReqOK, Asked
<1>3. \A t \in Told : t[1] # r
  BY <1>2 DEF Told
<1>4. Asked(q) => Told' = Told \cup {<<r, Pair(q.cmd), q.conv>>}
  BY <1>1, <1>2 DEF Told
<1>5. ~ Asked(q) => Told' = Told
  BY <1>1, <1>2 DEF Told
<1>6. QED
  BY <1>3, <1>4, <1>5 DEF TellsOne

LEMMA RefuseTellsNobody ==
    ASSUME IInv, NEW r \in Requests, NEW result \in {"invalid", "error"}, Refuse(r, result),
           req[r].pc # "answered"
    PROVE  Told' = Told
<1> DEFINE q == [NoRequest EXCEPT !.pc = "answered", !.result = result]
<1>1. ~ Asked(q)
  BY DEF Asked, NoRequest
<1>2. req' = [req EXCEPT ![r] = q]
  BY DEF Refuse
<1> HIDE DEF q
<1>3. QED
  BY <1>1, <1>2, ToldStep

LEMMA AnswerTells ==
    ASSUME IInv, NEW r \in Requests, NEW cmd, NEW i, Answer(r, cmd, i), req[r].pc # "answered"
    PROVE  IF cmd.type = "single" /\ ~ SelfFirst(cmd)
           THEN TellsOne(r, Pair(cmd), i) ELSE Told' = Told
<1> DEFINE q == [NoRequest EXCEPT !.pc = "answered", !.result = "ok", !.cmd = cmd, !.conv = i]
<1>1. q.result = "ok" /\ q.cmd = cmd /\ q.conv = i
  BY DEF NoRequest
<1>2. req' = [req EXCEPT ![r] = q]
  BY DEF Answer
<1> HIDE DEF q
<1>3. Asked(q) <=> cmd.type = "single" /\ ~ SelfFirst(cmd)
  BY <1>1 DEF Asked
<1>4. QED
  BY <1>1, <1>2, <1>3, ToldStep

(* Being told what a lookup found. *)
LEMMA FoundRefines ==
    ASSUME IInv, NEW r \in Requests, NEW cmd, Checked(cmd), req[r].pc # "answered",
           NEW c \in GetByDirectUsers(Pair(cmd)), Answer(r, cmd, c.id), rows' = rows
    PROVE  Registry!RegistryNext \/ UNCHANGED Registry!registryVars
<1>1. Given' = Given
  BY DEF Given
<1>2. CASE cmd.type = "single" /\ ~ SelfFirst(cmd)
  <2>1. TellsOne(r, Pair(cmd), c.id)
    BY <1>2, AnswerTells
  <2>2. c \in rows /\ c.key = Pair(cmd) /\ Pair(cmd)[1] < Pair(cmd)[2]
    BY <1>2, Found, DirectPair
  <2>3. <<Pair(cmd), c.id>> \in Given
    BY <2>2 DEF Given
  <2>4. PICK g \in Given : g[1] = Pair(cmd) /\ g[2] = c.id
    BY <2>3
  <2>5. TellsOne(r, g[1], g[2])
    BY <2>1, <2>4
  <2>6. QED
    BY <1>1, <2>5, Mapped
<1>3. CASE ~ (cmd.type = "single" /\ ~ SelfFirst(cmd))
  <2>1. Told' = Told
    BY <1>3, AnswerTells
  <2>2. QED
    BY <1>1, <2>1, Mapped
<1>4. QED
  BY <1>2, <1>3

(* A row that is inserted gives its pair, if it has one, its conversation. *)
LEMMA InsertGives ==
    ASSUME IInv, NEW r \in Requests, req[r].pc = "insert", ~ isDuplicateKey(r),
           rows' = rows \cup {NewRow(r)}, lastId' = lastId, reused' = reused
    PROVE  IF req[r].cmd.type = "single" /\ ~ SelfFirst(req[r].cmd)
           THEN /\ Pair(req[r].cmd) \in RegistryPairs /\ req[r].id \in Ids
                /\ GivesOne(Pair(req[r].cmd), req[r].id)
           ELSE Given' = Given
<1> DEFINE new == NewRow(r)
           cmd == req[r].cmd
<1>1. Checked(cmd) /\ new.id = req[r].id /\ new.type = cmd.type /\ new.key = DirectKey(cmd)
  BY Inserted
<1>2. new.key[1] < new.key[2] <=> cmd.type = "single" /\ ~ SelfFirst(cmd)
  BY <1>1, KeyOK
<1>3. rows' = rows \cup {new}
  OBVIOUS
<1>4. CASE cmd.type = "single" /\ ~ SelfFirst(cmd)
  <2>1. Pair(cmd) \in RegistryPairs /\ new.key = Pair(cmd)
    BY <1>1, <1>4, DirectPair DEF RegistryPairs
  <2>2. req[r].id \in Ids
    <3>1. req[r].id \in 1..lastId
      BY DEF IInv, ReqOK
    <3>2. QED
      BY <3>1, Types DEF Ids
  <2>3. \A c \in rows : /\ c.id # req[r].id
                        /\ c.type = "single" => c.key # Pair(cmd)
    BY <1>1, <1>4, <2>1 DEF isDuplicateKey
  <2>4. \A c \in rows : c.key[1] < c.key[2] => c.type = "single"
    <3>1. \A c \in rows : c.type \in {"single", "group"}
      BY Types DEF RowType
    <3>2. \A c \in rows : c.type = "group" => c.key = <<0, 0>>
      BY DEF IInv, RowOK, NoKey
    <3>3. ~ (<<0, 0>>[1] < <<0, 0>>[2])
      OBVIOUS
    <3>4. QED
      BY <3>1, <3>2, <3>3
  <2>5. \A g \in Given : g[1] # Pair(cmd) /\ g[2] # req[r].id
    BY <2>3, <2>4 DEF Given
  <2> HIDE DEF new, cmd
  <2>6. Given' = Given \cup {<<Pair(cmd), req[r].id>>}
    BY <1>1, <1>2, <1>3, <1>4, <2>1 DEF Given
  <2>7. QED
    BY <1>4, <2>1, <2>2, <2>5, <2>6 DEF GivesOne, cmd
<1>5. CASE ~ (cmd.type = "single" /\ ~ SelfFirst(cmd))
  <2> HIDE DEF new
  <2>1. Given' = Given
    BY <1>2, <1>3, <1>5 DEF Given
  <2>2. QED
    BY <1>5, <2>1
<1>6. QED
  BY <1>4, <1>5

(* Rows that change keep their keys. *)
LEMMA SetRowGives ==
    ASSUME NEW c \in rows, NEW new, new.id = c.id, new.key = c.key, SetRow(c, new)
    PROVE  Given' = Given
BY DEF SetRow, Given

LEMMA StepRefines == IInv /\ [Next]_vars => [Registry!RegistryNext]_(Registry!registryVars)
<1> SUFFICES ASSUME IInv, [Next]_vars
             PROVE  Registry!RegistryNext \/ UNCHANGED Registry!registryVars
  OBVIOUS
<1>0. ASSUME UNCHANGED <<Given, Told>> PROVE UNCHANGED Registry!registryVars
  BY <1>0, Mapped
<1>1. ASSUME NEW r \in Requests, NEW cmd \in Commands, Create(r, cmd)
      PROVE  Registry!RegistryNext \/ UNCHANGED Registry!registryVars
  <2>1. rows' = rows /\ req[r].pc # "answered"
    BY <1>1 DEF Create
  <2>2. Given' = Given
    BY <2>1 DEF Given
  <2>3. CASE Refuse(r, "invalid")
    BY <1>0, <2>1, <2>2, <2>3, RefuseTellsNobody
  <2>4. ASSUME cmd.type = "single", Cardinality(membersWithout(cmd)) = 1,
               NEW c \in GetByDirectUsers(Pair(cmd)), Answer(r, cmd, c.id)
        PROVE  Registry!RegistryNext \/ UNCHANGED Registry!registryVars
    <3>1. Checked(cmd)
      BY <2>4 DEF Checked
    <3>2. QED
      BY <2>1, <2>4, <3>1, FoundRefines
  <2>5. CASE req' = [req EXCEPT ![r] = [NoRequest EXCEPT !.pc = "next", !.cmd = cmd]]
    <3>1. ~ Asked([NoRequest EXCEPT !.pc = "next", !.cmd = cmd])
      BY DEF Asked, NoRequest
    <3>2. Told' = Told
      BY <2>1, <2>5, <3>1, ToldStep
    <3>3. QED
      BY <1>0, <2>2, <3>2
  <2>6. QED
    BY <1>1, <2>3, <2>4, <2>5 DEF Create
<1>2. ASSUME NEW r \in Requests, NEW i \in Ids, NextId(r, i) \/ NextIdRepeats(r, i)
      PROVE  UNCHANGED Registry!registryVars
  <2>1. rows' = rows /\ req[r].pc = "next" /\ HaveId(r, i)
    BY <1>2 DEF NextId, NextIdRepeats
  <2>2. Given' = Given
    BY <2>1 DEF Given
  <2>3. CASE Refuse(r, "invalid")
    BY <1>0, <2>1, <2>2, <2>3, RefuseTellsNobody
  <2>4. ASSUME NEW t \in NodeTimes,
               req' = [req EXCEPT ![r] = [@ EXCEPT !.pc = "insert", !.id = i, !.at = t]]
        PROVE  UNCHANGED Registry!registryVars
    <3> DEFINE q == [req[r] EXCEPT !.pc = "insert", !.id = i, !.at = t]
    <3>1. req[r] \in RequestType /\ req[r].result = ""
      BY <2>1, Types DEF IInv, ReqOK
    <3>2. ~ Asked(q)
      BY <3>1 DEF Asked, RequestType
    <3>3. req' = [req EXCEPT ![r] = q]
      BY <2>4
    <3> HIDE DEF q
    <3>4. Told' = Told
      BY <2>1, <3>2, <3>3, ToldStep
    <3>5. QED
      BY <1>0, <2>2, <3>4
  <2>5. QED
    BY <2>1, <2>3, <2>4 DEF HaveId
<1>3. ASSUME NEW r \in Requests, CreateWithMembers(r)
      PROVE  Registry!RegistryNext \/ UNCHANGED Registry!registryVars
  <2>1. req[r].pc = "insert" /\ lastId' = lastId /\ reused' = reused
    BY <1>3 DEF CreateWithMembers
  <2>2. ASSUME ~ isDuplicateKey(r), rows' = rows \cup {NewRow(r)}, Answer(r, req[r].cmd, req[r].id)
        PROVE  Registry!RegistryNext \/ UNCHANGED Registry!registryVars
    <3>1. CASE req[r].cmd.type = "single" /\ ~ SelfFirst(req[r].cmd)
      <4>1. /\ Pair(req[r].cmd) \in RegistryPairs /\ req[r].id \in Ids
            /\ GivesOne(Pair(req[r].cmd), req[r].id)
        BY <2>1, <2>2, <3>1, InsertGives
      <4>2. TellsOne(r, Pair(req[r].cmd), req[r].id)
        BY <2>1, <2>2, <3>1, AnswerTells
      <4>3. QED
        BY <4>1, <4>2, Mapped
    <3>2. CASE ~ (req[r].cmd.type = "single" /\ ~ SelfFirst(req[r].cmd))
      <4>1. Given' = Given
        BY <2>1, <2>2, <3>2, InsertGives
      <4>2. Told' = Told
        BY <2>1, <2>2, <3>2, AnswerTells
      <4>3. QED
        BY <1>0, <4>1, <4>2
    <3>3. QED
      BY <3>1, <3>2
  <2>3. ASSUME rows' = rows, req' = [req EXCEPT ![r] = [@ EXCEPT !.pc = "again"]]
        PROVE  UNCHANGED Registry!registryVars
    <3> DEFINE q == [req[r] EXCEPT !.pc = "again"]
    <3>1. req[r] \in RequestType /\ req[r].result = ""
      BY <2>1, Types DEF IInv, ReqOK
    <3>2. ~ Asked(q)
      BY <3>1 DEF Asked, RequestType
    <3>3. req' = [req EXCEPT ![r] = q]
      BY <2>3
    <3> HIDE DEF q
    <3>4. Told' = Told
      BY <2>1, <3>2, <3>3, ToldStep
    <3>5. Given' = Given
      BY <2>3 DEF Given
    <3>6. QED
      BY <1>0, <3>4, <3>5
  <2>4. QED
    BY <1>3, <2>2, <2>3 DEF CreateWithMembers
<1>4. ASSUME NEW r \in Requests, LookupAgain(r)
      PROVE  Registry!RegistryNext \/ UNCHANGED Registry!registryVars
  <2>1. rows' = rows /\ req[r].pc = "again"
    BY <1>4 DEF LookupAgain
  <2>2. Checked(req[r].cmd)
    BY <2>1 DEF IInv, ReqOK
  <2>3. CASE Refuse(r, "error")
    <3>1. Given' = Given
      BY <2>1 DEF Given
    <3>2. QED
      BY <1>0, <2>1, <2>3, <3>1, RefuseTellsNobody
  <2>4. ASSUME NEW c \in GetByDirectUsers(Pair(req[r].cmd)), Answer(r, req[r].cmd, c.id)
        PROVE  Registry!RegistryNext \/ UNCHANGED Registry!registryVars
    BY <2>1, <2>2, <2>4, FoundRefines
  <2>5. QED
    BY <1>4, <2>3, <2>4 DEF LookupAgain
<1>5. ASSUME NEW r \in Requests, CreateFails(r)
      PROVE  Registry!RegistryNext \/ UNCHANGED Registry!registryVars
  <2>1. Refuse(r, "error") /\ req[r].pc # "answered" /\ lastId' = lastId /\ reused' = reused
    BY <1>5 DEF CreateFails
  <2>2. Told' = Told
    BY <2>1, RefuseTellsNobody
  <2>3. CASE rows' = rows
    <3>1. Given' = Given
      BY <2>3 DEF Given
    <3>2. QED
      BY <1>0, <2>2, <3>1
  <2>4. CASE req[r].pc = "insert" /\ ~ isDuplicateKey(r) /\ rows' = rows \cup {NewRow(r)}
    <3>1. \/ /\ Pair(req[r].cmd) \in RegistryPairs /\ req[r].id \in Ids
             /\ GivesOne(Pair(req[r].cmd), req[r].id)
          \/ Given' = Given
      BY <2>1, <2>4, InsertGives
    <3>2. QED
      BY <1>0, <2>2, <3>1, Mapped
  <2>5. QED
    BY <1>5, <2>3, <2>4 DEF CreateFails
<1>6. ASSUME NEW c \in rows, Dismiss(c) PROVE UNCHANGED Registry!registryVars
  <2> DEFINE new == [c EXCEPT !.normal = FALSE]
  <2>1. new.id = c.id /\ new.key = c.key
    BY Types DEF RowType
  <2>2. SetRow(c, new) /\ req' = req
    BY <1>6 DEF Dismiss
  <2> HIDE DEF new
  <2>3. Given' = Given /\ Told' = Told
    BY <2>1, <2>2, SetRowGives DEF Told
  <2>4. QED
    BY <1>0, <2>3
<1>7. ASSUME NEW c \in rows, NEW t \in 0..MaxTime, Persist(c, t) PROVE UNCHANGED Registry!registryVars
  <2> DEFINE new == [c EXCEPT !.at = t]
  <2>1. new.id = c.id /\ new.key = c.key
    BY Types DEF RowType
  <2>2. SetRow(c, new) /\ req' = req
    BY <1>7 DEF Persist
  <2> HIDE DEF new
  <2>3. Given' = Given /\ Told' = Told
    BY <2>1, <2>2, SetRowGives DEF Told
  <2>4. QED
    BY <1>0, <2>3
<1>8. ASSUME rows' = rows, req' = req PROVE UNCHANGED Registry!registryVars
  <2>1. Given' = Given /\ Told' = Told
    BY <1>8 DEF Given, Told
  <2>2. QED
    BY <1>0, <2>1
<1>9. CASE UNCHANGED vars
  BY <1>8, <1>9 DEF vars
<1>10. CASE Tick
  BY <1>8, <1>10 DEF Tick
<1>11. ASSUME NEW u \in Listers, NEW limit \in Limits, List(u, limit)
       PROVE  UNCHANGED Registry!registryVars
  BY <1>8, <1>11 DEF List
<1>12. QED
  BY <1>1, <1>2, <1>3, <1>4, <1>5, <1>6, <1>7, <1>9, <1>10, <1>11 DEF Next

(* Create for direct chats implements DirectRegistry: a pair is given one  *)
(* conversation for good, and whoever asks is told it, for any number of   *)
(* users and requests in whatever order their steps come.                  *)
THEOREM CreateImplementsRegistry == Spec => ImplementsRegistry
<1>1. Init => Registry!RegistryInit
  <2>1. ASSUME Init PROVE Given = {}
    BY <2>1 DEF Init, Given
  <2>2. ASSUME Init PROVE Told = {}
    <3>1. \A r \in Requests : ~ Asked(req[r])
      BY <2>2 DEF Init, Asked, NoRequest
    <3>2. QED
      BY <3>1 DEF Told
  <2>3. QED
    BY <2>1, <2>2, Mapped
<1>2. QED
  BY <1>1, Induction, StepRefines, PTL DEF Spec, ImplementsRegistry, Registry!RegistrySpec
=============================================================================
