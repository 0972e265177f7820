------------------------------ MODULE Accounts ------------------------------
(***************************************************************************)
(* Users: registration and login. A user has one row, keyed by the id the  *)
(* generator gave out and by the normalised name. A hash says which        *)
(* password it was made of; its salt is left out, since hashes are only    *)
(* compared with passwords. Access tokens name a user and expire.          *)
(***************************************************************************)
EXTENDS Integers

CONSTANTS Names,         \* names as clients write them
          ValidNames,    \* normalised names that match usernamePattern
          Normalise,     \* ToLower(TrimSpace(name))
          Passwords,
          ValidPasswords, \* those of at least 8 characters
          MaxUserIds,    \* bound: ids of the generator
          TokenTTL       \* in ticks

ASSUME AccountsAssumption ==
    ValidPasswords \subseteq Passwords /\ MaxUserIds \in Nat \ {0} /\ TokenTTL \in Nat \ {0}

VARIABLES users,         \* rows of users
          lastUserId     \* the last id the generator has handed out

accountVars == <<users, lastUserId>>

UserIds == 1..MaxUserIds

HashPassword(password) == [argon2id |-> password]
VerifyPassword(password, hash) == hash.argon2id = password

UserType == [id : UserIds, name : ValidNames, hash : {HashPassword(p) : p \in Passwords}]

AccountsTypeOK == users \subseteq UserType /\ lastUserId \in 0..MaxUserIds

(* Mutant: only the id is a key of the table.                              *)
IdTaken(id, name) == \E u \in users : u.id = id

(* MySQL 1062 on the primary key or on uk_username.                        *)
isDuplicateUser(id, name) == \E u \in users : u.id = id \/ u.name = name

(* UserIDs.Next: a new id, or by the race of SegmentGenerator an old one.  *)
NextUserId(id, repeats) ==
    IF repeats THEN id \in 1..lastUserId /\ UNCHANGED accountVars
    ELSE /\ lastUserId < MaxUserIds
         /\ id = lastUserId + 1 /\ lastUserId' = id
         /\ UNCHANGED users

InsertUser(id, name, password) ==
    /\ users' = users \cup {[id |-> id, name |-> name, hash |-> HashPassword(password)]}
    /\ UNCHANGED lastUserId

(* UserRepository.Create: the insert, a conflict, or an error before or    *)
(* after the commit.                                                       *)
CreateUser(id, name, password, result) ==
    \/ result = "ok" /\ ~isDuplicateUser(id, name) /\ InsertUser(id, name, password)
    \/ result = "conflict" /\ isDuplicateUser(id, name) /\ UNCHANGED accountVars
    \/ /\ result = "error"
       /\ \/ UNCHANGED accountVars
          \/ ~isDuplicateUser(id, name) /\ InsertUser(id, name, password)

FindByUsername(name) == {u \in users : u.name = name}

(* TokenManager.Issue and Parse.                                           *)
Issue(id, at) == [user |-> id, exp |-> at + TokenTTL]
Expired(token, at) == at >= token.exp
=============================================================================
