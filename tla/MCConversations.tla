-------------------------- MODULE MCConversations ---------------------------
(***************************************************************************)
(* A small instance of Conversations for TLC.                              *)
(***************************************************************************)
EXTENDS Conversations, TLC

Single(s, ids) == [sender |-> s, type |-> "single", named |-> FALSE, ids |-> ids]
Group(s, ids)  == [sender |-> s, type |-> "group", named |-> TRUE, ids |-> ids]

(* Both sides of one direct chat, one side again with its own id in front, *)
(* a direct chat with nobody, a group of the two, a group of one and a     *)
(* group that is too large.                                                *)
MCCommands == {Single(1, <<2>>), Single(2, <<1>>), Single(1, <<1, 2>>), Single(1, <<>>),
               Group(2, <<2, 1, 1>>), Group(1, <<>>), Group(1, <<2, 3>>)}

Sym == Permutations(Requests)
=============================================================================
