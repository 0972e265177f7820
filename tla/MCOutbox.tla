------------------------------ MODULE MCOutbox ------------------------------
(***************************************************************************)
(* Small instances of Outbox for TLC.                                      *)
(***************************************************************************)
EXTENDS Outbox, TLC

(* Two messages on one partition, or one message that goes to two.         *)
MCLoads == {<<2, 1>>, <<1, 2>>}

Sym == Permutations(Pubs) \cup Permutations(Partitions)
=============================================================================
