---------------------------- MODULE MCSendGateway ----------------------------
(***************************************************************************)
(* Small instances of SendGateway for TLC.                                 *)
(***************************************************************************)
EXTENDS SendGateway, TLC

(* Gateways are alike, and so are the slots of each.                       *)
Sym == Permutations(Gateways) \cup Permutations(Slots)
=============================================================================
