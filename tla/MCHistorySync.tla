--------------------------- MODULE MCHistorySync ----------------------------
(***************************************************************************)
(* Instance of HistorySync for TLC.                                        *)
(***************************************************************************)
EXTENDS HistorySync, TLC

MCSymmetry == Permutations(Requests)
=============================================================================
