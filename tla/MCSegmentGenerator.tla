------------------------- MODULE MCSegmentGenerator -------------------------
(***************************************************************************)
(* Small instances of SegmentGenerator for TLC.                            *)
(***************************************************************************)
EXTENDS SegmentGenerator, TLC

Sym == Permutations(Gens) \cup Permutations(Callers)
=============================================================================
