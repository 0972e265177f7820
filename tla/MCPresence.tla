---------------------------- MODULE MCPresence ------------------------------
EXTENDS Presence, TLC

(* Connections differ in nothing but their names.                          *)
MCSymmetry == Permutations(Conns)
=============================================================================
