---------------------------- MODULE MCDelivery ------------------------------
EXTENDS Delivery

CONSTANTS u1

MCUserOf == [c \in Conns |-> u1]

(* The connections are one user's, and no message differs from another.    *)
MCSymmetry == Permutations(Conns) \cup Permutations(Messages)
=============================================================================
