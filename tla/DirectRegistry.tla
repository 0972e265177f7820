--------------------------- MODULE DirectRegistry ---------------------------
(***************************************************************************)
(* What creating a direct chat promises, with no table and no race in      *)
(* sight: a pair of users is given a conversation once and for all, and    *)
(* everyone who asks for the pair is told that conversation.               *)
(*                                                                         *)
(* Conversations implements this specification.                            *)
(***************************************************************************)
CONSTANTS Pairs, Ids, Askers

VARIABLES given,   \* <<pair, conversation>>
          told     \* <<asker, pair, conversation>>

registryVars == <<given, told>>

RegistryInit == given = {} /\ told = {}

(* The pair had no conversation and gets one that no other pair has.       *)
Give(p, i) ==
    /\ \A g \in given : g[1] # p /\ g[2] # i
    /\ given' = given \cup {<<p, i>>}

(* An asker is told once.                                                  *)
Tell(a, p, i) ==
    /\ \A t \in told : t[1] # a
    /\ told' = told \cup {<<a, p, i>>}

RegistryNext ==
    \/ \E p \in Pairs, i \in Ids :
          Give(p, i) /\ (UNCHANGED told \/ \E a \in Askers : Tell(a, p, i))
    \/ \E g \in given, a \in Askers : Tell(a, g[1], g[2]) /\ UNCHANGED given

RegistrySpec == RegistryInit /\ [][RegistryNext]_registryVars
=============================================================================
