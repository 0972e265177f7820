------------------------------- MODULE MCEdge -------------------------------
(***************************************************************************)
(* A small instance of Edge for TLC.                                       *)
(***************************************************************************)
EXTENDS Edge, TLC

MCNames == {"Bob", "bob", "?"}
MCValidNames == {"ann", "bob"}
MCNormalise == [n \in MCNames |-> IF n = "Bob" THEN "bob" ELSE n]
MCFirstUser == [id |-> 1, name |-> "ann", hash |-> HashPassword("p1")]
MCRegistrations == {<<"Bob", "p1">>, <<"bob", "p2">>, <<"?", "p1">>, <<"bob", "short">>}
MCLogins == {<<"Bob", "p2">>}
MCRateKeys == {<<"ip", 0>>} \cup {<<"login", "Bob">>}
              \cup {"user", "history"} \X UserIds

Mix(register, login, ticket, upgrade, history) ==
    [k \in Kinds \ {"none"} |->
        CASE k = "register" -> register [] k = "login" -> login [] k = "ticket" -> ticket
          [] k = "upgrade" -> upgrade [] k = "history" -> history]

(* Two registrations and a login; a ticket that is presented twice;        *)
(* queries that meet at the limiter and at the slots.                      *)
MCTraffic == {Mix(2, 1, 0, 0, 0), Mix(0, 0, 1, 2, 0), Mix(0, 0, 0, 0, 3)}

Sym == Permutations(Requests) \cup Permutations(Procs)
=============================================================================
