--------------------------- MODULE MCPersistWorker ---------------------------
(***************************************************************************)
(* Small instances of PersistWorker for TLC.                               *)
(***************************************************************************)
EXTENDS PersistWorker, TLC

CONSTANTS k1, k2, v1, v2

(* A message, another one of the same conversation, a reuse of the first   *)
(* client id in another conversation, an undecodable record, and one for a *)
(* dismissed conversation.                                                 *)
MCRecords == {[key |-> k1, conv |-> v1, valid |-> TRUE],
              [key |-> k2, conv |-> v1, valid |-> TRUE],
              [key |-> k1, conv |-> v2, valid |-> TRUE],
              [key |-> k2, conv |-> v1, valid |-> FALSE]}

(* One client message, which the client may send twice.                    *)
MCLiveRecords == {[key |-> k1, conv |-> v1, valid |-> TRUE]}

Sym == Permutations(Consumers)
=============================================================================
