------------------------------ MODULE EdgeBase ------------------------------
(***************************************************************************)
(* What the components at the edge of the system have in common.           *)
(***************************************************************************)
CONSTANTS Procs,       \* server processes
          Requests     \* HTTP requests
=============================================================================
