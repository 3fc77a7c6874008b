------------------------- MODULE MCCommandLifecycle -------------------------
(***************************************************************************)
(* Two users and two calls at a time: a requester and an independent       *)
(* approver, and every pair of calls racing on the same row.               *)
(***************************************************************************)
EXTENDS CommandLifecycle
=============================================================================
