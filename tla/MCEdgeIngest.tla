---------------------------- MODULE MCEdgeIngest ----------------------------
(***************************************************************************)
(* One device, two handlers, three measurements: enough for a request the    *)
(* device gave up on to race with its retry, for a number to be reused     *)
(* after the queue files are lost, and for a key to be rotated under both. *)
(***************************************************************************)
EXTENDS EdgeIngest
=============================================================================
