-------------------------- MODULE MCPersistentQueue --------------------------
(***************************************************************************)
(* The firmware queue on a ring of three slots (the device has 2000) with  *)
(* four measurements, so that the ring wraps and fills, and one power loss *)
(* at any step.  The order of measurements matters, so no symmetry.        *)
(***************************************************************************)
EXTENDS PersistentQueue
=============================================================================
