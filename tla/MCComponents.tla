---------------------------- MODULE MCComponents ----------------------------
(* Model checking of Components. *)
EXTENDS Components

MCSigns == {"equipment_fault", "grid_instruction"}
=============================================================================
