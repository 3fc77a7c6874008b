-------------------------- MODULE MCJournaledQueue --------------------------
(***************************************************************************)
(* The host mirror on a ring of three slots: six sequence numbers wrap the *)
(* ring twice, and the generation bound lets power be lost at every stage, *)
(* several times in a row, on both meta buffers.                           *)
(***************************************************************************)
EXTENDS JournaledQueue, TLC

\* Payloads are only copied and compared.
PayloadSymmetry == Permutations(Payloads)
=============================================================================
