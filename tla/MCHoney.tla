------------------------------ MODULE MCHoney -------------------------------
(* Instance of Honey for TLC. *)
EXTENDS Honey
=============================================================================
