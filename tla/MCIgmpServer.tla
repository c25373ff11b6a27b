---------------------------- MODULE MCIgmpServer ----------------------------
(* Instances of IgmpServer for TLC. *)
EXTENDS IgmpServer
=============================================================================
