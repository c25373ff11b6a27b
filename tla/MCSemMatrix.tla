---------------------------- MODULE MCSemMatrix -----------------------------
(* Instances of SemMatrix for TLC. *)
EXTENDS SemMatrix
=============================================================================
