---------------------------- MODULE MCSysVMatrix ----------------------------
(* Instance of SysVMatrix for TLC; programs are interchangeable. *)
EXTENDS SysVMatrix, TLC

Symmetry == Permutations(Programs)
=============================================================================
