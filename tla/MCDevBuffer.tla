---------------------------- MODULE MCDevBuffer -----------------------------
(* Instance of DevBuffer for TLC; processes are interchangeable. *)
EXTENDS DevBuffer, TLC

Symmetry == Permutations(Procs)
=============================================================================
