------------------------------ MODULE MCRelay ------------------------------
(* Instances of Relay for TLC. *)
EXTENDS Relay, TLC

Symmetry == Permutations(Clients) \cup Permutations(Managers)
=============================================================================
