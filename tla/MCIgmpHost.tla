----------------------------- MODULE MCIgmpHost -----------------------------
(* Instances of IgmpHost for TLC. *)
EXTENDS IgmpHost, TLC

CONSTANTS g1, g2, g3

MCGroups == {g1, g2, g3}

MCInitial == <<g1, g2>>
=============================================================================
