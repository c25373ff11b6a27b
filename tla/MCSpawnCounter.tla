--------------------------- MODULE MCSpawnCounter ---------------------------
(* Instance of SpawnCounter for TLC. *)
EXTENDS SpawnCounter
=============================================================================
