---------------------------- MODULE MCProcBuffer ----------------------------
(* Instance of ProcBuffer for TLC. *)
EXTENDS ProcBuffer
=============================================================================
