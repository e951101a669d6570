----------------------------- MODULE MCProcLife -----------------------------
(* Instances of ProcLife for TLC. *)
EXTENDS ProcLife
=============================================================================
