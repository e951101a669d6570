------------------------------- MODULE MCPipe -------------------------------
(* The instance of Pipe for TLC: processes, and bytes, are interchangeable. *)
EXTENDS Pipe, TLC

PipeSymmetry == Permutations(Proc) \cup Permutations(Val)
=============================================================================
