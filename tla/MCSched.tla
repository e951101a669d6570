------------------------------ MODULE MCSched -------------------------------
(* The instance of Sched for TLC: both ends of the valid priorities, what
   lies just beyond them, and the default one. *)
EXTENDS Sched

MCPrioArgs == {-1, 0, 10, 19, 20}
=============================================================================
