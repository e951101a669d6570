--------------------------- MODULE MCSleepWakeup ---------------------------
(* An instance of SleepWakeup for TLC: a negative duration, and one that
   takes two ticks of a counter that wraps after four. *)
EXTENDS SleepWakeup

MCPauseArgs == {-1, 2}
=============================================================================
