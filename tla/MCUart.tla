------------------------------- MODULE MCUart -------------------------------
(* The instance of Uart for TLC. *)
EXTENDS Uart
=============================================================================
