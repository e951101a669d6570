----------------------------- MODULE MCConsole ------------------------------
(* Instances of Console: readers are interchangeable. *)
EXTENDS Console, TLC

ConsoleSymmetry == Permutations(Proc)
=============================================================================
