------------------------------- MODULE MCLog -------------------------------
EXTENDS Log, TLC

(* Processes, blocks and values are each interchangeable: the model compares
   them only for equality. *)
LogSymmetry == Permutations(Proc) \cup Permutations(Block) \cup Permutations(Val)
=============================================================================
