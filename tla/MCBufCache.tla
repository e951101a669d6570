----------------------------- MODULE MCBufCache -----------------------------
(* Instances of BufCache: processes, blocks and values are interchangeable. *)
EXTENDS BufCache

BufSymmetry == Permutations(Proc) \cup Permutations(Block) \cup Permutations(Val)
=============================================================================
