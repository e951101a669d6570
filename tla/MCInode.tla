------------------------------ MODULE MCInode -------------------------------
(* Instances of Inode: processes, and names, are interchangeable, and what is
   in a free slot, or in an inode not read yet, is never looked at. *)
EXTENDS Inode, TLC

InodeSymmetry == Permutations(Proc) \cup Permutations(Name)

InodeView ==
  LET Seen(s) == <<inum[s], ref[s], valid[s], IF valid[s] THEN inlink[s] ELSE 0>> IN
  <<disk, [s \in Slot |-> IF ref[s] = 0 THEN <<>> ELSE Seen(s)],
    locks, pc, call, ip, file, system, panicked>>
=============================================================================
