------------------------------ MODULE MCVirtio ------------------------------
(* Instances of VirtioDisk: processes are interchangeable, and a ring entry
   does not matter once it has been read. *)
EXTENDS VirtioDisk, TLC

VirtioSymmetry == Permutations(Proc)

(* The entries of a ring from one index up to another *)
Entries(ring, from, to) == [k \in 1..(to - from) % IdxMod |-> ring[(from + k - 1) % NUM]]

VirtioView ==
  <<descs, status, availidx, usedidx, used_idx, busy, lock, pc, head, device, irq, panicked,
    Entries(availring, seen, IF lock \in Proc THEN availidx + 1 ELSE availidx),
    Entries(usedring, used_idx, usedidx)>>
=============================================================================
