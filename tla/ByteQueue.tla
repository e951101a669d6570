----------------------------- MODULE ByteQueue -----------------------------
(***************************************************************************)
(* What a pipe promises: a bounded queue of bytes.  Bytes come out in the  *)
(* order in which they went in, each once; nothing goes in once the read   *)
(* side is closed, and a read reports the end only when nothing is left    *)
(* and no writer either.                                                   *)
(***************************************************************************)
EXTENDS Naturals, Sequences

CONSTANTS Val, Capacity

VARIABLES queue, readopen, writeopen,
          ends   \* the number of reads that reported the end, modulo 2

vars == <<queue, readopen, writeopen, ends>>

Init == queue = <<>> /\ readopen = TRUE /\ writeopen = TRUE /\ ends = 0

Put(v) == /\ readopen /\ Len(queue) < Capacity
          /\ queue' = Append(queue, v)
          /\ UNCHANGED <<readopen, writeopen, ends>>

Get == /\ queue # <<>>
       /\ queue' = Tail(queue)
       /\ UNCHANGED <<readopen, writeopen, ends>>

End == /\ queue = <<>> /\ ~writeopen
       /\ ends' = 1 - ends
       /\ UNCHANGED <<queue, readopen, writeopen>>

CloseRead == /\ readopen' = FALSE
             /\ UNCHANGED <<queue, writeopen, ends>>

CloseWrite == /\ writeopen' = FALSE
              /\ UNCHANGED <<queue, readopen, ends>>

Next == (\E v \in Val : Put(v)) \/ Get \/ End \/ CloseRead \/ CloseWrite

Spec == Init /\ [][Next]_vars
=============================================================================
