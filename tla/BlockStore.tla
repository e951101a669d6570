----------------------------- MODULE BlockStore -----------------------------
(***************************************************************************)
(* What the buffer cache promises: one copy of every disk block, which a   *)
(* process has to itself from bread() to brelse(), and which changes only  *)
(* at the hands of that process.                                           *)
(***************************************************************************)
CONSTANTS Proc, Block, Val, None

VARIABLES content,   \* the value of each block
          holder     \* the process that has the block, or None

vars == <<content, holder>>

Init == /\ content \in [Block -> Val]
        /\ holder = [k \in Block |-> None]

Take(p, k) == /\ holder[k] = None
              /\ holder' = [holder EXCEPT ![k] = p]
              /\ UNCHANGED content

Change(p, k, v) == /\ holder[k] = p
                   /\ content' = [content EXCEPT ![k] = v]
                   /\ UNCHANGED holder

Give(p, k) == /\ holder[k] = p
              /\ holder' = [holder EXCEPT ![k] = None]
              /\ UNCHANGED content

Next == \E p \in Proc, k \in Block :
          Take(p, k) \/ Give(p, k) \/ \E v \in Val : Change(p, k, v)

Spec == Init /\ [][Next]_vars
=============================================================================
