----------------------------- MODULE AtomicDisk -----------------------------
(***************************************************************************)
(* What the log promises to the file system.  System calls write blocks    *)
(* between a begin and an end; all see the current contents.  The durable  *)
(* contents follow in one step, and only while no system call is active;   *)
(* a crash falls back to them.  So after a crash a system call has         *)
(* happened as a whole or not at all, and the calls that survive are all   *)
(* those before some moment.                                               *)
(***************************************************************************)
CONSTANTS Proc, Block, Val

VARIABLES durable,  \* what a reboot finds
          current,  \* what the system calls see
          active    \* processes inside a system call

vars == <<durable, current, active>>

Init == /\ durable \in [Block -> Val]
        /\ current = durable
        /\ active = {}

Begin(p) == /\ p \notin active
            /\ active' = active \cup {p}
            /\ UNCHANGED <<durable, current>>

Write(p, b, v) == /\ p \in active
                  /\ current' = [current EXCEPT ![b] = v]
                  /\ UNCHANGED <<durable, active>>

End(p) == /\ p \in active
          /\ active' = active \ {p}
          /\ UNCHANGED <<durable, current>>

Commit == /\ active = {}
          /\ durable' = current
          /\ UNCHANGED <<current, active>>

Crash == /\ current' = durable
         /\ active' = {}
         /\ UNCHANGED durable

Next == \/ \E p \in Proc : Begin(p) \/ End(p) \/ \E b \in Block, v \in Val : Write(p, b, v)
        \/ Commit
        \/ Crash

Spec == Init /\ [][Next]_vars
=============================================================================
