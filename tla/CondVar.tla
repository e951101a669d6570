------------------------------ MODULE CondVar ------------------------------
(***************************************************************************)
(* What sleep() and wakeup() promise: a condition variable under a lock.   *)
(* Waiting and releasing the lock is one step, a broadcast by the holder   *)
(* of the lock wakes everybody who waits, and kkill() may wake one process *)
(* without the lock.  SleepWakeup implements this specification.           *)
(***************************************************************************)
CONSTANTS Proc,    \* processes that wait
          Waker,   \* who broadcasts
          Free     \* owner of the lock when nobody holds it

VARIABLES owner, waiting

vars == <<owner, waiting>>

Init == owner = Free /\ waiting = {}

(* A process that waits does not come back before it was woken. *)
Acquire(t) == /\ owner = Free
              /\ t \notin waiting
              /\ owner' = t
              /\ UNCHANGED waiting

Release(t) == /\ owner = t
              /\ owner' = Free
              /\ UNCHANGED waiting

Wait(p) == /\ owner = p
           /\ owner' = Free
           /\ waiting' = waiting \cup {p}

Broadcast == /\ owner = Waker
             /\ waiting' = {}
             /\ UNCHANGED owner

Interrupt(p) == /\ p \in waiting
                /\ waiting' = waiting \ {p}
                /\ UNCHANGED owner

Next == \/ \E t \in Proc \cup {Waker} : Acquire(t) \/ Release(t)
        \/ \E p \in Proc : Wait(p) \/ Interrupt(p)
        \/ Broadcast

Spec == Init /\ [][Next]_vars
=============================================================================
