----------------------------- MODULE CpuAssign -----------------------------
(***************************************************************************)
(* What the scheduler promises to the rest of the kernel, with the scan of *)
(* proc[], the locks and the context switches left out: a process moves    *)
(* along the life cycle of enum procstate, and it is RUNNING exactly while *)
(* one CPU has it.  Sched implements this specification.                   *)
(***************************************************************************)
CONSTANTS Proc, CPU, NoProc

VARIABLES state, on

vars == <<state, on>>

Init == /\ \A p \in Proc : state[p] \in {"UNUSED", "RUNNABLE"}
        /\ on = [c \in CPU |-> NoProc]

(* A CPU that has no process takes a RUNNABLE one. *)
Run(c, p) == /\ on[c] = NoProc
             /\ state[p] = "RUNNABLE"
             /\ state' = [state EXCEPT ![p] = "RUNNING"]
             /\ on' = [on EXCEPT ![c] = p]

(* The process of a CPU gives it up: it yields, sleeps or exits. *)
Stop(c) == /\ on[c] # NoProc
           /\ \E s \in {"RUNNABLE", "SLEEPING", "ZOMBIE"} :
                state' = [state EXCEPT ![on[c]] = s]
           /\ on' = [on EXCEPT ![c] = NoProc]

(* Every other change of state: take a slot, ready, wake, reap. *)
Moves == {<<"UNUSED", "USED">>, <<"USED", "RUNNABLE">>,
          <<"SLEEPING", "RUNNABLE">>, <<"ZOMBIE", "UNUSED">>}

Move(p) == /\ \E m \in Moves : /\ state[p] = m[1]
                               /\ state' = [state EXCEPT ![p] = m[2]]
           /\ UNCHANGED on

Next == \/ \E c \in CPU : Stop(c)
        \/ \E c \in CPU, p \in Proc : Run(c, p)
        \/ \E p \in Proc : Move(p)

Spec == Init /\ [][Next]_vars
=============================================================================
