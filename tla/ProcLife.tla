------------------------------ MODULE ProcLife ------------------------------
(***************************************************************************)
(* The life of a process in kernel/proc.c: kfork(), kexit(), kwait() and   *)
(* kkill(), with wait_lock, the p->lock of every slot, and sleep() and     *)
(* wakeup() on the channel that kwait() uses, the struct proc of the       *)
(* waiting parent.  getpinfo() copies the table slot by slot.              *)
(*                                                                         *)
(* wait_lock, and p->lock where it is held across a release of wait_lock   *)
(* or a context switch, are held from step to step; a critical section of  *)
(* one p->lock alone is one step.  The scheduler is CpuAssign with a CPU   *)
(* for every process.  The loops over proc[] find their slot with \E: the  *)
(* order of the table decides nothing here, and other processes take and   *)
(* free slots while a loop runs.  The loops that kexit() and kwait() run   *)
(* under wait_lock are one step, because parents and zombies change only   *)
(* under that lock.  The closing of files and of the working directory at  *)
(* the start of kexit() belongs to other modules.                          *)
(***************************************************************************)
EXTENDS Integers, FiniteSets

CONSTANTS Proc,        \* slots of proc[]
          InitProc,    \* initproc
          NoProc,      \* a null struct proc pointer, and the owner of a free lock
          MaxPid,      \* bound: pids up to this are given out
          KillArgs,    \* pids that processes pass to kill()
          InfoCallers  \* slots whose process calls getpinfo()

ASSUME SlotAssumption == InitProc \in Proc /\ NoProc \notin Proc
ASSUME PidAssumption == MaxPid \in Nat /\ KillArgs \subseteq Nat
ASSUME InfoAssumption == InfoCallers \subseteq Proc

VARIABLES
  state, chan, killed, pid, parent,  \* fields of struct proc
  lock,       \* the process that holds p->lock, or on whose behalf the
              \* scheduler does
  wait_lock,  \* the process that holds wait_lock
  nextpid,    \* nextpid
  oncpu,      \* a CPU executes on p's kernel stack
  pc,         \* p's position in the kernel
  np,         \* kfork(): np
  info        \* getpinfo(): the pids in kps, for the slots copied so far

fields == <<state, chan, killed, pid, parent>>
vars == <<fields, lock, wait_lock, nextpid, oncpu, pc, np, info>>

Init ==
  /\ state = [p \in Proc |-> IF p = InitProc THEN "RUNNABLE" ELSE "UNUSED"]
  /\ chan = [p \in Proc |-> NoProc]
  /\ killed = [p \in Proc |-> FALSE]
  /\ pid = [p \in Proc |-> IF p = InitProc THEN 1 ELSE 0]
  /\ parent = [p \in Proc |-> NoProc]
  /\ lock = [p \in Proc |-> NoProc]
  /\ wait_lock = NoProc
  /\ nextpid = 2
  /\ oncpu = [p \in Proc |-> FALSE]
  /\ pc = [p \in Proc |-> IF p = InitProc THEN "user" ELSE "none"]
  /\ np = [p \in Proc |-> NoProc]
  /\ info = [p \in Proc |-> <<>>]

(* Process p executes and moves from one position to another. *)
Goto(p, from, to) ==
  /\ oncpu[p]
  /\ pc[p] = from
  /\ pc' = [pc EXCEPT ![p] = to]

(* A system call enters the kernel: usertrap() sends a killed process to
   kexit() instead. *)
Syscall(p, to) == Goto(p, "user", to) /\ ~killed[p]

AcquireWaitLock(p) == wait_lock = NoProc /\ wait_lock' = p
ReleaseWaitLock == wait_lock' = NoProc

(* p->lock can be taken. *)
Unlocked(q) == lock[q] = NoProc

-----------------------------------------------------------------------------
(* The scheduler *)

Dispatch(p) ==
  /\ Unlocked(p)
  /\ state[p] = "RUNNABLE"
  /\ state' = [state EXCEPT ![p] = "RUNNING"]
  /\ oncpu' = [oncpu EXCEPT ![p] = TRUE]
  /\ IF pc[p] = "asleep"          \* the rest of sleep(): tidy up
     THEN /\ chan' = [chan EXCEPT ![p] = NoProc]
          /\ pc' = [pc EXCEPT ![p] = "awake"]
     ELSE UNCHANGED <<chan, pc>>
  /\ UNCHANGED <<killed, pid, parent, lock, wait_lock, nextpid, np, info>>

(* A timer interrupt, which comes only while the process neither holds nor
   spins for a lock.  One that comes just before an acquire(&wait_lock) only
   makes the process late for that lock, and is left out. *)
yield(p) ==
  /\ oncpu[p] /\ pc[p] \in {"user", "fork_ready", "info"}
  /\ Unlocked(p)
  /\ state' = [state EXCEPT ![p] = "RUNNABLE"]
  /\ oncpu' = [oncpu EXCEPT ![p] = FALSE]
  /\ UNCHANGED <<chan, killed, pid, parent, lock, wait_lock, nextpid, pc, np, info>>

-----------------------------------------------------------------------------
(* kfork() *)

allocpidReused == UNCHANGED nextpid

allocpid == nextpid' = nextpid + 1

(* allocproc() takes slot q, and the copy of the parent succeeds. *)
ForkAlloc(p, q) ==
  /\ Syscall(p, "fork_parent")
  /\ Unlocked(q) /\ state[q] = "UNUSED"
  /\ nextpid <= MaxPid
  /\ pid' = [pid EXCEPT ![q] = nextpid]
  /\ allocpid
  /\ state' = [state EXCEPT ![q] = "USED"]
  /\ np' = [np EXCEPT ![p] = q]
  /\ UNCHANGED <<chan, killed, parent, lock, wait_lock, oncpu, info>>

freeprocMarksPid(q) ==
  /\ state' = [state EXCEPT ![q] = "UNUSED"]
  /\ pid' = [pid EXCEPT ![q] = -1]
  /\ parent' = [parent EXCEPT ![q] = NoProc]
  /\ chan' = [chan EXCEPT ![q] = NoProc]
  /\ killed' = [killed EXCEPT ![q] = FALSE]

(* freeproc(q), for the fields modelled here *)
freeproc(q) ==
  /\ state' = [state EXCEPT ![q] = "UNUSED"]
  /\ pid' = [pid EXCEPT ![q] = 0]
  /\ parent' = [parent EXCEPT ![q] = NoProc]
  /\ chan' = [chan EXCEPT ![q] = NoProc]
  /\ killed' = [killed EXCEPT ![q] = FALSE]

(* allocproc() or uvmcopy() finds no memory: the slot is freed again and
   kfork() returns -1, but the pid is used up. *)
ForkFail(p, q) ==
  /\ Syscall(p, "user")
  /\ Unlocked(q) /\ state[q] = "UNUSED"
  /\ nextpid <= MaxPid
  /\ allocpid
  /\ freeproc(q)
  /\ UNCHANGED <<lock, wait_lock, oncpu, np, info>>

ForkParent(p) ==
  /\ Goto(p, "fork_parent", "fork_ready")
  /\ wait_lock = NoProc
  /\ parent' = [parent EXCEPT ![np[p]] = p]
  /\ UNCHANGED <<state, chan, killed, pid, lock, wait_lock, nextpid, oncpu, np, info>>

(* The child may run: forkret() takes it to user space. *)
ForkReady(p) ==
  LET q == np[p] IN
  /\ oncpu[p] /\ pc[p] = "fork_ready"
  /\ Unlocked(q)
  /\ state' = [state EXCEPT ![q] = "RUNNABLE"]
  /\ pc' = [pc EXCEPT ![p] = "user", ![q] = "user"]
  /\ np' = [np EXCEPT ![p] = NoProc]
  /\ UNCHANGED <<chan, killed, pid, parent, lock, wait_lock, nextpid, oncpu, info>>

-----------------------------------------------------------------------------
(* kexit() *)

(* wakeup(q) by process p.  Only q itself sleeps on channel q, so only the
   visit of slot q can change anything, and it needs that slot's lock. *)
wakeup(p, q) ==
  /\ q = p \/ Unlocked(q)
  /\ state' = [state EXCEPT ![q] =
                 IF q # p /\ @ = "SLEEPING" /\ chan[q] = q THEN "RUNNABLE" ELSE @]

Children(p) == {q \in Proc : parent[q] = p}

reparentNoWakeup(p) ==
  /\ parent' = [q \in Proc |-> IF parent[q] = p THEN InitProc ELSE parent[q]]
  /\ UNCHANGED state

reparentSkipped(p) == UNCHANGED <<parent, state>>

(* Pass p's children to init, which is woken when there are any. *)
reparent(p) ==
  /\ parent' = [q \in Proc |-> IF parent[q] = p THEN InitProc ELSE parent[q]]
  /\ IF Children(p) = {} THEN UNCHANGED state ELSE wakeup(p, InitProc)

(* The process exits, by itself or because usertrap() found it killed.  The
   exit of init is a panic: the init program never exits. *)
ExitEnter(p) ==
  /\ p # InitProc
  /\ Goto(p, "user", "exit")
  /\ UNCHANGED <<fields, lock, wait_lock, nextpid, oncpu, np, info>>

ExitReparent(p) ==
  /\ Goto(p, "exit", "exit_wake")
  /\ AcquireWaitLock(p)
  /\ reparent(p)
  /\ UNCHANGED <<chan, killed, pid, lock, nextpid, oncpu, np, info>>

ExitWakeParent(p) ==
  /\ Goto(p, "exit_wake", "exit_zombie")
  /\ wakeup(p, parent[p])
  /\ UNCHANGED <<chan, killed, pid, parent, lock, wait_lock, nextpid, oncpu, np, info>>

ExitZombie(p) ==
  /\ Goto(p, "exit_zombie", "exit_swtch")
  /\ Unlocked(p)
  /\ lock' = [lock EXCEPT ![p] = p]
  /\ state' = [state EXCEPT ![p] = "ZOMBIE"]
  /\ ReleaseWaitLock
  /\ UNCHANGED <<chan, killed, pid, parent, nextpid, oncpu, np, info>>

(* sched() leaves p's stack for the last time; the scheduler releases p->lock. *)
ExitSwtch(p) ==
  /\ Goto(p, "exit_swtch", "none")
  /\ oncpu' = [oncpu EXCEPT ![p] = FALSE]
  /\ lock' = [lock EXCEPT ![p] = NoProc]
  /\ UNCHANGED <<fields, wait_lock, nextpid, np, info>>

-----------------------------------------------------------------------------
(* kwait() and the sleep() it calls *)

WaitEnter(p) ==
  /\ Syscall(p, "wait_scan")
  /\ AcquireWaitLock(p)
  /\ UNCHANGED <<fields, lock, nextpid, oncpu, np, info>>

(* The scan takes the lock of a child before it looks at its state. *)
Reapable(p, q) == parent[q] = p /\ Unlocked(q) /\ state[q] = "ZOMBIE"

WaitReap(p, q) ==
  /\ Reapable(p, q)
  /\ Goto(p, "wait_scan", "user")
  /\ freeproc(q)
  /\ ReleaseWaitLock
  /\ UNCHANGED <<lock, nextpid, oncpu, np, info>>

(* The exit status cannot be copied out: -1, and the zombie stays.  The init
   program passes no address, so its wait cannot fail like this. *)
WaitCopyFails(p, q) ==
  /\ p # InitProc
  /\ Reapable(p, q)
  /\ Goto(p, "wait_scan", "user")
  /\ ReleaseWaitLock
  /\ UNCHANGED <<fields, lock, nextpid, oncpu, np, info>>

NoZombieChild(p) == \A q \in Children(p) : state[q] # "ZOMBIE"

(* No children, or killed: -1. *)
WaitNone(p) ==
  /\ Goto(p, "wait_scan", "user")
  /\ NoZombieChild(p)
  /\ Children(p) = {} \/ killed[p]
  /\ ReleaseWaitLock
  /\ UNCHANGED <<fields, lock, nextpid, oncpu, np, info>>

WaitSleep(p) ==
  /\ Goto(p, "wait_scan", "sleep")
  /\ NoZombieChild(p)
  /\ Children(p) # {} /\ ~killed[p]
  /\ UNCHANGED <<fields, lock, wait_lock, nextpid, oncpu, np, info>>

SleepLock(p) ==
  /\ Goto(p, "sleep", "sleep_locked")
  /\ Unlocked(p)
  /\ lock' = [lock EXCEPT ![p] = p]
  /\ UNCHANGED <<fields, wait_lock, nextpid, oncpu, np, info>>

SleepRelease(p) ==
  /\ Goto(p, "sleep_locked", "sleep_released")
  /\ ReleaseWaitLock
  /\ UNCHANGED <<fields, lock, nextpid, oncpu, np, info>>

SleepSwtch(p) ==
  /\ Goto(p, "sleep_released", "asleep")
  /\ chan' = [chan EXCEPT ![p] = p]
  /\ state' = [state EXCEPT ![p] = "SLEEPING"]
  /\ oncpu' = [oncpu EXCEPT ![p] = FALSE]
  /\ lock' = [lock EXCEPT ![p] = NoProc]
  /\ UNCHANGED <<killed, pid, parent, wait_lock, nextpid, np, info>>

SleepReacquire(p) ==
  /\ Goto(p, "awake", "wait_scan")
  /\ AcquireWaitLock(p)
  /\ UNCHANGED <<fields, lock, nextpid, oncpu, np, info>>

-----------------------------------------------------------------------------
(* kill(arg) by p finds slot q.  A free slot has pid 0. *)
kkill(p, q, arg) ==
  /\ Syscall(p, "user")
  /\ Unlocked(q)
  /\ pid[q] = arg
  /\ killed' = [killed EXCEPT ![q] = TRUE]
  /\ state' = [state EXCEPT ![q] = IF @ = "SLEEPING" THEN "RUNNABLE" ELSE @]
  /\ UNCHANGED <<chan, pid, parent, lock, wait_lock, nextpid, oncpu, np, info>>

(* getpinfo() *)

InfoEnter(p) ==
  /\ p \in InfoCallers
  /\ Syscall(p, "info")
  /\ UNCHANGED <<fields, lock, wait_lock, nextpid, oncpu, np, info>>

InfoCopy(p, q) ==
  /\ Goto(p, "info", "info")
  /\ q \notin DOMAIN info[p]
  /\ Unlocked(q)
  /\ info' = [info EXCEPT ![p] =
                [r \in DOMAIN info[p] \cup {q} |->
                   IF r = q THEN pid[q] ELSE info[p][r]]]
  /\ UNCHANGED <<fields, lock, wait_lock, nextpid, oncpu, np>>

(* copyout() of all slots, or its failure *)
InfoReturn(p) ==
  /\ Goto(p, "info", "user")
  /\ DOMAIN info[p] = Proc
  /\ info' = [info EXCEPT ![p] = <<>>]
  /\ UNCHANGED <<fields, lock, wait_lock, nextpid, oncpu, np>>

-----------------------------------------------------------------------------
Forking(p) == ForkParent(p) \/ ForkReady(p)

Exiting(p) == ExitReparent(p) \/ ExitWakeParent(p) \/ ExitZombie(p) \/ ExitSwtch(p)

WaitEnds(p) == \/ \E q \in Proc : WaitReap(p, q) \/ WaitCopyFails(p, q)
               \/ WaitNone(p)

Sleeping(p) == \/ WaitSleep(p) \/ SleepLock(p) \/ SleepRelease(p)
               \/ SleepSwtch(p) \/ SleepReacquire(p)

getpinfo(p) == \/ InfoEnter(p) \/ InfoReturn(p)
               \/ \E q \in Proc : InfoCopy(p, q)

Next == \E p \in Proc :
          \/ Dispatch(p) \/ yield(p)
          \/ \E q \in Proc : ForkAlloc(p, q) \/ ForkFail(p, q)
          \/ Forking(p)
          \/ ExitEnter(p) \/ Exiting(p)
          \/ WaitEnter(p) \/ WaitEnds(p) \/ Sleeping(p)
          \/ \E q \in Proc, arg \in KillArgs : kkill(p, q, arg)
          \/ getpinfo(p)

Spec == Init /\ [][Next]_vars

-----------------------------------------------------------------------------
(* Types of the fields of struct proc, of the locks and of kernel positions. *)
TypeOK ==
  /\ state \in [Proc -> {"UNUSED", "USED", "SLEEPING", "RUNNABLE", "RUNNING", "ZOMBIE"}]
  /\ chan \in [Proc -> Proc \cup {NoProc}]
  /\ killed \in [Proc -> BOOLEAN]
  /\ pid \in [Proc -> Nat]
  /\ parent \in [Proc -> Proc \cup {NoProc}]
  /\ lock \in [Proc -> Proc \cup {NoProc}]
  /\ wait_lock \in Proc \cup {NoProc}
  /\ nextpid \in Nat
  /\ oncpu \in [Proc -> BOOLEAN]
  /\ pc \in [Proc -> {"none", "user", "fork_parent", "fork_ready", "exit", "exit_wake",
                      "exit_zombie", "exit_swtch", "wait_scan", "sleep",
                      "sleep_locked", "sleep_released", "asleep", "awake", "info"}]
  /\ np \in [Proc -> Proc \cup {NoProc}]
  /\ \A p \in Proc : \A q \in DOMAIN info[p] : q \in Proc /\ info[p][q] \in Nat

Live(q) == state[q] \in {"RUNNABLE", "RUNNING", "SLEEPING"}

(* kwait() misses no child: when nobody is inside a section of wait_lock, a
   parent asleep in kwait() has no zombie child, whether the child exited while
   the parent was on its way into sleep(), or came to init as a zombie. *)
NoMissedChild ==
  wait_lock = NoProc =>
    \A p, q \in Proc : state[p] = "SLEEPING" /\ parent[q] = p => state[q] # "ZOMBIE"

(* Nobody is orphaned: every process that has run, except init, has a parent
   that is alive and can wait for it, through any races of exits and forks. *)
ParentAlive ==
  \A q \in Proc \ {InitProc} :
    Live(q) \/ state[q] = "ZOMBIE" => parent[q] \in Proc /\ Live(parent[q])

(* One getpinfo() never reports the same process twice, although processes
   come and go while it copies the table. *)
SnapshotPidsDistinct ==
  \A p \in Proc : \A q, r \in DOMAIN info[p] :
    q # r /\ info[p][q] = info[p][r] => info[p][q] = 0

(* What the comment of kkill() says: it kills the process with the given pid.
   A process whose pid was just given out has not been killed. *)
NotBornKilled ==
  [][\A q \in Proc : state[q] = "UNUSED" /\ state'[q] = "USED" => ~killed'[q]]_vars
=============================================================================
