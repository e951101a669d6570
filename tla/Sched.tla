------------------------------- MODULE Sched -------------------------------
(***************************************************************************)
(* The per-CPU priority scheduler of kernel/proc.c.  Every CPU loops over  *)
(* proc[] twice: the first pass finds the best (numerically lowest)        *)
(* priority among the RUNNABLE processes, the second one runs, in table    *)
(* order, every RUNNABLE process that has this priority.  p->lock is taken *)
(* slot by slot, so the passes of one CPU interleave with the passes of    *)
(* the others, with wakeups, forks, exits and changes of priority.         *)
(*                                                                         *)
(* A process leaves its CPU through sched(): it takes p->lock, changes its *)
(* state and switches stacks; the scheduler it switches to releases the    *)
(* lock.  It enters a CPU the same way in reverse.  Both hand-overs are    *)
(* two steps here, because another CPU may look at the slot in between.    *)
(***************************************************************************)
EXTENDS Integers

CONSTANTS NPROC,      \* slots of proc[]
          CPU,        \* the harts
          Free,       \* owner of a lock that nobody holds
          PrioArgs,   \* priorities that processes pass to setpriority()
          RunsMod     \* p->runs counts modulo this (2^64)

ASSUME NPROCAssumption == NPROC \in Nat \ {0}
ASSUME FreeAssumption == Free \notin CPU
ASSUME ArgsAssumption == PrioArgs \subseteq Int
ASSUME RunsAssumption == RunsMod \in Nat \ {0}

Proc == 1..NPROC
NoProc == 0
InitProc == 1
DefaultPriority == 10
NoPriority == 9999

VARIABLES
  state,     \* p->state
  priority,  \* p->priority
  runs,      \* p->runs
  lock,      \* the CPU that holds p->lock, or Free
  kpc,       \* p's kernel thread: "resume" (its next step is the release
             \* after sched(), or forkret), "run", "leave" (in sched())
  cproc,     \* c->proc
  spc,       \* scheduler(): "top", "pass1", "pass2", "switched"
  idx,       \* scheduler(): the slot p points to
  highest,   \* scheduler(): highest
  steady     \* history: slots RUNNABLE with one priority since c's "top"

procVars  == <<state, priority, runs, lock, kpc>>
schedVars == <<cproc, spc, idx, highest>>
vars == <<procVars, schedVars, steady>>

ProcState == {"UNUSED", "USED", "SLEEPING", "RUNNABLE", "RUNNING", "ZOMBIE"}
Priority == 0..19

Init ==
  /\ state = [p \in Proc |-> IF p = InitProc THEN "RUNNABLE" ELSE "UNUSED"]
  /\ priority = [p \in Proc |-> IF p = InitProc THEN DefaultPriority ELSE 0]
  /\ runs = [p \in Proc |-> 0]
  /\ lock = [p \in Proc |-> Free]
  /\ kpc = [p \in Proc |-> "resume"]
  /\ cproc = [c \in CPU |-> NoProc]
  /\ spc = [c \in CPU |-> "top"]
  /\ idx = [c \in CPU |-> 1]
  /\ highest = [c \in CPU |-> NoPriority]
  /\ steady = [c \in CPU |-> {}]

(* Slot q is no longer steady for anybody. *)
Disturb(q) == steady' = [c \in CPU |-> steady[c] \ {q}]

SetState(q, s) == state' = [state EXCEPT ![q] = s]

-----------------------------------------------------------------------------
(* scheduler() *)

(* p++ of either loop; after the last slot the scheduler goes to "then". *)
NextSlot(c, then) ==
  IF idx[c] < NPROC
  THEN /\ idx' = [idx EXCEPT ![c] = @ + 1]
       /\ spc' = [spc EXCEPT ![c] = IF then = "pass2" THEN "pass1" ELSE "pass2"]
  ELSE /\ idx' = [idx EXCEPT ![c] = 1]
       /\ spc' = [spc EXCEPT ![c] = then]

TopKeepsHighest(c) ==
  /\ spc[c] = "top"
  /\ spc' = [spc EXCEPT ![c] = "pass1"]
  /\ idx' = [idx EXCEPT ![c] = 1]
  /\ steady' = [steady EXCEPT ![c] = {q \in Proc : state[q] = "RUNNABLE"}]
  /\ UNCHANGED <<procVars, cproc, highest>>

Top(c) ==
  /\ spc[c] = "top"
  /\ spc' = [spc EXCEPT ![c] = "pass1"]
  /\ idx' = [idx EXCEPT ![c] = 1]
  /\ highest' = [highest EXCEPT ![c] = NoPriority]
  /\ steady' = [steady EXCEPT ![c] = {q \in Proc : state[q] = "RUNNABLE"}]
  /\ UNCHANGED <<procVars, cproc>>

WorstOf(q, h) == IF state[q] = "RUNNABLE" /\ (priority[q] > h \/ h = NoPriority)
                 THEN priority[q] ELSE h

(* highest after the first pass has looked at slot q *)
BestOf(q, h) == IF state[q] = "RUNNABLE" /\ priority[q] < h THEN priority[q] ELSE h

Pass1(c) ==
  /\ spc[c] = "pass1"
  /\ lock[idx[c]] = Free
  /\ highest' = [highest EXCEPT ![c] = BestOf(idx[c], @)]
  /\ NextSlot(c, "pass2")
  /\ UNCHANGED <<procVars, cproc, steady>>

SelectedAnyState(q, h) == priority[q] = h

Selected(q, h) == state[q] = "RUNNABLE" /\ priority[q] = h

Pass2Skip(c) ==
  /\ spc[c] = "pass2"
  /\ lock[idx[c]] = Free
  /\ ~Selected(idx[c], highest[c])
  /\ NextSlot(c, "top")
  /\ UNCHANGED <<procVars, cproc, highest, steady>>

(* The second pass switches to the process of slot q, with q's lock held. *)
Dispatch(c, q) ==
  /\ spc[c] = "pass2"
  /\ q = idx[c]
  /\ lock[q] = Free
  /\ Selected(q, highest[c])
  /\ lock' = [lock EXCEPT ![q] = c]
  /\ SetState(q, "RUNNING")
  /\ runs' = [runs EXCEPT ![q] = (@ + 1) % RunsMod]
  /\ cproc' = [cproc EXCEPT ![c] = q]
  /\ spc' = [spc EXCEPT ![c] = "switched"]
  /\ Disturb(q)
  /\ UNCHANGED <<priority, kpc, idx, highest>>

(* swtch() back into scheduler(): c->proc = 0, release, p++. *)
SwtchBack(c, q) ==
  /\ q = cproc[c]
  /\ spc[c] = "switched"
  /\ kpc[q] = "leave"
  /\ kpc' = [kpc EXCEPT ![q] = "resume"]
  /\ lock' = [lock EXCEPT ![q] = Free]
  /\ cproc' = [cproc EXCEPT ![c] = NoProc]
  /\ NextSlot(c, "top")
  /\ UNCHANGED <<state, priority, runs, highest, steady>>

-----------------------------------------------------------------------------
(* The process side of a context switch *)

(* The process of CPU c is q, and executes outside sched(). *)
Executing(c, q) == spc[c] = "switched" /\ cproc[c] = q /\ kpc[q] = "run"

(* First instruction after swtch(): release(&p->lock) in yield(), sleep() or
   forkret(). *)
Resume(c, q) ==
  /\ spc[c] = "switched"
  /\ cproc[c] = q
  /\ kpc[q] = "resume"
  /\ kpc' = [kpc EXCEPT ![q] = "run"]
  /\ lock' = [lock EXCEPT ![q] = Free]
  /\ UNCHANGED <<state, priority, runs, schedVars, steady>>

LeaveUnlocked(c, q, s) ==
  /\ Executing(c, q)
  /\ lock[q] = Free
  /\ SetState(q, s)
  /\ kpc' = [kpc EXCEPT ![q] = "leave"]
  /\ Disturb(q)
  /\ UNCHANGED <<priority, runs, lock, schedVars>>

(* acquire(&p->lock), a new state, then sched() up to its swtch(). *)
Leave(c, q, s) ==
  /\ Executing(c, q)
  /\ lock[q] = Free
  /\ lock' = [lock EXCEPT ![q] = c]
  /\ SetState(q, s)
  /\ kpc' = [kpc EXCEPT ![q] = "leave"]
  /\ Disturb(q)
  /\ UNCHANGED <<priority, runs, schedVars>>

yield(c, q) == Leave(c, q, "RUNNABLE")
sleep(c, q) == Leave(c, q, "SLEEPING")
kexit(c, q) == q # InitProc /\ Leave(c, q, "ZOMBIE")

-----------------------------------------------------------------------------
(* What other processes and interrupt handlers do to a slot, each in one
   critical section of its p->lock *)

(* wakeup() and kkill() make a sleeping process RUNNABLE. *)
wakeup(q) ==
  /\ lock[q] = Free
  /\ state[q] = "SLEEPING"
  /\ SetState(q, "RUNNABLE")
  /\ Disturb(q)
  /\ UNCHANGED <<priority, runs, lock, kpc, schedVars>>

(* allocproc() for the kfork() of the process on c.  When a page or the copy
   of the parent's memory cannot be had, freeproc() gives the slot back with
   the new priority and runs left in it. *)
allocproc(c, q) ==
  /\ \E p \in Proc : Executing(c, p)
  /\ lock[q] = Free
  /\ state[q] = "UNUSED"
  /\ priority' = [priority EXCEPT ![q] = DefaultPriority]
  /\ runs' = [runs EXCEPT ![q] = 0]
  /\ kpc' = [kpc EXCEPT ![q] = "resume"]
  /\ \E s \in {"USED", "UNUSED"} : SetState(q, s)
  /\ Disturb(q)
  /\ UNCHANGED <<lock, schedVars>>

(* The last section of kfork() by the process on c: the child may run. *)
forkReady(c, q) ==
  /\ \E p \in Proc : Executing(c, p)
  /\ lock[q] = Free
  /\ state[q] = "USED"
  /\ SetState(q, "RUNNABLE")
  /\ Disturb(q)
  /\ UNCHANGED <<priority, runs, lock, kpc, schedVars>>

freeprocUnlocked(c, q) ==
  /\ \E p \in Proc \ {q} : Executing(c, p)
  /\ state[q] = "ZOMBIE"
  /\ SetState(q, "UNUSED")
  /\ Disturb(q)
  /\ UNCHANGED <<priority, runs, lock, kpc, schedVars>>

(* kwait() of the process on c frees a zombie child. *)
freeproc(c, q) ==
  /\ \E p \in Proc \ {q} : Executing(c, p)
  /\ lock[q] = Free
  /\ state[q] = "ZOMBIE"
  /\ SetState(q, "UNUSED")
  /\ Disturb(q)
  /\ UNCHANGED <<priority, runs, lock, kpc, schedVars>>

ValidUpTo20(prio) == prio >= 0 /\ prio <= 20

ValidPriority(prio) == prio >= 0 /\ prio <= 19

(* The slots a pid can name: pids of live slots are distinct, and all free
   slots have pid 0, of which the scan finds the first. *)
FoundByPid(q) == state[q] = "UNUSED" => \A r \in 1..(q - 1) : state[r] # "UNUSED"

set_priority(c, q, prio) ==
  /\ \E p \in Proc : Executing(c, p)
  /\ ValidPriority(prio)
  /\ FoundByPid(q)
  /\ lock[q] = Free
  /\ priority' = [priority EXCEPT ![q] = prio]
  /\ Disturb(q)
  /\ UNCHANGED <<state, runs, lock, kpc, schedVars>>

-----------------------------------------------------------------------------
Scheduler(c) == \/ Top(c)
                \/ Pass1(c)
                \/ Pass2Skip(c)
                \/ \E q \in Proc : Dispatch(c, q) \/ SwtchBack(c, q)

Process(c) == \E q \in Proc :
                \/ Resume(c, q)
                \/ yield(c, q)
                \/ sleep(c, q)
                \/ kexit(c, q)
                \/ allocproc(c, q)
                \/ forkReady(c, q)
                \/ freeproc(c, q)
                \/ \E prio \in PrioArgs : set_priority(c, q, prio)

Next == \/ \E c \in CPU : Scheduler(c) \/ Process(c)
        \/ \E q \in Proc : wakeup(q)

Spec == Init /\ [][Next]_vars

(* A CPU in the scheduler keeps scanning: a spinning acquire() gets a lock
   that is released again and again.  A process that was switched to goes on,
   and the timer interrupt, which clockintr() rearms on every CPU, makes it
   yield. *)
FairSpec == /\ Spec
            /\ \A c \in CPU : /\ SF_vars(Scheduler(c))
                             /\ WF_vars(\E q \in Proc : Resume(c, q))
                             /\ SF_vars(\E q \in Proc : yield(c, q))

-----------------------------------------------------------------------------
(* Types of the fields of struct proc and struct cpu and of scheduler()'s
   locals; set_priority() keeps priorities in 0..19. *)
TypeOK ==
  /\ state \in [Proc -> ProcState]
  /\ priority \in [Proc -> Priority]
  /\ runs \in [Proc -> 0..(RunsMod - 1)]
  /\ lock \in [Proc -> CPU \cup {Free}]
  /\ kpc \in [Proc -> {"resume", "run", "leave"}]
  /\ cproc \in [CPU -> Proc \cup {NoProc}]
  /\ spc \in [CPU -> {"top", "pass1", "pass2", "switched"}]
  /\ idx \in [CPU -> Proc]
  /\ highest \in [CPU -> Priority \cup {NoPriority}]
  /\ steady \in [CPU -> SUBSET Proc]

(* The kernel stack of a process is never in use by two CPUs: a process that
   has set its state in yield() or sleep() cannot be dispatched by another CPU
   before its own swtch() is over. *)
OneCpuPerProc ==
  \A c, d \in CPU : cproc[c] = cproc[d] /\ cproc[c] # NoProc => c = d

(* kwait() never frees the slot of a process, nor does allocproc() reuse it,
   while a CPU still executes on that process's kernel stack: a zombie is on
   its way through sched() when its parent may already see it. *)
StackNotFreed ==
  \A c \in CPU : cproc[c] # NoProc => state[cproc[c]] \notin {"UNUSED", "USED"}

(* Two of the assertions of sched(), "sched p->lock" and "sched RUNNING" (those
   about interrupts are not modelled): the process that switches away holds its own
   p->lock and is not RUNNING, whatever other CPUs did since it changed its
   state; and between swtch() and the release on the other side the lock is
   held by the CPU that runs the process. *)
SwtchHoldsLock ==
  \A c \in CPU : cproc[c] # NoProc =>
    /\ kpc[cproc[c]] # "run" => lock[cproc[c]] = c
    /\ kpc[cproc[c]] = "leave" <=> state[cproc[c]] # "RUNNING"

(* scheduler() honours priorities: a CPU never dispatches a process while one
   with a better priority has been waiting, RUNNABLE and with that priority,
   since before the CPU began its two passes. *)
NoInversion ==
  [][\A c \in CPU, p \in Proc : cproc[c] = NoProc /\ cproc'[c] = p =>
       \A q \in steady[c] : priority[p] <= priority[q]]_vars

(* Process r goes before q. *)
Ahead(r, q) == state[r] \in {"RUNNABLE", "RUNNING"} /\ priority[r] < priority[q]

(* Round robin among the best: no process stays RUNNABLE for ever while no
   RUNNABLE or RUNNING process has a better priority.  The two passes of
   scheduler() serve the processes of one priority in table order, however the
   CPUs share them out.  Only a process whose priority is changed again and
   again, between the passes of every CPU, has no such promise. *)
BestServed ==
  \A q \in Proc :
    \/ []<>(state[q] # "RUNNABLE" \/ \E r \in Proc : Ahead(r, q))
    \/ []<><<priority'[q] # priority[q]>>_vars

(* A CPU has given its process up as soon as the process has changed its state
   under p->lock. *)
Assigned == [c \in CPU |-> IF cproc[c] # NoProc /\ state[cproc[c]] = "RUNNING"
                           THEN cproc[c] ELSE NoProc]

CA == INSTANCE CpuAssign WITH on <- Assigned

(* RUNNING means on exactly one CPU, and p->state only moves along its life
   cycle, whatever the two passes of the schedulers interleave with. *)
ImplementsCpuAssign == CA!Spec
=============================================================================
