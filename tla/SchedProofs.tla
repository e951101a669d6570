---------------------------- MODULE SchedProofs ----------------------------
(***************************************************************************)
(* Proofs about Sched for any number of slots and CPUs.                    *)
(***************************************************************************)
EXTENDS Sched, TLAPS

(* A CPU has a process exactly while its scheduler() is inside swtch(). *)
SwitchedHasProc ==
  \A c \in CPU : spc[c] = "switched" <=> cproc[c] # NoProc

(* The saved context of a process that is on no CPU is behind its sched(). *)
OffCpuResumes ==
  \A p \in Proc : (\A c \in CPU : cproc[c] # p) => kpc[p] = "resume"

(* Exclusion: what makes the hand-over of p->lock across swtch() work. *)
Exclusive == /\ SwitchedHasProc
             /\ OffCpuResumes
             /\ OneCpuPerProc
             /\ StackNotFreed
             /\ SwtchHoldsLock

(* Once c's first pass is behind a steady slot, highest accounts for it. *)
Accounted(c, q) == \/ spc[c] \in {"pass2", "switched"}
                   \/ spc[c] = "pass1" /\ q < idx[c]

SteadyInv ==
  \A c \in CPU : \A q \in steady[c] :
    /\ state[q] = "RUNNABLE"
    /\ Accounted(c, q) => highest[c] <= priority[q]

Inv == TypeOK /\ Exclusive /\ SteadyInv

-----------------------------------------------------------------------------
(* p++ keeps p inside proc[] and scheduler() inside its two loops. *)
LEMMA NextSlotType ==
  ASSUME TypeOK, NEW c \in CPU, NEW then \in {"pass2", "top"}, NextSlot(c, then)
  PROVE  /\ idx' \in [CPU -> Proc]
         /\ spc' \in [CPU -> {"top", "pass1", "pass2", "switched"}]
<1>1. 1 \in Proc /\ (idx[c] < NPROC => idx[c] + 1 \in Proc)
  BY NPROCAssumption DEF TypeOK, Proc
<1>2. CASE idx[c] < NPROC
  BY <1>1, <1>2 DEF TypeOK, NextSlot
<1>3. CASE ~(idx[c] < NPROC)
  BY <1>1, <1>3 DEF TypeOK, NextSlot
<1> QED
  BY <1>2, <1>3

(* highest is a priority, or still the 9999 it starts from. *)
LEMMA BestOfType ==
  ASSUME TypeOK, NEW c \in CPU
  PROVE  BestOf(idx[c], highest[c]) \in Priority \cup {NoPriority}
BY DEF TypeOK, BestOf

(* The fields and the scheduler's locals keep their types; in particular
   set_priority() never stores a priority outside 0..19. *)
THEOREM TypeCorrect == Spec => []TypeOK
<1> USE NPROCAssumption, FreeAssumption, ArgsAssumption, RunsAssumption
<1>1. Init => TypeOK
  BY DEF Init, TypeOK, Proc, InitProc, NoProc, ProcState, Priority,
         DefaultPriority, NoPriority
<1>2. TypeOK /\ [Next]_vars => TypeOK'
  <2> SUFFICES ASSUME TypeOK, [Next]_vars PROVE TypeOK'
    OBVIOUS
  <2> USE DEF TypeOK
  <2>1. ASSUME NEW c \in CPU, Top(c) PROVE TypeOK'
    BY <2>1 DEF Top, procVars, Proc, NoPriority
  <2>2. ASSUME NEW c \in CPU, Pass1(c) PROVE TypeOK'
    BY <2>2, NextSlotType, BestOfType DEF Pass1, procVars
  <2>3. ASSUME NEW c \in CPU, Pass2Skip(c) PROVE TypeOK'
    BY <2>3, NextSlotType DEF Pass2Skip, procVars
  <2>4. ASSUME NEW c \in CPU, NEW q \in Proc, Dispatch(c, q) PROVE TypeOK'
    <3>1. (runs[q] + 1) % RunsMod \in 0..(RunsMod - 1)
      BY DEF Proc
    <3> QED
      BY <2>4, <3>1 DEF Dispatch, SetState, Disturb, ProcState
  <2>5. ASSUME NEW c \in CPU, NEW q \in Proc, SwtchBack(c, q) PROVE TypeOK'
    BY <2>5, NextSlotType DEF SwtchBack
  <2>6. ASSUME NEW c \in CPU, NEW q \in Proc, Resume(c, q) PROVE TypeOK'
    BY <2>6 DEF Resume, schedVars
  <2>7. ASSUME NEW c \in CPU, NEW q \in Proc,
               yield(c, q) \/ sleep(c, q) \/ kexit(c, q)
        PROVE  TypeOK'
    BY <2>7 DEF yield, sleep, kexit, Leave, SetState, Disturb, schedVars, ProcState
  <2>8. ASSUME NEW c \in CPU, NEW q \in Proc, allocproc(c, q) PROVE TypeOK'
    BY <2>8 DEF allocproc, SetState, Disturb, schedVars, ProcState, Priority,
                DefaultPriority
  <2>9. ASSUME NEW c \in CPU, NEW q \in Proc, forkReady(c, q) PROVE TypeOK'
    BY <2>9 DEF forkReady, SetState, Disturb, schedVars, ProcState
  <2>10. ASSUME NEW c \in CPU, NEW q \in Proc, freeproc(c, q) PROVE TypeOK'
    BY <2>10 DEF freeproc, SetState, Disturb, schedVars, ProcState
  <2>11. ASSUME NEW c \in CPU, NEW q \in Proc, NEW prio \in PrioArgs,
                set_priority(c, q, prio)
         PROVE  TypeOK'
    BY <2>11 DEF set_priority, ValidPriority, Disturb, schedVars, Priority
  <2>12. ASSUME NEW q \in Proc, wakeup(q) PROVE TypeOK'
    BY <2>12 DEF wakeup, SetState, Disturb, schedVars, ProcState
  <2>13. CASE UNCHANGED vars
    BY <2>13 DEF vars, procVars, schedVars
  <2> QED
    BY <2>1, <2>2, <2>3, <2>4, <2>5, <2>6, <2>7, <2>8, <2>9, <2>10, <2>11,
       <2>12, <2>13 DEF Next, Scheduler, Process
<1> QED
  BY <1>1, <1>2, PTL DEF Spec

-----------------------------------------------------------------------------
(* A slot that another CPU may change, its lock free and its state not
   RUNNING, is on no CPU. *)
LEMMA FreeOffCpu ==
  ASSUME TypeOK, Exclusive, NEW q \in Proc, lock[q] = Free, state[q] # "RUNNING"
  PROVE  \A c \in CPU : cproc[c] # q
<1>1. q # NoProc
  BY NPROCAssumption DEF Proc, NoProc
<1> QED
  BY <1>1, FreeAssumption DEF TypeOK, Exclusive, SwtchHoldsLock

(* NextSlot leaves the other CPUs alone and never ends in "switched". *)
LEMMA NextSlotSpc ==
  ASSUME TypeOK, NEW c \in CPU, NEW then \in {"pass2", "top"}, NextSlot(c, then)
  PROVE  /\ spc'[c] # "switched"
         /\ spc'[c] = "pass1" => then = "pass2"
         /\ \A d \in CPU \ {c} : spc'[d] = spc[d] /\ idx'[d] = idx[d]
<1>1. CASE idx[c] < NPROC
  BY <1>1 DEF TypeOK, NextSlot
<1>2. CASE ~(idx[c] < NPROC)
  BY <1>2 DEF TypeOK, NextSlot
<1> QED
  BY <1>1, <1>2

(* Exclusive is inductive relative to the types. *)
LEMMA ExclusiveStep == TypeOK /\ TypeOK' /\ Exclusive /\ [Next]_vars => Exclusive'
<1> SUFFICES ASSUME TypeOK, TypeOK', Exclusive, [Next]_vars PROVE Exclusive'
  OBVIOUS
<1> USE NPROCAssumption, FreeAssumption
<1>p. NoProc \notin Proc
  BY DEF NoProc, Proc
<1>1. ASSUME NEW c \in CPU, Top(c) PROVE Exclusive'
  BY <1>1 DEF Top, procVars, TypeOK, Exclusive, SwitchedHasProc, OffCpuResumes,
              OneCpuPerProc, StackNotFreed, SwtchHoldsLock
<1>2. ASSUME NEW c \in CPU, Pass1(c) PROVE Exclusive'
  BY <1>2, NextSlotSpc DEF Pass1, procVars, TypeOK, Exclusive, SwitchedHasProc,
              OffCpuResumes, OneCpuPerProc, StackNotFreed, SwtchHoldsLock
<1>3. ASSUME NEW c \in CPU, Pass2Skip(c) PROVE Exclusive'
  BY <1>3, NextSlotSpc DEF Pass2Skip, procVars, TypeOK, Exclusive, SwitchedHasProc,
              OffCpuResumes, OneCpuPerProc, StackNotFreed, SwtchHoldsLock
<1>4. ASSUME NEW c \in CPU, NEW q \in Proc, Dispatch(c, q) PROVE Exclusive'
  <2>1. \A d \in CPU : cproc[d] # q
    BY <1>4, FreeOffCpu DEF Dispatch, Selected
  <2>2. cproc[c] = NoProc
    BY <1>4 DEF Dispatch, Exclusive, SwitchedHasProc
  <2> QED
    BY <1>4, <1>p, <2>1, <2>2 DEF Dispatch, SetState, TypeOK, Exclusive,
       SwitchedHasProc, OffCpuResumes, OneCpuPerProc, StackNotFreed, SwtchHoldsLock
<1>5. ASSUME NEW c \in CPU, NEW q \in Proc, SwtchBack(c, q) PROVE Exclusive'
  BY <1>5, <1>p, NextSlotSpc DEF SwtchBack, TypeOK, Exclusive,
     SwitchedHasProc, OffCpuResumes, OneCpuPerProc, StackNotFreed, SwtchHoldsLock
<1>6. ASSUME NEW c \in CPU, NEW q \in Proc, Resume(c, q) PROVE Exclusive'
  BY <1>6, <1>p DEF Resume, schedVars, TypeOK, Exclusive,
     SwitchedHasProc, OffCpuResumes, OneCpuPerProc, StackNotFreed, SwtchHoldsLock
<1>7. ASSUME NEW c \in CPU, NEW q \in Proc, NEW s \in {"RUNNABLE", "SLEEPING", "ZOMBIE"},
             Leave(c, q, s)
      PROVE  Exclusive'
  BY <1>7, <1>p DEF Leave, Executing, SetState, schedVars, TypeOK, Exclusive,
     SwitchedHasProc, OffCpuResumes, OneCpuPerProc, StackNotFreed, SwtchHoldsLock
<1>8. ASSUME NEW q \in Proc, lock[q] = Free, state[q] # "RUNNING",
             state' = [state EXCEPT ![q] = state'[q]],
             kpc' = [kpc EXCEPT ![q] = kpc'[q]], kpc'[q] \in {kpc[q], "resume"},
             UNCHANGED <<lock, schedVars>>
      PROVE  Exclusive'
  <2>1. \A d \in CPU : cproc[d] # q
    BY <1>8, FreeOffCpu
  <2> QED
    BY <1>8, <1>p, <2>1 DEF schedVars, TypeOK, Exclusive,
       SwitchedHasProc, OffCpuResumes, OneCpuPerProc, StackNotFreed, SwtchHoldsLock
<1>9. ASSUME NEW c \in CPU, NEW q \in Proc,
             allocproc(c, q) \/ forkReady(c, q) \/ freeproc(c, q)
      PROVE  Exclusive'
  BY <1>8, <1>9 DEF allocproc, forkReady, freeproc, SetState, TypeOK
<1>10. ASSUME NEW c \in CPU, NEW q \in Proc, NEW prio \in PrioArgs,
              set_priority(c, q, prio)
       PROVE  Exclusive'
  BY <1>10 DEF set_priority, schedVars, Exclusive,
     SwitchedHasProc, OffCpuResumes, OneCpuPerProc, StackNotFreed, SwtchHoldsLock
<1>11. CASE UNCHANGED vars
  BY <1>11 DEF vars, procVars, schedVars, Exclusive,
     SwitchedHasProc, OffCpuResumes, OneCpuPerProc, StackNotFreed, SwtchHoldsLock
<1>12. ASSUME NEW q \in Proc, wakeup(q) PROVE Exclusive'
  BY <1>8, <1>12 DEF wakeup, SetState, TypeOK
<1> QED
  BY <1>1, <1>2, <1>3, <1>4, <1>5, <1>6, <1>7, <1>9, <1>10, <1>11, <1>12
  DEF Next, Scheduler, Process, yield, sleep, kexit

-----------------------------------------------------------------------------
(* A step that disturbs the one slot it changes and leaves the scheduler's
   position of every CPU alone keeps SteadyInv. *)
LEMMA DisturbKeepsSteady ==
  ASSUME TypeOK, SteadyInv, NEW q \in Proc, Disturb(q),
         \A r \in Proc \ {q} : state'[r] = state[r] /\ priority'[r] = priority[r],
         UNCHANGED <<idx, highest>>,
         \A c \in CPU : spc'[c] = spc[c] \/ spc[c] = "pass2"
  PROVE  SteadyInv'
<1> SUFFICES ASSUME NEW c \in CPU, NEW r \in steady'[c]
             PROVE  /\ state'[r] = "RUNNABLE"
                    /\ Accounted(c, r)' => highest'[c] <= priority'[r]
  BY DEF SteadyInv
<1>1. r \in steady[c] /\ r \in Proc \ {q}
  BY DEF Disturb, TypeOK
<1>2. Accounted(c, r)' => Accounted(c, r)
  BY DEF Accounted
<1> QED
  BY <1>1, <1>2 DEF SteadyInv

(* SteadyInv is inductive relative to the types. *)
LEMMA SteadyStep == TypeOK /\ TypeOK' /\ SteadyInv /\ [Next]_vars => SteadyInv'
<1> SUFFICES ASSUME TypeOK, TypeOK', SteadyInv, [Next]_vars PROVE SteadyInv'
  OBVIOUS
<1>1. ASSUME NEW c \in CPU, Top(c) PROVE SteadyInv'
  BY <1>1 DEF Top, procVars, TypeOK, SteadyInv, Accounted, Proc
<1>2. ASSUME NEW c \in CPU, Pass1(c) PROVE SteadyInv'
  <2> SUFFICES ASSUME NEW d \in CPU, NEW r \in steady[d]
               PROVE  Accounted(d, r)' => highest'[d] <= priority[r]
    BY <1>2 DEF Pass1, procVars, SteadyInv
  <2>1. CASE d # c
    BY <1>2, <2>1, NextSlotSpc DEF Pass1, TypeOK, SteadyInv, Accounted
  <2>2. CASE d = c
    <3> DEFINE h == highest[c]  p == idx[c]
    <3>1. /\ p \in 1..NPROC /\ r \in 1..NPROC
          /\ state[r] = "RUNNABLE"
          /\ priority[r] \in 0..19
          /\ p \in Proc
          /\ priority[p] \in 0..19
          /\ h \in 0..19 \cup {9999}
          /\ r < p => h <= priority[r]
      BY <1>2, <2>2 DEF Pass1, TypeOK, SteadyInv, Accounted, Proc, Priority, NoPriority
    <3>2. highest'[c] = BestOf(p, h)
      BY <1>2 DEF Pass1, TypeOK
    <3>3. Accounted(c, r)' => r <= p
      <4>1. CASE idx[c] < NPROC
        BY <1>2, <3>1, <4>1 DEF Pass1, NextSlot, Accounted, TypeOK
      <4>2. CASE ~(idx[c] < NPROC)
        BY <3>1, <4>2, NPROCAssumption
      <4> QED
        BY <4>1, <4>2
    <3>4. r <= p => BestOf(p, h) <= priority[r]
      <4>1. CASE r = p
        BY <3>1, <4>1 DEF BestOf
      <4>2. CASE r < p
        BY <3>1, <4>2 DEF BestOf
      <4> QED
        BY <3>1, <4>1, <4>2
    <3> QED
      BY <2>2, <3>2, <3>3, <3>4
  <2> QED
    BY <2>1, <2>2
<1>3. ASSUME NEW c \in CPU, Pass2Skip(c) PROVE SteadyInv'
  BY <1>3, NextSlotSpc DEF Pass2Skip, procVars, TypeOK, SteadyInv, Accounted
<1>4. ASSUME NEW c \in CPU, NEW q \in Proc, Dispatch(c, q) PROVE SteadyInv'
  BY <1>4, DisturbKeepsSteady DEF Dispatch, SetState, TypeOK
<1>5. ASSUME NEW c \in CPU, NEW q \in Proc, SwtchBack(c, q) PROVE SteadyInv'
  BY <1>5, NextSlotSpc DEF SwtchBack, TypeOK, SteadyInv, Accounted
<1>6. ASSUME NEW c \in CPU, NEW q \in Proc, Resume(c, q) PROVE SteadyInv'
  BY <1>6 DEF Resume, schedVars, SteadyInv, Accounted
<1>7. ASSUME NEW c \in CPU, NEW q \in Proc, NEW s, Leave(c, q, s) PROVE SteadyInv'
  BY <1>7, DisturbKeepsSteady DEF Leave, SetState, schedVars, TypeOK
<1>8. ASSUME NEW c \in CPU, NEW q \in Proc,
             allocproc(c, q) \/ forkReady(c, q) \/ freeproc(c, q)
      PROVE  SteadyInv'
  BY <1>8, DisturbKeepsSteady DEF allocproc, forkReady, freeproc, SetState,
                                  schedVars, TypeOK
<1>9. ASSUME NEW q \in Proc, wakeup(q) PROVE SteadyInv'
  BY <1>9, DisturbKeepsSteady DEF wakeup, SetState, schedVars, TypeOK
<1>10. ASSUME NEW c \in CPU, NEW q \in Proc, NEW prio \in PrioArgs,
              set_priority(c, q, prio)
       PROVE  SteadyInv'
  BY <1>10, DisturbKeepsSteady DEF set_priority, schedVars, TypeOK
<1>11. CASE UNCHANGED vars
  BY <1>11 DEF vars, procVars, schedVars, SteadyInv, Accounted
<1> QED
  BY <1>1, <1>2, <1>3, <1>4, <1>5, <1>6, <1>7, <1>8, <1>9, <1>10, <1>11
  DEF Next, Scheduler, Process, yield, sleep, kexit

-----------------------------------------------------------------------------
(* Inv holds in every reachable state. *)
THEOREM Invariant == Spec => []Inv
<1>1. Init => Exclusive /\ SteadyInv
  BY NPROCAssumption DEF Init, Exclusive, SteadyInv, SwitchedHasProc,
     OffCpuResumes, OneCpuPerProc, StackNotFreed, SwtchHoldsLock
<1>2. TypeOK /\ TypeOK' /\ Exclusive /\ SteadyInv /\ [Next]_vars
        => Exclusive' /\ SteadyInv'
  BY ExclusiveStep, SteadyStep
<1> QED
  BY <1>1, <1>2, TypeCorrect, PTL DEF Spec, Inv

(* No two CPUs ever execute on the kernel stack of one process, whatever the
   interleaving of their scheduler() loops, yields, sleeps and wakeups. *)
THEOREM StackExclusion == Spec => []OneCpuPerProc
<1>1. Inv => OneCpuPerProc
  BY DEF Inv, Exclusive
<1> QED
  BY <1>1, Invariant, PTL

(* A slot is not freed or reused while a CPU executes on its stack. *)
THEOREM StackSafe == Spec => []StackNotFreed
<1>1. Inv => StackNotFreed
  BY DEF Inv, Exclusive
<1> QED
  BY <1>1, Invariant, PTL

(* sched() never panics with "sched p->lock" or "sched RUNNING". *)
THEOREM SchedAssertions == Spec => []SwtchHoldsLock
<1>1. Inv => SwtchHoldsLock
  BY DEF Inv, Exclusive
<1> QED
  BY <1>1, Invariant, PTL

(* The two passes honour priorities for every process that was waiting when
   they began. *)
THEOREM PriorityHonoured == Spec => NoInversion
<1> DEFINE A == \A c \in CPU, p \in Proc : cproc[c] = NoProc /\ cproc'[c] = p =>
                  \A q \in steady[c] : priority[p] <= priority[q]
<1>1. Inv /\ [Next]_vars => [A]_vars
  <2> SUFFICES ASSUME Inv, Next, NEW c \in CPU, NEW p \in Proc,
                      cproc[c] = NoProc, cproc'[c] = p, NEW q \in steady[c]
               PROVE  priority[p] <= priority[q]
    BY DEF vars
  <2>0. p # NoProc
    BY NPROCAssumption DEF Proc, NoProc
  <2>1. Dispatch(c, p)
    <3>1. PICK d \in CPU, r \in Proc : Dispatch(d, r)
      BY <2>0 DEF Next, Scheduler, Process, Top, Pass1, Pass2Skip, SwtchBack,
        Resume, yield, sleep, kexit, Leave, allocproc, forkReady, freeproc,
        set_priority, wakeup, schedVars, Inv, TypeOK
    <3> QED
      BY <2>0, <3>1 DEF Dispatch, Inv, TypeOK
  <2>2. priority[p] = highest[c] /\ spc[c] = "pass2"
    BY <2>1 DEF Dispatch, Selected
  <2> QED
    BY <2>2 DEF Inv, SteadyInv, Accounted
<1> QED
  BY <1>1, Invariant, PTL DEF Spec, NoInversion

-----------------------------------------------------------------------------
(* A step that changes no c->proc, and the state of no process that a CPU
   has, leaves the assignment of CPUs alone. *)
LEMMA AssignedUnchanged ==
  ASSUME TypeOK, UNCHANGED cproc,
         \A c \in CPU : cproc[c] # NoProc => state'[cproc[c]] = state[cproc[c]]
  PROVE  UNCHANGED Assigned
BY DEF Assigned, TypeOK

(* The scheduler assigns CPUs as CpuAssign promises. *)
THEOREM Refinement == Spec => ImplementsCpuAssign
<1> USE DEF CA!vars
<1>1. Init => CA!Init
  BY DEF Init, CA!Init, Assigned
<1>2. Inv /\ Inv' /\ [Next]_vars => [CA!Next]_CA!vars
  <2> SUFFICES ASSUME Inv, Inv', [Next]_vars PROVE [CA!Next]_CA!vars
    OBVIOUS
  <2> USE DEF Inv
  <2>p. NoProc \notin Proc
    BY NPROCAssumption DEF NoProc, Proc
  <2>1. ASSUME NEW c \in CPU, Top(c) \/ Pass1(c) \/ Pass2Skip(c)
        PROVE  UNCHANGED CA!vars
    BY <2>1, AssignedUnchanged DEF Top, Pass1, Pass2Skip, procVars
  <2>2. ASSUME NEW c \in CPU, NEW q \in Proc, Dispatch(c, q) PROVE CA!Run(c, q)
    <3>1. \A d \in CPU : cproc[d] # q
      BY <2>2, FreeOffCpu DEF Dispatch, Selected
    <3>2. cproc[c] = NoProc
      BY <2>2 DEF Dispatch, Exclusive, SwitchedHasProc
    <3>3. Assigned' = [Assigned EXCEPT ![c] = q]
      BY <2>2, <2>p, <3>1, <3>2 DEF Dispatch, SetState, Assigned, TypeOK
    <3> QED
      BY <2>2, <3>2, <3>3 DEF Dispatch, Selected, SetState, Assigned, CA!Run
  <2>3. ASSUME NEW c \in CPU, NEW q \in Proc, SwtchBack(c, q)
        PROVE  UNCHANGED CA!vars
    <3>1. state[q] # "RUNNING"
      BY <2>3, <2>p DEF SwtchBack, Exclusive, SwtchHoldsLock
    <3>2. UNCHANGED Assigned
      BY <2>3, <3>1 DEF SwtchBack, Assigned, TypeOK
    <3> QED
      BY <2>3, <3>2 DEF SwtchBack
  <2>4. ASSUME NEW c \in CPU, NEW q \in Proc, Resume(c, q)
        PROVE  UNCHANGED CA!vars
    BY <2>4, AssignedUnchanged DEF Resume, schedVars
  <2>5. ASSUME NEW c \in CPU, NEW q \in Proc,
               NEW s \in {"RUNNABLE", "SLEEPING", "ZOMBIE"}, Leave(c, q, s)
        PROVE  CA!Stop(c)
    <3>1. state[q] = "RUNNING" /\ cproc[c] = q
      BY <2>5, <2>p DEF Leave, Executing, Exclusive, SwtchHoldsLock
    <3>2. \A d \in CPU \ {c} : cproc[d] # q
      BY <3>1, <2>p DEF Exclusive, OneCpuPerProc
    <3>3. state'[q] = s /\ s # "RUNNING" /\ UNCHANGED cproc
      BY <2>5 DEF Leave, SetState, schedVars, TypeOK
    <3>4. Assigned' = [Assigned EXCEPT ![c] = NoProc]
      <4>1. Assigned'[c] = NoProc
        BY <3>1, <3>3 DEF Assigned
      <4>2. ASSUME NEW d \in CPU \ {c} PROVE Assigned'[d] = Assigned[d]
        <5>1. cproc[d] # NoProc => state'[cproc[d]] = state[cproc[d]]
          BY <2>5, <3>2 DEF Leave, SetState, TypeOK
        <5> QED
          BY <3>3, <5>1 DEF Assigned
      <4> QED
        BY <4>1, <4>2 DEF Assigned
    <3>5. Assigned[c] = q
      BY <2>p, <3>1 DEF Assigned
    <3> QED
      BY <2>5, <2>p, <3>4, <3>5 DEF Leave, SetState, CA!Stop
  <2>6. ASSUME NEW q \in Proc, NEW s, lock[q] = Free, state[q] # "RUNNING",
               state' = [state EXCEPT ![q] = s], UNCHANGED schedVars,
               state[q] = s \/ <<state[q], s>> \in CA!Moves
        PROVE  [CA!Next]_CA!vars
    <3>1. \A d \in CPU : cproc[d] # q
      BY <2>6, FreeOffCpu
    <3>2. UNCHANGED Assigned
      BY <2>6, <3>1, AssignedUnchanged DEF schedVars, TypeOK
    <3>3. CASE state[q] = s
      BY <2>6, <3>2, <3>3 DEF TypeOK
    <3>4. CASE <<state[q], s>> \in CA!Moves
      <4>1. CA!Move(q)
        BY <2>6, <3>2, <3>4 DEF CA!Move, CA!Moves
      <4> QED
        BY <4>1 DEF CA!Next
    <3> QED
      BY <2>6, <3>3, <3>4
  <2>7. ASSUME NEW c \in CPU, NEW q \in Proc, allocproc(c, q)
        PROVE  [CA!Next]_CA!vars
    <3>1. PICK s \in {"USED", "UNUSED"} : state' = [state EXCEPT ![q] = s]
      BY <2>7 DEF allocproc, SetState
    <3> QED
      BY <2>6, <2>7, <3>1 DEF allocproc, CA!Moves
  <2>8. ASSUME NEW c \in CPU, NEW q \in Proc, forkReady(c, q) \/ freeproc(c, q)
        PROVE  [CA!Next]_CA!vars
    BY <2>6, <2>8 DEF forkReady, freeproc, SetState, CA!Moves
  <2>9. ASSUME NEW q \in Proc, wakeup(q) PROVE [CA!Next]_CA!vars
    BY <2>6, <2>9 DEF wakeup, SetState, CA!Moves
  <2>10. ASSUME NEW c \in CPU, NEW q \in Proc, NEW prio \in PrioArgs,
                set_priority(c, q, prio)
         PROVE  UNCHANGED CA!vars
    BY <2>10, AssignedUnchanged DEF set_priority, schedVars
  <2>11. CASE UNCHANGED vars
    BY <2>11, AssignedUnchanged DEF vars, procVars, schedVars
  <2> QED
    BY <2>1, <2>2, <2>3, <2>4, <2>5, <2>7, <2>8, <2>9, <2>10, <2>11
    DEF Next, Scheduler, Process, yield, sleep, kexit, CA!Next
<1> QED
  BY <1>1, <1>2, Invariant, PTL DEF Spec, ImplementsCpuAssign, CA!Spec
=============================================================================
