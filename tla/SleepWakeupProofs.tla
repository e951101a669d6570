------------------------- MODULE SleepWakeupProofs -------------------------
(***************************************************************************)
(* Proofs about SleepWakeup for any number of processes and any width of   *)
(* ticks.                                                                  *)
(***************************************************************************)
EXTENDS SleepWakeup, TLAPS

(* Who holds p->lock: only sleep() keeps it from one step to the next. *)
LockInv ==
  \A p \in Proc : lock[p] = IF pc[p] \in {"locked", "released"} THEN p ELSE Free

(* Who holds tickslock. *)
TickslockInv ==
  /\ tickslock = Clock <=> cpc # "idle"
  /\ \A p \in Proc : tickslock = p <=> pc[p] \in {"test", "sleep", "locked"}

(* p->state and p->chan follow the position in sleep(). *)
StateInv ==
  \A p \in Proc :
    /\ pc[p] = "asleep" => state[p] \in {"SLEEPING", "RUNNABLE"}
    /\ pc[p] # "asleep" => state[p] \in {"RUNNING", "ZOMBIE"}
    /\ chan[p] = TicksChan <=> pc[p] = "asleep"

(* From the test of the loop until it is woken, a process that goes to sleep
   either still has to wait, or will be visited by the wakeup() in progress. *)
GoingToSleep(p) == pc[p] \in {"sleep", "locked", "released"} \/ state[p] = "SLEEPING"

FreshInv ==
  \A p \in Proc : GoingToSleep(p) => Elapsed(p) < n[p] \/ Pending(p)

Inv == TypeOK /\ LockInv /\ TickslockInv /\ StateInv /\ FreshInv

-----------------------------------------------------------------------------
(* Types are preserved: ticks wraps, n is never negative. *)
THEOREM TypeCorrect == Spec => []TypeOK
<1> USE NPROCAssumption, TickAssumption, ArgsAssumption
<1>1. Init => TypeOK
  BY DEF Init, TypeOK, Proc, NoChan
<1>2. TypeOK /\ [Next]_vars => TypeOK'
  <2> SUFFICES ASSUME TypeOK, [Next]_vars PROVE TypeOK'
    OBVIOUS
  <2> USE DEF TypeOK
  <2>1. ASSUME NEW p \in Proc, Pausing(p) PROVE TypeOK'
    BY <2>1 DEF Pausing, Enter, Return, CallSleep, SleepLock, SleepRelease,
      SleepSwtch, Dispatch, Reacquire, Goto, clockVars, procVars, pauseVars
  <2>2. ASSUME NEW p \in Proc, NEW arg \in PauseArgs, sys_pause(p, arg)
        PROVE  TypeOK'
    BY <2>2 DEF sys_pause, Goto, clockVars, procVars
  <2>3. CASE ClockAcquire \/ ClockRelease
    BY <2>3 DEF ClockAcquire, ClockRelease, procVars, pauseVars
  <2>4. CASE ClockTick
    <3>1. (ticks + 1) % TickMod \in 0..(TickMod - 1)
      OBVIOUS
    <3> QED
      BY <2>4, <3>1 DEF ClockTick, NextTick, procVars, pauseVars, Proc
  <2>5. CASE ClockWakeup
    <3>1. widx \in Proc /\ widx + 1 \in 1..(NPROC + 1)
      BY <2>5 DEF ClockWakeup, MoreSlots, Proc
    <3> QED
      BY <2>5, <3>1 DEF ClockWakeup, Wakeup, pauseVars
  <2>6. ASSUME NEW p \in Proc, NEW q \in Proc, kkill(p, q) PROVE TypeOK'
    BY <2>6 DEF kkill, clockVars, pauseVars
  <2>7. ASSUME NEW p \in Proc, UsertrapExit(p) PROVE TypeOK'
    BY <2>7 DEF UsertrapExit, Goto, clockVars, pauseVars
  <2>8. CASE UNCHANGED vars
    BY <2>8 DEF vars, clockVars, procVars, pauseVars
  <2> QED
    BY <2>1, <2>2, <2>3, <2>4, <2>5, <2>6, <2>7, <2>8 DEF Next, clockintr
<1> QED
  BY <1>1, <1>2, PTL DEF Spec

-----------------------------------------------------------------------------
(* Locks and process states. *)
LEMMA LocksStep ==
  TypeOK /\ LockInv /\ TickslockInv /\ StateInv /\ [Next]_vars
    => LockInv' /\ TickslockInv' /\ StateInv'
<1> SUFFICES ASSUME TypeOK, LockInv, TickslockInv, StateInv, [Next]_vars
             PROVE  LockInv' /\ TickslockInv' /\ StateInv'
  OBVIOUS
<1>o. \A p \in Proc : p # Clock /\ p # Free
  BY OwnerAssumption, NPROCAssumption DEF Proc
<1>c. Clock # Free /\ NoChan # TicksChan
  BY OwnerAssumption DEF NoChan, TicksChan
<1> USE DEF TypeOK, LockInv, TickslockInv, StateInv
<1>1. ASSUME NEW p \in Proc, Enter(p) \/ Reacquire(p) \/ Return(p) \/ SleepRelease(p)
      PROVE  LockInv' /\ TickslockInv' /\ StateInv'
  BY <1>1, <1>o, <1>c DEF Enter, Reacquire, Return, SleepRelease, Goto,
     clockVars, procVars
<1>2. ASSUME NEW p \in Proc, CallSleep(p) \/ SleepLock(p)
      PROVE  LockInv' /\ TickslockInv' /\ StateInv'
  BY <1>2, <1>o, <1>c DEF CallSleep, SleepLock, Goto, clockVars, procVars
<1>3. ASSUME NEW p \in Proc, SleepSwtch(p) \/ Dispatch(p)
      PROVE  LockInv' /\ TickslockInv' /\ StateInv'
  BY <1>3, <1>o, <1>c DEF SleepSwtch, Dispatch, Goto, clockVars
<1>4. ASSUME NEW p \in Proc, NEW arg \in PauseArgs, sys_pause(p, arg)
      PROVE  LockInv' /\ TickslockInv' /\ StateInv'
  BY <1>4 DEF sys_pause, Goto, clockVars, procVars
<1>5. CASE ClockAcquire \/ ClockTick \/ ClockRelease
  BY <1>5, <1>o, <1>c DEF ClockAcquire, ClockTick, ClockRelease, procVars
<1>6. CASE ClockWakeup
  BY <1>6, NPROCAssumption DEF ClockWakeup, Wakeup, MoreSlots, Proc
<1>7. ASSUME NEW p \in Proc, NEW q \in Proc, kkill(p, q)
      PROVE  LockInv' /\ TickslockInv' /\ StateInv'
  BY <1>7 DEF kkill, clockVars
<1>8. ASSUME NEW p \in Proc, UsertrapExit(p)
      PROVE  LockInv' /\ TickslockInv' /\ StateInv'
  BY <1>8 DEF UsertrapExit, Goto, clockVars
<1>9. CASE UNCHANGED vars
  BY <1>9 DEF vars, clockVars, procVars
<1> QED
  BY <1>1, <1>2, <1>3, <1>4, <1>5, <1>6, <1>7, <1>8, <1>9
  DEF Next, Pausing, clockintr

(* FreshInv: no process goes to sleep on an old value of ticks. *)
LEMMA FreshStep == Inv /\ [Next]_vars => FreshInv'
<1> SUFFICES ASSUME Inv, [Next]_vars, NEW r \in Proc, GoingToSleep(r)'
             PROVE  (Elapsed(r) < n[r] \/ Pending(r))'
  BY DEF FreshInv
<1>o. \A p \in Proc : p # Clock /\ p # Free
  BY OwnerAssumption, NPROCAssumption DEF Proc
<1>k. ASSUME GoingToSleep(r), UNCHANGED <<ticks, cpc, widx>>,
             n'[r] = n[r], ticks0'[r] = ticks0[r]
      PROVE  (Elapsed(r) < n[r] \/ Pending(r))'
  BY <1>k DEF Inv, FreshInv, Elapsed, Pending
<1>1. ASSUME NEW p \in Proc, Enter(p) \/ Return(p) \/ SleepRelease(p) \/ Reacquire(p)
      PROVE  (Elapsed(r) < n[r] \/ Pending(r))'
  BY <1>1, <1>k DEF Enter, Return, SleepRelease, Reacquire, Goto, GoingToSleep,
     clockVars, procVars, pauseVars, Inv, TypeOK, StateInv
<1>2. ASSUME NEW p \in Proc, CallSleep(p) PROVE (Elapsed(r) < n[r] \/ Pending(r))'
  <2>1. CASE r = p
    BY <1>2, <2>1 DEF CallSleep, clockVars, pauseVars, Elapsed
  <2>2. CASE r # p
    BY <1>2, <2>2, <1>k DEF CallSleep, Goto, GoingToSleep, clockVars, procVars,
       pauseVars, Inv, TypeOK
  <2> QED
    BY <2>1, <2>2
<1>3. ASSUME NEW p \in Proc, SleepLock(p) \/ SleepSwtch(p) \/ Dispatch(p)
      PROVE  (Elapsed(r) < n[r] \/ Pending(r))'
  BY <1>3, <1>k DEF SleepLock, SleepSwtch, Dispatch, Goto, GoingToSleep,
     clockVars, pauseVars, Inv, TypeOK
<1>4. ASSUME NEW p \in Proc, NEW arg \in PauseArgs, sys_pause(p, arg)
      PROVE  (Elapsed(r) < n[r] \/ Pending(r))'
  BY <1>4, <1>k DEF sys_pause, Goto, GoingToSleep, clockVars, procVars, Inv,
     TypeOK, StateInv
<1>5. CASE ClockAcquire
  <2>1. cpc = "idle" /\ GoingToSleep(r)
    BY <1>5 DEF ClockAcquire, GoingToSleep, procVars
  <2>2. Elapsed(r) < n[r]
    BY <2>1 DEF Inv, FreshInv, Pending
  <2> QED
    BY <1>5, <2>2 DEF ClockAcquire, Elapsed, pauseVars
<1>6. CASE ClockTick
  BY <1>6, NPROCAssumption DEF ClockTick, Pending, Proc
<1>7. CASE ClockWakeup
  <2>1. widx \in Proc /\ GoingToSleep(r)
    BY <1>7 DEF ClockWakeup, Wakeup, MoreSlots, GoingToSleep, Proc, Inv, TypeOK
  <2>2. tickslock = Clock /\ lock[widx] = Free
    BY <1>7 DEF ClockWakeup, Wakeup, Inv, TickslockInv
  <2>3. r # widx
    <3> SUFFICES ASSUME r = widx PROVE FALSE
      OBVIOUS
    <3>1. pc[r] \notin {"sleep", "locked", "released"}
      BY <2>1, <2>2, <1>o DEF Inv, TickslockInv, LockInv
    <3>2. state[r] = "SLEEPING" /\ chan[r] = TicksChan
      BY <2>1, <3>1 DEF GoingToSleep, Inv, StateInv
    <3>3. state'[r] = "RUNNABLE"
      BY <1>7, <3>2 DEF ClockWakeup, Wakeup, Inv, TypeOK
    <3> QED
      BY <1>7, <3>1, <3>3 DEF ClockWakeup, GoingToSleep
  <2>4. Elapsed(r) < n[r] \/ Pending(r)
    BY <2>1 DEF Inv, FreshInv
  <2> QED
    BY <1>7, <2>1, <2>3, <2>4, NPROCAssumption
    DEF ClockWakeup, Elapsed, Pending, pauseVars, Proc, Inv, TypeOK
<1>8. CASE ClockRelease
  <2>1. GoingToSleep(r) /\ ~Pending(r)
    BY <1>8, NPROCAssumption
    DEF ClockRelease, MoreSlots, GoingToSleep, Pending, procVars, Proc, Inv, TypeOK
  <2>2. Elapsed(r) < n[r]
    BY <2>1 DEF Inv, FreshInv
  <2> QED
    BY <1>8, <2>2 DEF ClockRelease, Elapsed, pauseVars
<1>9. ASSUME NEW p \in Proc, NEW q \in Proc, kkill(p, q)
      PROVE  (Elapsed(r) < n[r] \/ Pending(r))'
  BY <1>9, <1>k DEF kkill, GoingToSleep, clockVars, pauseVars, Inv, TypeOK
<1>10. ASSUME NEW p \in Proc, UsertrapExit(p)
       PROVE  (Elapsed(r) < n[r] \/ Pending(r))'
  BY <1>10, <1>k DEF UsertrapExit, Goto, GoingToSleep, clockVars, pauseVars,
     Inv, TypeOK
<1>11. CASE UNCHANGED vars
  BY <1>11, <1>k DEF vars, clockVars, procVars, pauseVars, GoingToSleep
<1> QED
  BY <1>1, <1>2, <1>3, <1>4, <1>5, <1>6, <1>7, <1>8, <1>9, <1>10, <1>11
  DEF Next, Pausing, clockintr

(* Inv holds in every reachable state. *)
THEOREM Invariant == Spec => []Inv
<1>1. Init => LockInv /\ TickslockInv /\ StateInv /\ FreshInv
  BY OwnerAssumption, NPROCAssumption DEF Init, LockInv, TickslockInv, StateInv,
     FreshInv, GoingToSleep, NoChan, TicksChan, Proc
<1>2. Inv /\ TypeOK' /\ [Next]_vars => Inv'
  BY LocksStep, FreshStep DEF Inv
<1> QED
  BY <1>1, <1>2, TypeCorrect, PTL DEF Spec, Inv

(* The unsigned difference of sys_pause()'s loop condition is the number of
   ticks gone by, with at most one wrap around. *)
LEMMA WrappedDifference ==
  ASSUME NEW a \in 0..(TickMod - 1), NEW b \in 0..(TickMod - 1)
  PROVE  (a - b) % TickMod = IF a >= b THEN a - b ELSE TickMod - b + a
<1> USE TickAssumption
<1>1. CASE a >= b
  BY <1>1
<1>2. CASE a < b
  <2>1. (a - b) % TickMod \in 0..(TickMod - 1)
    OBVIOUS
  <2> QED
    BY <1>2, <2>1
<1> QED
  BY <1>1, <1>2

(* A process asleep in sys_pause() after its time is over will be visited by
   the wakeup() in progress: no interleaving of sleep() with clockintr(),
   kkill() and other sleepers loses a wakeup. *)
THEOREM WakeupNotLost == Spec => []NoLostWakeup
<1>1. Inv => NoLostWakeup
  <2> SUFFICES ASSUME Inv, NEW p \in Proc, state[p] = "SLEEPING", Due(p)
               PROVE  Pending(p)
    BY DEF NoLostWakeup
  <2>1. /\ ticks \in 0..(TickMod - 1) /\ ticks0[p] \in 0..(TickMod - 1)
        /\ n[p] \in Nat
    BY DEF Inv, TypeOK
  <2>2. Elapsed(p) = IF ticks >= ticks0[p] THEN ticks - ticks0[p]
                     ELSE TickMod - ticks0[p] + ticks
    BY <2>1, WrappedDifference DEF Elapsed
  <2>3. ~(Elapsed(p) < n[p])
    BY <2>1, <2>2, TickAssumption DEF Due
  <2> QED
    BY <2>3 DEF Inv, FreshInv, GoingToSleep
<1> QED
  BY <1>1, Invariant, PTL

-----------------------------------------------------------------------------
(* sleep(), wakeup() and kkill() implement the condition variable. *)
THEOREM Refinement == Spec => ImplementsCondVar
<1> USE DEF CV!vars
<1>1. Init => CV!Init
  BY DEF Init, CV!Init, Waiting
<1>2. Inv /\ Inv' /\ [Next]_vars => [CV!Next]_CV!vars
  <2> SUFFICES ASSUME Inv, Inv', [Next]_vars PROVE [CV!Next]_CV!vars
    OBVIOUS
  <2>o. \A p \in Proc : p # Clock /\ p # Free
    BY OwnerAssumption, NPROCAssumption DEF Proc
  <2>k. ASSUME UNCHANGED <<cpc, widx>>,
               \A r \in Proc : \/ pc'[r] = pc[r] /\ state'[r] = state[r]
                               \/ /\ pc[r] # "released" /\ pc'[r] # "released"
                                  /\ state[r] # "SLEEPING" /\ state'[r] # "SLEEPING"
        PROVE  UNCHANGED Waiting
    BY <2>k DEF Waiting, Pending
  <2>1. ASSUME NEW p \in Proc, Enter(p) \/ Reacquire(p) PROVE CV!Acquire(p)
    <3>1. UNCHANGED Waiting
      BY <2>1, <2>k DEF Enter, Reacquire, Goto, clockVars, procVars, Inv, TypeOK,
         StateInv
    <3> QED
      BY <2>1, <3>1 DEF Enter, Reacquire, Goto, Waiting, CV!Acquire
  <2>2. ASSUME NEW p \in Proc, Return(p) PROVE CV!Release(p)
    <3>1. UNCHANGED Waiting
      BY <2>2, <2>k DEF Return, Goto, clockVars, procVars, Inv, TypeOK, StateInv
    <3> QED
      BY <2>2, <3>1 DEF Return, Goto, Inv, TickslockInv, CV!Release
  <2>3. ASSUME NEW p \in Proc, CallSleep(p) \/ SleepLock(p) PROVE UNCHANGED CV!vars
    BY <2>3, <2>k DEF CallSleep, SleepLock, Goto, clockVars, procVars, Inv,
       TypeOK, StateInv
  <2>4. ASSUME NEW p \in Proc, SleepRelease(p) PROVE CV!Wait(p)
    <3>1. tickslock = p /\ cpc = "idle"
      BY <2>4, <2>o DEF SleepRelease, Goto, Inv, TickslockInv, TypeOK
    <3>2. Waiting' = Waiting \cup {p}
      BY <2>4, <3>1 DEF SleepRelease, Goto, clockVars, procVars, Waiting, Pending,
         Inv, TypeOK
    <3> QED
      BY <2>4, <3>1, <3>2 DEF SleepRelease, CV!Wait
  <2>5. ASSUME NEW p \in Proc, SleepSwtch(p) PROVE UNCHANGED CV!vars
    BY <2>5 DEF SleepSwtch, Goto, clockVars, Waiting, Pending, Inv, TypeOK
  <2>6. ASSUME NEW p \in Proc, Dispatch(p) PROVE UNCHANGED CV!vars
    BY <2>6, <2>k DEF Dispatch, Goto, clockVars, Inv, TypeOK
  <2>7. ASSUME NEW p \in Proc, NEW arg \in PauseArgs, sys_pause(p, arg)
        PROVE  UNCHANGED CV!vars
    BY <2>7, <2>k DEF sys_pause, Goto, clockVars, procVars, Inv, TypeOK, StateInv
  <2>8. CASE ClockAcquire
    <3>1. UNCHANGED Waiting
      BY <2>8 DEF ClockAcquire, procVars, Waiting, Pending
    <3> QED
      BY <2>8, <2>o, <3>1, OwnerAssumption DEF ClockAcquire, Waiting, CV!Next,
         CV!Acquire
  <2>9. CASE ClockTick
    <3>1. Waiting' = {}
      BY <2>9, NPROCAssumption DEF ClockTick, Waiting, Pending, Proc
    <3> QED
      BY <2>9, <3>1 DEF ClockTick, Inv, TickslockInv, CV!Next, CV!Broadcast
  <2>10. CASE ClockWakeup
    <3>1. widx \in Proc /\ pc[widx] # "released"
      BY <2>10, <2>o DEF ClockWakeup, Wakeup, MoreSlots, Proc, Inv, TypeOK, LockInv
    <3>2. /\ ~(pc[widx] = "asleep" /\ state'[widx] = "SLEEPING")
          /\ \A r \in Proc \ {widx} : state'[r] = state[r]
      BY <2>10, <3>1 DEF ClockWakeup, Wakeup, Inv, StateInv, TypeOK
    <3>3. \A r \in Proc : Pending(r)' <=> Pending(r) /\ r # widx
      BY <2>10, NPROCAssumption DEF ClockWakeup, Pending, Proc, Inv, TypeOK
    <3>4. Pending(widx)
      BY <2>10, <3>1 DEF ClockWakeup, Pending, Proc
    <3>5. UNCHANGED Waiting
      BY <2>10, <3>1, <3>2, <3>3, <3>4 DEF ClockWakeup, Waiting
    <3> QED
      BY <2>10, <3>5 DEF ClockWakeup
  <2>11. CASE ClockRelease
    <3>1. \A r \in Proc : ~Pending(r) /\ ~Pending(r)'
      BY <2>11, NPROCAssumption DEF ClockRelease, MoreSlots, Pending, Proc, Inv, TypeOK
    <3>2. UNCHANGED Waiting
      BY <2>11, <3>1 DEF ClockRelease, procVars, Waiting
    <3> QED
      BY <2>11, <3>2 DEF ClockRelease, Inv, TickslockInv, CV!Next, CV!Release
  <2>12. ASSUME NEW p \in Proc, NEW q \in Proc, kkill(p, q)
         PROVE  [CV!Next]_CV!vars
    <3>1. /\ pc[q] # "released" /\ UNCHANGED <<cpc, widx, pc, tickslock>>
          /\ \A r \in Proc \ {q} : state'[r] = state[r]
          /\ state'[q] # "SLEEPING"
      BY <2>12, <2>o DEF kkill, clockVars, Inv, LockInv, TypeOK
    <3>2. Waiting' = Waiting \ {q}
      BY <3>1 DEF Waiting, Pending
    <3>3. CASE q \in Waiting
      BY <3>1, <3>2, <3>3 DEF CV!Next, CV!Interrupt
    <3>4. CASE q \notin Waiting
      BY <3>1, <3>2, <3>4
    <3> QED
      BY <3>3, <3>4
  <2>13. ASSUME NEW p \in Proc, UsertrapExit(p) PROVE UNCHANGED CV!vars
    BY <2>13, <2>k DEF UsertrapExit, Goto, clockVars, Inv, TypeOK, StateInv
  <2>14. CASE UNCHANGED vars
    BY <2>14 DEF vars, clockVars, procVars, Waiting, Pending
  <2> QED
    BY <2>1, <2>2, <2>3, <2>4, <2>5, <2>6, <2>7, <2>8, <2>9, <2>10, <2>11,
       <2>12, <2>13, <2>14 DEF Next, Pausing, clockintr, CV!Next
<1> QED
  BY <1>1, <1>2, Invariant, PTL DEF Spec, ImplementsCondVar, CV!Spec
=============================================================================
