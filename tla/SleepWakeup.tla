---------------------------- MODULE SleepWakeup ----------------------------
(***************************************************************************)
(* sleep(), wakeup() and kkill() of kernel/proc.c with their client in the *)
(* kernel that is exposed to every interleaving: sys_pause() sleeps on     *)
(* &ticks under tickslock, and the clock interrupt of CPU 0 advances ticks *)
(* and wakes the sleepers.                                                 *)
(*                                                                         *)
(* Every acquire and release of tickslock and, inside sleep(), of p->lock  *)
(* is a step of its own.  The other critical sections of p->lock (one slot *)
(* of wakeup(), kkill(), killed(), a dispatch) are one step.  Dispatch is  *)
(* the scheduler as CpuAssign promises it; a preempted process just takes  *)
(* no step.                                                                *)
(***************************************************************************)
EXTENDS Integers

CONSTANTS NPROC,      \* slots of proc[]
          TickMod,    \* ticks is an unsigned integer modulo this (2^32)
          PauseArgs,  \* arguments of pause()
          Clock,      \* the clock interrupt, as owner of tickslock
          Free        \* owner of a lock that nobody holds

ASSUME NPROCAssumption == NPROC \in Nat \ {0}
ASSUME TickAssumption == TickMod \in Nat \ {0}
ASSUME ArgsAssumption == PauseArgs \subseteq Int
ASSUME OwnerAssumption == /\ Clock \notin Int /\ Free \notin Int
                          /\ Clock # Free

Proc == 1..NPROC
NoChan == "none"
TicksChan == "ticks"

VARIABLES
  ticks,      \* ticks
  tickslock,  \* owner of tickslock
  cpc,        \* clockintr(): "idle", "locked", "wakeup"
  widx,       \* clockintr(): the slot that wakeup() visits next
  state,      \* p->state
  chan,       \* p->chan
  killed,     \* p->killed
  lock,       \* owner of p->lock
  pc,         \* p's position in sys_pause() and sleep()
  n,          \* sys_pause(): n
  ticks0      \* sys_pause(): ticks0

clockVars == <<ticks, cpc, widx>>
procVars  == <<state, chan, killed, lock>>
pauseVars == <<n, ticks0>>
vars == <<clockVars, tickslock, procVars, pc, pauseVars>>

Init ==
  /\ ticks = 0
  /\ tickslock = Free
  /\ cpc = "idle"
  /\ widx = 1
  /\ state = [p \in Proc |-> "RUNNING"]
  /\ chan = [p \in Proc |-> NoChan]
  /\ killed = [p \in Proc |-> FALSE]
  /\ lock = [p \in Proc |-> Free]
  /\ pc = [p \in Proc |-> "user"]
  /\ n = [p \in Proc |-> 0]
  /\ ticks0 = [p \in Proc |-> 0]

Goto(p, from, to) == pc[p] = from /\ pc' = [pc EXCEPT ![p] = to]

-----------------------------------------------------------------------------
(* sys_pause() *)

(* The system call trap: a killed process does not get into syscall(). *)
sys_pause(p, arg) ==
  /\ Goto(p, "user", "enter")
  /\ ~killed[p]
  /\ n' = [n EXCEPT ![p] = IF arg < 0 THEN 0 ELSE arg]
  /\ UNCHANGED <<clockVars, tickslock, procVars, ticks0>>

Enter(p) ==
  /\ Goto(p, "enter", "test")
  /\ tickslock = Free
  /\ tickslock' = p
  /\ ticks0' = [ticks0 EXCEPT ![p] = ticks]
  /\ UNCHANGED <<clockVars, procVars, n>>

ElapsedSigned(p) == ticks - ticks0[p]

(* ticks - ticks0 in unsigned arithmetic *)
Elapsed(p) == (ticks - ticks0[p]) % TickMod

(* The loop ends: the time is over, or the process was killed. *)
Return(p) ==
  /\ Goto(p, "test", "user")
  /\ \/ Elapsed(p) >= n[p]
     \/ killed[p] /\ lock[p] = Free
  /\ tickslock' = Free
  /\ UNCHANGED <<clockVars, procVars, pauseVars>>

(* The loop goes on: killed() was false, call sleep(). *)
CallSleep(p) ==
  /\ Goto(p, "test", "sleep")
  /\ Elapsed(p) < n[p]
  /\ lock[p] = Free /\ ~killed[p]
  /\ UNCHANGED <<clockVars, tickslock, procVars, pauseVars>>

-----------------------------------------------------------------------------
(* sleep(&ticks, &tickslock) *)

SleepLockSkipped(p) ==
  /\ Goto(p, "sleep", "locked")
  /\ UNCHANGED <<clockVars, tickslock, procVars, pauseVars>>

(* acquire(&p->lock) *)
SleepLock(p) ==
  /\ Goto(p, "sleep", "locked")
  /\ lock[p] = Free
  /\ lock' = [lock EXCEPT ![p] = p]
  /\ UNCHANGED <<clockVars, tickslock, state, chan, killed, pauseVars>>

(* release(lk) *)
SleepRelease(p) ==
  /\ Goto(p, "locked", "released")
  /\ tickslock' = Free
  /\ UNCHANGED <<clockVars, procVars, pauseVars>>

(* Go to sleep; the scheduler that sched() switches to releases p->lock. *)
SleepSwtch(p) ==
  /\ Goto(p, "released", "asleep")
  /\ chan' = [chan EXCEPT ![p] = TicksChan]
  /\ state' = [state EXCEPT ![p] = "SLEEPING"]
  /\ lock' = [lock EXCEPT ![p] = Free]
  /\ UNCHANGED <<clockVars, tickslock, killed, pauseVars>>

(* A scheduler runs the process, which tidies up and releases p->lock. *)
Dispatch(p) ==
  /\ Goto(p, "asleep", "awake")
  /\ lock[p] = Free
  /\ state[p] = "RUNNABLE"
  /\ state' = [state EXCEPT ![p] = "RUNNING"]
  /\ chan' = [chan EXCEPT ![p] = NoChan]
  /\ UNCHANGED <<clockVars, tickslock, killed, lock, pauseVars>>

(* acquire(lk) *)
Reacquire(p) ==
  /\ Goto(p, "awake", "test")
  /\ tickslock = Free
  /\ tickslock' = p
  /\ UNCHANGED <<clockVars, procVars, pauseVars>>

-----------------------------------------------------------------------------
(* clockintr() on CPU 0 *)

ClockAcquire ==
  /\ cpc = "idle"
  /\ tickslock = Free
  /\ tickslock' = Clock
  /\ cpc' = "locked"
  /\ UNCHANGED <<ticks, widx, procVars, pc, pauseVars>>

NextTickUnwrapped(t) == t + 1

NextTick(t) == (t + 1) % TickMod

ClockTick ==
  /\ cpc = "locked"
  /\ ticks' = NextTick(ticks)
  /\ cpc' = "wakeup"
  /\ widx' = 1
  /\ UNCHANGED <<tickslock, procVars, pc, pauseVars>>

WakeupNoLock(q) ==
  state' = [state EXCEPT ![q] =
              IF @ = "SLEEPING" /\ chan[q] = TicksChan THEN "RUNNABLE" ELSE @]

(* One slot of wakeup(&ticks).  The process that the clock interrupted is
   skipped by the code; it is RUNNING, so a visit would not change it. *)
Wakeup(q) ==
  /\ lock[q] = Free
  /\ state' = [state EXCEPT ![q] =
                 IF @ = "SLEEPING" /\ chan[q] = TicksChan THEN "RUNNABLE" ELSE @]

MoreSlotsShort == widx < NPROC

MoreSlots == widx <= NPROC

ClockWakeup ==
  /\ cpc = "wakeup"
  /\ MoreSlots
  /\ Wakeup(widx)
  /\ widx' = widx + 1
  /\ UNCHANGED <<ticks, cpc, tickslock, chan, killed, lock, pc, pauseVars>>

ClockRelease ==
  /\ cpc = "wakeup"
  /\ ~MoreSlots
  /\ cpc' = "idle"
  /\ tickslock' = Free
  /\ UNCHANGED <<ticks, widx, procVars, pc, pauseVars>>

-----------------------------------------------------------------------------
(* Process p calls kill() with the pid of slot q. *)
kkill(p, q) ==
  /\ pc[p] = "user" /\ ~killed[p]
  /\ lock[q] = Free
  /\ killed' = [killed EXCEPT ![q] = TRUE]
  /\ state' = [state EXCEPT ![q] = IF @ = "SLEEPING" THEN "RUNNABLE" ELSE @]
  /\ UNCHANGED <<clockVars, tickslock, chan, lock, pc, pauseVars>>

(* usertrap() makes a killed process exit. *)
UsertrapExit(p) ==
  /\ Goto(p, "user", "dead")
  /\ killed[p] /\ lock[p] = Free
  /\ state' = [state EXCEPT ![p] = "ZOMBIE"]
  /\ UNCHANGED <<clockVars, tickslock, chan, killed, lock, pauseVars>>

-----------------------------------------------------------------------------
Pausing(p) == \/ Enter(p) \/ Return(p) \/ CallSleep(p)
              \/ SleepLock(p) \/ SleepRelease(p) \/ SleepSwtch(p)
              \/ Dispatch(p) \/ Reacquire(p)

clockintr == ClockAcquire \/ ClockTick \/ ClockWakeup \/ ClockRelease

Next == \/ clockintr
        \/ \E p \in Proc : \/ Pausing(p)
                           \/ \E arg \in PauseArgs : sys_pause(p, arg)
                           \/ \E q \in Proc : kkill(p, q)
                           \/ UsertrapExit(p)

Spec == Init /\ [][Next]_vars

(* Steps of a process that holds tickslock or its p->lock: push_off() has
   turned interrupts off, so nothing takes the CPU away from it. *)
Locked(p) == Return(p) \/ CallSleep(p) \/ SleepLock(p) \/ SleepRelease(p) \/ SleepSwtch(p)

(* The clock keeps interrupting and gets tickslock, which is released again
   and again, and whoever is inside a critical section goes on.  Nothing is
   assumed about a process that waits for a CPU or for tickslock. *)
FairSpec == /\ Spec
            /\ SF_vars(clockintr)
            /\ \A p \in Proc : WF_vars(Locked(p))

-----------------------------------------------------------------------------
(* Types; ticks stays within its width. *)
TypeOK ==
  /\ ticks \in 0..(TickMod - 1)
  /\ tickslock \in Proc \cup {Clock, Free}
  /\ cpc \in {"idle", "locked", "wakeup"}
  /\ widx \in 1..(NPROC + 1)
  /\ state \in [Proc -> {"RUNNING", "SLEEPING", "RUNNABLE", "ZOMBIE"}]
  /\ chan \in [Proc -> {NoChan, TicksChan}]
  /\ killed \in [Proc -> BOOLEAN]
  /\ lock \in [Proc -> Proc \cup {Free}]
  /\ pc \in [Proc -> {"user", "enter", "test", "sleep", "locked", "released",
                      "asleep", "awake", "dead"}]
  /\ n \in [Proc -> Nat]
  /\ ticks0 \in [Proc -> 0..(TickMod - 1)]

(* The wakeup() in progress has yet to come to slot p. *)
Pending(p) == cpc = "wakeup" /\ widx <= p

(* At least n[p] ticks have gone by since p read ticks0, whether or not the
   counter has started again from 0 in between. *)
Due(p) ==
  (IF ticks >= ticks0[p] THEN ticks - ticks0[p] ELSE TickMod - ticks0[p] + ticks) >= n[p]

(* No wakeup is missed: a process that is asleep although its time is over
   is one that the wakeup() of the last tick still has to visit.  sleep()
   gives tickslock up before p->state is SLEEPING; and the loop condition of
   sys_pause() is right also when ticks wraps around during the pause, or a
   process woken in time would go back to sleep. *)
NoLostWakeup ==
  \A p \in Proc : state[p] = "SLEEPING" /\ Due(p) => Pending(p)

(* Every sleeper is woken: wakeup() reaches each slot in turn, and no slot's
   lock keeps the clock interrupt waiting for ever.  When the woken process
   gets a CPU is up to the priorities. *)
SleeperWakes == \A p \in Proc : state[p] = "SLEEPING" ~> state[p] # "SLEEPING"

(* Those who wait: they have given tickslock up, and no wakeup() that was
   called since then still has to visit them. *)
Waiting == {p \in Proc : /\ \/ pc[p] = "released"
                            \/ pc[p] = "asleep" /\ state[p] = "SLEEPING"
                         /\ ~Pending(p)}

CV == INSTANCE CondVar WITH owner <- tickslock, waiting <- Waiting, Waker <- Clock

(* sleep() waits and releases the lock as if in one step, and wakeup() wakes
   all who waited when it was called, although it visits them one by one. *)
ImplementsCondVar == CV!Spec
=============================================================================
