-------------------------------- MODULE Uart --------------------------------
(***************************************************************************)
(* kernel/uart.c, output side: processes send with uartwrite(), which      *)
(* sleeps until the transmit interrupt clears tx_busy, and CPUs send single*)
(* bytes with uartputc_sync() (kernel messages and echo), which takes no   *)
(* lock.  The chip's FIFO, enabled by uartinit(), drains beside them and   *)
(* interrupts when it is empty; reading ISR withdraws the interrupt.       *)
(***************************************************************************)
EXTENDS Integers, FiniteSets

CONSTANTS Proc,        \* processes in uartwrite()
          Cpu,         \* CPUs that may call uartputc_sync()
          Counts,      \* bytes a process may ask to be sent
          FifoSize,    \* bytes the chip buffers
          Intr, Free   \* uartintr() and nobody, as owners of tx_lock

ASSUME CountsAssumption == Counts \subseteq Nat \ {0}
ASSUME FifoAssumption == FifoSize \in Nat /\ Cardinality(Cpu) + 1 <= FifoSize
ASSUME OwnersAssumption == Intr \notin Proc /\ Free \notin Proc \cup {Intr}

VARIABLES tx_busy, tx_lock,   \* static variables of uart.c
          pc, left,           \* position of a process, and bytes it has yet to send
          sync,               \* "idle", or "write": the CPU saw LSR_TX_IDLE
          intr,               \* position of uartintr()
          fifo, irq           \* the chip: bytes to transmit, interrupt asserted

vars == <<tx_busy, tx_lock, pc, left, sync, intr, fifo, irq>>

Init == /\ tx_busy = FALSE /\ tx_lock = Free
        /\ pc = [p \in Proc |-> "idle"] /\ left = [p \in Proc |-> 0]
        /\ sync = [c \in Cpu |-> "idle"]
        /\ intr = "idle"
        /\ fifo = 0 /\ irq = FALSE

(* WriteReg(THR, c); the chip withdraws a transmit interrupt it has asserted. *)
WriteTHR == fifo' = fifo + 1 /\ irq' = FALSE

(* ReadReg(LSR) & LSR_TX_IDLE *)
TxIdle == fifo = 0

Goto(p, from, to) == pc[p] = from /\ pc' = [pc EXCEPT ![p] = to]

-----------------------------------------------------------------------------
(* uartwrite() *)

Call(p, n) ==
  /\ Goto(p, "idle", "enter")
  /\ left' = [left EXCEPT ![p] = n]
  /\ UNCHANGED <<tx_busy, tx_lock, sync, intr, fifo, irq>>

(* tx_lock is taken, at the start or when sleep() returns. *)
Wait(p) ==
  /\ tx_lock = Free /\ tx_busy
  /\ Goto(p, "enter", "asleep")
  /\ UNCHANGED <<tx_busy, tx_lock, left, sync, intr, fifo, irq>>

Send(p) ==
  /\ tx_lock = Free /\ ~tx_busy
  /\ tx_lock' = p
  /\ Goto(p, "enter", "sent")
  /\ WriteTHR
  /\ left' = [left EXCEPT ![p] = @ - 1]
  /\ UNCHANGED <<tx_busy, sync, intr>>

(* i < n *)
More(p) == left[p] > 0

(* tx_busy = 1: with bytes left the loop sleeps, else uartwrite() returns. *)
SetBusy(p) ==
  /\ Goto(p, "sent", IF More(p) THEN "asleep" ELSE "idle")
  /\ tx_busy' = TRUE /\ tx_lock' = Free
  /\ UNCHANGED <<left, sync, intr, fifo, irq>>

(* kkill() makes a sleeping process runnable. *)
KillWakes(p) ==
  /\ Goto(p, "asleep", "enter")
  /\ UNCHANGED <<tx_busy, tx_lock, left, sync, intr, fifo, irq>>

-----------------------------------------------------------------------------
(* uartputc_sync(): LSR is read until the transmitter is idle, then THR is
   written, whoever else writes in between. *)

SyncUnchecked == TRUE

SyncReady == TxIdle

SyncSeesIdle(c) ==
  /\ SyncReady
  /\ sync[c] = "idle" /\ sync' = [sync EXCEPT ![c] = "write"]
  /\ UNCHANGED <<tx_busy, tx_lock, pc, left, intr, fifo, irq>>

SyncWrite(c) ==
  /\ sync[c] = "write" /\ sync' = [sync EXCEPT ![c] = "idle"]
  /\ WriteTHR
  /\ UNCHANGED <<tx_busy, tx_lock, pc, left, intr>>

-----------------------------------------------------------------------------
(* uartintr() *)

(* ReadReg(ISR), which withdraws the transmit interrupt *)
IntrAck ==
  /\ irq /\ irq' = FALSE
  /\ intr = "idle" /\ intr' = "acked"
  /\ UNCHANGED <<tx_busy, tx_lock, pc, left, sync, fifo>>

(* The interrupt is for input that has arrived: ISR reports that first, and a
   transmit interrupt stays asserted.  Output is looked at all the same. *)
IntrAckInput ==
  /\ intr = "idle" /\ intr' = "acked"
  /\ UNCHANGED <<tx_busy, tx_lock, pc, left, sync, fifo, irq>>

IntrLockFree ==
  /\ tx_lock' = tx_lock
  /\ intr = "acked" /\ intr' = "locked"
  /\ UNCHANGED <<tx_busy, pc, left, sync, fifo, irq>>

IntrLock ==
  /\ tx_lock = Free /\ tx_lock' = Intr
  /\ intr = "acked" /\ intr' = "locked"
  /\ UNCHANGED <<tx_busy, pc, left, sync, fifo, irq>>

WakeNobody == pc

(* wakeup(&tx_chan) *)
Wakeup == [p \in Proc |-> IF pc[p] = "asleep" THEN "enter" ELSE pc[p]]

(* If the transmitter is idle now, tx_busy is cleared. *)
IntrCheck ==
  /\ intr = "locked" /\ intr' = "idle"
  /\ tx_lock' = Free
  /\ IF TxIdle THEN tx_busy' = FALSE /\ pc' = Wakeup
               ELSE UNCHANGED <<tx_busy, pc>>
  /\ UNCHANGED <<left, sync, fifo, irq>>

-----------------------------------------------------------------------------
(* The chip *)

Drain ==
  /\ fifo > 0 /\ fifo' = fifo - 1
  /\ irq' = (irq \/ fifo = 1)
  /\ UNCHANGED <<tx_busy, tx_lock, pc, left, sync, intr>>

-----------------------------------------------------------------------------
Writer(p) == Wait(p) \/ Send(p) \/ SetBusy(p)
Interrupt == IntrAck \/ IntrAckInput \/ IntrLock \/ IntrCheck

Next == \/ \E p \in Proc : Writer(p) \/ KillWakes(p) \/ \E n \in Counts : Call(p, n)
        \/ \E c \in Cpu : SyncSeesIdle(c) \/ SyncWrite(c)
        \/ Interrupt \/ Drain

Spec == Init /\ [][Next]_vars

(* The chip transmits and its interrupts are taken, and a writer that holds
   tx_lock goes on, since it runs with interrupts off.  Nothing is assumed about
   which writer gets a CPU or tx_lock. *)
FairSpec == /\ Spec
            /\ WF_vars(Drain)
            /\ WF_vars(IntrAck) /\ WF_vars(IntrLock) /\ WF_vars(IntrCheck)
            /\ \A p \in Proc : WF_vars(SetBusy(p))

-----------------------------------------------------------------------------
(* Types.  The chip's FIFO is not overrun although uartputc_sync() takes no
   lock: bytes are written only when the transmitter was seen idle or tx_busy
   was clear, so at most one of each CPU and one of a process are in it. *)
TypeOK ==
  /\ tx_busy \in BOOLEAN /\ tx_lock \in Proc \cup {Intr, Free}
  /\ pc \in [Proc -> {"idle", "enter", "asleep", "sent"}]
  /\ \A p \in Proc : \E n \in Counts : left[p] \in 0..n
  /\ sync \in [Cpu -> {"idle", "write"}]
  /\ intr \in {"idle", "acked", "locked"}
  /\ fifo \in 0..FifoSize /\ irq \in BOOLEAN

(* While tx_busy keeps writers waiting, something will clear it: the chip is
   still transmitting, or its interrupt is asserted, or uartintr() has not
   looked at LSR yet.  uartputc_sync() using the chip in between never makes
   the transmit interrupt disappear unseen. *)
BusyWillClear ==
  tx_busy => fifo > 0 \/ irq \/ intr # "idle"

(* Whoever sleeps in uartwrite() is woken to try again, once uartputc_sync() no
   longer keeps the transmitter occupied: a byte sent, whoever sent it, brings
   an interrupt that finds the transmitter idle, clears tx_busy and wakes all.
   Another writer may be faster each time, so nothing is said of the return
   from uartwrite(). *)
WriterWoken ==
  <>[](\A c \in Cpu : sync[c] = "idle") =>
    \A p \in Proc : pc[p] = "asleep" ~> pc[p] # "asleep"
=============================================================================
