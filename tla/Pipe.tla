-------------------------------- MODULE Pipe --------------------------------
(***************************************************************************)
(* One pipe of kernel/pipe.c, shared by processes that inherited its two   *)
(* ends through fork(): pipewrite(), piperead(), fileclose() with          *)
(* pipeclose(), and kkill().                                               *)
(*                                                                         *)
(* A process holds pi->lock from step to step and takes one step for each  *)
(* byte, since a kill may come between two bytes.  sleep() and wakeup() on *)
(* &pi->nread and &pi->nwrite are those of CondVar: a woken process has to *)
(* get pi->lock again.                                                     *)
(***************************************************************************)
EXTENDS Integers

CONSTANTS Proc, Val,
          Free,         \* owner of a lock that nobody holds
          PIPESIZE,
          CounterMod,   \* nread and nwrite are unsigned integers modulo this (2^32)
          Counts        \* numbers of bytes that read() and write() ask for

ASSUME FreeAssumption == Free \notin Proc
ASSUME SizeAssumption == /\ PIPESIZE \in Nat \ {0}
                         /\ CounterMod \in Nat /\ CounterMod > PIPESIZE
                         /\ CounterMod % PIPESIZE = 0
ASSUME CountAssumption == Counts \subseteq Int

VARIABLES
  data, nread, nwrite, readopen, writeopen,  \* struct pipe
  lock,       \* owner of pi->lock
  freed,      \* how often the pipe was given to kfree()
  readers, writers,  \* processes with a descriptor for an end: f->ref is
                     \* the number of them
  killed,     \* p->killed
  pc,         \* p's position
  n, i,       \* the locals n and i of its pipewrite() or piperead()
  ends,       \* history: parity of the reads that returned 0 at the end
  cut         \* history: a kill has cut a write short after some bytes

pipe == <<data, nread, nwrite, readopen, writeopen>>
refs == <<readers, writers>>
locals == <<n, i>>
history == <<ends, cut>>
vars == <<pipe, lock, freed, refs, killed, pc, locals, history>>

(* A pipe as pipealloc() made it, after some forks and closes.  pi->data is
   whatever the page held. *)
Init ==
  /\ \E v \in Val : data = [k \in 0..PIPESIZE - 1 |-> v]
  /\ nread = 0 /\ nwrite = 0
  /\ readopen = TRUE /\ writeopen = TRUE
  /\ lock = Free
  /\ freed = 0
  /\ readers \in SUBSET Proc \ {{}} /\ writers \in SUBSET Proc \ {{}}
  /\ killed = [p \in Proc |-> FALSE]
  /\ pc = [p \in Proc |-> "user"]
  /\ n = [p \in Proc |-> 0] /\ i = [p \in Proc |-> 0]
  /\ ends = 0 /\ cut = FALSE

Goto(p, from, to) == pc[p] = from /\ pc' = [pc EXCEPT ![p] = to]

(* The locals are gone when the call returns. *)
Return(p) == n' = [n EXCEPT ![p] = 0] /\ i' = [i EXCEPT ![p] = 0]

(* Process p, in the section of pi->lock, goes on to position `to'; it wakes
   those who sleep on channel c. *)
GotoWaking(p, c, to) ==
  pc' = [q \in Proc |-> IF q = p THEN to
                        ELSE IF pc[q] # c THEN pc[q]
                        ELSE IF c = "sleep_nread" THEN "read" ELSE "write"]

AdvanceUnwrapped(counter) == counter + 1

Advance(counter) == (counter + 1) % CounterMod

(* A system call on the pipe, with a count that may be negative *)
Call(p, to) ==
  /\ Goto(p, "user", to)
  /\ ~killed[p]
  /\ \E count \in Counts : n' = [n EXCEPT ![p] = count]
  /\ UNCHANGED <<pipe, lock, freed, refs, killed, i, history>>

sys_write(p) == p \in writers /\ Call(p, "write")
sys_read(p) == p \in readers /\ Call(p, "read")

(* acquire(&pi->lock), on entry or at the end of sleep() *)
Acquire(p) ==
  /\ lock = Free
  /\ lock' = p
  /\ Goto(p, "write", "writing") \/ Goto(p, "read", "waiting")
  /\ UNCHANGED <<pipe, freed, refs, killed, locals, history>>

-----------------------------------------------------------------------------
(* The loop of pipewrite() *)

CannotWrite(p) == ~readopen \/ killed[p]

FullUnwrapped == nwrite = nread + PIPESIZE

(* In unsigned arithmetic *)
Full == nwrite = (nread + PIPESIZE) % CounterMod

WriteFails(p) ==
  /\ i[p] < n[p] /\ CannotWrite(p)
  /\ Goto(p, "writing", "user")
  /\ lock' = Free
  /\ Return(p)
  /\ cut' = (cut \/ (killed[p] /\ i[p] > 0))
  /\ UNCHANGED <<pipe, freed, refs, killed, ends>>

WriteFullSilent(p) ==
  /\ i[p] < n[p] /\ ~CannotWrite(p)
  /\ Full
  /\ Goto(p, "writing", "full")
  /\ UNCHANGED <<pipe, lock, freed, refs, killed, locals, history>>

(* It wakes the readers and is about to sleep. *)
WriteFull(p) ==
  /\ pc[p] = "writing"
  /\ i[p] < n[p] /\ ~CannotWrite(p)
  /\ Full
  /\ GotoWaking(p, "sleep_nread", "full")
  /\ UNCHANGED <<pipe, lock, freed, refs, killed, locals, history>>

WriteByte(p, v) ==
  /\ pc[p] = "writing"
  /\ i[p] < n[p] /\ ~CannotWrite(p)
  /\ ~Full
  /\ data' = [data EXCEPT ![nwrite % PIPESIZE] = v]
  /\ nwrite' = Advance(nwrite)
  /\ i' = [i EXCEPT ![p] = @ + 1]
  /\ UNCHANGED <<nread, readopen, writeopen, lock, freed, refs, killed, pc, n, history>>

(* All bytes are written, or copyin() of the next one fails. *)
WriteEnds(p) ==
  /\ pc[p] = "writing"
  /\ i[p] < n[p] => ~CannotWrite(p) /\ ~Full
  /\ GotoWaking(p, "sleep_nread", "user")
  /\ lock' = Free
  /\ Return(p)
  /\ UNCHANGED <<pipe, freed, refs, killed, history>>

-----------------------------------------------------------------------------
(* piperead() *)

Empty == nread = nwrite

ReadFails(p) ==
  /\ Empty /\ writeopen /\ killed[p]
  /\ Goto(p, "waiting", "user")
  /\ lock' = Free
  /\ Return(p)
  /\ UNCHANGED <<pipe, freed, refs, killed, history>>

ReadEmpty(p) ==
  /\ Empty /\ writeopen /\ ~killed[p]
  /\ Goto(p, "waiting", "empty")
  /\ UNCHANGED <<pipe, lock, freed, refs, killed, locals, history>>

(* sleep(): a kill since killed() was asked does not keep a process from it. *)
Sleep(p) ==
  /\ Goto(p, "full", "sleep_nwrite") \/ Goto(p, "empty", "sleep_nread")
  /\ lock' = Free
  /\ UNCHANGED <<pipe, freed, refs, killed, locals, history>>

(* The loop is over; a read that finds nothing reports the end. *)
ReadStarts(p) ==
  /\ ~Empty \/ ~writeopen
  /\ Goto(p, "waiting", "reading")
  /\ ends' = IF Empty THEN 1 - ends ELSE ends
  /\ UNCHANGED <<pipe, lock, freed, refs, killed, locals, cut>>

ReadByte(p) ==
  /\ pc[p] = "reading"
  /\ i[p] < n[p] /\ ~Empty
  /\ nread' = Advance(nread)
  /\ i' = [i EXCEPT ![p] = @ + 1]
  /\ UNCHANGED <<data, nwrite, readopen, writeopen, lock, freed, refs, killed, pc, n, history>>

(* As many bytes as asked for or present, or copyout() fails. *)
ReadEnds(p) ==
  /\ pc[p] = "reading"
  /\ GotoWaking(p, "sleep_nwrite", "user")
  /\ lock' = Free
  /\ Return(p)
  /\ UNCHANGED <<pipe, freed, refs, killed, history>>

-----------------------------------------------------------------------------
(* fileclose() by p: the last reference to an end closes it. *)

CloseRead(p) ==
  /\ p \in readers
  /\ Goto(p, "user", IF readers = {p} THEN "close_read" ELSE "user")
  /\ readers' = readers \ {p}
  /\ UNCHANGED <<pipe, lock, freed, writers, killed, locals, history>>

CloseWrite(p) ==
  /\ p \in writers
  /\ Goto(p, "user", IF writers = {p} THEN "close_write" ELSE "user")
  /\ writers' = writers \ {p}
  /\ UNCHANGED <<pipe, lock, freed, readers, killed, locals, history>>

EitherClosed == ~readopen' \/ ~writeopen'

(* The pipe goes to kfree() when the other end was closed before. *)
LastClose == ~readopen' /\ ~writeopen'

(* Closing the write end wakes the readers, and the read end the writers. *)
WokenBy(end) == IF end = "close_write" THEN "sleep_nread" ELSE "sleep_nwrite"

pipeclose(p) ==
  /\ pc[p] \in {"close_read", "close_write"}
  /\ lock = Free
  /\ readopen' = (readopen /\ pc[p] # "close_read")
  /\ writeopen' = (writeopen /\ pc[p] # "close_write")
  /\ GotoWaking(p, WokenBy(pc[p]), "user")
  /\ freed' = IF LastClose THEN freed + 1 ELSE freed
  /\ UNCHANGED <<data, nread, nwrite, lock, refs, killed, locals, history>>

kkill(p) ==
  /\ ~killed[p]
  /\ killed' = [killed EXCEPT ![p] = TRUE]
  /\ pc' = [pc EXCEPT ![p] = IF @ = "sleep_nread" THEN "read"
                             ELSE IF @ = "sleep_nwrite" THEN "write" ELSE @]
  /\ UNCHANGED <<pipe, lock, freed, refs, locals, history>>

-----------------------------------------------------------------------------
InPipe(p) == \/ Acquire(p)
             \/ WriteFails(p) \/ WriteFull(p) \/ WriteEnds(p)
             \/ ReadFails(p) \/ ReadEmpty(p) \/ ReadStarts(p) \/ Sleep(p)
             \/ ReadByte(p) \/ ReadEnds(p)
             \/ \E v \in Val : WriteByte(p, v)
             \/ pipeclose(p)

Next == \E p \in Proc : \/ sys_read(p) \/ sys_write(p)
                        \/ CloseRead(p) \/ CloseWrite(p)
                        \/ InPipe(p)
                        \/ kkill(p)

Spec == Init /\ [][Next]_vars

-----------------------------------------------------------------------------
Position == {"user", "write", "writing", "full", "sleep_nwrite", "read", "waiting", "empty",
             "sleep_nread", "reading", "close_read", "close_write"}

(* Types; the counters stay within their width. *)
TypeOK ==
  /\ data \in [0..PIPESIZE - 1 -> Val]
  /\ nread \in 0..CounterMod - 1 /\ nwrite \in 0..CounterMod - 1
  /\ readopen \in BOOLEAN /\ writeopen \in BOOLEAN
  /\ lock \in Proc \cup {Free}
  /\ freed \in Nat
  /\ readers \subseteq Proc /\ writers \subseteq Proc
  /\ killed \in [Proc -> BOOLEAN]
  /\ pc \in [Proc -> Position]
  /\ n \in [Proc -> Int] /\ i \in [Proc -> Nat]
  /\ ends \in {0, 1} /\ cut \in BOOLEAN

(* pipeclose() frees the pipe once, and nobody is inside the pipe code then,
   spinning for its lock or asleep, nor can get there. *)
NotUsedAfterFree ==
  freed > 0 => /\ freed = 1
               /\ readers = {} /\ writers = {}
               /\ lock = Free
               /\ \A p \in Proc : pc[p] = "user"

(* Nobody sleeps without reason: while nobody has pi->lock, a reader asleep
   finds the pipe empty and a writer left, and a writer asleep finds it full
   and a reader left.  So readers and writers never wait for each other.
   (pipewrite() wakes no reader for the bytes of a write that a kill cuts
   short.) *)
SleepersHaveReason ==
  lock = Free =>
    \A p \in Proc :
      /\ pc[p] = "sleep_nread" => (Empty /\ writeopen) \/ cut
      /\ pc[p] = "sleep_nwrite" => Full /\ readopen

(* The bytes in the buffer, oldest first *)
Queue == [k \in 1..(nwrite - nread) % CounterMod |-> data[(nread + k - 1) % PIPESIZE]]

BQ == INSTANCE ByteQueue WITH queue <- Queue, Capacity <- PIPESIZE

(* The ring buffer is a queue: no byte is lost, repeated, overwritten or
   reordered, also when the counters wrap around and writers are cut short. *)
ImplementsByteQueue == BQ!Spec
=============================================================================
