-------------------------------- MODULE Log --------------------------------
(***************************************************************************)
(* The redo log of kernel/log.c: begin_op(), log_write(), end_op() and     *)
(* commit(), on a disk that writes one block at a time, with crashes at    *)
(* any moment and recover_from_log() at boot.                              *)
(*                                                                         *)
(* Sections of log.lock are one step; commit() runs outside the lock, with *)
(* one step for each block it writes.  sleep() and wakeup() on the log are *)
(* those of CondVar.  Of the buffer cache, the model keeps what each       *)
(* cached block holds and how often it is pinned; a buffer nobody pins may *)
(* be recycled at any time.  A system call reads, changes and logs a block *)
(* while it holds the buffer's lock, in one step here.                     *)
(***************************************************************************)
EXTENDS Integers, Sequences, FiniteSets, Functions

CONSTANTS Proc,         \* processes that make system calls
          Block, Val,   \* home blocks and their contents
          NotCached,    \* a block without a buffer
          MAXOPBLOCKS, LOGBLOCKS,
          OpBlocks,     \* bound: distinct blocks that one system call writes
          Crashes       \* the machine may crash

ASSUME ValAssumption == NotCached \notin Val
ASSUME LogAssumption == /\ MAXOPBLOCKS \in Nat \ {0} /\ LOGBLOCKS \in Nat
                        /\ MAXOPBLOCKS <= LOGBLOCKS
(* A system call is assumed to stay below the MAXOPBLOCKS that begin_op()
   reserves for it; filewrite() splits what it writes to that end. *)
ASSUME OpAssumption == OpBlocks \in 1..MAXOPBLOCKS - 1
ASSUME CrashAssumption == Crashes \in BOOLEAN

VARIABLES
  disk, dlog, dhead,       \* on disk: home blocks, log blocks, log header
  cache, pins,             \* buffer cache: contents, and references by bpin()
  lh,                      \* log.lh: the blocks of the transaction
  outstanding, committing, \* log.outstanding, log.committing
  mode,                    \* "run", a step of the recovery, or "panic"
  tail,                    \* the loop variable of write_log() and install_trans()
  pc,                      \* a process's position
  wrote                    \* blocks its system call has written

ondisk == <<disk, dlog, dhead>>
bcache == <<cache, pins>>
log == <<lh, outstanding, committing>>
vars == <<ondisk, bcache, log, mode, tail, pc, wrote>>

(* What bread() returns for a home block. *)
Data(b) == IF cache[b] = NotCached THEN disk[b] ELSE cache[b]

Cached(b, v) == cache' = [cache EXCEPT ![b] = v]

(* The memory of a machine that boots: empty cache, zeroed struct log. *)
Booted(c, n, h, o, k, m, t, p, w) ==
  /\ c = [b \in Block |-> NotCached] /\ n = [b \in Block |-> 0]
  /\ h = <<>> /\ o = 0 /\ k = FALSE
  /\ m = "read_head" /\ t = 1
  /\ p = [q \in Proc |-> "idle"] /\ w = [q \in Proc |-> {}]

(* The image that mkfs wrote, its log all zero, in a machine that boots. *)
Init ==
  /\ disk \in [Block -> Val]
  /\ \E zero \in Val : dlog = [i \in 1..LOGBLOCKS |-> zero]
  /\ dhead = <<>>
  /\ Booted(cache, pins, lh, outstanding, committing, mode, tail, pc, wrote)

(* The machine stops at any moment, or after a panic, and boots again. *)
Crash ==
  /\ Crashes
  /\ Booted(cache', pins', lh', outstanding', committing', mode', tail', pc', wrote')
  /\ UNCHANGED ondisk

-----------------------------------------------------------------------------
(* The buffer cache *)

(* Some process reads block b. *)
bread(b) ==
  /\ mode = "run" /\ cache[b] = NotCached
  /\ Cached(b, disk[b])
  /\ UNCHANGED <<ondisk, pins, log, mode, tail, pc, wrote>>

(* bget() recycles the buffer of block b. *)
Recycle(b) ==
  /\ mode = "run" /\ cache[b] # NotCached /\ pins[b] = 0
  /\ Cached(b, NotCached)
  /\ UNCHANGED <<ondisk, pins, log, mode, tail, pc, wrote>>

-----------------------------------------------------------------------------
(* Recovery: recover_from_log() *)

read_head ==
  /\ mode = "read_head"
  /\ lh' = dhead
  /\ tail' = 1
  /\ mode' = IF dhead = <<>> THEN "clear" ELSE "install"
  /\ UNCHANGED <<ondisk, bcache, outstanding, committing, pc, wrote>>

(* One round of install_trans(): the log block goes to its home, through the
   home block's buffer. *)
InstallBlock ==
  /\ Cached(lh[tail], dlog[tail])
  /\ disk' = [disk EXCEPT ![lh[tail]] = dlog[tail]]
  /\ tail' = tail + 1
  /\ UNCHANGED <<dlog, dhead>>

recover_install ==
  /\ mode = "install"
  /\ InstallBlock
  /\ mode' = IF tail = Len(lh) THEN "clear" ELSE mode
  /\ UNCHANGED <<pins, log, pc, wrote>>

(* log.lh.n = 0; write_head() *)
ClearLog ==
  /\ lh' = <<>>
  /\ dhead' = <<>>
  /\ UNCHANGED <<disk, dlog, outstanding, committing>>

recover_clear ==
  /\ mode = "clear"
  /\ ClearLog
  /\ mode' = "run"
  /\ UNCHANGED <<bcache, tail, pc, wrote>>

-----------------------------------------------------------------------------
(* System calls *)

Goto(p, from, to) ==
  /\ mode = "run" /\ pc[p] = from
  /\ pc' = [pc EXCEPT ![p] = to]

(* wakeup(&log), by a process that goes to position `to' itself *)
GotoWaking(p, from, to) ==
  /\ mode = "run" /\ pc[p] = from
  /\ pc' = [q \in Proc |-> IF q = p THEN to
                           ELSE IF pc[q] = "asleep" THEN "begin" ELSE pc[q]]

(* A system call enters begin_op(). *)
Enter(p) ==
  /\ Goto(p, "idle", "begin")
  /\ UNCHANGED <<ondisk, bcache, log, mode, tail, wrote>>

HasRoomIgnoresLog == (outstanding + 1) * MAXOPBLOCKS <= LOGBLOCKS

(* One more system call fits, were all outstanding ones yet to write. *)
HasRoom == Len(lh) + (outstanding + 1) * MAXOPBLOCKS <= LOGBLOCKS

begin_opUncounted(p) ==
  /\ Goto(p, "begin", "op")
  /\ ~committing /\ HasRoom
  /\ UNCHANGED <<ondisk, bcache, log, mode, tail, wrote>>

begin_op(p) ==
  /\ Goto(p, "begin", "op")
  /\ ~committing /\ HasRoom
  /\ outstanding' = outstanding + 1
  /\ UNCHANGED <<ondisk, bcache, lh, committing, mode, tail, wrote>>

begin_op_sleep(p) ==
  /\ Goto(p, "begin", "asleep")
  /\ committing \/ ~HasRoom
  /\ UNCHANGED <<ondisk, bcache, log, mode, tail, wrote>>

(* kkill() makes a sleeping process runnable, and begin_op() tests again. *)
KillWakes(p) ==
  /\ Goto(p, "asleep", "begin")
  /\ UNCHANGED <<ondisk, bcache, log, mode, tail, wrote>>

Panic ==
  /\ mode' = "panic"
  /\ UNCHANGED <<ondisk, bcache, log, tail, pc, wrote>>

RecordUnpinned(b) ==
  /\ lh' = IF b \in Range(lh) THEN lh ELSE Append(lh, b)
  /\ UNCHANGED pins

(* Record block b in the transaction: it is pinned and added, unless it is
   there already and the write is absorbed. *)
Record(b) ==
  IF b \in Range(lh)
  THEN UNCHANGED <<lh, pins>>
  ELSE /\ lh' = Append(lh, b)
       /\ pins' = [pins EXCEPT ![b] = @ + 1]

(* The system call of p changes block b to v and logs it. *)
log_write(p, b, v) ==
  /\ mode = "run" /\ pc[p] = "op"
  /\ Cardinality(wrote[p] \cup {b}) <= OpBlocks
  /\ IF Len(lh) >= LOGBLOCKS \/ outstanding < 1
     THEN Panic
     ELSE /\ Cached(b, v)
          /\ Record(b)
          /\ wrote' = [wrote EXCEPT ![p] = @ \cup {b}]
          /\ UNCHANGED <<ondisk, outstanding, committing, mode, tail, pc>>

-----------------------------------------------------------------------------
(* end_op() and commit() *)

EndOthersSilent(p) == Goto(p, "op", "idle") /\ UNCHANGED committing

(* Not the last: begin_op() may have room now. *)
EndOthers(p) == GotoWaking(p, "op", "idle") /\ UNCHANGED committing

EndLast(p) == Goto(p, "op", "commit") /\ committing' = TRUE

end_op(p) ==
  IF mode = "run" /\ pc[p] = "op" /\ committing
  THEN Panic
  ELSE /\ IF outstanding = 1 THEN EndLast(p) ELSE EndOthers(p)
       /\ outstanding' = outstanding - 1
       /\ wrote' = [wrote EXCEPT ![p] = {}]
       /\ UNCHANGED <<ondisk, bcache, lh, mode, tail>>

ToCommitMany == Len(lh) > 1

(* commit() has anything to do. *)
ToCommit == Len(lh) > 0

commit(p) ==
  /\ Goto(p, "commit", IF ToCommit THEN "write_log" ELSE "done")
  /\ tail' = 1
  /\ UNCHANGED <<ondisk, bcache, log, mode, wrote>>

write_log(p) ==
  /\ Goto(p, "write_log", IF tail = Len(lh) THEN "write_head" ELSE "write_log")
  /\ dlog' = [dlog EXCEPT ![tail] = Data(lh[tail])]
  /\ Cached(lh[tail], Data(lh[tail]))
  /\ tail' = tail + 1
  /\ UNCHANGED <<disk, dhead, pins, log, mode, wrote>>

(* The commit point *)
write_head(p) ==
  /\ Goto(p, "write_head", "install")
  /\ dhead' = lh
  /\ tail' = 1
  /\ UNCHANGED <<disk, dlog, bcache, log, mode, wrote>>

install_trans(p) ==
  /\ Goto(p, "install", IF tail = Len(lh) THEN "clear" ELSE "install")
  /\ InstallBlock
  /\ pins' = [pins EXCEPT ![lh[tail]] = @ - 1]
  /\ UNCHANGED <<log, mode, wrote>>

clear_head(p) ==
  /\ Goto(p, "clear", "done")
  /\ ClearLog
  /\ UNCHANGED <<bcache, mode, tail, wrote>>

(* The end of end_op() *)
Committed(p) ==
  /\ GotoWaking(p, "done", "idle")
  /\ committing' = FALSE
  /\ UNCHANGED <<ondisk, bcache, lh, outstanding, mode, tail, wrote>>

-----------------------------------------------------------------------------
Recovery == read_head \/ recover_install \/ recover_clear

TryBegin(p) == begin_op(p) \/ begin_op_sleep(p) \/ KillWakes(p)

Commit(p) == \/ commit(p) \/ write_log(p) \/ write_head(p)
             \/ install_trans(p) \/ clear_head(p) \/ Committed(p)

Next ==
  \/ Crash
  \/ Recovery
  \/ \E b \in Block : bread(b) \/ Recycle(b)
  \/ \E p \in Proc : \/ Enter(p) \/ TryBegin(p) \/ end_op(p) \/ Commit(p)
                     \/ \E b \in Block, v \in Val : log_write(p, b, v)

Spec == Init /\ [][Next]_vars

-----------------------------------------------------------------------------
(* Types of the disk, the cache, struct log and positions; log.outstanding is
   the number of system calls between their begin_op() and their end_op(),
   however often begin_op() went round its loop. *)
TypeOK ==
  /\ disk \in [Block -> Val]
  /\ dlog \in [1..LOGBLOCKS -> Val]
  /\ dhead \in Seq(Block) /\ Len(dhead) <= LOGBLOCKS
  /\ cache \in [Block -> Val \cup {NotCached}]
  /\ pins \in [Block -> Nat]
  /\ lh \in Seq(Block) /\ Len(lh) <= LOGBLOCKS
  /\ outstanding = Cardinality({p \in Proc : pc[p] = "op"})
  /\ committing \in BOOLEAN
  /\ mode \in {"read_head", "install", "clear", "run", "panic"}
  /\ tail \in 1..LOGBLOCKS + 1
  /\ pc \in [Proc -> {"idle", "begin", "asleep", "op", "commit", "write_log",
                      "write_head", "install", "clear", "done"}]
  /\ wrote \in [Proc -> SUBSET Block]

(* The panics of log.c are never reached: begin_op() leaves enough room in the
   log for every system call it lets in, and nobody ends a call during commit. *)
NoPanic == mode # "panic"

(* What recovery would find: the home blocks, under the log if it is committed. *)
Durable ==
  [b \in Block |->
     IF b \in Range(dhead)
     THEN dlog[CHOOSE i \in DOMAIN dhead :
                 dhead[i] = b /\ \A j \in DOMAIN dhead : j > i => dhead[j] # b]
     ELSE disk[b]]

Running == mode \in {"run", "panic"}

(* When the last of a group of system calls returns from end_op(), all that the
   group wrote is durable. *)
DurableOnReturn ==
  mode = "run" /\ outstanding = 0 /\ ~committing => \A b \in Block : Durable[b] = Data(b)

(* Nobody sleeps in begin_op() without reason: a commit is under way, or the
   system calls inside still need the room.  Whoever changes that, an end_op()
   of one of several calls or the end of the commit, has woken the sleepers. *)
SleepersHaveReason ==
  (\E p \in Proc : pc[p] = "asleep") =>
    \/ committing
    \/ outstanding > 0 /\ Len(lh) + (outstanding + 1) * MAXOPBLOCKS > LOGBLOCKS

AD == INSTANCE AtomicDisk WITH
        durable <- Durable,
        current <- IF Running THEN [b \in Block |-> Data(b)] ELSE Durable,
        active <- {p \in Proc : pc[p] = "op"}

(* Crash atomicity: whatever the moment of a crash, and of further crashes in
   the recovery, the log gives the file system an AtomicDisk. *)
ImplementsAtomicDisk == AD!Spec
=============================================================================
