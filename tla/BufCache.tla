------------------------------ MODULE BufCache ------------------------------
(***************************************************************************)
(* kernel/bio.c, the buffer cache, with the sleep locks of                 *)
(* kernel/sleeplock.c that its buffers carry.  A process here uses one     *)
(* buffer at a time; sections under bcache.lock or under a sleep lock's    *)
(* spinlock are single steps, and sleep() and wakeup() are those of        *)
(* CondVar.                                                                *)
(*                                                                         *)
(* A block that was changed is either written (bwrite) or logged           *)
(* (log_write, which pins the buffer) before brelse(); a pinned buffer is  *)
(* unpinned by install_trans() right after it is written.                  *)
(***************************************************************************)
EXTENDS Integers, Sequences, FiniteSets, SequencesExt

CONSTANTS Proc, Block, Val,
          NBUF,      \* number of buffers
          MaxPins,   \* bound on the buffers pinned by the log at a time
          None       \* no block, no holder, no data

ASSUME BufAssumption == NBUF \in Nat \ {0} /\ MaxPins \in Nat
ASSUME NoneAssumption == None \notin Proc \cup Block \cup Val

Buf == 1..NBUF

VARIABLES
  blockno, valid, refcnt, data,   \* struct buf
  lru,       \* the list of buffers, most recently used first
  owner,     \* holder of a buffer's sleep lock, or None
  disk,      \* the blocks on disk
  pinned,    \* buffers pinned by log_write()
  pc, buf,   \* a process's position and the buffer it uses (0: none)
  want,      \* the block it asked for
  dirty      \* it changed the buffer and has not written or logged it yet

cache == <<blockno, valid, refcnt, lru>>
vars == <<cache, data, owner, disk, pinned, pc, buf, want, dirty>>

(* binit() *)
Init ==
  /\ blockno = [b \in Buf |-> None] /\ valid = [b \in Buf |-> FALSE]
  /\ refcnt = [b \in Buf |-> 0] /\ data = [b \in Buf |-> None]
  /\ lru = [i \in Buf |-> NBUF + 1 - i]
  /\ owner = [b \in Buf |-> None]
  /\ disk \in [Block -> Val] /\ pinned = {}
  /\ pc = [p \in Proc |-> "idle"] /\ buf = [p \in Proc |-> 0]
  /\ want = [p \in Proc |-> None] /\ dirty = [p \in Proc |-> FALSE]

Goto(p, from, to) == pc[p] = from /\ pc' = [pc EXCEPT ![p] = to]

(* bcache.lock can be had: a process that panics in bget() never releases it. *)
BcacheFree == \A p \in Proc : pc[p] # "panic"

-----------------------------------------------------------------------------
(* bread() *)

(* The buffers bget() finds for block k *)
Cached(k) == {b \in Buf : blockno[b] = k}

(* bget() finds the block. *)
bgetHit(p, k) ==
  /\ BcacheFree
  /\ Goto(p, "idle", "acquire")
  /\ want' = [want EXCEPT ![p] = k]
  /\ \E b \in Cached(k) :
       /\ refcnt' = [refcnt EXCEPT ![b] = @ + 1]
       /\ buf' = [buf EXCEPT ![p] = b]
  /\ UNCHANGED <<blockno, valid, lru, data, owner, disk, pinned, dirty>>

RecyclableUnlocked(b) == owner[b] = None

Recyclable(b) == refcnt[b] = 0

KeepsValid(b) == valid' = valid

Invalidate(b) == valid' = [valid EXCEPT ![b] = FALSE]

(* It does not, and recycles the least recently used unused buffer. *)
bgetMiss(p, k) ==
  LET i == SelectLastInSeq(lru, Recyclable) IN
  /\ BcacheFree /\ Cached(k) = {} /\ i # 0
  /\ Goto(p, "idle", "acquire")
  /\ want' = [want EXCEPT ![p] = k]
  /\ blockno' = [blockno EXCEPT ![lru[i]] = k]
  /\ Invalidate(lru[i])
  /\ refcnt' = [refcnt EXCEPT ![lru[i]] = 1]
  /\ buf' = [buf EXCEPT ![p] = lru[i]]
  /\ UNCHANGED <<lru, data, owner, disk, pinned, dirty>>

(* "bget: no buffers" *)
bgetPanic(p, k) ==
  /\ BcacheFree /\ Cached(k) = {} /\ \A b \in Buf : ~Recyclable(b)
  /\ Goto(p, "idle", "panic")
  /\ UNCHANGED <<cache, data, owner, disk, pinned, buf, want, dirty>>

(* for(;;) *)
Panicked(p) == pc[p] = "panic" /\ UNCHANGED vars

(* !lk->locked *)
Unlocked(b) == owner[b] = None

(* acquiresleep(), then bread() looks whether the contents are there. *)
acquiresleep(p) ==
  /\ pc[p] = "acquire" /\ Unlocked(buf[p])
  /\ owner' = [owner EXCEPT ![buf[p]] = p]
  /\ Goto(p, "acquire", IF valid[buf[p]] THEN "held" ELSE "reading")
  /\ UNCHANGED <<cache, data, disk, pinned, buf, want, dirty>>

acquiresleepWait(p) ==
  /\ pc[p] = "acquire" /\ ~Unlocked(buf[p])
  /\ Goto(p, "acquire", "asleep")
  /\ UNCHANGED <<cache, data, owner, disk, pinned, buf, want, dirty>>

(* kkill() makes a sleeping process runnable whatever it waits for. *)
KillWakes(p) ==
  /\ Goto(p, "asleep", "acquire")
  /\ UNCHANGED <<cache, data, owner, disk, pinned, buf, want, dirty>>

(* virtio_disk_rw(b, 0) returns. *)
Read(p) ==
  /\ Goto(p, "reading", "held")
  /\ data' = [data EXCEPT ![buf[p]] = disk[blockno[buf[p]]]]
  /\ valid' = [valid EXCEPT ![buf[p]] = TRUE]
  /\ UNCHANGED <<blockno, refcnt, lru, owner, disk, pinned, buf, want, dirty>>

-----------------------------------------------------------------------------
(* What a process does with the buffer it holds *)

Modify(p, v) ==
  /\ pc[p] = "held" /\ data[buf[p]] # v
  /\ data' = [data EXCEPT ![buf[p]] = v]
  /\ dirty' = [dirty EXCEPT ![p] = TRUE]
  /\ UNCHANGED <<cache, owner, disk, pinned, pc, buf, want>>

(* bwrite() of a block that is not logged, and its end *)
bwrite(p) ==
  /\ dirty[p] /\ buf[p] \notin pinned
  /\ Goto(p, "held", "writing")
  /\ UNCHANGED <<cache, data, owner, disk, pinned, buf, want, dirty>>

Written(p) ==
  /\ Goto(p, "writing", "held")
  /\ disk' = [disk EXCEPT ![blockno[buf[p]]] = data[buf[p]]]
  /\ dirty' = [dirty EXCEPT ![p] = FALSE]
  /\ UNCHANGED <<cache, data, owner, pinned, buf, want>>

bpin(b) == refcnt' = [refcnt EXCEPT ![b] = @ + 1]

(* log_write(): the first time in a transaction it pins the buffer. *)
log_write(p) ==
  /\ pc[p] = "held" /\ dirty[p]
  /\ dirty' = [dirty EXCEPT ![p] = FALSE]
  /\ \/ buf[p] \in pinned /\ UNCHANGED <<pinned, refcnt>>
     \/ /\ buf[p] \notin pinned /\ Cardinality(pinned) < MaxPins /\ BcacheFree
        /\ pinned' = pinned \cup {buf[p]}
        /\ bpin(buf[p])
  /\ UNCHANGED <<blockno, valid, lru, data, owner, disk, pc, buf, want>>

bunpin(b) == refcnt' = [refcnt EXCEPT ![b] = @ - 1]

(* install_trans(): bwrite(), then bunpin() *)
Install(p) ==
  /\ buf[p] \in pinned /\ ~dirty[p]
  /\ Goto(p, "held", "installing")
  /\ UNCHANGED <<cache, data, owner, disk, pinned, buf, want, dirty>>

Installed(p) ==
  /\ BcacheFree
  /\ Goto(p, "installing", "held")
  /\ disk' = [disk EXCEPT ![blockno[buf[p]]] = data[buf[p]]]
  /\ pinned' = pinned \ {buf[p]}
  /\ bunpin(buf[p])
  /\ UNCHANGED <<blockno, valid, lru, data, owner, buf, want, dirty>>

-----------------------------------------------------------------------------
(* brelse() *)

Asleep(b) == {p \in Proc : pc[p] = "asleep" /\ buf[p] = b}

WakeOne(b) == IF Asleep(b) = {} THEN pc
              ELSE [pc EXCEPT ![CHOOSE p \in Asleep(b) : TRUE] = "acquire"]

(* wakeup(lk) *)
Wake(b) == [p \in Proc |-> IF p \in Asleep(b) THEN "acquire" ELSE pc[p]]

(* releasesleep() *)
releasesleep(p) ==
  /\ pc[p] = "held" /\ ~dirty[p]
  /\ owner' = [owner EXCEPT ![buf[p]] = None]
  /\ pc' = [Wake(buf[p]) EXCEPT ![p] = "release"]
  /\ UNCHANGED <<cache, data, disk, pinned, buf, want, dirty>>

(* The reference is dropped, and the last one moves the buffer to the front. *)
brelse(p) ==
  LET b == buf[p] IN
  /\ BcacheFree
  /\ Goto(p, "release", "idle")
  /\ refcnt' = [refcnt EXCEPT ![b] = @ - 1]
  /\ lru' = IF refcnt[b] = 1 THEN <<b>> \o Remove(lru, b) ELSE lru
  /\ buf' = [buf EXCEPT ![p] = 0]
  /\ want' = [want EXCEPT ![p] = None]
  /\ UNCHANGED <<blockno, valid, data, owner, disk, pinned, dirty>>

-----------------------------------------------------------------------------
Holder(p) == \/ Read(p) \/ bwrite(p) \/ Written(p) \/ log_write(p) \/ Install(p) \/ Installed(p)
             \/ \E v \in Val : Modify(p, v)

Next == \E p \in Proc :
          \/ \E k \in Block : bgetHit(p, k) \/ bgetMiss(p, k) \/ bgetPanic(p, k)
          \/ Panicked(p)
          \/ acquiresleep(p) \/ acquiresleepWait(p) \/ KillWakes(p)
          \/ Holder(p)
          \/ releasesleep(p) \/ brelse(p)

Spec == Init /\ [][Next]_vars

-----------------------------------------------------------------------------
(* From bget() to brelse() a process's buffer is that of the block it asked
   for, because a buffer somebody waits for or holds is not recycled; the one
   who holds it finds the block's contents in it.  And bget() panics only when
   each of the buffers is in use by a process or pinned by the log: nobody
   leaks a reference, so with more buffers than users and pins together it
   always finds one to recycle. *)
HasItsBlock ==
  /\ \A p \in Proc : buf[p] # 0 =>
       /\ blockno[buf[p]] = want[p]
       /\ pc[p] \in {"held", "writing", "installing"} => valid[buf[p]]
  /\ (\E p \in Proc : pc[p] = "panic") => Buf = pinned \cup ({buf[p] : p \in Proc} \ {0})

(* A process asleep on a sleep lock has somebody to wake it: releasesleep()
   leaves nobody asleep on a free lock.  It wakes everyone, so that no waiter
   depends on another waiter's getting the lock and releasing it again. *)
SleeperHasHolder == \A p \in Proc : pc[p] = "asleep" => owner[buf[p]] # None

(* The value of a block: that of its buffer once read, else that on disk *)
Content == [k \in Block |->
              IF \E b \in Cached(k) : valid[b]
              THEN data[CHOOSE b \in Cached(k) : valid[b]] ELSE disk[k]]

HolderOf == [k \in Block |->
               IF \E p \in Proc : want[p] = k /\ pc[p] \in {"reading", "held", "writing", "installing"}
               THEN CHOOSE p \in Proc : /\ want[p] = k
                                        /\ pc[p] \in {"reading", "held", "writing", "installing"}
               ELSE None]

BS == INSTANCE BlockStore WITH content <- Content, holder <- HolderOf

(* The cache is one copy of every block: two processes never hold buffers of
   the same block, no change is lost when a buffer is recycled, and no stale
   contents appear. *)
ImplementsBlockStore == BS!Spec
=============================================================================
