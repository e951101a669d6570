----------------------------- MODULE VirtioDisk -----------------------------
(***************************************************************************)
(* kernel/virtio_disk.c: virtio_disk_rw() hands requests of three          *)
(* descriptors to the device through the avail ring, and                   *)
(* virtio_disk_intr() takes completions from the used ring.  The device    *)
(* works beside the CPUs: it sees the rings whatever lock is held, and     *)
(* completes requests in any order.                                        *)
(*                                                                         *)
(* A process waits for the buffer it has locked, so a buffer is named by   *)
(* its process.  vdisk_lock is held from step to step where the device can *)
(* act in between; sleep() and wakeup() are those of CondVar.              *)
(***************************************************************************)
EXTENDS Integers, Sequences, FiniteSets

CONSTANTS Proc,     \* processes that read and write blocks
          NUM,      \* number of descriptors
          IdxMod,   \* ring indices are unsigned integers modulo this (2^16)
          Intr,     \* the interrupt handler, as owner of vdisk_lock
          Free,     \* owner of vdisk_lock when nobody holds it
          NoBuf     \* a null struct buf pointer

ASSUME NumAssumption == NUM \in Nat /\ NUM >= 3
ASSUME IdxAssumption == IdxMod \in Nat \ {0} /\ IdxMod % NUM = 0
ASSUME OwnerAssumption == /\ Intr \notin Proc /\ Free \notin Proc \cup {Intr}
                          /\ NoBuf \notin Proc

Desc == 0..NUM - 1

VARIABLES
  free,              \* disk.free[]
  next,              \* disk.desc[]: the next descriptor of the chain, if
                     \* VRING_DESC_F_NEXT is set, and -1 if not
  infob, status,     \* disk.info[].b and disk.info[].status
  availring, availidx, usedring, usedidx,   \* the rings, shared with the device
  used_idx,          \* disk.used_idx
  busy,              \* b->disk
  lock,              \* owner of vdisk_lock
  pc, head,          \* a process's position, and its idx[0]
  seen, inflight,    \* device: avail entries fetched; requests at work
  irq,               \* device: an interrupt is asserted
  served,            \* device: buffers of requests it has carried out
  panicked

descs == <<free, next, infob>>
avail == <<availring, availidx>>
used == <<usedring, usedidx>>
device == <<seen, inflight, served>>
vars == <<descs, status, avail, used, used_idx, busy, lock, pc, head, device, irq, panicked>>

(* virtio_disk_init() *)
Init ==
  /\ free = [d \in Desc |-> TRUE]
  /\ next = [d \in Desc |-> -1]
  /\ infob = [d \in Desc |-> NoBuf] /\ status = [d \in Desc |-> 0]
  /\ availring = [k \in Desc |-> 0] /\ availidx = 0
  /\ usedring = [k \in Desc |-> 0] /\ usedidx = 0
  /\ used_idx = 0
  /\ busy = [p \in Proc |-> FALSE]
  /\ lock = Free
  /\ pc = [p \in Proc |-> "idle"] /\ head = [p \in Proc |-> 0]
  /\ seen = 0 /\ inflight = {} /\ irq = FALSE /\ served = {}
  /\ panicked = FALSE

IncUnwrapped(idx) == idx + 1

Inc(idx) == (idx + 1) % IdxMod

(* Where the next avail and used entries are *)
AvailSlot == availidx % NUM

UsedSlot == used_idx % NUM

FreeDescs == {d \in Desc : free[d]}

(* pc after process p goes from one position to another *)
Goto(p, from, to) == pc[p] = from /\ pc' = [pc EXCEPT ![p] = to]

GotoSilently(p, from, to) == Goto(p, from, to)

(* The same, and free_desc() wakes those who wait for descriptors. *)
GotoFreeing(p, from, to) ==
  /\ pc[p] = from
  /\ pc' = [q \in Proc |-> IF q = p THEN to
                           ELSE IF pc[q] = "sleep_free" THEN "alloc" ELSE pc[q]]

-----------------------------------------------------------------------------
(* virtio_disk_rw() *)

Call(p) ==
  /\ Goto(p, "idle", "alloc")
  /\ served' = served \ {p}
  /\ UNCHANGED <<descs, status, avail, used, used_idx, busy, lock, head, seen, inflight,
                 irq, panicked>>

(* b->disk = 1 *)
MarkBusy(p) == busy' = [busy EXCEPT ![p] = TRUE]

(* alloc3_desc(): the three lowest free descriptors, linked and filled in.
   The ring entry is written, but avail->idx does not count it yet. *)
Alloc(p) ==
  /\ lock = Free /\ lock' = p
  /\ Goto(p, "alloc", "publish")
  /\ \E a, b, c \in FreeDescs :
       /\ a < b /\ b < c
       /\ \A d \in FreeDescs : d <= c => d \in {a, b, c}
       /\ free' = [free EXCEPT ![a] = FALSE, ![b] = FALSE, ![c] = FALSE]
       /\ next' = [next EXCEPT ![a] = b, ![b] = c, ![c] = -1]
       /\ infob' = [infob EXCEPT ![a] = p]
       /\ status' = [status EXCEPT ![a] = 255]
       /\ head' = [head EXCEPT ![p] = a]
       /\ availring' = [availring EXCEPT ![AvailSlot] = a]
  /\ MarkBusy(p)
  /\ UNCHANGED <<availidx, used, used_idx, device, irq, panicked>>

(* Too few: those found are freed again, which wakes others, and p sleeps. *)
AllocFails(p) ==
  /\ lock = Free
  /\ Cardinality(FreeDescs) < 3
  /\ IF FreeDescs = {} THEN Goto(p, "alloc", "sleep_free")
                       ELSE GotoFreeing(p, "alloc", "sleep_free")
  /\ UNCHANGED <<descs, status, avail, used, used_idx, busy, lock, head, device, irq, panicked>>

(* avail->idx += 1, then sleep until virtio_disk_intr() clears b->disk. *)
Publish(p) ==
  /\ Goto(p, "publish", "sleep_buf")
  /\ availidx' = Inc(availidx)
  /\ lock' = Free
  /\ UNCHANGED <<descs, status, availring, used, used_idx, busy, head, device, irq, panicked>>

(* kkill() makes a sleeping process runnable whatever it waits for. *)
KillWakes(p) ==
  /\ pc[p] \in {"sleep_free", "sleep_buf"}
  /\ pc' = [pc EXCEPT ![p] = IF @ = "sleep_free" THEN "alloc" ELSE "woken"]
  /\ UNCHANGED <<descs, status, avail, used, used_idx, busy, lock, head, device, irq, panicked>>

DoneOrWoken(p) == TRUE

(* The condition of the loop that waits for the transfer *)
Done(p) == ~busy[p]

(* A woken process finds that its buffer is not done yet, and sleeps again. *)
SleepAgain(p) ==
  /\ lock = Free /\ ~Done(p)
  /\ Goto(p, "woken", "sleep_buf")
  /\ UNCHANGED <<descs, status, avail, used, used_idx, busy, lock, head, device, irq, panicked>>

(* The descriptors of a chain of up to three *)
Chain(d) == {d} \cup (IF next[d] = -1 THEN {}
                      ELSE {next[d]} \cup (IF next[next[d]] = -1 THEN {} ELSE {next[next[d]]}))

free_chainHead(d) == {d}

(* The descriptors free_chain() frees *)
free_chain(d) == Chain(d)

(* The request is done and its descriptors are given back. *)
Finish(p) ==
  LET chain == free_chain(head[p]) IN
  /\ lock = Free /\ Done(p)
  /\ infob' = [infob EXCEPT ![head[p]] = NoBuf]
  /\ free' = [d \in Desc |-> free[d] \/ d \in chain]
  /\ next' = [d \in Desc |-> IF d \in chain THEN -1 ELSE next[d]]
  /\ panicked' = (panicked \/ chain \cap FreeDescs # {})   \* "free_desc 2"
  /\ head' = [head EXCEPT ![p] = 0]
  /\ GotoFreeing(p, "woken", "idle")
  /\ UNCHANGED <<status, avail, used, used_idx, busy, lock, device, irq>>

-----------------------------------------------------------------------------
(* virtio_disk_intr() *)

(* The interrupt is acknowledged before the used ring is read. *)
IntrStart ==
  /\ irq /\ irq' = FALSE
  /\ lock = Free /\ lock' = Intr
  /\ UNCHANGED <<descs, status, avail, used, used_idx, busy, pc, head, device, panicked>>

(* wakeup(b) *)
Woken(p) == pc' = [pc EXCEPT ![p] = IF @ = "sleep_buf" THEN "woken" ELSE @]

(* One used entry *)
IntrEntry ==
  LET id == usedring[UsedSlot]
      b  == infob[id]
  IN /\ lock = Intr
     /\ used_idx # usedidx
     /\ used_idx' = Inc(used_idx)
     /\ IF status[id] # 0 \/ b = NoBuf
        THEN panicked' = TRUE /\ UNCHANGED <<busy, pc>>
        ELSE /\ busy' = [busy EXCEPT ![b] = FALSE]
             /\ Woken(b)
             /\ UNCHANGED panicked
     /\ UNCHANGED <<descs, status, avail, used, lock, head, device, irq>>

(* The loop over the used ring ends when it has caught up with the device. *)
CaughtUp == used_idx = usedidx

IntrEnd ==
  /\ lock = Intr
  /\ CaughtUp
  /\ lock' = Free
  /\ UNCHANGED <<descs, status, avail, used, used_idx, busy, pc, head, device, irq, panicked>>

-----------------------------------------------------------------------------
(* The device *)

DevFetch ==
  /\ seen # availidx
  /\ inflight' = inflight \cup {availring[seen % NUM]}
  /\ seen' = Inc(seen)
  /\ UNCHANGED <<descs, status, avail, used, used_idx, busy, lock, pc, head, served, irq, panicked>>

(* The data and the status are transferred, an entry is added to the used
   ring, and the interrupt is asserted. *)
DevComplete(id) ==
  /\ id \in inflight
  /\ inflight' = inflight \ {id}
  /\ status' = [status EXCEPT ![id] = 0]
  /\ served' = served \cup ({infob[id]} \cap Proc)
  /\ usedring' = [usedring EXCEPT ![usedidx % NUM] = id]
  /\ usedidx' = Inc(usedidx)
  /\ irq' = TRUE
  /\ UNCHANGED <<descs, avail, used_idx, busy, lock, pc, head, seen, panicked>>

-----------------------------------------------------------------------------
Driver(p) == Alloc(p) \/ AllocFails(p) \/ Publish(p) \/ SleepAgain(p) \/ Finish(p)
Interrupt == IntrStart \/ IntrEntry \/ IntrEnd
Device == DevFetch \/ \E id \in Desc : DevComplete(id)

Next == \/ \E p \in Proc : Call(p) \/ Driver(p) \/ KillWakes(p)
        \/ Interrupt
        \/ Device

Spec == Init /\ [][Next]_vars

-----------------------------------------------------------------------------
(* Requests the kernel has handed over, fetched by the device or not *)
Requested == {availring[k % NUM] : k \in {j \in 0..2 * IdxMod - 1 :
                 /\ j >= seen
                 /\ j < IF availidx >= seen THEN availidx ELSE availidx + IdxMod}}

AtDevice == inflight \cup Requested

(* Every variable keeps its type. *)
TypeOK ==
  /\ free \in [Desc -> BOOLEAN] /\ next \in [Desc -> Desc \cup {-1}]
  /\ infob \in [Desc -> Proc \cup {NoBuf}] /\ status \in [Desc -> {0, 255}]
  /\ availring \in [Desc -> Desc] /\ usedring \in [Desc -> Desc]
  /\ {availidx, usedidx, used_idx, seen} \subseteq 0..IdxMod - 1
  /\ busy \in [Proc -> BOOLEAN] /\ head \in [Proc -> Desc]
  /\ lock \in Proc \cup {Intr, Free}
  /\ pc \in [Proc -> {"idle", "alloc", "sleep_free", "publish", "sleep_buf", "woken"}]
  /\ inflight \subseteq Desc /\ served \subseteq Proc
  /\ irq \in BOOLEAN /\ panicked \in BOOLEAN

(* Whatever the device has or is about to fetch belongs to a request whose
   process still waits in virtio_disk_rw() with its buffer marked busy: the
   device never transfers to or from a buffer that was given back.  And
   b->disk is cleared only for a buffer that was served, so virtio_disk_rw()
   does not return before its transfer is done. *)
DeviceOwnsBuffer ==
  /\ \A id \in AtDevice : \E p \in Proc :
       infob[id] = p /\ head[p] = id /\ busy[p] /\ pc[p] \in {"sleep_buf", "woken"}
  /\ \A p \in Proc : pc[p] \in {"sleep_buf", "woken"} /\ ~busy[p] => p \in served

(* The chains of the processes waiting for a transfer and the free
   descriptors share out all descriptors: alloc3_desc() and free_chain()
   neither leak one nor hand one to two requests.  None is freed twice, and
   the interrupt handler meets no completion whose chain was given back: the
   panics "free_desc 2" and "virtio_disk_intr status" are not reached. *)
DescsConserved ==
  LET holders == {p \in Proc : pc[p] \in {"publish", "sleep_buf", "woken"}} IN
  /\ ~panicked
  /\ \A p \in holders : Cardinality(Chain(head[p])) = 3 /\ Chain(head[p]) \cap FreeDescs = {}
  /\ \A p, q \in holders : p # q => Chain(head[p]) \cap Chain(head[q]) = {}
  /\ 3 * Cardinality(holders) + Cardinality(FreeDescs) = NUM

(* Completions the kernel has not taken yet *)
Completed == {usedring[k % NUM] : k \in {j \in 0..2 * IdxMod - 1 :
                 /\ j >= used_idx
                 /\ j < IF usedidx >= used_idx THEN usedidx ELSE usedidx + IdxMod}}

(* Nobody sleeps in virtio_disk_rw() without reason: the transfer a process
   waits for is at the device or among the completions that are still to be
   handled, and one that waits for descriptors would not find three.  Those
   completions are announced by an interrupt, or the handler is still in its
   loop, also when the device completes requests while it runs. *)
SleepersHaveReason ==
  /\ used_idx # usedidx => irq \/ lock = Intr
  /\ \A p \in Proc :
       /\ pc[p] = "sleep_buf" => head[p] \in AtDevice \cup Completed
       /\ pc[p] = "sleep_free" => Cardinality(FreeDescs) < 3
=============================================================================
