------------------------------- MODULE Inode --------------------------------
(***************************************************************************)
(* kernel/fs.c and kernel/sysfile.c: the life of an inode.  Processes      *)
(* open, create, link, unlink and close files of one directory, each call  *)
(* inside a transaction of the log; the in-memory inode table is shared,   *)
(* and iput() frees an inode on disk when its last link and its last       *)
(* reference are gone.  After a crash ireclaim() frees the inodes that     *)
(* lost their last reference with the memory, by the same iput().  The     *)
(* directory's own slot of the table is not among those modelled.          *)
(*                                                                         *)
(* A sleep lock is taken when it is free; a section that runs under sleep  *)
(* locks nobody else needs is one step, and so is a section of             *)
(* itable.lock.  The log is the one Log shows: what a group of overlapping *)
(* calls wrote is on disk after the last of them ended and committed, or   *)
(* not at all.                                                             *)
(***************************************************************************)
EXTENDS Integers, FiniteSets, FiniteSetsExt

CONSTANTS Proc, Name,
          NInodes,      \* inodes on disk
          NINODE,       \* slots of the inode table
          Crashes,      \* whether the machine may crash
          None          \* no holder of a lock, no name

ASSUME SizeAssumption == {NInodes, NINODE} \subseteq Nat /\ Crashes \in BOOLEAN
ASSUME NoneAssumption == None \notin Proc \cup Name

Inum == 1..NInodes
Slot == 1..NINODE

VARIABLES
  type,             \* dinode: in use
  nlink,            \* dinode: number of links
  dir,              \* the directory: an inode number, or 0, for each name
  committed,        \* <<type, nlink, dir>> as a crash leaves them
  inum, ref, valid, inlink,   \* struct inode in the table; inlink is ip->nlink
  owner, dirowner,  \* holders of the inodes' and the directory's sleep locks
  pc, op, name,     \* a process's position, system call and path
  ip,               \* the slot it works on (0: none)
  file,             \* the slot of its open file (0: none)
  boot,             \* next inode for ireclaim() to look at; 0: system is up
  panicked          \* a panic other than "iget: no inodes", which is a pc

disk == <<type, nlink, dir>>
table == <<inum, ref, valid, inlink>>
locks == <<owner, dirowner>>
call == <<op, name>>
system == <<committed, boot>>
vars == <<disk, table, locks, pc, call, ip, file, system, panicked>>

Init ==
  /\ type = [i \in Inum |-> FALSE] /\ nlink = [i \in Inum |-> 0]
  /\ dir = [n \in Name |-> 0] /\ committed = disk
  /\ inum = [s \in Slot |-> 0] /\ ref = [s \in Slot |-> 0]
  /\ valid = [s \in Slot |-> FALSE] /\ inlink = [s \in Slot |-> 0]
  /\ owner = [s \in Slot |-> None] /\ dirowner = None
  /\ pc = [p \in Proc |-> "user"] /\ op = [p \in Proc |-> "none"]
  /\ name = [p \in Proc |-> None]
  /\ ip = [p \in Proc |-> 0] /\ file = [p \in Proc |-> 0]
  /\ boot = 0 /\ panicked = FALSE

Goto(p, from, to) == pc[p] = from /\ pc' = [pc EXCEPT ![p] = to]

(* The last call of a group commits before another one may begin. *)
MustCommit == committed # disk /\ \A p \in Proc : pc[p] = "user"

-----------------------------------------------------------------------------
(* The in-memory table *)

InTable(i) == {s \in Slot : ref[s] > 0 /\ inum[s] = i}

Empty == {s \in Slot : ref[s] = 0}

NoSlot(i) == InTable(i) = {} /\ Empty = {}

(* itable.lock can be taken: panic() in iget() stops its process for ever with
   the lock, while the others run on until they need it. *)
ItableFree == \A p \in Proc : pc[p] # "noinodes"

(* iget(): the slot of inode i, or a free one, or panic("iget: no inodes") *)
iget(p, i, from, to) ==
  /\ ItableFree
  /\ Goto(p, from, IF NoSlot(i) THEN "noinodes" ELSE to)
  /\ \/ \E s \in InTable(i) :
          /\ ref' = [ref EXCEPT ![s] = @ + 1]
          /\ ip' = [ip EXCEPT ![p] = s]
          /\ UNCHANGED <<inum, valid, inlink>>
     \/ /\ InTable(i) = {} /\ Empty # {}
        /\ LET s == Min(Empty) IN
             /\ inum' = [inum EXCEPT ![s] = i]
             /\ ref' = [ref EXCEPT ![s] = 1]
             /\ valid' = [valid EXCEPT ![s] = FALSE]
             /\ ip' = [ip EXCEPT ![p] = s]
             /\ UNCHANGED inlink
     \/ NoSlot(i) /\ UNCHANGED <<table, ip>>

(* The rest of the system has inodes in the table that no name here leads to:
   inode 0 stands for them. *)
OthersGet ==
  /\ ItableFree /\ boot = 0
  /\ \E s \in Empty : /\ s = Min(Empty)
                      /\ inum' = [inum EXCEPT ![s] = 0]
                      /\ ref' = [ref EXCEPT ![s] = 1]
                      /\ valid' = [valid EXCEPT ![s] = FALSE]
  /\ UNCHANGED <<disk, inlink, locks, pc, call, ip, file, system, panicked>>

OthersPut ==
  /\ ItableFree
  /\ \E s \in InTable(0) : ref' = [ref EXCEPT ![s] = 0]
  /\ UNCHANGED <<disk, inum, valid, inlink, locks, pc, call, ip, file, system, panicked>>

(* for(;;) of panic() *)
Halted(p) == pc[p] = "noinodes" /\ UNCHANGED vars

(* ilock(ip) can go on. *)
Lockable(p) == owner[ip[p]] = None

(* The link count of slot s once ilock() has it *)
Links(s) == IF valid[s] THEN inlink[s] ELSE nlink[inum[s]]

(* "ilock: no type" *)
NoType(s) == ~valid[s] /\ ~type[inum[s]]

(* The link count of p's inode becomes k, in memory and, by iupdate(), on
   disk; ilock() came before. *)
SetLinks(p, k) ==
  LET s == ip[p] IN
  /\ inlink' = [inlink EXCEPT ![s] = k]
  /\ valid' = [valid EXCEPT ![s] = TRUE]
  /\ nlink' = [nlink EXCEPT ![inum[s]] = k]
  /\ panicked' = (panicked \/ NoType(s))
  /\ UNCHANGED <<inum, ref, type>>

-----------------------------------------------------------------------------
(* System calls *)

(* begin_op() *)
Begin(p, call_) ==
  /\ boot = 0 /\ ~MustCommit
  /\ call_ = "open" => file[p] = 0
  /\ Goto(p, "user", "lookup")
  /\ op' = [op EXCEPT ![p] = call_]
  /\ UNCHANGED <<disk, table, locks, name, ip, file, system, panicked>>

(* end_op(), with the directory unlocked if p still has it *)
End(p, from) ==
  /\ Goto(p, from, "user")
  /\ op' = [op EXCEPT ![p] = "none"]
  /\ name' = [name EXCEPT ![p] = None]
  /\ ip' = [ip EXCEPT ![p] = 0]
  /\ dirowner' = IF dirowner = p THEN None ELSE dirowner

(* namei() of a path that exists, for open() and link(); create() that finds
   the name goes the same way. *)
namei(p, n) ==
  /\ op[p] \in {"open", "link"}
  /\ dirowner = None /\ dir[n] # 0
  /\ iget(p, dir[n], "lookup", op[p])
  /\ dirowner' = IF NoSlot(dir[n]) THEN p ELSE None
  /\ UNCHANGED <<disk, owner, call, file, system, panicked>>

(* The name is missing. *)
LookupFails(p, n) ==
  /\ dirowner = None /\ dir[n] = 0
  /\ End(p, "lookup")
  /\ UNCHANGED <<disk, table, owner, file, system, panicked>>

(* sys_open(): ilock(ip), which create() has done already, filealloc(),
   iunlock(ip).  Without a file structure the inode is put back. *)
sys_open(p) ==
  /\ pc[p] = "open" /\ (Lockable(p) \/ owner[ip[p]] = p)
  /\ owner' = [owner EXCEPT ![ip[p]] = None]
  /\ SetLinks(p, Links(ip[p]))
  /\ \/ /\ file' = [file EXCEPT ![p] = ip[p]]
        /\ End(p, "open")
     \/ /\ Goto(p, "open", "put")
        /\ UNCHANGED <<call, ip, file, dirowner>>
  /\ UNCHANGED <<dir, system>>

-----------------------------------------------------------------------------
(* create() of a new name *)

(* The directory stays locked, and ialloc() takes the first free inode. *)
ialloc(p, n) ==
  /\ op[p] = "open"
  /\ dirowner = None /\ dir[n] = 0
  /\ \E i \in Inum : ~type[i]
  /\ LET i == Min({j \in Inum : ~type[j]}) IN
       /\ type' = [type EXCEPT ![i] = TRUE]
       /\ nlink' = [nlink EXCEPT ![i] = 0]
       /\ iget(p, i, "lookup", "create")
  /\ dirowner' = p
  /\ name' = [name EXCEPT ![p] = n]
  /\ UNCHANGED <<dir, owner, op, file, system, panicked>>

(* ilock(ip), nlink = 1 and dirlink(); the inode stays locked for open(). *)
create(p) ==
  /\ pc[p] = "create" /\ Lockable(p)
  /\ SetLinks(p, 1)
  /\ dir' = [dir EXCEPT ![name[p]] = inum[ip[p]]]
  /\ dirowner' = None
  /\ owner' = [owner EXCEPT ![ip[p]] = p]
  /\ name' = [name EXCEPT ![p] = None]
  /\ Goto(p, "create", "open")
  /\ UNCHANGED <<op, ip, file, system>>

(* dirlink() fails: nlink = 0, and the inode is put with the directory locked. *)
createFails(p) ==
  /\ pc[p] = "create" /\ Lockable(p)
  /\ SetLinks(p, 0)
  /\ Goto(p, "create", "put")
  /\ UNCHANGED <<dir, locks, call, ip, file, system>>

-----------------------------------------------------------------------------
(* sys_link() *)

linkInodeUncounted(p) ==
  /\ pc[p] = "link" /\ Lockable(p)
  /\ SetLinks(p, Links(ip[p]))
  /\ Goto(p, "link", "dirlink")
  /\ UNCHANGED <<dir, locks, call, ip, file, system>>

linkInodeLocked(p) ==
  /\ pc[p] = "link" /\ Lockable(p)
  /\ SetLinks(p, Links(ip[p]) + 1)
  /\ owner' = [owner EXCEPT ![ip[p]] = p]
  /\ Goto(p, "link", "dirlink")
  /\ UNCHANGED <<dir, dirowner, call, ip, file, system>>

(* nlink++, and the inode is unlocked before the new name's directory is
   looked up. *)
linkInode(p) ==
  /\ pc[p] = "link" /\ Lockable(p)
  /\ SetLinks(p, Links(ip[p]) + 1)
  /\ Goto(p, "link", "dirlink")
  /\ UNCHANGED <<dir, locks, call, ip, file, system>>

dirlink(p, n) ==
  /\ dirowner = None /\ dir[n] = 0
  /\ Goto(p, "dirlink", "put")
  /\ dir' = [dir EXCEPT ![n] = inum[ip[p]]]
  /\ UNCHANGED <<type, nlink, table, locks, call, ip, file, system, panicked>>

(* The new name has no parent directory, or cannot be written. *)
dirlinkFails(p) ==
  /\ dirowner = None
  /\ Goto(p, "dirlink", "bad")
  /\ UNCHANGED <<disk, table, locks, call, ip, file, system, panicked>>

(* The new name exists: dirlookup() gets its inode, for which there may be no
   slot, and dirlink() puts it back; it has a link, so this iput() frees
   nothing. *)
dirlinkExists(p, n) ==
  /\ ItableFree /\ dirowner = None /\ dir[n] # 0
  /\ Goto(p, "dirlink", IF NoSlot(dir[n]) THEN "noinodes" ELSE "bad")
  /\ dirowner' = IF NoSlot(dir[n]) THEN p ELSE None
  /\ UNCHANGED <<disk, table, owner, call, ip, file, system, panicked>>

linkBadForgotten(p) ==
  /\ pc[p] = "bad" /\ Lockable(p)
  /\ Goto(p, "bad", "put")
  /\ UNCHANGED <<disk, table, locks, call, ip, file, system, panicked>>

(* nlink-- *)
linkBad(p) ==
  /\ pc[p] = "bad" /\ Lockable(p)
  /\ SetLinks(p, Links(ip[p]) - 1)
  /\ Goto(p, "bad", "put")
  /\ UNCHANGED <<dir, locks, call, ip, file, system>>

-----------------------------------------------------------------------------
(* sys_unlink() *)

unlinkLookup(p, n) ==
  /\ op[p] = "unlink"
  /\ dirowner = None /\ dirowner' = p
  /\ dir[n] # 0
  /\ name' = [name EXCEPT ![p] = n]
  /\ iget(p, dir[n], "lookup", "unlink")
  /\ UNCHANGED <<disk, owner, op, file, system, panicked>>

(* ilock(ip); the entry is erased and the directory unlocked. *)
unlinkEntry(p) ==
  /\ pc[p] = "unlink" /\ Lockable(p)
  /\ owner' = [owner EXCEPT ![ip[p]] = p]
  /\ inlink' = [inlink EXCEPT ![ip[p]] = Links(ip[p])]
  /\ valid' = [valid EXCEPT ![ip[p]] = TRUE]
  /\ panicked' = (panicked \/ NoType(ip[p]) \/ Links(ip[p]) < 1)  \* "unlink: nlink < 1"
  /\ dir' = [dir EXCEPT ![name[p]] = 0]
  /\ dirowner' = None
  /\ name' = [name EXCEPT ![p] = None]
  /\ Goto(p, "unlink", "unlinked")
  /\ UNCHANGED <<type, nlink, inum, ref, op, ip, file, system>>

(* nlink--, then the inode is unlocked and put. *)
unlinkInode(p) ==
  /\ Goto(p, "unlinked", "put")
  /\ SetLinks(p, inlink[ip[p]] - 1)
  /\ owner' = [owner EXCEPT ![ip[p]] = None]
  /\ UNCHANGED <<dir, dirowner, call, ip, file, system>>

-----------------------------------------------------------------------------
(* fileclose() and iput() *)

fileclose(p) ==
  /\ ~MustCommit /\ file[p] # 0
  /\ Goto(p, "user", "put")
  /\ op' = [op EXCEPT ![p] = "close"]
  /\ ip' = [ip EXCEPT ![p] = file[p]]
  /\ file' = [file EXCEPT ![p] = 0]
  /\ UNCHANGED <<disk, table, locks, name, system, panicked>>

LastUnlinkedAnyRef(s) == valid[s] /\ inlink[s] = 0

(* The inode has no links, and nobody else has a reference. *)
LastUnlinked(s) == ref[s] = 1 /\ valid[s] /\ inlink[s] = 0

iput(p) ==
  /\ ItableFree /\ pc[p] = "put" /\ ~LastUnlinked(ip[p])
  /\ ref' = [ref EXCEPT ![ip[p]] = @ - 1]
  /\ End(p, "put")
  /\ UNCHANGED <<disk, inum, valid, inlink, owner, file, system, panicked>>

(* acquiresleep() under itable.lock: to sleep there would be a panic. *)
iputFree(p) ==
  /\ ItableFree /\ Goto(p, "put", "free")
  /\ LastUnlinked(ip[p])
  /\ owner' = [owner EXCEPT ![ip[p]] = p]
  /\ panicked' = (panicked \/ ~Lockable(p))
  /\ UNCHANGED <<disk, table, dirowner, call, ip, file, system>>

(* itable.lock is released: itrunc(), type = 0, iupdate() *)
iputTrunc(p) ==
  /\ Goto(p, "free", "invalidate")
  /\ type' = [type EXCEPT ![inum[ip[p]]] = FALSE]
  /\ nlink' = [nlink EXCEPT ![inum[ip[p]]] = 0]
  /\ UNCHANGED <<dir, table, locks, call, ip, file, system, panicked>>

Invalidate(s) == valid' = [valid EXCEPT ![s] = FALSE]

iputInvalidate(p) ==
  /\ Goto(p, "invalidate", "unref")
  /\ Invalidate(ip[p])
  /\ owner' = [owner EXCEPT ![ip[p]] = None]
  /\ UNCHANGED <<disk, inum, ref, inlink, dirowner, call, ip, file, system, panicked>>

iputUnref(p) ==
  /\ ItableFree
  /\ ref' = [ref EXCEPT ![ip[p]] = @ - 1]
  /\ End(p, "unref")
  /\ UNCHANGED <<disk, inum, valid, inlink, owner, file, system, panicked>>

-----------------------------------------------------------------------------
(* The log, and crashes *)

commit ==
  /\ MustCommit
  /\ committed' = disk
  /\ UNCHANGED <<disk, table, locks, pc, call, ip, file, boot, panicked>>

(* At any time, ireclaim() of the crash before included *)
Crash ==
  /\ Crashes
  /\ type' = committed[1] /\ nlink' = committed[2] /\ dir' = committed[3]
  /\ inum' = [s \in Slot |-> 0] /\ ref' = [s \in Slot |-> 0]
  /\ valid' = [s \in Slot |-> FALSE] /\ inlink' = [s \in Slot |-> 0]
  /\ owner' = [s \in Slot |-> None] /\ dirowner' = None
  /\ pc' = [p \in Proc |-> "user"] /\ op' = [p \in Proc |-> "none"]
  /\ name' = [p \in Proc |-> None]
  /\ ip' = [p \in Proc |-> 0] /\ file' = [p \in Proc |-> 0]
  /\ boot' = 1
  /\ UNCHANGED <<committed, panicked>>

(* "is an orphaned inode" *)
Orphan(i) == type[i] /\ nlink[i] = 0

(* The first process scans the inodes before anything else runs; end_op() has
   committed what it did to the one before. *)
ireclaimScan(p) ==
  /\ boot > 0 /\ ~MustCommit /\ \A q \in Proc : pc[q] = "user"
  /\ \/ /\ boot <= NInodes /\ Orphan(boot)
        /\ iget(p, boot, "user", "reclaim")
        /\ op' = [op EXCEPT ![p] = "reclaim"]
        /\ boot' = boot + 1
     \/ /\ boot <= NInodes /\ ~Orphan(boot)
        /\ boot' = boot + 1
        /\ UNCHANGED <<table, ip, pc, op>>
     \/ /\ boot = NInodes + 1
        /\ boot' = 0
        /\ UNCHANGED <<table, ip, pc, op>>
  /\ UNCHANGED <<disk, locks, name, file, committed, panicked>>

ireclaimUnread(p) ==
  /\ Goto(p, "reclaim", "put")
  /\ UNCHANGED <<disk, table, locks, call, ip, file, system, panicked>>

(* begin_op(), ilock(), which reads the inode, and iunlock(); iput() follows. *)
ireclaim(p) ==
  /\ pc[p] = "reclaim" /\ Lockable(p)
  /\ SetLinks(p, Links(ip[p]))
  /\ Goto(p, "reclaim", "put")
  /\ UNCHANGED <<dir, locks, call, ip, file, system>>

-----------------------------------------------------------------------------
Step(p) ==
  \/ \E c \in {"open", "link", "unlink"} : Begin(p, c)
  \/ \E n \in Name : \/ namei(p, n) \/ LookupFails(p, n) \/ ialloc(p, n)
                     \/ unlinkLookup(p, n) \/ dirlink(p, n)
  \/ sys_open(p) \/ create(p) \/ createFails(p)
  \/ linkInode(p) \/ dirlinkFails(p) \/ linkBad(p)
  \/ \E n \in Name : dirlinkExists(p, n)
  \/ unlinkEntry(p) \/ unlinkInode(p)
  \/ fileclose(p) \/ iput(p) \/ iputFree(p) \/ iputTrunc(p) \/ iputInvalidate(p) \/ iputUnref(p)
  \/ ireclaimScan(p) \/ ireclaim(p) \/ Halted(p)

Next == (\E p \in Proc : Step(p)) \/ commit \/ Crash \/ OthersGet \/ OthersPut

Spec == Init /\ [][Next]_vars

-----------------------------------------------------------------------------
(* Every variable keeps its type. *)
TypeOK ==
  /\ type \in [Inum -> BOOLEAN] /\ nlink \in [Inum -> Nat] /\ dir \in [Name -> Inum \cup {0}]
  /\ inum \in [Slot -> Inum \cup {0}] /\ ref \in [Slot -> Nat]
  /\ valid \in [Slot -> BOOLEAN] /\ inlink \in [Slot -> Nat]
  /\ owner \in [Slot -> Proc \cup {None}] /\ dirowner \in Proc \cup {None}
  /\ op \in [Proc -> {"none", "open", "link", "unlink", "close", "reclaim"}]
  /\ pc \in [Proc -> {"user", "lookup", "open", "create", "link", "dirlink", "bad", "unlink",
                      "unlinked", "put", "free", "invalidate", "unref", "reclaim", "noinodes"}]
  /\ name \in [Proc -> Name \cup {None}]
  /\ ip \in [Proc -> Slot \cup {0}] /\ file \in [Proc -> Slot \cup {0}]
  /\ boot \in 0..NInodes + 1 /\ panicked \in BOOLEAN

(* These panics are not reached: ilock() of a free inode ("ilock: no type"),
   unlink of an entry whose inode has no links ("unlink: nlink < 1"), and a
   sleep inside iput()'s itable.lock.  "iget: no inodes" is reached, but only
   when every slot is one that a call works on, a process has open or the rest
   of the system uses: no reference is lost. *)
NoPanic ==
  /\ ~panicked
  /\ ~ItableFree => \A s \in Slot : inum[s] = 0 \/ \E p \in Proc : s \in {ip[p], file[p]}

(* What a crash leaves on disk is consistent: an inode's link count is the
   number of its names. *)
LinksOnDisk ==
  \A i \in Inum : /\ committed[2][i] = Cardinality({n \in Name : committed[3][n] = i})
                  /\ committed[2][i] > 0 => committed[1][i]

(* fs.c: "If that was the last reference and the inode has no links to it,
   free the inode (and its content) on disk."  While the system is up, an
   inode in use without links is one that somebody still refers to. *)
LastPutFrees ==
  boot = 0 /\ ItableFree => \A i \in Inum : type[i] /\ nlink[i] = 0 => InTable(i) # {}

(* The locks of directory and inodes are taken in an order that leaves someone
   who can go on: processes inside system calls never all wait for each other
   (until iget() panics). *)
NoDeadlock ==
  ItableFree /\ (\E p \in Proc : pc[p] # "user") =>
    \E p \in Proc : pc[p] # "user" /\ ENABLED Step(p)

(* A file that was unlinked while open when the machine crashed is gone from
   the disk when the system is up again, and its inode free, wherever in the
   calls or in an earlier ireclaim() the crashes came; ireclaim() keeps no
   reference to it. *)
BootReclaims ==
  [][boot > 0 /\ boot' = 0 =>
       /\ committed' = disk'
       /\ \A i \in Inum : type'[i] => nlink'[i] > 0
       /\ \A s \in Slot : ref'[s] = 0]_vars
=============================================================================
