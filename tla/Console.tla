------------------------------ MODULE Console -------------------------------
(***************************************************************************)
(* kernel/console.c, input side: consoleintr() edits the circular buffer   *)
(* cons.buf at the console interrupt, consoleread() takes characters from  *)
(* it.  cons.lock is held from step to step inside consoleread(); sleep()  *)
(* and wakeup() are those of CondVar.                                      *)
(***************************************************************************)
EXTENDS Integers, Sequences

CONSTANTS Proc,
          Plain,            \* characters without a meaning of their own
          Counts,           \* values of read()'s n
          INPUT_BUF_SIZE,
          CounterMod,       \* r, w and e are unsigned integers modulo this (2^32)
          Free              \* owner of cons.lock when nobody holds it

Char == Plain \cup {"nl", "eof"}

ASSUME SizeAssumption == INPUT_BUF_SIZE \in Nat \ {0}
ASSUME CounterAssumption == CounterMod \in Nat /\ CounterMod > INPUT_BUF_SIZE
                            /\ CounterMod % INPUT_BUF_SIZE = 0
ASSUME NamesAssumption == Free \notin Proc /\ "nul" \notin Plain /\ Counts \subseteq Nat \ {0}

VARIABLES cbuf, r, w, e,   \* cons
          lock,            \* owner of cons.lock
          pc, n, target,   \* position of a reader, what it still wants, what it wanted
          killed

cons == <<cbuf, r, w, e>>
vars == <<cons, lock, pc, n, target, killed>>

Init == /\ cbuf = [i \in 0..INPUT_BUF_SIZE - 1 |-> "nul"]
        /\ r = 0 /\ w = 0 /\ e = 0
        /\ lock = Free
        /\ pc = [p \in Proc |-> "user"]
        /\ n = [p \in Proc |-> 0] /\ target = [p \in Proc |-> 0]
        /\ killed = [p \in Proc |-> FALSE]

(* unsigned arithmetic *)
Plus(k, d) == (k + d) % CounterMod

Used == Plus(e, -r)

Slot(k) == k % INPUT_BUF_SIZE

-----------------------------------------------------------------------------
(* consoleintr() *)

(* cons.e-cons.r < INPUT_BUF_SIZE *)
Room == Used < INPUT_BUF_SIZE

(* The character just stored makes what was typed readable. *)
Enters(c) == c \in {"nl", "eof"} \/ Used + 1 = INPUT_BUF_SIZE

WakeNobody == pc

(* wakeup(&cons.r) *)
Wakeup == [p \in Proc |-> IF pc[p] = "asleep" THEN "acquire" ELSE pc[p]]

Type(c) ==
  /\ lock = Free
  /\ Room
  /\ cbuf' = [cbuf EXCEPT ![Slot(e)] = c]
  /\ e' = Plus(e, 1)
  /\ IF Enters(c) THEN w' = e' /\ pc' = Wakeup ELSE UNCHANGED <<w, pc>>
  /\ UNCHANGED <<r, lock, n, target, killed>>

ErasesEntered == e # r

(* cons.e != cons.w *)
Erasable == e # w

Backspace ==
  /\ lock = Free
  /\ Erasable
  /\ e' = Plus(e, -1)
  /\ UNCHANGED <<cbuf, r, w, lock, pc, n, target, killed>>

(* ^U erases back to the last entered character or newline. *)
KillLine ==
  /\ lock = Free
  /\ \E d \in 0..INPUT_BUF_SIZE :
       LET end == Plus(e, -d) IN
       /\ d <= Plus(e, -w)
       /\ \A k \in 1..d : cbuf[Slot(Plus(e, -k))] # "nl"
       /\ end = w \/ cbuf[Slot(Plus(end, -1))] = "nl"
       /\ e' = end
  /\ UNCHANGED <<cbuf, r, w, lock, pc, n, target, killed>>

-----------------------------------------------------------------------------
(* consoleread() *)

Goto(p, from, to) == pc[p] = from /\ pc' = [pc EXCEPT ![p] = to]

Call(p, k) ==
  /\ Goto(p, "user", "acquire") /\ ~killed[p]
  /\ n' = [n EXCEPT ![p] = k] /\ target' = [target EXCEPT ![p] = k]
  /\ UNCHANGED <<cons, lock, killed>>

(* At the start, and when sleep() returns *)
Acquire(p) ==
  /\ Goto(p, "acquire", "loop")
  /\ lock = Free /\ lock' = p
  /\ UNCHANGED <<cons, n, target, killed>>

(* The lock is released and consoleread() returns. *)
Return(p) ==
  /\ Goto(p, "loop", "user")
  /\ lock' = Free
  /\ n' = [n EXCEPT ![p] = 0] /\ target' = [target EXCEPT ![p] = 0]

ReturnFull(p) ==
  /\ n[p] = 0
  /\ Return(p)
  /\ UNCHANGED <<cons, killed>>

ReturnKilled(p) ==
  /\ n[p] > 0 /\ r = w /\ killed[p]
  /\ Return(p)
  /\ UNCHANGED <<cons, killed>>

(* killed() is asked before sleep(): a kill in between wakes nobody. *)
NotKilled(p) ==
  /\ n[p] > 0 /\ r = w /\ ~killed[p]
  /\ Goto(p, "loop", "sleep")
  /\ UNCHANGED <<cons, lock, n, target, killed>>

Sleep(p) ==
  /\ Goto(p, "sleep", "asleep")
  /\ lock' = Free
  /\ UNCHANGED <<cons, n, target, killed>>

(* ^D ends the read, and is kept for the next one if this one has something. *)
EofConsumed(p) == n[p] = target[p]

ReadEof(p) ==
  /\ n[p] > 0 /\ r # w /\ cbuf[Slot(r)] = "eof"
  /\ r' = IF EofConsumed(p) THEN Plus(r, 1) ELSE r
  /\ Return(p)
  /\ UNCHANGED <<cbuf, w, e, killed>>

ReadChar(p) ==
  /\ n[p] > 0 /\ r # w /\ cbuf[Slot(r)] \notin {"eof", "nl"}
  /\ pc[p] = "loop"
  /\ r' = Plus(r, 1)
  /\ n' = [n EXCEPT ![p] = @ - 1]
  /\ UNCHANGED <<cbuf, w, e, lock, pc, target, killed>>

(* A newline ends the read, and so does a character that cannot be copied. *)
ReadLast(p) ==
  /\ n[p] > 0 /\ r # w /\ cbuf[Slot(r)] # "eof"
  /\ r' = Plus(r, 1)
  /\ Return(p)
  /\ UNCHANGED <<cbuf, w, e, killed>>

(* kkill() *)
Kill(p) ==
  /\ ~killed[p] /\ killed' = [killed EXCEPT ![p] = TRUE]
  /\ pc' = [pc EXCEPT ![p] = IF @ = "asleep" THEN "acquire" ELSE @]
  /\ UNCHANGED <<cons, lock, n, target>>

-----------------------------------------------------------------------------
Interrupt == (\E c \in Char : Type(c)) \/ Backspace \/ KillLine

Reader(p) == \/ Acquire(p) \/ ReturnFull(p) \/ ReturnKilled(p) \/ NotKilled(p) \/ Sleep(p)
             \/ ReadEof(p) \/ ReadChar(p) \/ ReadLast(p)

Next == \/ Interrupt
        \/ \E p \in Proc : Reader(p) \/ Kill(p) \/ \E k \in Counts : Call(p, k)

Spec == Init /\ [][Next]_vars

-----------------------------------------------------------------------------
(* Input reaches its readers.  Whatever typing, erasing and reading does, the
   buffer is never full of characters that no reader may take: consoleintr()
   would drop everything typed, the end of the line included, and the console
   would be dead.  And nobody sleeps in consoleread() while entered characters
   wait, whoever else reads, and also when a full buffer and not a newline
   entered them. *)
InputReachesReader ==
  /\ Used = INPUT_BUF_SIZE => w = e
  /\ \A p \in Proc : pc[p] = "asleep" => r = w

Between(a, b) == [i \in 1..Plus(b, -a) |-> cbuf[Slot(Plus(a, i - 1))]]

LI == INSTANCE LineInput WITH Size <- INPUT_BUF_SIZE,
                              ready <- Between(r, w), edit <- Between(w, e)

(* Entered characters are read once, in order and unchanged, with all three
   indices wrapping around; only the line being typed can be edited. *)
ImplementsLineInput == LI!Spec
=============================================================================
