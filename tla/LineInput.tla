----------------------------- MODULE LineInput ------------------------------
(***************************************************************************)
(* What the console promises its readers: characters are typed into a line *)
(* that can still be edited; once the line is entered nothing changes it   *)
(* any more, and readers take its characters in the order they were typed. *)
(***************************************************************************)
EXTENDS Integers, Sequences

CONSTANTS Char,   \* characters, "nl" and "eof" among them
          Size    \* room for entered and edited characters together

VARIABLES ready,   \* characters entered and not yet read
          edit     \* the line being edited

vars == <<ready, edit>>

Init == ready = <<>> /\ edit = <<>>

(* A character joins the line; the end of a line or of the file, or a full
   buffer, enters it. *)
Type(c) ==
  LET line == Append(edit, c) IN
  /\ Len(ready) + Len(edit) < Size
  /\ IF c \in {"nl", "eof"} \/ Len(ready) + Len(line) = Size
     THEN ready' = ready \o line /\ edit' = <<>>
     ELSE edit' = line /\ UNCHANGED ready

Erase == /\ edit # <<>>
         /\ edit' = SubSeq(edit, 1, Len(edit) - 1)
         /\ UNCHANGED ready

KillLine == edit' = <<>> /\ UNCHANGED ready

Take == /\ ready # <<>>
        /\ ready' = Tail(ready)
        /\ UNCHANGED edit

Next == (\E c \in Char : Type(c)) \/ Erase \/ KillLine \/ Take

Spec == Init /\ [][Next]_vars
=============================================================================
