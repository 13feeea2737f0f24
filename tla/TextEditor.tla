----------------------------- MODULE TextEditor -----------------------------
(***************************************************************************)
(* What the editor and the file it edits promise: a text that is typed at  *)
(* its end, and a file whose text and size change when the user saves and  *)
(* at no other time. A file that is created has size 0 but is not emptied: *)
(* it may show a text somebody saved before. How the text is kept in       *)
(* memory and what the screen shows is not part of it.                     *)
(***************************************************************************)
EXTENDS Integers, Sequences

CONSTANTS Width, Limit, Letters

VARIABLES open, text, file,
          size    \* in the directory; -1 when there is no file

vars == <<open, text, file, size>>

Init == open = FALSE /\ text = <<>>

Create == ~open /\ size = -1 /\ size' = 0 /\ UNCHANGED <<open, text>>

Remove == ~open /\ size # -1 /\ size' = -1 /\ UNCHANGED <<open, text, file>>

Open == ~open /\ size # -1 /\ open' = TRUE /\ text' = file /\ UNCHANGED <<file, size>>

Edit(t) == open /\ Len(t) <= Limit /\ text' = t /\ UNCHANGED <<open, file, size>>

Type(c) == Edit(Append(text, c))

\* The rest of the line is filled with spaces.
NewLine ==
    Edit(text \o [i \in 1 .. Width - (Len(text) % Width) |-> " "])

Erase == text # <<>> /\ Edit(SubSeq(text, 1, Len(text) - 1))

Save ==
    open /\ open' = FALSE /\ file' = text /\ size' = Len(text) /\ text' = <<>>

Discard == open /\ open' = FALSE /\ text' = <<>> /\ UNCHANGED <<file, size>>

Next ==
    \/ Create \/ Remove \/ Open \/ NewLine \/ Erase \/ Save \/ Discard
    \/ \E c \in Letters : Type(c)

Spec == Init /\ [][Next]_vars
=============================================================================
