--------------------------- MODULE LineDiscipline ---------------------------
(***************************************************************************)
(* What the console promises its readers: two queues, the characters of    *)
(* the line being edited and the characters handed over to the readers.    *)
(* Editing touches only the first; a line passes to the second whole, when *)
(* it ends or when no room is left; a read takes from the head of the      *)
(* second, up to and including a newline.  An end of file is taken only by *)
(* a read that has no bytes, which therefore returns 0: a read that has    *)
(* some stops before it.                                                   *)
(***************************************************************************)
EXTENDS Integers, Sequences

CONSTANTS Readers, Chars, NEWLINE, EOF, Capacity

VARIABLES
  line,      \* typed, can still be edited
  pending,   \* handed over, not yet read
  nonempty   \* the readers whose unfinished read has bytes

vars == <<line, pending, nonempty>>

Init == line = <<>> /\ pending = <<>> /\ nonempty = {}

Full(s) == Len(s) + Len(pending) = Capacity

Type(c) ==
  /\ ~Full(line)
  /\ IF c \in {NEWLINE, EOF} \/ Full(Append(line, c))
     THEN line' = <<>> /\ pending' = pending \o line \o <<c>>
     ELSE line' = Append(line, c) /\ pending' = pending
  /\ UNCHANGED nonempty

Erase ==
  /\ line # <<>>
  /\ line' = SubSeq(line, 1, Len(line) - 1)
  /\ UNCHANGED <<pending, nonempty>>

KillLine == line' = <<>> /\ UNCHANGED <<pending, nonempty>>

\* k characters, none but the last a newline and none an end of file.  The
\* read may end there or go on.
TakeBytes(p, k) ==
  /\ k \in 1..Len(pending)
  /\ \A i \in 1..k : pending[i] # EOF /\ (i < k => pending[i] # NEWLINE)
  /\ pending' = SubSeq(pending, k + 1, Len(pending))
  /\ nonempty' \in {nonempty \cup {p}, nonempty \ {p}}
  /\ pending[k] = NEWLINE => p \notin nonempty'
  /\ UNCHANGED line

TakeEof(p) ==
  /\ pending # <<>> /\ Head(pending) = EOF /\ p \notin nonempty
  /\ pending' = Tail(pending)
  /\ UNCHANGED <<line, nonempty>>

\* A read with bytes ends at an end of file, or is given up by a killed reader.
Finish(p) == nonempty' = nonempty \ {p} /\ UNCHANGED <<line, pending>>

Next ==
  \/ \E c \in Chars : Type(c)
  \/ Erase \/ KillLine
  \/ \E p \in Readers : TakeEof(p) \/ Finish(p) \/ \E k \in 1..Capacity : TakeBytes(p, k)

Spec == Init /\ [][Next]_vars

=============================================================================
