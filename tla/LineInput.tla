------------------------------ MODULE LineInput ------------------------------
(***************************************************************************)
(* What the console promises to its readers: characters become readable a    *)
(* line at a time, and can be erased until then.                             *)
(***************************************************************************)
EXTENDS Integers, Sequences

CONSTANTS Chars, Ends, Size   \* Ends: the characters that end a line

VARIABLES line, ready   \* being typed; readable
lvars == <<line, ready>>

Init == line = <<>> /\ ready = <<>>

Type(c) ==
  /\ Len(line) + Len(ready) < Size
  /\ IF c \in Ends \/ Len(line) + Len(ready) = Size - 1
     THEN ready' = ready \o Append(line, c) /\ line' = <<>>
     ELSE line' = Append(line, c) /\ UNCHANGED ready
Erase == line # <<>> /\ line' = SubSeq(line, 1, Len(line) - 1) /\ UNCHANGED ready
KillLine == line' = <<>> /\ UNCHANGED ready

\* A reader takes characters up to the end of a line and no further.
Take(n) ==
  /\ n <= Len(ready) /\ \A k \in 1..n - 1 : ready[k] \notin Ends
  /\ ready' = SubSeq(ready, n + 1, Len(ready))
  /\ UNCHANGED line

Next == (\E c \in Chars : Type(c)) \/ Erase \/ KillLine \/ (\E n \in 1..Size : Take(n))
Spec == Init /\ [][Next]_lvars
=============================================================================
