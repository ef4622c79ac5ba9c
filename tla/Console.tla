------------------------------- MODULE Console -------------------------------
(***************************************************************************)
(* The console's input (kernel/console.c): a ring of characters with three   *)
(* indices, filled and edited by the interrupt handler, emptied by readers.  *)
(*                                                                          *)
(* cons.lock is held from one sleep to the next, so a reader's turn is one   *)
(* step; only kill() comes between its test of the flag and its sleep.       *)
(***************************************************************************)
EXTENDS Integers, Sequences, FiniteSets

CONSTANTS
  Readers,
  INPUT_BUF_SIZE,
  Chars,         \* characters without a meaning of their own
  Counts,        \* what readers ask for
  UintMax        \* the indices are modulo UintMax, a multiple of the size

VARIABLES
  cons,    \* buf, r, w, e
  reader,  \* each reader: pc, n, target, and the last call's result
  killed

cvars == <<cons, reader, killed>>

Newline == "nl"
Eof == "^D"
Ends == {Newline, Eof}

Init ==
  /\ cons = [buf |-> [k \in 0..INPUT_BUF_SIZE - 1 |-> Newline], r |-> 0, w |-> 0, e |-> 0]
  /\ reader = [p \in Readers |-> [pc |-> "idle", n |-> 0, target |-> 0]]
  /\ killed = [p \in Readers |-> FALSE]

Inc(i) == (i + 1) % UintMax
Dec(i) == (i - 1) % UintMax
Dist(i, j) == (i - j) % UintMax
Cell(i) == cons.buf[i % INPUT_BUF_SIZE]

-----------------------------------------------------------------------------
(* consoleintr().                                                           *)
Wakeup(rs) == [p \in Readers |-> IF rs[p].pc = "asleep" THEN [rs[p] EXCEPT !.pc = "run"] ELSE rs[p]]

Room == Dist(cons.e, cons.r) < INPUT_BUF_SIZE

\* Mutant: a line that fills the ring is not a line.
LineEndsTyped(c, e) == c \in Ends
LineEnds(c, e) == c \in Ends \/ Dist(e, cons.r) = INPUT_BUF_SIZE

\* Mutant: readers are not woken by a full ring.
WakesNewline(c, e) == c \in Ends
Wakes(c, e) == LineEnds(c, e)

Input(c) ==
  LET e == Inc(cons.e) IN
    /\ Room
    /\ cons' = [cons EXCEPT !.buf[cons.e % INPUT_BUF_SIZE] = c, !.e = e,
                            !.w = IF LineEnds(c, e) THEN e ELSE @]
    /\ reader' = IF Wakes(c, e) THEN Wakeup(reader) ELSE reader
    /\ UNCHANGED killed

\* Mutant: erases a character that a reader may have seen.
EraseAny ==
  /\ cons.e # cons.r
  /\ cons' = [cons EXCEPT !.e = Dec(@)]
  /\ UNCHANGED <<reader, killed>>
Erase ==
  /\ cons.e # cons.w
  /\ cons' = [cons EXCEPT !.e = Dec(@)]
  /\ UNCHANGED <<reader, killed>>

\* ^U goes back to the character after a newline, and not behind w.
KillLine ==
  LET len == Dist(cons.e, cons.w)
      Stop(k) == k = len \/ Cell(Dist(cons.e, k + 1)) = Newline
      k == CHOOSE k \in 0..len : Stop(k) /\ \A j \in 0..k - 1 : ~Stop(j) IN
    /\ cons' = [cons EXCEPT !.e = Dist(@, k)]
    /\ UNCHANGED <<reader, killed>>

-----------------------------------------------------------------------------
(* consoleread().                                                           *)
Call(p, n) ==
  /\ reader[p].pc = "idle" /\ ~killed[p]
  /\ reader' = [reader EXCEPT ![p] = [pc |-> "run", n |-> n, target |-> n]]
  /\ UNCHANGED <<cons, killed>>

\* A turn takes m characters; it ends at the end of a line, when the caller
\* has all it wants, when the ring is empty, or at the character whose copy to
\* the caller fails (bad), which is gone.  An end-of-file that is not the first
\* character of the call stays for the next call.
\* Mutant: it is always consumed.
EofStaysNever(n, target) == FALSE
EofStays(n, target) == n < target

Turn(p, bad) ==
  LET R == reader[p]
      have == Dist(cons.w, cons.r)
      Ch(k) == Cell(cons.r + k - 1)
      most == IF have < R.n THEN have ELSE R.n
      Ended(k) == k > 0 /\ (Ch(k) \in Ends \/ k = bad)
      Stop(k) == k = most \/ Ended(k)
      m == CHOOSE k \in 0..most : Stop(k) /\ \A j \in 0..k - 1 : ~Stop(j)
      eof == m > 0 /\ Ch(m) = Eof
      eaten == IF eof /\ EofStays(R.n - (m - 1), R.target) THEN m - 1 ELSE m IN
    /\ R.pc = "run"
    /\ cons' = [cons EXCEPT !.r = (@ + eaten) % UintMax]
    /\ reader' = [reader EXCEPT ![p] =
                    IF Ended(m) \/ m = R.n THEN [pc |-> "idle", n |-> 0, target |-> 0]
                    ELSE [R EXCEPT !.n = @ - m, !.pc = "test"]]
    /\ UNCHANGED killed

\* Nothing to read: a killed reader returns, another one sleeps.
Test(p) ==
  /\ reader[p].pc = "test"
  /\ reader' = [reader EXCEPT ![p] = IF killed[p] THEN [pc |-> "idle", n |-> 0, target |-> 0]
                                    ELSE [@ EXCEPT !.pc = "sleep"]]
  /\ UNCHANGED <<cons, killed>>
Sleep(p) ==
  /\ reader[p].pc = "sleep"
  /\ reader' = [reader EXCEPT ![p].pc = "asleep"]
  /\ UNCHANGED <<cons, killed>>

Kill(p) ==
  /\ ~killed[p]
  /\ killed' = [killed EXCEPT ![p] = TRUE]
  /\ reader' = IF reader[p].pc = "asleep" THEN [reader EXCEPT ![p].pc = "run"] ELSE reader
  /\ UNCHANGED cons

\* The lock is held by a reader between its turn and its sleep.
Free == \A p \in Readers : reader[p].pc \notin {"test", "sleep"}

Next ==
  \/ /\ Free
     /\ \/ \E c \in Chars \cup Ends : Input(c)
        \/ Erase
        \/ KillLine
        \/ \E p \in Readers, bad \in 0..INPUT_BUF_SIZE : Turn(p, bad)
  \/ \E p \in Readers :
       \/ \E n \in Counts : Call(p, n)
       \/ Test(p) \/ Sleep(p) \/ Kill(p)

Spec == Init /\ [][Next]_cvars

-----------------------------------------------------------------------------
TypeOK ==
  /\ {cons.r, cons.w, cons.e} \subseteq 0..UintMax - 1
  /\ \A p \in Readers : reader[p].n \in 0..reader[p].target

\* The three indices stay in order and within one ring of each other, over the
\* wrap of the indices: no character is read that was not typed.
IndicesInOrder ==
  Dist(cons.w, cons.r) + Dist(cons.e, cons.w) <= INPUT_BUF_SIZE

\* A reader does not sleep on a line that is there.
NoSleepOnLine == \A p \in Readers : reader[p].pc = "asleep" => cons.r = cons.w

\* A line of the ring's size cannot lock everybody out: what fills the ring
\* can be read.
FullIsReadable == Dist(cons.e, cons.r) = INPUT_BUF_SIZE => cons.w = cons.e

\* An end-of-file is consumed only by a call that has nothing else to return:
\* it is never lost behind characters of the same call (console.c:101-107).
EatsEof == Eof \in {Cell(cons.r + k) : k \in 0..Dist(cons.r', cons.r) - 1}
EndsEmptyRead == Dist(cons.r', cons.r) = 1 /\ \E p \in Readers :
  reader[p].pc = "run" /\ reader[p].n = reader[p].target /\ reader'[p].pc = "idle"
EofIsEaten == EatsEof => EndsEmptyRead
EofEndsEmptyRead == [][EofIsEaten]_cvars

Window(i, j) == [k \in 1..Dist(j, i) |-> Cell(i + k - 1)]
Lines == INSTANCE LineInput WITH
  Chars <- Chars \cup Ends, Size <- INPUT_BUF_SIZE,
  ready <- Window(cons.r, cons.w), line <- Window(cons.w, cons.e)
\* The console implements LineInput.
LineSpec == Lines!Spec
=============================================================================
