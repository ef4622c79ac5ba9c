------------------------------ MODULE Filters ------------------------------
(***************************************************************************)
(* The user programs that cut their input into lines and words: grep.c,      *)
(* wc.c, catlines.c, and fgets() and getline() of ulib.c under gets() and     *)
(* their callers.                                                           *)
(*                                                                          *)
(* read() gives what has come: any number of bytes up to those asked for.    *)
(* A character is a string; "nl", "cr" and "nul" are the control characters.  *)
(***************************************************************************)
EXTENDS Integers, Sequences, SequencesExt

CONSTANTS
  Programs, Inputs, Patterns,
  GREP,  \* sizeof(buf) of grep
  LINE,  \* the first size of a line of getline and catlines, and gets' max
  READ   \* the most that a read of wc and catlines gives

VARIABLES
  prog, pattern, input,
  pos,    \* the characters of the input that have been read
  ahead,  \* catlines: those that are still in its buffer
  part,   \* what there is of a line: buf of grep, line of the others
  size,   \* the size of the line's memory
  from,   \* getline: total_read
  cnt,    \* wc's counts
  out,    \* the lines that were written or returned
  at      \* "reading", "returned" from fgets, "ended"

reading == <<prog, pattern, input, pos>>
vars == <<reading, ahead, part, size, from, cnt, out, at>>

Init ==
  /\ prog \in Programs /\ input \in Inputs
  /\ pattern \in IF prog = "grep" THEN Patterns ELSE {<<>>}
  /\ pos = 0 /\ ahead = <<>> /\ part = <<>> /\ size = LINE /\ from = 0
  /\ cnt = [l |-> 0, w |-> 0, c |-> 0, inword |-> FALSE]
  /\ out = <<>> /\ at = "reading"

\* read() of at most max bytes: what it gives.
Read(max) ==
  IF max > 0 /\ pos < Len(input) THEN {SubSeq(input, pos + 1, k) : k \in pos + 1..Min({pos + max, Len(input)})}
  ELSE {<<>>}
Takes(s) == pos' = pos + Len(s) /\ UNCHANGED <<prog, pattern, input>>
Ends == at' = "ended" /\ UNCHANGED <<reading, ahead, part, size, from, cnt, out>>

-----------------------------------------------------------------------------
(* grep.                                                                    *)
\* How far matchstar() goes: text from k on is matched next.
\* Mutant: a * needs one instance.
MatchstarOnce(c, text, j) == {k \in j + 1..Len(text) + 1 : \A i \in j..k - 1 : c \in {".", text[i]}}
Matchstar(c, text, j) == {k \in j..Len(text) + 1 : \A i \in j..k - 1 : c \in {".", text[i]}}
Matchhere(re, text) ==
  LET Here[i \in 1..Len(re) + 1, j \in 1..Len(text) + 1] ==
        IF i > Len(re) THEN TRUE
        ELSE IF i < Len(re) /\ re[i + 1] = "*" THEN \E k \in Matchstar(re[i], text, j) : Here[i + 2, k]
        ELSE IF i = Len(re) /\ re[i] = "$" THEN j > Len(text)
        ELSE j <= Len(text) /\ re[i] \in {".", text[j]} /\ Here[i + 1, j + 1]
  IN Here[1, 1]
Match(re, text) ==
  IF re # <<>> /\ re[1] = "^" THEN Matchhere(Tail(re), text)
  ELSE \E j \in 1..Len(text) + 1 : Matchhere(re, SubSeq(text, j, Len(text)))

\* The ends of the lines that strchr() finds one after the other.
Newlines(s) == {i \in 1..Len(s) : s[i] = "nl" /\ \A j \in 1..i : s[j] # "nul"}
CutAt(s, ends) ==
  LET e == <<0>> \o SetToSortSeq(ends, <) IN [k \in 1..Len(e) - 1 |-> SubSeq(s, e[k] + 1, e[k + 1])]

\* Mutant: the beginning of a line is not kept for the next read.
KeptNone(s) == <<>>
Kept(s) == SubSeq(s, Max(Newlines(s) \cup {0}) + 1, Len(s))
Grep ==
  /\ prog = "grep" /\ at = "reading"
  /\ \E s \in Read(GREP - Len(part) - 1) :
       \/ s = <<>> /\ Ends
       \/ /\ s # <<>> /\ Takes(s)
          /\ LET buf == part \o s
                 Prints(l) == Match(pattern, Front(l)) IN
               /\ out' = out \o SelectSeq(CutAt(buf, Newlines(buf)), Prints)
               /\ part' = Kept(buf)
          /\ UNCHANGED <<ahead, size, from, cnt, at>>

-----------------------------------------------------------------------------
(* wc.                                                                      *)
Space == {" ", "cr", "tab", "nl", "vt"}
Count(k, ch) ==
  [l |-> k.l + (IF ch = "nl" THEN 1 ELSE 0),
   w |-> k.w + (IF ch \notin Space /\ ~k.inword THEN 1 ELSE 0),
   c |-> k.c + 1,
   inword |-> ch \notin Space]
\* Mutant: a word ends with the buffer.
CountsPerRead(s) == FoldLeft(Count, [cnt EXCEPT !.inword = FALSE], s)
Counts(s) == FoldLeft(Count, cnt, s)
Wc ==
  /\ prog = "wc" /\ at = "reading"
  /\ \E s \in Read(READ) :
       \/ s = <<>> /\ Ends
       \/ s # <<>> /\ Takes(s) /\ cnt' = Counts(s) /\ UNCHANGED <<ahead, part, size, from, out, at>>

-----------------------------------------------------------------------------
(* fgets, gets and getline.                                                 *)
Fgets ==
  /\ prog \in {"gets", "getline"} /\ at = "reading"
  /\ \E s \in IF Len(part) + 1 < size THEN Read(1) ELSE {<<>>} :
       /\ Takes(s) /\ part' = part \o s
       /\ at' = IF s \in {<<>>, <<"nl">>, <<"cr">>} THEN "returned" ELSE "reading"
  /\ UNCHANGED <<ahead, size, from, cnt, out>>
Returns(line) == out' = Append(out, line) /\ part' = <<>> /\ from' = 0
Gets ==
  /\ prog = "gets" /\ at = "returned"
  /\ \/ part = <<>> /\ Ends
     \/ /\ part # <<>> /\ Returns(part) /\ at' = "reading"
        /\ UNCHANGED <<reading, ahead, size, cnt>>

\* Mutant: what ends a call of fgets ends the line.
LineEndsAnyhow == part # <<>>
LineEnds == part # <<>> /\ Last(part) = "nl"
Getline ==
  /\ prog = "getline" /\ at = "returned"
  /\ \/ part = <<>> /\ Ends
     \/ /\ part # <<>> /\ (Len(part) = from \/ LineEnds)
        /\ Returns(part) /\ at' = "reading"
        /\ UNCHANGED <<reading, ahead, size, cnt>>
     \/ /\ Len(part) > from /\ ~LineEnds
        /\ size' = 2 * size /\ from' = Len(part) /\ at' = "reading"
        /\ UNCHANGED <<reading, ahead, part, cnt, out>>

-----------------------------------------------------------------------------
(* catlines: better_fgets.                                                  *)
CatFill ==
  /\ prog = "catlines" /\ at = "reading" /\ ahead = <<>>
  /\ \E s \in Read(READ) :
       \/ s = <<>> /\ part = <<>> /\ Ends
       \/ s = <<>> /\ part # <<>> /\ Returns(part) /\ size' = LINE /\ UNCHANGED <<reading, ahead, cnt, at>>
       \/ s # <<>> /\ Takes(s) /\ ahead' = s /\ UNCHANGED <<part, size, from, cnt, out, at>>
\* Mutant: the terminating zero is forgotten.
GrowsLate == Len(part) >= size
Grows == Len(part) + 1 >= size
CatByte ==
  /\ prog = "catlines" /\ at = "reading" /\ ahead # <<>>
  /\ ahead' = Tail(ahead)
  /\ \/ Head(ahead) = "nl" /\ Returns(part) /\ size' = LINE
     \/ /\ Head(ahead) # "nl"
        /\ size' = IF Grows THEN 2 * size ELSE size
        /\ part' = Append(part, Head(ahead))
        /\ UNCHANGED <<from, out>>
  /\ UNCHANGED <<reading, cnt, at>>

Next == Grep \/ Wc \/ Fgets \/ Gets \/ Getline \/ CatFill \/ CatByte
Spec == Init /\ [][Next]_vars

-----------------------------------------------------------------------------
TypeOK ==
  /\ pos \in 0..Len(input) /\ from \in 0..Len(part) /\ size >= LINE
  /\ at \in {"reading", "returned", "ended"}

\* A line never outgrows its memory, which has room for a terminating zero.
RoomKept ==
  /\ prog \in {"gets", "getline", "catlines"} => Len(part) < size
  /\ prog = "grep" => Len(part) < GREP

\* What a pattern means: the text has a part that can be cut into one piece for
\* each character of the pattern with its star.
Items(re) ==
  LET Starts[k \in Nat] == IF k > Len(re) THEN {}
        ELSE {k} \cup Starts[IF k < Len(re) /\ re[k + 1] = "*" THEN k + 2 ELSE k + 1]
  IN [j \in 1..Cardinality(Starts[1]) |->
        LET k == SetToSortSeq(Starts[1], <)[j] IN [ch |-> re[k], star |-> k < Len(re) /\ re[k + 1] = "*"]]
Denotes(re, text) ==
  LET first == re # <<>> /\ re[1] = "^"
      items == Items(IF first THEN Tail(re) ELSE re)
      last == items # <<>> /\ Last(items) = [ch |-> "$", star |-> FALSE]
      it == IF last THEN Front(items) ELSE items
  IN \E cut \in [0..Len(it) -> 0..Len(text)] :
       /\ first => cut[0] = 0
       /\ last => cut[Len(it)] = Len(text)
       /\ \A j \in 1..Len(it) :
            /\ cut[j - 1] <= cut[j]
            /\ it[j].star \/ cut[j] = cut[j - 1] + 1
            /\ \A i \in cut[j - 1] + 1..cut[j] : it[j].ch \in {".", text[i]}

\* grep writes the lines that match, in order and whatever the reads give, until
\* a line fills the buffer or has a zero byte in it; a last line without an end
\* is not looked at.
AllLines == CutAt(input, {i \in 1..Len(input) : input[i] = "nl" \/ i = Len(input)})
GrepExact == prog = "grep" /\ at = "ended" =>
  LET Fits(l) == Last(l) = "nl" /\ Len(l) < GREP /\ "nul" \notin ToSet(l)
      bad == {k \in 1..Len(AllLines) : ~Fits(AllLines[k])}
      Prints(l) == Denotes(pattern, Front(l))
  IN out = SelectSeq(SubSeq(AllLines, 1, Min(bad \cup {Len(AllLines) + 1}) - 1), Prints)

\* wc's counts do not depend on where the reads cut the input.
CountsExact == prog = "wc" =>
  LET seen == SubSeq(input, 1, pos) IN
    /\ cnt.c = pos
    /\ cnt.l = Cardinality({i \in 1..pos : seen[i] = "nl"})
    /\ cnt.w = Cardinality({i \in 1..pos : seen[i] \notin Space /\ (i = 1 \/ seen[i - 1] \in Space)})

\* getline and catlines give every line once, as long as it may be; gets gives
\* all of the input, in pieces that only an end of a line or a full buffer ends.
LinesExact == at = "ended" =>
  /\ prog = "getline" => out = AllLines
  /\ prog = "catlines" =>
       out = [k \in 1..Len(AllLines) |-> SelectSeq(AllLines[k], LAMBDA ch : ch # "nl")]
  /\ prog = "gets" =>
       /\ FlattenSeq(out) = input
       /\ \A k \in 1..Len(out) :
            /\ \A i \in 1..Len(out[k]) - 1 : out[k][i] \notin {"nl", "cr"}
            /\ Last(out[k]) \in {"nl", "cr"} \/ Len(out[k]) = size - 1 \/ k = Len(out)
=============================================================================
