------------------------------ MODULE ByteFiles ------------------------------
(***************************************************************************)
(* What the file layer promises: a file is a sequence of bytes, and an open  *)
(* file a position in it.  A chunk of a write is one step, and the bytes it  *)
(* counts stay.  Those that it wrote and did not count, because the copy     *)
(* from the program failed, may go back to what they were at any time, and   *)
(* a crash takes back each one that was not kept.                            *)
(***************************************************************************)
EXTENDS Integers, Sequences

CONSTANTS Inodes, Files, Text, MaxSize

VARIABLES
  content,  \* the bytes of each file
  kept,     \* what a crash would leave of them
  open      \* of each open file, the inode and the position

bvars == <<content, kept, open>>
Closed == [ip |-> 0, off |-> 0]

Init ==
  /\ content = [i \in Inodes |-> <<>>] /\ kept = content
  /\ open = [f \in Files |-> Closed]

\* c with s written after its first off bytes; only cnt bytes make it longer.
Patch(c, off, s, cnt) ==
  LET len == IF off + cnt > Len(c) THEN off + cnt ELSE Len(c) IN
    [j \in 1..len |-> IF j \in (off + 1)..(off + Len(s)) THEN s[j - off] ELSE c[j]]

\* As long as c, and at each position the byte of c or of d.
Between(s, c, d) == DOMAIN s = DOMAIN c /\ \A j \in DOMAIN c : s[j] \in {c[j], d[j]}

\* A chunk of the text goes to the position of f.  When the copy from the
\* program fails, bytes that are not counted may have been overwritten, and
\* what was there before may be what is kept.
Write(f, cnt) ==
  LET o == open[f]
      i == o.ip IN
    /\ o # Closed /\ o.off <= Len(content[i]) /\ o.off + cnt <= MaxSize
    /\ open' = [open EXCEPT ![f].off = @ + cnt]
    /\ kept' = [kept EXCEPT ![i] = kept'[i]]
    /\ \E from, n \in 0..Len(Text) :
         /\ cnt <= n /\ from + n <= Len(Text)
         /\ content' = [content EXCEPT ![i] = Patch(@, o.off, SubSeq(Text, from + 1, from + n), cnt)]
         /\ Between(kept'[i], content'[i],
                    Patch(kept[i], o.off, SubSeq(Text, from + 1, from + cnt), cnt))

Read(f, n) ==
  /\ open[f] # Closed /\ open[f].off + n <= Len(content[open[f].ip])
  /\ open' = [open EXCEPT ![f].off = @ + n]
  /\ UNCHANGED <<content, kept>>

\* open() may empty the file, and starts at its beginning or at its end.
Open(f, i, trunc, append) ==
  /\ open[f] = Closed
  /\ open' = [open EXCEPT ![f] = [ip |-> i, off |-> IF append THEN Len(content[i]) ELSE 0]]
  /\ content' = IF trunc THEN [content EXCEPT ![i] = <<>>] ELSE content
  /\ kept' = IF trunc THEN [kept EXCEPT ![i] = <<>>] ELSE kept

Close(f) == open' = [open EXCEPT ![f] = Closed] /\ UNCHANGED <<content, kept>>

\* A file that nobody has open loses its bytes when it is removed.
Free(i) ==
  /\ \A f \in Files : open[f].ip # i
  /\ content' = [content EXCEPT ![i] = <<>>]
  /\ kept' = [kept EXCEPT ![i] = <<>>]
  /\ UNCHANGED open

\* Bytes that were not counted go back to what is kept.
Revert ==
  /\ content' = [i \in Inodes |-> content'[i]]
  /\ \A i \in Inodes : Between(content'[i], content[i], kept[i])
  /\ UNCHANGED <<kept, open>>

Crash ==
  /\ content' = kept
  /\ open' = [f \in Files |-> Closed]
  /\ UNCHANGED kept

Next ==
  \/ \E f \in Files :
       \/ \E n \in 1..MaxSize : Read(f, n)
       \/ \E i \in Inodes, trunc, append \in BOOLEAN : Open(f, i, trunc, append)
       \/ Close(f)
  \/ Revert \/ Crash
  \/ \E i \in Inodes : Free(i)
  \/ \E f \in Files, cnt \in 0..Len(Text) : Write(f, cnt)

Spec == Init /\ [][Next]_bvars
=============================================================================
