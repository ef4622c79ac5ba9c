------------------------------- MODULE Shell -------------------------------
(***************************************************************************)
(* A line of the shell user/sh.c: the recursive descent parser, and runcmd() *)
(* in the processes that it forks.                                          *)
(*                                                                          *)
(* A line is a sequence of tokens, as gettoken() cuts them.  A command of    *)
(* the tree is named by its path: 1 is the left or only subcommand, 2 the    *)
(* right one.  A pipe is named by the path of its command, because no        *)
(* command runs twice.                                                      *)
(***************************************************************************)
EXTENDS Integers, Sequences, FiniteSets, SequencesExt, FiniteSetsExt

CONSTANTS
  Lines,      \* what is typed
  Words,      \* the tokens that are words
  MAXARGS,
  N,          \* processes that the line may have, besides the shell
  PIPESIZE,   \* external: what a pipe holds
  MaxOut      \* bound: what a program writes

VARIABLES
  line, tree,
  proc,    \* the shell (0) and its descendants
  pipe,    \* bytes in each pipe
  ran,     \* history: the commands that were exec()ed
  failed   \* history: what was refused

svars == <<line, tree, proc, pipe, ran, failed>>

-----------------------------------------------------------------------------
(* The parser: a result is a command and the position after it.             *)
Redirects == {"<", ">", ">>"}
Node(t, l, r, argv, op) == [t |-> t, l |-> l, r |-> r, argv |-> argv, op |-> op]
Nothing == <<>>
Execcmd(argv) == Node("exec", Nothing, Nothing, argv, "")
Redircmd(c, op) == Node("redir", c, Nothing, <<>>, op)
Pipecmd(l, r) == Node("pipe", l, r, <<>>, "")
Listcmd(l, r) == Node("list", l, r, <<>>, "")
Backcmd(c) == Node("back", c, Nothing, <<>>, "")

Ok(c, i) == [ok |-> TRUE, c |-> c, i |-> i]
Syntax == [ok |-> FALSE, c |-> Nothing, i |-> 0]
Peek(l, i, toks) == i <= Len(l) /\ l[i] \in toks
Then(r, Rest(_, _)) == IF r.ok THEN Rest(r.c, r.i) ELSE Syntax

RECURSIVE Parseline(_, _), ParseAmps(_, _, _), Parsepipe(_, _), Parseredirs(_, _, _), Parseargs(_, _, _, _)

\* A later redirection is outside of an earlier one, and so is made first.
Parseredirs(ops, l, i) ==
  IF ~Peek(l, i, Redirects) THEN Ok(ops, i)
  ELSE IF ~Peek(l, i + 1, Words) THEN Syntax
  ELSE Parseredirs(Append(ops, l[i]), l, i + 2)

Parseargs(argv, ops, l, i) ==
  IF i > Len(l) \/ Peek(l, i, {"|", ")", "&", ";"}) THEN Ok(FoldLeft(Redircmd, Execcmd(argv), ops), i)
  ELSE IF l[i] \notin Words \/ Len(argv) + 1 >= MAXARGS THEN Syntax
  ELSE Then(Parseredirs(ops, l, i + 1), LAMBDA o, j : Parseargs(Append(argv, l[i]), o, l, j))

Parseblock(l, i) ==
  Then(Parseline(l, i + 1), LAMBDA c, j :
    IF ~Peek(l, j, {")"}) THEN Syntax
    ELSE Then(Parseredirs(<<>>, l, j + 1), LAMBDA ops, k : Ok(FoldLeft(Redircmd, c, ops), k)))

Parseexec(l, i) ==
  IF Peek(l, i, {"("}) THEN Parseblock(l, i)
  ELSE Then(Parseredirs(<<>>, l, i), LAMBDA ops, j : Parseargs(<<>>, ops, l, j))

Parsepipe(l, i) ==
  Then(Parseexec(l, i), LAMBDA c, j :
    IF ~Peek(l, j, {"|"}) THEN Ok(c, j)
    ELSE Then(Parsepipe(l, j + 1), LAMBDA d, k : Ok(Pipecmd(c, d), k)))

ParseAmps(c, l, i) == IF Peek(l, i, {"&"}) THEN ParseAmps(Backcmd(c), l, i + 1) ELSE Ok(c, i)
Parseline(l, i) ==
  Then(Parsepipe(l, i), LAMBDA b, h :
    Then(ParseAmps(b, l, h), LAMBDA c, j :
      IF ~Peek(l, j, {";"}) THEN Ok(c, j)
      ELSE Then(Parseline(l, j + 1), LAMBDA d, k : Ok(Listcmd(c, d), k))))

\* Mutant: what is left of the line is ignored.
ParsecmdIgnores(l) == Parseline(l, 1).c
Parsecmd(l) == LET r == Parseline(l, 1) IN IF r.ok /\ r.i > Len(l) THEN r.c ELSE Nothing

-----------------------------------------------------------------------------
Ids == 0..N
Tty == <<0>>    \* a standard file that is no pipe
Idle == [pc |-> "none", at |-> <<>>, parent |-> 0, in |-> Tty, out |-> Tty, held |-> {},
         n |-> 0, eof |-> FALSE]
Sub(path) == FoldLeft(LAMBDA c, k : IF k = 1 THEN c.l ELSE c.r, tree, path)
RECURSIVE Paths(_)
Paths(c) == IF c = Nothing THEN {}
            ELSE {<<>>} \cup {<<1>> \o p : p \in Paths(c.l)} \cup {<<2>> \o p : p \in Paths(c.r)}
Type(path) == Sub(path).t

Init ==
  /\ line \in Lines
  /\ tree = Parsecmd(line)
  /\ proc = [p \in Ids |-> IF p = 0 THEN [Idle EXCEPT !.pc = "main"] ELSE Idle]
  /\ pipe = [k \in {q \in Paths(tree) : Type(q) = "pipe"} |-> 0]
  /\ ran = {} /\ failed = {}

Alive(p) == proc[p].pc \notin {"none", "zombie", "reaped"}
Readers(k) == {p \in Ids : Alive(p) /\ (proc[p].in = k \/ <<"r", k>> \in proc[p].held)}
Writers(k) == {p \in Ids : Alive(p) /\ (proc[p].out = k \/ <<"w", k>> \in proc[p].held)}
Free == {p \in Ids : proc[p].pc = "none"}
At(p, pc) == proc[p].pc = pc
Cmd(p, type) == At(p, "run") /\ Type(proc[p].at) = type
Refused(what) == failed' = failed \cup {what}
Exits(p) == proc' = [proc EXCEPT ![p].pc = "zombie"]

\* fork1() by p, which goes on at pc; the child c begins at path with pc0.  A
\* fork that fails is a panic.
Fork(p, pc, pc0, path, held) ==
  \/ \E c \in Free :
       /\ \A q \in Free : c <= q
       /\ proc' = [proc EXCEPT ![p].pc = pc, ![p].held = held,
                               ![c] = [proc[p] EXCEPT !.pc = pc0, !.at = path, !.parent = p, !.held = held]]
       /\ UNCHANGED failed
  \/ Exits(p) /\ Refused("fork")

\* main(): the child parses the line.
Main ==
  /\ At(0, "main")
  /\ Fork(0, "main wait", "parse", <<>>, {})
  /\ UNCHANGED <<line, tree, pipe, ran>>
ParseOrPanic(p) ==
  /\ At(p, "parse")
  /\ IF tree = Nothing THEN Exits(p) /\ Refused("syntax")
     ELSE proc' = [proc EXCEPT ![p].pc = "run"] /\ UNCHANGED failed
  /\ UNCHANGED <<line, tree, pipe, ran>>

\* An empty command is an error; a program that cannot be run is not.
RunExec(p) ==
  /\ Cmd(p, "exec")
  /\ \/ /\ Sub(proc[p].at).argv # <<>>
        /\ proc' = [proc EXCEPT ![p].pc = "program"]
        /\ ran' = ran \cup {proc[p].at} /\ UNCHANGED failed
     \/ Exits(p) /\ Refused("exec") /\ UNCHANGED ran
  /\ UNCHANGED <<line, tree, pipe>>
RunRedir(p) ==
  /\ Cmd(p, "redir")
  /\ \/ /\ proc' = [proc EXCEPT ![p].at = Append(@, 1),
                                ![p].in = IF Sub(proc[p].at).op = "<" THEN Tty ELSE @,
                                ![p].out = IF Sub(proc[p].at).op = "<" THEN @ ELSE Tty]
        /\ UNCHANGED failed
     \/ Exits(p) /\ Refused("open")
  /\ UNCHANGED <<line, tree, pipe, ran>>
RunList(p) ==
  /\ Cmd(p, "list")
  /\ Fork(p, "list", "run", Append(proc[p].at, 1), {})
  /\ UNCHANGED <<line, tree, pipe, ran>>
RunBack(p) ==
  /\ Cmd(p, "back")
  /\ Fork(p, "zombie", "run", Append(proc[p].at, 1), {})
  /\ UNCHANGED <<line, tree, pipe, ran>>

\* pipe() and the two forks.
Both(p) == {<<"r", proc[p].at>>, <<"w", proc[p].at>>}
RunPipe(p) ==
  /\ Cmd(p, "pipe")
  /\ Fork(p, "pipe", "left", proc[p].at, Both(p))
  /\ UNCHANGED <<line, tree, pipe, ran>>
PipeRight(p) ==
  /\ At(p, "pipe")
  /\ Fork(p, "close", "right", proc[p].at, Both(p))
  /\ UNCHANGED <<line, tree, pipe, ran>>
\* Mutant: the write end stays open.
PipeCloseRead(p) ==
  /\ At(p, "close")
  /\ proc' = [proc EXCEPT ![p].pc = "wait 2", ![p].held = {<<"w", proc[p].at>>}]
  /\ UNCHANGED <<line, tree, pipe, ran, failed>>
PipeClose(p) ==
  /\ At(p, "close")
  /\ proc' = [proc EXCEPT ![p].pc = "wait 2", ![p].held = {}]
  /\ UNCHANGED <<line, tree, pipe, ran, failed>>
\* Mutant: both ends are closed before the dup().
LeftLost(p) ==
  /\ At(p, "left")
  /\ proc' = [proc EXCEPT ![p].pc = "run", ![p].at = Append(@, 1), ![p].held = {}]
  /\ UNCHANGED <<line, tree, pipe, ran, failed>>
Left(p) ==
  /\ At(p, "left")
  /\ proc' = [proc EXCEPT ![p].pc = "run", ![p].at = Append(@, 1), ![p].held = {}, ![p].out = proc[p].at]
  /\ UNCHANGED <<line, tree, pipe, ran, failed>>
Right(p) ==
  /\ At(p, "right")
  /\ proc' = [proc EXCEPT ![p].pc = "run", ![p].at = Append(@, 2), ![p].held = {}, ![p].in = proc[p].at]
  /\ UNCHANGED <<line, tree, pipe, ran, failed>>

\* wait(0): any child.
\* Mutant: one wait for the two sides of a pipe.
AfterWaitOnce(r) ==
  CASE r.pc = "main wait" -> [r EXCEPT !.pc = "prompt"]
    [] r.pc = "list" -> [r EXCEPT !.pc = "run", !.at = Append(@, 2)]
    [] OTHER -> [r EXCEPT !.pc = "zombie"]
\* Mutant: nothing after a `;' is run.
AfterWaitEnds(r) ==
  CASE r.pc = "main wait" -> [r EXCEPT !.pc = "prompt"]
    [] r.pc = "wait 2" -> [r EXCEPT !.pc = "wait 1"]
    [] OTHER -> [r EXCEPT !.pc = "zombie"]
AfterWait(r) ==
  CASE r.pc = "main wait" -> [r EXCEPT !.pc = "prompt"]
    [] r.pc = "list" -> [r EXCEPT !.pc = "run", !.at = Append(@, 2)]
    [] r.pc = "wait 2" -> [r EXCEPT !.pc = "wait 1"]
    [] OTHER -> [r EXCEPT !.pc = "zombie"]
Wait(p, c) ==
  /\ proc[p].pc \in {"main wait", "list", "wait 2", "wait 1"}
  /\ proc[c].parent = p /\ At(c, "zombie") /\ c # p
  /\ proc' = [proc EXCEPT ![p] = AfterWait(@), ![c].pc = "reaped"]
  /\ UNCHANGED <<line, tree, pipe, ran, failed>>

-----------------------------------------------------------------------------
(* External: programs, which read to the end of a pipe, write to one, and    *)
(* may stop before that.                                                    *)
Reads(p) == proc[p].in # Tty
Writes(p) == proc[p].out # Tty
Read(p) ==
  /\ At(p, "program") /\ Reads(p) /\ pipe[proc[p].in] > 0
  /\ pipe' = [pipe EXCEPT ![proc[p].in] = @ - 1]
  /\ UNCHANGED <<line, tree, proc, ran, failed>>
ReadEof(p) ==
  /\ At(p, "program") /\ Reads(p) /\ ~proc[p].eof
  /\ pipe[proc[p].in] = 0 /\ Writers(proc[p].in) = {}
  /\ proc' = [proc EXCEPT ![p].eof = TRUE]
  /\ UNCHANGED <<line, tree, pipe, ran, failed>>
Write(p) ==
  /\ At(p, "program") /\ Writes(p) /\ proc[p].n < MaxOut
  /\ IF Readers(proc[p].out) = {} THEN Exits(p) /\ UNCHANGED pipe
     ELSE /\ pipe[proc[p].out] < PIPESIZE
          /\ pipe' = [pipe EXCEPT ![proc[p].out] = @ + 1]
          /\ proc' = [proc EXCEPT ![p].n = @ + 1]
  /\ UNCHANGED <<line, tree, ran, failed>>
Finished(p) == (Reads(p) => proc[p].eof) /\ (Writes(p) => proc[p].n = MaxOut)
Finish(p) ==
  /\ At(p, "program") /\ Finished(p) /\ Exits(p)
  /\ UNCHANGED <<line, tree, pipe, ran, failed>>
StopEarly(p) ==
  /\ At(p, "program") /\ ~Finished(p) /\ Exits(p)
  /\ UNCHANGED <<line, tree, pipe, ran, failed>>

Step(p) ==
  \/ ParseOrPanic(p) \/ RunExec(p) \/ RunRedir(p) \/ RunList(p) \/ RunBack(p) \/ RunPipe(p)
  \/ PipeRight(p) \/ PipeClose(p) \/ Left(p) \/ Right(p) \/ (\E c \in Ids : Wait(p, c))
  \/ Read(p) \/ ReadEof(p) \/ Write(p) \/ Finish(p)
Next == Main \/ \E p \in Ids : Step(p) \/ StopEarly(p)

\* Every process that can run runs, and programs come to an end.
Fairness == WF_svars(Main) /\ \A p \in Ids : WF_svars(Step(p))
Spec == Init /\ [][Next]_svars /\ Fairness

-----------------------------------------------------------------------------
(* What a line means, by where its operators stand: the first `;' outside of  *)
(* parentheses, else `&' at the end, else the first `|', else parentheses.    *)
Depth(l, k) == Cardinality({j \in 1..k : l[j] = "("}) - Cardinality({j \in 1..k : l[j] = ")"})
Outside(l, tok) == {k \in DOMAIN l : l[k] = tok /\ Depth(l, k) = 0}
Before(l, k) == SubSeq(l, 1, k - 1)
After(l, k) == SubSeq(l, k + 1, Len(l))
Both2(c, d, Op(_, _)) == IF c = Nothing \/ d = Nothing THEN Nothing ELSE Op(c, d)

Files(l) == {k \in DOMAIN l : k > 1 /\ l[k - 1] \in Redirects}
Pick(l, ks) == [j \in 1..Cardinality(ks) |-> l[SetToSortSeq(ks, <)[j]]]
OpsOf(l) == Pick(l, {k \in DOMAIN l : l[k] \in Redirects})
Simple(l) ==
  LET args == Pick(l, {k \in DOMAIN l : l[k] \in Words} \ Files(l)) IN
    IF /\ ToSet(l) \subseteq Words \cup Redirects
       /\ \A k \in DOMAIN l : l[k] \in Redirects => k < Len(l) /\ l[k + 1] \in Words
       /\ Len(args) < MAXARGS
    THEN FoldLeft(Redircmd, Execcmd(args), OpsOf(l)) ELSE Nothing

RECURSIVE Meaning(_)
Block(l) ==
  LET close == {k \in DOMAIN l : Depth(l, k) = 0}
      rest == After(l, Min(close)) IN
    IF close = {} \/ Simple(rest) = Nothing \/ Len(rest) # 2 * Len(OpsOf(rest)) THEN Nothing
    ELSE LET c == Meaning(SubSeq(l, 2, Min(close) - 1)) IN
           IF c = Nothing THEN Nothing ELSE FoldLeft(Redircmd, c, OpsOf(rest))
Meaning(l) ==
  LET semi == Outside(l, ";") bar == Outside(l, "|") IN
  IF semi # {} THEN Both2(Meaning(Before(l, Min(semi))), Meaning(After(l, Min(semi))), Listcmd)
  ELSE IF l # <<>> /\ Last(l) = "&"
  THEN LET c == Meaning(Front(l)) IN IF c = Nothing THEN Nothing ELSE Backcmd(c)
  ELSE IF bar # {}
  THEN LET left == Before(l, Min(bar)) right == After(l, Min(bar)) IN
         IF Outside(left, "&") # {} \/ Outside(right, "&") # {} THEN Nothing
         ELSE Both2(Meaning(left), Meaning(right), Pipecmd)
  ELSE IF l # <<>> /\ l[1] = "(" THEN Block(l) ELSE Simple(l)

(* The parser finds that meaning, and refuses what has none.                  *)
ParsesMeaning == tree = Meaning(line)

-----------------------------------------------------------------------------
TypeOK ==
  /\ line \in Lines /\ failed \subseteq {"fork", "syntax", "exec", "open"}
  /\ ran \subseteq Paths(tree)
  /\ \A p \in Ids : proc[p].n \in 0..MaxOut /\ proc[p].parent \in Ids
  /\ \A k \in DOMAIN pipe : pipe[k] \in 0..PIPESIZE

(* What follows a `;' does not begin before everything that stands in front   *)
(* of it has ended, however many processes that is, but for commands in the   *)
(* background: runcmd() waits for as many children as it has made.  A fork    *)
(* that fails is left out: it is a panic, which leaves children behind.       *)
Under(p, l, side) == Alive(p) /\ proc[p].pc \notin {"main", "main wait", "prompt"} /\ IsPrefix(Append(l, side), proc[p].at)
Behind(p, l) == \E k \in Len(l) + 1..Len(proc[p].at) : Type(SubSeq(proc[p].at, 1, k)) = "back"
                                                     /\ k < Len(proc[p].at)
ListInOrder == "fork" \notin failed => \A l \in {q \in Paths(tree) : Type(q) = "list"} :
  (\E q \in Ids : Under(q, l, 2)) => \A p \in Ids : Under(p, l, 1) => Behind(p, l)

(* When all is done every command of the line has run, unless something was   *)
(* refused.                                                                  *)
AllEnded == \A p \in Ids : ~Alive(p) \/ proc[p].pc = "prompt"
EveryCommandRuns == AllEnded /\ failed = {} => ran = {k \in Paths(tree) : Type(k) = "exec"}

(* A program reads the end of its pipe only when everything on the left that  *)
(* should write there, by where it stands in the line, has ended and all of   *)
(* it has been read: each copy of the write end is closed, and not too early. *)
Feeds(q, k) ==
  /\ Under(q, k, 1)
  /\ \A m \in Len(k) + 1..Len(proc[q].at) - 1 : LET c == Sub(SubSeq(proc[q].at, 1, m)) IN
       (c.t = "pipe" => proc[q].at[m + 1] = 2) /\ (c.t = "redir" => c.op = "<")
EofExact == \A p \in Ids : At(p, "program") /\ proc[p].eof =>
  pipe[proc[p].in] = 0 /\ ~\E q \in Ids : Feeds(q, proc[p].in)

(* A line comes to an end, in the foreground and in the background: no pipe   *)
(* stays open in a shell that waits for the one who reads it.                 *)
LineEnds == <>AllEnded
=============================================================================
