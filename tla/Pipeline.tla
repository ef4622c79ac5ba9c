------------------------------ MODULE Pipeline ------------------------------
(***************************************************************************)
(* A line of the Boogshell (user/boogsh.c): parse_and_run_cmd() and          *)
(* execute_pipeline() in the process that run_program() forks, and the       *)
(* programs it starts.                                                      *)
(*                                                                          *)
(* The runner forks a child for each command but the last, which it becomes  *)
(* by exec().  It never closes the read ends that it has duplicated, and     *)
(* what it forks inherits them.                                             *)
(***************************************************************************)
EXTENDS Integers, Sequences, SequencesExt, FiniteSets

CONSTANTS
  Lines,      \* lines: sequences of commands, each a sequence of parts
  Programs,   \* the programs that exist
  PIPESIZE,   \* external: what a pipe holds
  MaxOut      \* bound: what a program writes

VARIABLES
  line, cmds,  \* the line and what it is parsed to
  level,       \* the command that the runner is at; 0 when it is undone
  pipes,       \* each pipe: bytes, and who holds a read end or the write end
  proc         \* the runner (0) and the children: pc, command, bytes read
               \* and written, eof, status

vars == <<line, cmds, level, pipes, proc>>

LastCmd == Len(cmds)
Ids == UNION {0..Len(l) : l \in Lines}

\* The loop over the parts of a command.  A redirection's file follows it.
\* Only '>' and '<' are remembered (found_out, found_in): '<' forgets the file
\* of a '>>' before it.  A redirection also ends the pipeline.
NoCommand == [prog |-> "", pipe |-> TRUE, in |-> FALSE, out |-> FALSE, append |-> FALSE,
              found_in |-> FALSE, found_out |-> FALSE]
\* Mutant: '>' is not remembered either.
ParsePartForgets(c, part) ==
  CASE part = ">" -> [c EXCEPT !.in = @ /\ c.found_in, !.pipe = FALSE, !.out = TRUE]
    [] part = "<" -> [c EXCEPT !.out = @ /\ c.found_out, !.pipe = FALSE, !.in = TRUE, !.found_in = TRUE]
    [] part = ">>" -> [c EXCEPT !.in = @ /\ c.found_in, !.pipe = FALSE, !.out = TRUE, !.append = TRUE]
    [] OTHER -> [c EXCEPT !.prog = IF @ = "" THEN part ELSE @]
ParsePart(c, part) ==
  CASE part = ">" -> [c EXCEPT !.in = @ /\ c.found_in, !.pipe = FALSE, !.out = TRUE, !.found_out = TRUE]
    [] part = "<" -> [c EXCEPT !.out = @ /\ c.found_out, !.pipe = FALSE, !.in = TRUE, !.found_in = TRUE]
    [] part = ">>" -> [c EXCEPT !.in = @ /\ c.found_in, !.pipe = FALSE, !.out = TRUE, !.append = TRUE]
    [] OTHER -> [c EXCEPT !.prog = IF @ = "" THEN part ELSE @]
EndPipeline(cs) == [cs EXCEPT ![Len(cs)].pipe = FALSE]
Parse(l) == EndPipeline([k \in 1..Len(l) |-> FoldLeft(ParsePart, NoCommand, l[k])])

Idle == [pc |-> "none", cmd |-> 0, read |-> 0, written |-> 0, eof |-> FALSE, status |-> 0]

Init ==
  /\ line \in Lines
  /\ cmds = Parse(line)
  /\ level = 1
  /\ pipes = [k \in 1..Len(line) |-> [n |-> 0, rd |-> {}, wr |-> {}]]
  /\ proc = [p \in Ids |-> IF p = 0 THEN [Idle EXCEPT !.pc = "runner"] ELSE Idle]

-----------------------------------------------------------------------------
\* pipe(), fork() and the closes and dups of both: the child keeps the write
\* end, the runner the read end, and the child has the runner's other ends.
\* Mutant: the runner keeps the write end.
WritersBoth(k) == {0, k}
Writers(k) == {k}
Fork(k) ==
  /\ proc[0].pc = "runner" /\ level = k /\ k \in 1..LastCmd /\ cmds[k].pipe
  /\ pipes' = [j \in DOMAIN pipes |->
       IF j = k THEN [n |-> 0, rd |-> {0}, wr |-> Writers(k)]
       ELSE IF 0 \in pipes[j].rd THEN [pipes[j] EXCEPT !.rd = @ \cup {k}] ELSE pipes[j]]
  /\ proc' = [proc EXCEPT ![k] = [Idle EXCEPT !.pc = "exec", !.cmd = k]]
  /\ level' = k + 1
  /\ UNCHANGED <<line, cmds>>

\* exit() closes all.
Without(p) == [j \in DOMAIN pipes |-> [pipes[j] EXCEPT !.rd = @ \ {p}, !.wr = @ \ {p}]]
Exit(p, status) ==
  /\ proc' = [proc EXCEPT ![p].pc = "zombie", ![p].status = status]
  /\ pipes' = Without(p)

\* exec() in a child.
ChildExec(p) ==
  /\ proc[p].pc = "exec"
  /\ IF cmds[p].prog \in Programs
     THEN proc' = [proc EXCEPT ![p].pc = "program"] /\ UNCHANGED pipes
     ELSE Exit(p, 1)
  /\ UNCHANGED <<line, cmds, level>>

\* The last command, in the runner: a redirection that cannot be opened is a
\* panic; a failed exec() returns to the recursion, which ignores the result.
\* '<' replaces a pipe at descriptor 0 while the other read ends stay.
Become(k) ==
  /\ proc[0].pc = "runner" /\ level = k /\ k \in 1..LastCmd /\ ~cmds[k].pipe
  /\ \/ /\ cmds[k].in \/ cmds[k].out
        /\ Exit(0, 1) /\ UNCHANGED level
     \/ /\ cmds[k].prog \in Programs
        /\ proc' = [proc EXCEPT ![0].pc = "program", ![0].cmd = k]
        /\ UNCHANGED <<pipes, level>>
     \/ /\ cmds[k].prog \notin Programs
        /\ level' = k - 1
        /\ IF k = 1 THEN Exit(0, 1) ELSE proc' = [proc EXCEPT ![0].pc = "wait"] /\ UNCHANGED pipes
  /\ UNCHANGED <<line, cmds>>

\* One wait(0) for each level, then exit(0).
Wait(p) ==
  /\ proc[0].pc = "wait" /\ p # 0 /\ proc[p].pc = "zombie"
  /\ level' = level - 1
  /\ IF level = 1
     THEN /\ proc' = [proc EXCEPT ![p].pc = "reaped", ![0].pc = "zombie"]
          /\ pipes' = Without(0)
     ELSE proc' = [proc EXCEPT ![p].pc = "reaped"] /\ UNCHANGED pipes
  /\ UNCHANGED <<line, cmds>>

-----------------------------------------------------------------------------
(* External: a program copies until the end of its input, or stops early.    *)
Running(p) == proc[p].pc = "program"
\* Mutant: without the close(0) of the second level the first pipe stays there.
StdinFirst(p) == IF proc[p].cmd > 1 /\ ~cmds[proc[p].cmd].in THEN {1} ELSE {}
Stdin(p) == IF proc[p].cmd > 1 /\ ~cmds[proc[p].cmd].in THEN {proc[p].cmd - 1} ELSE {}
Stdout(p) == IF cmds[proc[p].cmd].pipe THEN {proc[p].cmd} ELSE {}

Read(p, k) ==
  /\ Running(p) /\ k \in Stdin(p) /\ pipes[k].n > 0
  /\ pipes' = [pipes EXCEPT ![k].n = @ - 1]
  /\ proc' = [proc EXCEPT ![p].read = @ + 1]
  /\ UNCHANGED <<line, cmds, level>>
ReadEof(p, k) ==
  /\ Running(p) /\ k \in Stdin(p) /\ pipes[k].n = 0 /\ pipes[k].wr = {} /\ ~proc[p].eof
  /\ proc' = [proc EXCEPT ![p].eof = TRUE]
  /\ UNCHANGED <<line, cmds, level, pipes>>
\* A write to a pipe that nobody can read fails.
Write(p, k) ==
  /\ Running(p) /\ k \in Stdout(p) /\ proc[p].written < MaxOut
  /\ IF pipes[k].rd = {} THEN Exit(p, 1)
     ELSE /\ pipes[k].n < PIPESIZE
          /\ pipes' = [pipes EXCEPT ![k].n = @ + 1]
          /\ proc' = [proc EXCEPT ![p].written = @ + 1]
  /\ UNCHANGED <<line, cmds, level>>
Finished(p) == (Stdin(p) = {} \/ proc[p].eof) /\ (Stdout(p) = {} \/ proc[p].written = MaxOut)
Finish(p) ==
  /\ Running(p) /\ Finished(p) /\ Exit(p, 0)
  /\ UNCHANGED <<line, cmds, level>>
StopEarly(p) ==
  /\ Running(p) /\ ~Finished(p) /\ \E status \in {0, 1} : Exit(p, status)
  /\ UNCHANGED <<line, cmds, level>>

Program(p) == (\E k \in DOMAIN pipes : Read(p, k) \/ ReadEof(p, k) \/ Write(p, k)) \/ Finish(p)
Runner == (\E k \in 1..LastCmd : Fork(k) \/ Become(k)) \/ \E p \in Ids : Wait(p)
Next == Runner \/ \E p \in Ids : Program(p) \/ ChildExec(p) \/ StopEarly(p)

Fairness == WF_vars(Runner) /\ \A p \in Ids : WF_vars(Program(p) \/ ChildExec(p))
Spec == Init /\ [][Next]_vars /\ Fairness

-----------------------------------------------------------------------------
TypeOK ==
  /\ line \in Lines /\ level \in 0..LastCmd
  /\ pipes \in [DOMAIN line -> [n : 0..PIPESIZE, rd : SUBSET Ids, wr : SUBSET Ids]]
  /\ proc \in [Ids -> [pc : {"none", "runner", "exec", "program", "wait", "zombie", "reaped"},
                       cmd : Ids, read : 0..MaxOut, written : 0..MaxOut, eof : BOOLEAN, status : {0, 1}]]

(* What a program takes for the end of its input is the end of what the      *)
(* command before it wrote: that command is over, and this one read every     *)
(* byte of it, though others hold the read end too.                           *)
EofExact == \A p \in Ids : proc[p].eof =>
  LET before == proc[proc[p].cmd - 1] IN
  before.pc \in {"zombie", "reaped"} /\ proc[p].read = before.written

(* The commands before the first redirection are started, each once, and the  *)
(* runner becomes the command that has it, with the files typed for it; what  *)
(* is behind it is never started, and a runner that came back from a failed   *)
(* exec() has collected all that it started.  A '<' after a '>>' is left out: *)
(* there the name of the '>>' is lost (boogsh.c:440).                        *)
Typed(k, part) == \E i \in DOMAIN line[k] : line[k][i] = part
AppendThenIn(k) == \E i, j \in DOMAIN line[k] : i < j /\ line[k][i] = ">>" /\ line[k][j] = "<"
LastTyped == LET S == {k \in 1..Len(line) : k = Len(line) \/ \E f \in {">", "<", ">>"} : Typed(k, f)}
             IN CHOOSE k \in S : \A j \in S : k <= j
Ended == \A p \in Ids : proc[p].pc \in {"none", "zombie", "reaped"}
StartsToRedirection ==
  /\ \A k \in Ids \ {0} : proc[k].pc # "none" => k < LastTyped /\ proc[k].cmd = k
  /\ proc[0].cmd # 0 =>
       /\ proc[0].cmd = LastTyped
       /\ Typed(LastTyped, "<") <=> cmds[LastTyped].in
       /\ ~AppendThenIn(LastTyped) =>
            ((Typed(LastTyped, ">") \/ Typed(LastTyped, ">>")) <=> cmds[LastTyped].out)
  /\ Ended => \A k \in 1..LastTyped - 1 : proc[k].pc # "none"
  /\ Ended /\ proc[0].cmd = 0 /\ proc[0].status = 0 => \A k \in 1..LastTyped - 1 : proc[k].pc = "reaped"

(* A line ends, with all that it started: no writer waits for room in a pipe *)
(* that nobody will read, and no reader for the end of a pipe whose write    *)
(* end somebody keeps.  This needs the last command to be a program: the      *)
(* runner that could not become it waits for its children while it holds      *)
(* their pipes open (boogsh.c:375).                                          *)
LastRuns == \E k \in 1..LastCmd : (~cmds[k].pipe /\ \A j \in 1..(k - 1) : cmds[j].pipe) /\ cmds[k].prog \in Programs
PipelineEnds == LastRuns => <>Ended
=============================================================================
