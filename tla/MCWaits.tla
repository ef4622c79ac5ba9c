------------------------------ MODULE MCWaits ------------------------------
(* What a program waits for, in one run: system calls, output on the UART,    *)
(* and a line of each of the two shells.  They run apart: `sys' says which of  *)
(* them a behaviour is about, and the variables of the others are 0.          *)
EXTENDS Integers, Sequences, SequencesExt
CONSTANT None
VARIABLES
  sys,
  pc, parent, killed, strace, counter, ticks, ticks0, n, elapsed, calls, forks,
  tx, thr, irq, intr, writer, wire, rx, typed,
  line, cmds, level, pipes, proc,
  tree, pipe, ran, failed

\* Two processes, which sleep for two ticks or a negative number of them, and a
\* clock that wraps after four.
Sy == INSTANCE Syscall WITH
  Slots <- {1, 2}, TickMod <- 4, MaxForks <- 2, MaxCalls <- 1, Sleeps <- {2, -1}
\* Two writers of three characters, room for two.
Ua == INSTANCE Uart WITH Writers <- {"p", "q"}, UART_TX_BUF_SIZE <- 2, Length <- 3, MaxInput <- 2

\* Pipelines of up to three commands; "none" is a command that does not exist.
Pipelines ==
  {<< <<"a">>, <<"b">>, <<"a">> >>, << <<"a">>, <<"none">>, <<"b">> >>, << <<"a">>, <<"none">> >>,
   << <<"a", "<">>, <<"b">> >>, << <<"a">>, <<"b", ">", "<">> >>, << <<"a", "<", ">>">> >>,
   << <<"a", ">>", "<">> >>, << <<"a", "<", ">">> >>}
Pl == INSTANCE Pipeline WITH Lines <- Pipelines, Programs <- {"a", "b"}, PIPESIZE <- 1, MaxOut <- 2

\* Every line of up to five tokens is parsed; shorter ones and some long ones run.
Tokens == {"a", "(", ")", "|", "&", ";", "<"}
Long ==
  {<<"a", "|", "a", "|", "a">>, <<"a", "|", "a", ";", "a">>, <<"(", "a", "&", ")", "|", "a">>,
   <<"(", "a", ";", "a", ")", "|", "a">>, <<"a", "&", ";", "a", "|", "a">>,
   <<"a", "|", "(", "a", ";", "a", ")", ">", "a">>, <<"(", "a", "<", "a", "|", "a", ")", "&", ";", "a">>,
   <<"a", "a", ">", "a", "a">>, <<"(", "a", ")", ">>", "a", "<", "a">>}
Sh == INSTANCE Shell WITH
  Lines <- SeqOf(Tokens, 3) \cup Long, Words <- {"a"}, MAXARGS <- 3, N <- 6, PIPESIZE <- 1, MaxOut <- 2
Parser == INSTANCE Shell WITH
  Lines <- SeqOf(Tokens, 5), Words <- {"a"}, MAXARGS <- 3, N <- 0, PIPESIZE <- 1, MaxOut <- 2

vars == <<sys, pc, parent, killed, strace, counter, ticks, ticks0, n, elapsed, calls, forks,
  tx, thr, irq, intr, writer, wire, rx, typed, line, cmds, level, pipes, proc, tree, pipe,
  ran, failed>>

Init ==
  \/ /\ sys = "syscall" /\ Sy!Init
     /\ tx = 0 /\ thr = 0 /\ irq = 0 /\ intr = 0 /\ writer = 0 /\ wire = 0 /\ rx = 0
     /\ typed = 0 /\ line = 0 /\ cmds = 0 /\ level = 0 /\ pipes = 0 /\ proc = 0 /\ tree = 0
     /\ pipe = 0 /\ ran = 0 /\ failed = 0
  \/ /\ sys = "uart" /\ Ua!Init
     /\ pc = 0 /\ parent = 0 /\ killed = 0 /\ strace = 0 /\ counter = 0 /\ ticks = 0
     /\ ticks0 = 0 /\ n = 0 /\ elapsed = 0 /\ calls = 0
     /\ forks = 0 /\ line = 0 /\ cmds = 0 /\ level = 0 /\ pipes = 0 /\ proc = 0 /\ tree = 0
     /\ pipe = 0 /\ ran = 0 /\ failed = 0
  \/ /\ sys = "pipeline" /\ Pl!Init
     /\ pc = 0 /\ parent = 0 /\ killed = 0 /\ strace = 0 /\ counter = 0 /\ ticks = 0
     /\ ticks0 = 0 /\ n = 0 /\ elapsed = 0 /\ calls = 0
     /\ forks = 0 /\ tx = 0 /\ thr = 0 /\ irq = 0 /\ intr = 0 /\ writer = 0 /\ wire = 0
     /\ rx = 0 /\ typed = 0 /\ tree = 0 /\ pipe = 0 /\ ran = 0 /\ failed = 0
  \/ /\ sys = "shell" /\ Sh!Init
     /\ pc = 0 /\ parent = 0 /\ killed = 0 /\ strace = 0 /\ counter = 0 /\ ticks = 0
     /\ ticks0 = 0 /\ n = 0 /\ elapsed = 0 /\ calls = 0
     /\ forks = 0 /\ tx = 0 /\ thr = 0 /\ irq = 0 /\ intr = 0 /\ writer = 0 /\ wire = 0
     /\ rx = 0 /\ typed = 0 /\ cmds = 0 /\ level = 0 /\ pipes = 0
  \/ /\ sys = "parser" /\ Parser!Init
     /\ pc = 0 /\ parent = 0 /\ killed = 0 /\ strace = 0 /\ counter = 0 /\ ticks = 0
     /\ ticks0 = 0 /\ n = 0 /\ elapsed = 0 /\ calls = 0
     /\ forks = 0 /\ tx = 0 /\ thr = 0 /\ irq = 0 /\ intr = 0 /\ writer = 0 /\ wire = 0
     /\ rx = 0 /\ typed = 0 /\ cmds = 0 /\ level = 0 /\ pipes = 0

\* What a component leaves alone.
NoSyscall == <<sys, tx, thr, irq, intr, writer, wire, rx, typed, line, cmds, level, pipes, proc, tree, pipe,
  ran, failed>>
NoUart == <<sys, pc, parent, killed, strace, counter, ticks, ticks0, n, elapsed, calls,
  forks, line, cmds, level, pipes, proc, tree, pipe, ran, failed>>
NoPipeline == <<sys, pc, parent, killed, strace, counter, ticks, ticks0, n, elapsed, calls,
  forks, tx, thr, irq, intr, writer, wire, rx, typed, tree, pipe, ran, failed>>
NoShell == <<sys, pc, parent, killed, strace, counter, ticks, ticks0, n, elapsed, calls,
  forks, tx, thr, irq, intr, writer, wire, rx, typed, cmds, level, pipes>>
Next ==
  \/ sys = "syscall" /\ Sy!Next /\ UNCHANGED NoSyscall
  \/ sys = "uart" /\ Ua!Next /\ UNCHANGED NoUart
  \/ sys = "pipeline" /\ Pl!Next /\ UNCHANGED NoPipeline
  \/ sys = "shell" /\ Sh!Next /\ UNCHANGED NoShell

\* The fairness of the one that moves.
Fairness ==
  /\ \A p \in {1, 2} :
       /\ WF_vars(sys = "syscall" /\ Sy!KernelStep(p) /\ UNCHANGED NoSyscall)
       /\ WF_vars(sys = "syscall" /\ (Sy!Interrupt(p) \/ Sy!UserStep(p)) /\ UNCHANGED NoSyscall)
  /\ WF_vars(sys = "syscall" /\ Sy!Tick /\ UNCHANGED NoSyscall)
  /\ WF_vars(sys = "uart" /\ Ua!Sent /\ UNCHANGED NoUart)
  /\ WF_vars(sys = "uart" /\ Ua!Handler /\ UNCHANGED NoUart)
  /\ \A p \in {"p", "q"} : WF_vars(sys = "uart" /\ (Ua!Put(p) \/ Ua!PutSleep(p)) /\ UNCHANGED NoUart)
  /\ WF_vars(sys = "pipeline" /\ Pl!Runner /\ UNCHANGED NoPipeline)
  /\ WF_vars(sys = "shell" /\ Sh!Main /\ UNCHANGED NoShell)
  /\ \A p \in 0..3 : WF_vars(sys = "pipeline" /\ (Pl!Program(p) \/ Pl!ChildExec(p)) /\ UNCHANGED NoPipeline)
  /\ \A p \in 0..6 : WF_vars(sys = "shell" /\ Sh!Step(p) /\ UNCHANGED NoShell)
Spec == Init /\ [][Next]_vars /\ Fairness

\* sleep returns no earlier than it was asked to, over the wrap of the clock.
SyscallsExact == [][sys = "syscall" => Sy!SleptLongEnough]_vars

\* A process that is killed stops, except in wait, and sleep returns, but for one of a
\* whole turn of the clock less a tick, which may miss that tick.
CallsEnd ==
  \A p \in {1, 2} :
    /\ (sys = "syscall" /\ killed[p]) ~> (sys = "syscall" => ~killed[p] \/ pc[p] \in {"zombie", "wait asleep"})
    /\ (sys = "syscall" /\ Sy!InSleep(p) /\ Sy!Short(p)) ~> (sys = "syscall" => ~Sy!InSleep(p))

\* Each writer's characters leave the UART in order, none twice, the transmitter is
\* not idle while some wait for it, and a writer that sleeps has a wakeup to come.
UartExact == sys = "uart" => Ua!InOrder /\ Ua!NeverStuck /\ Ua!NoLostWakeup

\* All output is sent, a pipeline whose last command exists ends, and so does every
\* line of sh.
OutputEnds ==
  /\ <>(sys = "uart" => \A p \in {"p", "q"} : wire[p] = 3)
  /\ <>(sys = "pipeline" /\ Pl!LastRuns => Pl!Ended)
  /\ <>(sys = "shell" => Sh!AllEnded)

\* In both shells a reader sees the end of its pipe exactly when its writers are gone.
EofExact == (sys = "pipeline" => Pl!EofExact) /\ (sys = "shell" => Sh!EofExact)

\* A line that is parsed means what its grammar says, and no other line is.
ParsesMeaning == (sys = "shell" => Sh!ParsesMeaning) /\ (sys = "parser" => Parser!ParsesMeaning)

\* In sh each command that the line means runs, after those before it in its list.
\* In Boogshell the commands up to the first redirection start, the last of them with
\* the files that were typed, and none behind it does.
CommandsRun ==
  /\ sys = "pipeline" => Pl!StartsToRedirection
  /\ sys = "shell" => Sh!ListInOrder /\ Sh!EveryCommandRuns

\* The types of all of them.
TypeOK ==
  /\ sys = "syscall" => Sy!TypeOK
  /\ sys = "uart" => Ua!TypeOK
  /\ sys = "pipeline" => Pl!TypeOK
  /\ sys = "shell" => Sh!TypeOK
=============================================================================
