------------------------------- MODULE Boogsh -------------------------------
(***************************************************************************)
(* The command loop and the history of the shell, user/boogsh.c: one action  *)
(* is one turn of the loop of main(), that is, one line read, run by         *)
(* choose_cmd, and perhaps stored by add_history.                           *)
(*                                                                          *)
(* A command is what tells lines apart: whether it is a cd, its first word,  *)
(* and `cut', how many characters have been chopped off its end.            *)
(***************************************************************************)
EXTENDS Integers, Sequences

CONSTANTS
  Names,       \* first words of commands
  LIMIT,       \* entries kept by add_history (100)
  SLOTS,       \* BUFFER_SIZE, the length of h->pairs (128)
  Scripting,   \* TRUE when the shell reads a script
  MaxTotal,    \* bound: command numbers given out
  MaxCut       \* bound: characters chopped off one command

BoogshAssumption ==
  /\ LIMIT \in Nat \ {0} /\ SLOTS \in Nat /\ SLOTS > LIMIT
  /\ MaxTotal \in Nat /\ MaxCut \in Nat
  /\ Scripting \in BOOLEAN

VARIABLES
  pairs, count, total_count,  \* struct history
  exit_status,                \* exit_status
  line,                       \* what kind of line was read last
  target,                     \* the stored command that line stands for, if any
  ran,                        \* the command that line executed, if any
  log                         \* every command ever stored, by its number

history == <<pairs, count, total_count, log>>
vars == <<history, exit_status, line, target, ran>>

Command == [cd : BOOLEAN, name : Names, cut : 0..MaxCut]
Nothing == [cut |-> -1]
Garbage == [val |-> 0]      \* a pair that nothing has set

TypeOK ==
  /\ DOMAIN pairs = 0..(SLOTS - 1)
  /\ \A i \in DOMAIN pairs :
        pairs[i] = Garbage \/ pairs[i] \in [val : 1..MaxTotal, command : Command]
  /\ count \in 0..LIMIT /\ total_count \in 1..(MaxTotal + 1)
  /\ exit_status \in {0, 1}
  /\ line \in {"none", "typed", "repeat", "number", "word"}
  /\ {target, ran} \subseteq Command \cup {Nothing}
  /\ log \in Seq(Command)

\* init_history, in a stack frame whose contents are unknown.
Init ==
  /\ pairs = [i \in 0..(SLOTS - 1) |-> Garbage]
  /\ count = 0
  /\ total_count = 1
  /\ exit_status = 0
  /\ line = "none" /\ target = Nothing /\ ran = Nothing
  /\ log = <<>>

-----------------------------------------------------------------------------
Shift(t) == [i \in DOMAIN t |-> IF i < LIMIT - 1 THEN t[i + 1] ELSE t[i]]

\* Mutants: an entry is numbered by its place; the shift moves the numbers but
\* not the commands; there is no limit.
AddHistoryByPlace(t, c) ==
  /\ total_count <= MaxTotal
  /\ count' = IF count = LIMIT THEN LIMIT ELSE count + 1
  /\ pairs' = [(IF count = LIMIT THEN Shift(t) ELSE t)
                 EXCEPT ![count' - 1] = [val |-> count', command |-> c]]
  /\ total_count' = total_count + 1
  /\ log' = Append(log, c)
AddHistoryShiftsNumbers(t, c) ==
  /\ total_count <= MaxTotal
  /\ count' = IF count = LIMIT THEN LIMIT ELSE count + 1
  /\ pairs' = [i \in DOMAIN t |->
                 IF i = count' - 1 THEN [val |-> total_count, command |-> c]
                 ELSE IF count = LIMIT /\ i < LIMIT THEN [t[i] EXCEPT !.val = @ + 1] ELSE t[i]]
  /\ total_count' = total_count + 1
  /\ log' = Append(log, c)
AddHistoryUnbounded(t, c) ==
  /\ total_count <= MaxTotal
  /\ count' = count + 1
  /\ pairs' = [t EXCEPT ![count' - 1] = [val |-> total_count, command |-> c]]
  /\ total_count' = total_count + 1
  /\ log' = Append(log, c)

\* add_history(h, c) on the table t: a full window drops its oldest entry.
AddHistory(t, c) ==
  /\ total_count <= MaxTotal
  /\ count' = IF count = LIMIT THEN LIMIT ELSE count + 1
  /\ pairs' = [(IF count = LIMIT THEN Shift(t) ELSE t)
                 EXCEPT ![count' - 1] = [val |-> total_count, command |-> c]]
  /\ total_count' = total_count + 1
  /\ log' = Append(log, c)

\* The end of a turn of main(): c was executed and ended with a status that
\* the shell does not control; only a success goes into the history.
EndTurn(t, c) ==
  /\ ran' = c
  /\ \/ exit_status' = 0 /\ AddHistory(t, c)
     \/ exit_status' = 1 /\ pairs' = t /\ UNCHANGED <<count, total_count, log>>

-----------------------------------------------------------------------------
\* A command typed in full; of a typed cd only the newline is chopped.
TypedCommand(c) ==
  /\ c.cut = 0
  /\ line' = "typed" /\ target' = Nothing
  /\ EndTurn(pairs, c)

\* An empty line, a comment or spaces: choose_cmd returns -1, or runs a
\* pipeline of no command; valid_cmd keeps it out of the history.
BlankLine ==
  /\ line' = "typed" /\ target' = Nothing /\ ran' = Nothing
  /\ exit_status' \in {0, 1}
  /\ UNCHANGED history

\* change_directory chops the last character of the string it is given, and
\* that string is the one in the entry when a stored command is replayed.
Chop(c) == IF c.cd /\ ~Scripting THEN [c EXCEPT !.cut = @ + 1] ELSE c

Replay(i) ==
  LET c == Chop(pairs[i].command) IN
    /\ c.cut <= MaxCut
    /\ target' = log[pairs[i].val]
    /\ EndTurn([pairs EXCEPT ![i].command = c], c)

NotFound ==
  /\ exit_status' = 1
  /\ target' = Nothing /\ ran' = Nothing
  /\ UNCHANGED history

Window == 0..(count - 1)

\* Both searches keep the last of the entries found.
SearchFor(found) ==
  IF found = {} THEN NotFound
  ELSE Replay(CHOOSE i \in found : \A j \in found : j <= i)

\* "!n".  The digits are copied without a terminator, so atoi may go on into
\* a digit that the stack happens to hold.
SearchByNum(n) ==
  /\ line' = "number"
  /\ \E val \in {n} \cup (10 * n)..(10 * n + 9) :
       SearchFor({i \in Window : pairs[i].val = val})

\* "!word", where `matching' are the names that begin with the word.
SearchByCmd(matching) ==
  /\ line' = "word"
  /\ SearchFor({i \in Window : pairs[i].command.name \in matching})

\* "!!" uses pairs[total_count - 1].  Where nothing has set that pair, or it
\* is outside the array, the pointer is arbitrary: the shell runs whatever
\* text is there, perhaps none.
RepeatHistory ==
  /\ line' = "repeat"
  /\ LET i == total_count - 1 IN
       IF i \in DOMAIN pairs /\ pairs[i] # Garbage
       THEN Replay(i)
       ELSE /\ target' = IF log = <<>> THEN Nothing ELSE log[Len(log)]
            /\ \/ exit_status' \in {0, 1} /\ ran' = Nothing /\ UNCHANGED history
               \/ \E c \in Command : c.cut = 0 /\ EndTurn(pairs, c)

Next ==
  \/ \E c \in Command : TypedCommand(c)
  \/ BlankLine
  \/ \E n \in 1..MaxTotal : SearchByNum(n)
  \/ \E matching \in SUBSET Names : SearchByCmd(matching)
  \/ RepeatHistory

Spec == Init /\ [][Next]_vars

-----------------------------------------------------------------------------
(* Properties.                                                              *)

\* The window holds the LIMIT most recent numbers, in order and without gaps.
WindowExact ==
  /\ count = IF total_count - 1 < LIMIT THEN total_count - 1 ELSE LIMIT
  /\ \A i \in Window : pairs[i].val = total_count - count + i

\* A number keeps denoting the command that was stored under it.
NumbersStable ==
  \A i \in Window :
    /\ pairs[i].command.name = log[pairs[i].val].name
    /\ pairs[i].command.cd = log[pairs[i].val].cd

\* "!!" runs the command that was stored last.
RepeatRunsLast == (line = "repeat" /\ target # Nothing) => ran # Nothing /\ ran.name = target.name

\* A search runs the command as it was stored, character for character.
ReplayAsStored == (line \in {"number", "word"} /\ target # Nothing) => ran = target

\* Every command that is typed goes into the history, also one that fails.
CommandsStored ==
  [][(line' = "typed" /\ ran' # Nothing) => total_count' = total_count + 1]_vars
=============================================================================
