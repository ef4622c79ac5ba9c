----------------------------- MODULE AtomicDisk -----------------------------
(***************************************************************************)
(* What the logging layer (kernel/log.c) promises to the file system: a     *)
(* disk on which the writes of a system call become durable together or not *)
(* at all, whatever the moment at which the machine stops.                  *)
(*                                                                          *)
(* `durable' is what a reboot would find; `current' is what a read returns  *)
(* now.  Writes are made by operations in progress; a commit makes all of   *)
(* `current' durable and happens only while no operation is in progress, so *)
(* half of an operation is never durable.                                   *)
(***************************************************************************)
CONSTANTS Proc, Block, Val

VARIABLES durable, current, active

avars == <<durable, current, active>>

AInit ==
  /\ durable \in [Block -> Val]
  /\ current = durable
  /\ active = {}

ABegin(p) ==
  /\ p \notin active
  /\ active' = active \cup {p}
  /\ UNCHANGED <<durable, current>>

AWrite(p, b, v) ==
  /\ p \in active
  /\ current' = [current EXCEPT ![b] = v]
  /\ UNCHANGED <<durable, active>>

AEnd(p) ==
  /\ p \in active
  /\ active' = active \ {p}
  /\ UNCHANGED <<durable, current>>

ACommit ==
  /\ active = {}
  /\ durable' = current
  /\ UNCHANGED <<current, active>>

ACrash ==
  /\ current' = durable
  /\ active' = {}
  /\ UNCHANGED durable

ANext ==
  \/ \E p \in Proc : ABegin(p) \/ AEnd(p) \/ \E b \in Block, v \in Val : AWrite(p, b, v)
  \/ ACommit
  \/ ACrash

ASpec == AInit /\ [][ANext]_avars
=============================================================================
