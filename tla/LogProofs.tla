------------------------------ MODULE LogProofs ------------------------------
(***************************************************************************)
(* Theorems about Log, for any number of processes, blocks and contents and  *)
(* any sizes of the log: no call panics, the log on disk is whole, the log    *)
(* implements the atomic disk, and the buffer cache never disagrees with it.  *)
(*                                                                          *)
(* Inv fixes the shape of a state: what the processes do at the same time     *)
(* (calls, a commit, or recovery), that outstanding counts the calls in       *)
(* progress, and the bounds of the loops.  SpaceInv carries the accounting    *)
(* of log space, from which no call panics.  Copies relates the places where  *)
(* the contents of a block may be - its home, the log on disk, its buffer -   *)
(* to the headers in memory and on disk and to how far the two loops of a     *)
(* commit have come.                                                         *)
(***************************************************************************)
EXTENDS MCLog, FiniteSetTheorems, TLAPS

Copying   == {"write_log", "write_head", "install", "r_install"}
Booter    == {"r_head", "r_install", "r_clear"}
Holding   == {"held", "dirty", "logged"}

\* The three modes exclude one another, and only one process commits or boots.
Modes ==
  /\ \A p, q \in Proc : pc[p] \in InBoot => pc[q] \in InBoot
  /\ \A p, q \in Proc : pc[p] \in Booter /\ pc[q] \in Booter => p = q
  /\ \A p, q \in Proc : pc[p] \in InCommit /\ pc[q] \in InCommit => p = q
  /\ \A p \in Proc : pc[p] \in InCommit => committing
  /\ committing => Active = {}

Bounds ==
  /\ Len(lh) <= LOGSIZE /\ Len(head) <= LOGSIZE
  /\ \A p \in Proc : pc[p] \in Copying => tail[p] \in 1..Len(lh)
  /\ \A p \in Proc : pc[p] = "r_head" => tail[p] = 1
  /\ \A p \in Proc : pc[p] \in Holding => cur[p] \in Block

Inv ==
  /\ TypeOK
  /\ Modes
  /\ outstanding = Cardinality(Active)
  /\ Bounds

-----------------------------------------------------------------------------
LEMMA ActiveFinite == IsFiniteSet(Active) /\ Cardinality(Active) \in 0..Cardinality(Proc)
<1>1. Active \in SUBSET Proc
  BY DEF Active
<1>2. IsFiniteSet(Proc)
  BY ConstantsAssumption
<1>3. IsFiniteSet(Active) /\ Cardinality(Active) <= Cardinality(Proc)
  BY <1>1, <1>2, FS_Subset
<1> QED
  BY <1>2, <1>3, FS_CardinalityType

LEMMA InitInv == Init => Inv
<1> SUFFICES ASSUME Init PROVE Inv
  OBVIOUS
<1>1. PICK p \in Proc : pc = BootPC(p)
  BY DEF Init
<1>2. TypeOK
  <2>1. 0 \in 0..Cardinality(Proc)
    BY ConstantsAssumption, FS_CardinalityType
  <2>2. pc \in [Proc -> PC]
    BY <1>1 DEF BootPC, PC, InBoot
  <2>3. head \in Seq(Block) /\ lh \in Seq(Block)
    BY DEF Init
  <2>4. logdata \in [1..LOGSIZE -> Val]
    BY DEF Init
  <2>5. /\ cache \in [Block -> Val \cup {Absent}] /\ refcnt \in [Block -> Int]
        /\ cur \in [Proc -> Block \cup {NoBlock}]
    BY DEF Init
  <2>6. tail \in [Proc -> Nat] /\ wrote \in [Proc -> SUBSET Block]
    BY DEF Init
  <2> QED
    BY <2>1, <2>2, <2>3, <2>4, <2>5, <2>6 DEF Init, TypeOK
<1>3. Active = {}
  BY <1>1 DEF Active, BootPC, InCall
<1>4. Modes
  BY <1>1, <1>3 DEF Init, Modes, BootPC, InBoot, InCommit, Booter
<1>5. outstanding = Cardinality(Active)
  BY <1>3, FS_EmptySet DEF Init
<1>6. Bounds
  BY <1>1, ConstantsAssumption DEF Init, Bounds, BootPC, Copying, Holding
<1> QED
  BY <1>2, <1>4, <1>5, <1>6 DEF Inv

LEMMA PCSets ==
  /\ \A x \in InCall : x \notin InCommit /\ x \notin InBoot
  /\ \A x \in InCommit : x \notin InBoot
  /\ Booter \subseteq InBoot
  /\ Holding \subseteq InCall
  /\ PC = {"idle", "begin", "asleep"} \cup InCall \cup InCommit \cup InBoot
BY DEF InCall, InCommit, InBoot, Booter, Holding, PC

-----------------------------------------------------------------------------
(* Inside a call nothing but the caller moves.                              *)

LEMMA StepInCall ==
  ASSUME Inv, NEW p \in Proc, pc[p] \in InCall, pc' \in [Proc -> PC],
         NEW l \in InCall, pc' = [pc EXCEPT ![p] = l],
         UNCHANGED <<outstanding, committing>>
  PROVE  Active' = Active /\ Modes' /\ outstanding' = Cardinality(Active')
<1>1. \A q \in Proc : pc'[q] \in InCall <=> pc[q] \in InCall
  BY DEF Inv, TypeOK
<1>2. Active' = Active
  BY <1>1 DEF Active
<1>3. \A q \in Proc : \A S \in {InBoot, Booter, InCommit} : pc'[q] \in S <=> pc[q] \in S
  BY PCSets DEF Inv, TypeOK
<1>4. Modes'
  BY <1>2, <1>3 DEF Inv, Modes
<1> QED
  BY <1>2, <1>4 DEF Inv

LEMMA BreadInv == ASSUME Inv, NEW p \in Proc, NEW b \in Block, Bread(p, b) PROVE Inv'
<1>1. pc[p] \in InCall /\ "held" \in InCall /\ pc' \in [Proc -> PC]
  BY DEF Bread, InCall, PC, Inv, TypeOK
<1>2. TypeOK'
  BY <1>1 DEF Inv, TypeOK, Bread, Contents
<1>3. Bounds'
  BY DEF Inv, TypeOK, Bounds, Bread, Copying, Holding
<1> QED
  BY <1>1, <1>2, <1>3, StepInCall DEF Inv, Bread

LEMMA ModifyInv == ASSUME Inv, NEW p \in Proc, NEW v \in Val, Modify(p, v) PROVE Inv'
<1>1. pc[p] \in InCall /\ "dirty" \in InCall /\ pc' \in [Proc -> PC]
  BY DEF Modify, InCall, PC, Inv, TypeOK
<1>2. TypeOK'
  BY <1>1 DEF Inv, TypeOK, Modify
<1>3. Bounds'
  BY DEF Inv, TypeOK, Bounds, Modify, Copying, Holding
<1> QED
  BY <1>1, <1>2, <1>3, StepInCall DEF Inv, Modify

LEMMA LogWriteInv == ASSUME Inv, NEW p \in Proc, LogWrite(p) PROVE Inv'
<1>1. PICK l \in {"panic", "logged"} : pc' = [pc EXCEPT ![p] = l]
  BY DEF LogWrite
<1>2. pc[p] \in InCall /\ l \in InCall /\ pc' \in [Proc -> PC]
  BY <1>1 DEF LogWrite, InCall, PC, Inv, TypeOK
<1>3. cur[p] \in Block
  BY DEF LogWrite, Inv, Bounds, Holding
<1>4. /\ lh' \in Seq(Block) /\ Len(lh') <= LOGSIZE
      /\ refcnt' \in [Block -> Int] /\ wrote' \in [Proc -> SUBSET Block]
  <2>1. CASE TooBig \/ outstanding < 1
    BY <2>1 DEF LogWrite, Inv, TypeOK, Bounds
  <2>2. CASE ~(TooBig \/ outstanding < 1)
    <3>1. Len(lh) < LOGSIZE /\ Len(lh) \in Nat /\ lh \in Seq(Block)
      BY <2>2, ConstantsAssumption DEF TooBig, Inv, TypeOK
    <3>2. wrote' \in [Proc -> SUBSET Block]
      <4>1. wrote' = [wrote EXCEPT ![p] = @ \cup {cur[p]}]
        BY <2>2 DEF LogWrite
      <4> QED
        BY <4>1, <1>3 DEF Inv, TypeOK
    <3>3. Record(cur[p])
      BY <2>2 DEF LogWrite
    <3>4. CASE Logged(lh, cur[p])
      BY <3>1, <3>2, <3>3, <3>4, ConstantsAssumption DEF Record, Inv, TypeOK
    <3>5. CASE ~Logged(lh, cur[p])
      <4>1. lh' = Append(lh, cur[p]) /\ refcnt' = [refcnt EXCEPT ![cur[p]] = @ + 1]
        BY <3>3, <3>5 DEF Record
      <4>2. refcnt' \in [Block -> Int]
        BY <4>1, <1>3 DEF Inv, TypeOK
      <4>3. lh' \in Seq(Block) /\ Len(lh') = Len(lh) + 1
        BY <4>1, <1>3, <3>1
      <4> QED
        BY <3>1, <3>2, <4>2, <4>3, ConstantsAssumption
    <3> QED
      BY <3>4, <3>5
  <2> QED
    BY <2>1, <2>2
<1>5. TypeOK'
  BY <1>2, <1>4 DEF Inv, TypeOK, LogWrite
<1>6. \A q \in Proc : pc[q] \notin Copying
  <2>1. p \in Active /\ pc[p] \notin InBoot
    BY <1>2, PCSets DEF Active
  <2>2. \A q \in Proc : pc[q] \notin InCommit /\ pc[q] \notin InBoot
    BY <2>1 DEF Inv, Modes
  <2> QED
    BY <2>2 DEF Copying, InCommit, InBoot
<1>7. Bounds'
  BY <1>1, <1>4, <1>6 DEF Inv, TypeOK, Bounds, LogWrite, Copying, Holding
<1> QED
  BY <1>1, <1>2, <1>5, <1>7, StepInCall DEF Inv, LogWrite

LEMMA BrelseInv == ASSUME Inv, NEW p \in Proc, Brelse(p) PROVE Inv'
<1>1. pc[p] \in InCall /\ "op" \in InCall /\ pc' \in [Proc -> PC]
  BY DEF Brelse, InCall, PC, Inv, TypeOK
<1>2. TypeOK'
  <2>1. cur[p] \in Block
    BY DEF Brelse, Inv, Bounds, Holding
  <2> QED
    BY <1>1, <2>1 DEF Inv, TypeOK, Brelse
<1>3. Bounds'
  BY DEF Inv, TypeOK, Bounds, Brelse, Copying, Holding
<1> QED
  BY <1>1, <1>2, <1>3, StepInCall DEF Inv, Brelse

-----------------------------------------------------------------------------
(* Entering and leaving a call.                                             *)

LEMMA BeginSleepInv == ASSUME Inv, NEW p \in Proc, BeginSleep(p) PROVE Inv'
<1>1. pc' \in [Proc -> PC]
  BY DEF BeginSleep, PC, Inv, TypeOK
<1>2. TypeOK'
  BY <1>1 DEF Inv, TypeOK, BeginSleep
<1>3. \A q \in Proc : \A S \in {InCall, InBoot, Booter, InCommit, Copying, Holding} :
        pc'[q] \in S <=> pc[q] \in S
  BY DEF BeginSleep, Inv, TypeOK, InCall, InBoot, Booter, InCommit, Copying, Holding
<1>4. Active' = Active
  BY <1>3 DEF Active
<1>5. Modes'
  BY <1>3, <1>4 DEF Inv, Modes, BeginSleep
<1>6. Bounds'
  BY <1>3 DEF Inv, Bounds, BeginSleep
<1> QED
  BY <1>2, <1>4, <1>5, <1>6 DEF Inv, BeginSleep

LEMMA BeginAdmitActive ==
  ASSUME Inv, NEW p \in Proc, BeginAdmit(p)
  PROVE  p \notin Active /\ Active' = Active \cup {p}
BY DEF BeginAdmit, Active, InCall, Inv, TypeOK

LEMMA BeginAdmitInv == ASSUME Inv, NEW p \in Proc, BeginAdmit(p) PROVE Inv'
<1>1. pc' \in [Proc -> PC]
  BY DEF BeginAdmit, PC, InCall, Inv, TypeOK
<1>2. outstanding' = Cardinality(Active')
  BY BeginAdmitActive, ActiveFinite, FS_AddElement DEF Inv, BeginAdmit
<1>3. outstanding' \in 0..Cardinality(Proc)
  <2>1. Active' \in SUBSET Proc
    BY DEF Active
  <2> QED
    BY <1>2, <2>1, ConstantsAssumption, FS_Subset, FS_CardinalityType
<1>4. TypeOK'
  BY <1>1, <1>3 DEF Inv, TypeOK, BeginAdmit
<1>5. \A q \in Proc : \A S \in {InBoot, Booter, InCommit, Copying} :
        pc'[q] \in S <=> pc[q] \in S
  BY DEF BeginAdmit, Inv, TypeOK, InBoot, Booter, InCommit, Copying
<1>6. Modes'
  BY <1>5 DEF Inv, Modes, BeginAdmit, MustWait
<1>7. Bounds'
  BY <1>5 DEF Inv, TypeOK, Bounds, BeginAdmit, Holding
<1> QED
  BY <1>2, <1>4, <1>6, <1>7 DEF Inv

LEMMA WakeAllType == ASSUME NEW f \in [Proc -> PC] PROVE WakeAll(f) \in [Proc -> PC]
BY DEF WakeAll, PC

LEMMA WakeAllSets ==
  ASSUME NEW f \in [Proc -> PC], NEW q \in Proc,
         NEW S \in {InCall, InBoot, Booter, InCommit, Copying, Holding}
  PROVE  WakeAll(f)[q] \in S <=> f[q] \in S
BY DEF WakeAll, InCall, InBoot, Booter, InCommit, Copying, Holding

LEMMA EndOpLeaveInv ==
  ASSUME Inv, NEW p \in Proc, EndOpLeave(p)
  PROVE  Inv' /\ Active' = Active \ {p}
<1> DEFINE f == [pc EXCEPT ![p] = "idle"]
<1>1. p \in Active /\ ~committing
  BY DEF EndOpLeave, Active, InCall, Inv, Modes
<1>2. f \in [Proc -> PC] /\ pc' = WakeAll(f)
  BY <1>1 DEF EndOpLeave, Inv, TypeOK, PC
<1>3. pc' \in [Proc -> PC]
  BY <1>2, WakeAllType
<1>4. \A q \in Proc : \A S \in {InCall, InBoot, Booter, InCommit, Copying, Holding} :
        pc'[q] \in S <=> f[q] \in S
  BY <1>2, WakeAllSets
<1>5. \A q \in Proc : \A S \in {InBoot, Booter, InCommit, Copying, Holding} :
        pc'[q] \in S <=> pc[q] \in S
  <2>1. \A q \in Proc : \A S \in {InBoot, Booter, InCommit, Copying, Holding} :
          f[q] \in S <=> pc[q] \in S
    BY DEF EndOpLeave, Inv, TypeOK, InBoot, Booter, InCommit, Copying, Holding
  <2> QED
    BY <1>4, <2>1
<1>6. Active' = Active \ {p}
  <2>1. \A q \in Proc : f[q] \in InCall <=> pc[q] \in InCall /\ q # p
    BY DEF Inv, TypeOK, InCall
  <2> QED
    BY <1>4, <2>1 DEF Active
<1>7. outstanding' = Cardinality(Active')
  BY <1>1, <1>6, ActiveFinite, FS_RemoveElement DEF Inv, EndOpLeave
<1>8. outstanding' \in 0..Cardinality(Proc)
  <2>1. Active' \in SUBSET Proc
    BY DEF Active
  <2> QED
    BY <1>7, <2>1, ConstantsAssumption, FS_Subset, FS_CardinalityType
<1>9. TypeOK'
  BY <1>3, <1>8 DEF Inv, TypeOK, EndOpLeave
<1>10. Modes'
  BY <1>1, <1>5 DEF Inv, Modes, EndOpLeave
<1>11. Bounds'
  <2>1. \A q \in Proc : pc'[q] \notin InBoot
    BY <1>1, <1>5, PCSets DEF Inv, Modes, Active
  <2> QED
    BY <1>5, <2>1 DEF Inv, Bounds, EndOpLeave, InBoot
<1> QED
  BY <1>6, <1>7, <1>9, <1>10, <1>11 DEF Inv

LEMMA EndOpCommitInv ==
  ASSUME Inv, NEW p \in Proc, EndOpCommit(p)
  PROVE  Inv' /\ Active' = {}
<1>1. p \in Active /\ ~committing /\ pc[p] = "op"
  BY DEF EndOpCommit, Active, InCall, Inv, Modes
<1>2. PICK l \in {"finish", "write_log"} :
        pc' = [pc EXCEPT ![p] = l] /\ (l = "write_log" => lh # <<>>)
  BY <1>1 DEF EndOpCommit
<1>3. pc' \in [Proc -> PC]
  BY <1>2 DEF Inv, TypeOK, PC, InCommit
<1>4. Active = {p}
  <2>1. IsFiniteSet(Active) /\ Cardinality(Active) = 1
    BY ActiveFinite DEF Inv, EndOpCommit
  <2>2. PICK x : Active = {x}
    BY <2>1, FS_Singleton
  <2> QED
    BY <1>1, <2>2
<1>5. Active' = {}
  BY <1>2, <1>4 DEF Active, Inv, TypeOK, InCall
<1>6. outstanding' = Cardinality(Active')
  BY <1>5, FS_EmptySet DEF EndOpCommit
<1>7. TypeOK'
  <2>1. 0 \in 0..Cardinality(Proc)
    BY ConstantsAssumption, FS_CardinalityType
  <2> QED
    BY <1>3, <2>1 DEF Inv, TypeOK, EndOpCommit
<1>8. \A q \in Proc : pc[q] \notin InCommit
  BY <1>1 DEF Inv, Modes
<1>9. \A q \in Proc : pc[q] \notin InBoot /\ pc'[q] \notin InBoot
  BY <1>1, <1>2 DEF Inv, TypeOK, Modes, InBoot
<1>10. Modes'
  BY <1>1, <1>2, <1>5, <1>8, <1>9, PCSets DEF Inv, TypeOK, Modes, EndOpCommit
<1>11. Bounds'
  <2>1. l = "write_log" => 1 \in 1..Len(lh)
    BY <1>2 DEF Inv, TypeOK
  <2>2. \A q \in Proc : q # p => pc[q] \notin Copying
    BY <1>8, <1>9 DEF Copying, InCommit, InBoot
  <2> QED
    BY <1>2, <2>1, <2>2 DEF Inv, TypeOK, Bounds, EndOpCommit, Copying, Holding
<1> QED
  BY <1>5, <1>6, <1>7, <1>10, <1>11 DEF Inv

-----------------------------------------------------------------------------
(* The commit: no call is in progress and one process moves.                *)

LEMMA CommitAlone ==
  ASSUME Inv, NEW p \in Proc, pc[p] \in InCommit
  PROVE  /\ Active = {} /\ committing /\ outstanding = 0
         /\ \A q \in Proc : q # p => pc[q] \in {"idle", "begin", "asleep"}
<1>1. Active = {} /\ committing
  BY DEF Inv, Modes
<1>2. outstanding = 0
  BY <1>1, FS_EmptySet DEF Inv
<1>3. \A q \in Proc : pc[q] \notin InBoot
  BY PCSets DEF Inv, Modes
<1>4. \A q \in Proc : pc[q] \notin InCall
  BY <1>1 DEF Active
<1> QED
  BY <1>1, <1>2, <1>3, <1>4, PCSets DEF Inv, Modes, TypeOK

\* What holds of the state after a commit step that stays in the commit.
LEMMA StepInCommit ==
  ASSUME Inv, NEW p \in Proc, pc[p] \in InCommit,
         NEW l \in InCommit, pc' = [pc EXCEPT ![p] = l],
         UNCHANGED <<outstanding, committing>>
  PROVE  /\ pc' \in [Proc -> PC] /\ Active' = Active
         /\ Modes' /\ outstanding' = Cardinality(Active')
         /\ \A q \in Proc : q # p => pc'[q] \notin Copying \cup Holding \cup {"r_head"}
<1>1. pc' \in [Proc -> PC] /\ pc'[p] = l
  BY PCSets DEF Inv, TypeOK
<1>2. \A q \in Proc : q # p => pc'[q] \in {"idle", "begin", "asleep"}
  BY CommitAlone DEF Inv, TypeOK
<1>3. Active = {} /\ Active' = {}
  BY <1>1, <1>2, CommitAlone, PCSets DEF Active, InCall
<1>4. Modes'
  <2>1. \A q \in Proc : pc'[q] \notin InBoot
    BY <1>1, <1>2, PCSets DEF InBoot
  <2>2. \A q \in Proc : pc'[q] \in InCommit => q = p
    BY <1>2 DEF InCommit
  <2> QED
    BY <2>1, <2>2, <1>3, PCSets, CommitAlone DEF Modes
<1>5. \A q \in Proc : q # p => pc'[q] \notin Copying \cup Holding \cup {"r_head"}
  BY <1>2 DEF Copying, Holding
<1> QED
  BY <1>1, <1>3, <1>4, <1>5 DEF Inv

\* One turn of a loop over the logged blocks.
LEMMA AdvanceStep ==
  ASSUME Inv, NEW p \in Proc, NEW here \in Copying, NEW next \in PC,
         pc[p] = here, Advance(p, here, next)
  PROVE  /\ tail' \in [Proc -> Nat]
         /\ \A q \in Proc \ {p} : tail'[q] = tail[q]
         /\ tail'[p] \in 1..Len(lh)
         /\ \E l \in {here, next} : pc' = [pc EXCEPT ![p] = l]
<1>1. tail[p] \in 1..Len(lh) /\ Len(lh) \in Nat
  BY DEF Inv, Bounds, TypeOK
<1>2. CASE tail[p] = Len(lh)
  <2>1. pc' = [pc EXCEPT ![p] = next]
    BY <1>2 DEF Advance
  <2>2. tail' = [tail EXCEPT ![p] = 1]
    BY <1>2 DEF Advance
  <2> QED
    BY <1>1, <2>1, <2>2 DEF Inv, TypeOK
<1>3. CASE tail[p] # Len(lh)
  <2>1. pc' = [pc EXCEPT ![p] = here]
    BY <1>3 DEF Advance
  <2>2. tail' = [tail EXCEPT ![p] = tail[p] + 1]
    BY <1>3 DEF Advance
  <2>3. /\ tail' \in [Proc -> Nat] /\ tail'[p] = tail[p] + 1
        /\ \A q \in Proc \ {p} : tail'[q] = tail[q]
    BY <2>2, <1>1 DEF Inv, TypeOK
  <2> QED
    BY <2>1, <2>3, <1>1, <1>3
<1> QED
  BY <1>2, <1>3

LEMMA LogIndex ==
  ASSUME Inv, NEW p \in Proc, pc[p] \in Copying
  PROVE  /\ tail[p] \in 1..LOGSIZE /\ tail[p] \in 1..Len(lh)
         /\ lh[tail[p]] \in Block /\ logdata[tail[p]] \in Val
<1>1. tail[p] \in 1..Len(lh) /\ Len(lh) \in Nat /\ Len(lh) <= LOGSIZE /\ lh \in Seq(Block)
  BY DEF Inv, Bounds, TypeOK
<1>2. tail[p] \in 1..LOGSIZE
  BY <1>1, ConstantsAssumption
<1>3. lh[tail[p]] \in Block
  BY <1>1
<1> QED
  BY <1>1, <1>2, <1>3 DEF Inv, TypeOK

LEMMA WriteLogInv ==
  ASSUME Inv, NEW p \in Proc, WriteLog(p) PROVE Inv' /\ Active' = {}
<1>1. pc[p] = "write_log" /\ "write_log" \in Copying /\ "write_log" \in InCommit
      /\ "write_head" \in PC /\ "write_head" \in InCommit
  BY DEF WriteLog, Copying, InCommit, PC
<1>2. PICK l \in {"write_log", "write_head"} : pc' = [pc EXCEPT ![p] = l]
  BY <1>1, AdvanceStep DEF WriteLog
<1>3. tail' \in [Proc -> Nat] /\ tail'[p] \in 1..Len(lh)
  BY <1>1, AdvanceStep DEF WriteLog
<1>4. pc' \in [Proc -> PC] /\ Active' = Active /\ Modes' /\ outstanding' = Cardinality(Active')
      /\ \A q \in Proc : q # p => pc'[q] \notin Copying \cup Holding \cup {"r_head"}
  BY <1>1, <1>2, StepInCommit DEF WriteLog
<1>5. lh[tail[p]] \in Block
  BY <1>1, LogIndex
<1>6. Contents(lh[tail[p]]) \in Val
  BY <1>5 DEF Contents, Inv, TypeOK
<1>7. TypeOK'
  BY <1>3, <1>4, <1>5, <1>6 DEF WriteLog, Inv, TypeOK
<1>8. Bounds'
  BY <1>2, <1>3, <1>4 DEF WriteLog, Inv, TypeOK, Bounds, Holding
<1> QED
  BY <1>1, <1>4, <1>7, <1>8, CommitAlone DEF Inv

LEMMA WriteHeadInv ==
  ASSUME Inv, NEW p \in Proc, WriteHead(p) PROVE Inv' /\ Active' = {}
<1>1. pc[p] = "write_head" /\ pc[p] \in InCommit /\ "install" \in InCommit /\ pc[p] \in Copying
  BY DEF WriteHead, InCommit, Copying
<1>2. pc' \in [Proc -> PC] /\ Active' = Active /\ Modes' /\ outstanding' = Cardinality(Active')
      /\ \A q \in Proc : q # p => pc'[q] \notin Copying \cup Holding \cup {"r_head"}
  BY <1>1, StepInCommit DEF WriteHead
<1>3. TypeOK'
  BY <1>2 DEF WriteHead, Inv, TypeOK
<1>4. Bounds'
  BY <1>1, <1>2 DEF WriteHead, Inv, TypeOK, Bounds, Holding
<1> QED
  BY <1>1, <1>2, <1>3, <1>4, CommitAlone DEF Inv

\* What installing one block leaves well typed.
LEMMA CopyHomeType ==
  ASSUME Inv, NEW p \in Proc, pc[p] \in Copying, CopyHome(p)
  PROVE  disk' \in [Block -> Val] /\ cache' \in [Block -> Val \cup {Absent}]
<1>1. lh[tail[p]] \in Block /\ logdata[tail[p]] \in Val
  BY LogIndex
<1> QED
  BY <1>1 DEF CopyHome, Inv, TypeOK

LEMMA InstallTransInv ==
  ASSUME Inv, NEW p \in Proc, InstallTrans(p) PROVE Inv' /\ Active' = {}
<1>1. pc[p] = "install" /\ "install" \in Copying /\ "install" \in InCommit
      /\ "clear" \in PC /\ "clear" \in InCommit
  BY DEF InstallTrans, Copying, InCommit, PC
<1>2. PICK l \in {"install", "clear"} : pc' = [pc EXCEPT ![p] = l]
  BY <1>1, AdvanceStep DEF InstallTrans
<1>3. tail' \in [Proc -> Nat] /\ tail'[p] \in 1..Len(lh)
  BY <1>1, AdvanceStep DEF InstallTrans
<1>4. pc' \in [Proc -> PC] /\ Active' = Active /\ Modes' /\ outstanding' = Cardinality(Active')
      /\ \A q \in Proc : q # p => pc'[q] \notin Copying \cup Holding \cup {"r_head"}
  BY <1>1, <1>2, StepInCommit DEF InstallTrans
<1>5. disk' \in [Block -> Val] /\ cache' \in [Block -> Val \cup {Absent}]
  BY <1>1, CopyHomeType DEF InstallTrans
<1>6. refcnt' \in [Block -> Int]
  <2>1. lh[tail[p]] \in Block
    BY <1>1, LogIndex
  <2> QED
    BY <2>1 DEF InstallTrans, Inv, TypeOK
<1>7. TypeOK'
  BY <1>3, <1>4, <1>5, <1>6 DEF InstallTrans, Inv, TypeOK
<1>8. Bounds'
  BY <1>2, <1>3, <1>4 DEF InstallTrans, Inv, TypeOK, Bounds, Holding
<1> QED
  BY <1>1, <1>4, <1>7, <1>8, CommitAlone DEF Inv

LEMMA ClearHeadInv ==
  ASSUME Inv, NEW p \in Proc, ClearHead(p) PROVE Inv' /\ Active' = {}
<1>1. pc[p] \in InCommit /\ "finish" \in InCommit
  BY DEF ClearHead, InCommit
<1>2. pc' \in [Proc -> PC] /\ Active' = Active /\ Modes' /\ outstanding' = Cardinality(Active')
      /\ \A q \in Proc : q # p => pc'[q] \notin Copying \cup Holding \cup {"r_head"}
  BY <1>1, StepInCommit DEF ClearHead
<1>3. TypeOK'
  BY <1>2 DEF ClearHead, Inv, TypeOK
<1>4. Bounds'
  <2>1. pc'[p] = "finish"
    BY DEF ClearHead, Inv, TypeOK
  <2> QED
    BY <1>2, <2>1, ConstantsAssumption DEF ClearHead, Bounds, Copying, Holding
<1> QED
  BY <1>1, <1>2, <1>3, <1>4, CommitAlone DEF Inv

LEMMA FinishCommitInv ==
  ASSUME Inv, NEW p \in Proc, FinishCommit(p) PROVE Inv' /\ Active' = {}
<1> DEFINE f == [pc EXCEPT ![p] = "idle"]
<1>1. pc[p] = "finish" /\ pc[p] \in InCommit
  BY DEF FinishCommit, InCommit
<1>2. f \in [Proc -> PC] /\ pc' = WakeAll(f)
  BY DEF FinishCommit, Inv, TypeOK, PC
<1>3. pc' \in [Proc -> PC]
  BY <1>2, WakeAllType
<1>4. \A q \in Proc : pc'[q] \in {"idle", "begin"}
  <2>1. \A q \in Proc : f[q] \in {"idle", "begin", "asleep"}
    BY <1>1, CommitAlone DEF Inv, TypeOK
  <2> QED
    BY <1>2, <2>1 DEF WakeAll
<1>5. Active' = {} /\ outstanding' = Cardinality(Active')
  <2>1. Active' = {}
    BY <1>4 DEF Active, InCall
  <2> QED
    BY <1>1, <2>1, CommitAlone, FS_EmptySet DEF FinishCommit
<1>6. TypeOK'
  BY <1>3 DEF FinishCommit, Inv, TypeOK
<1>7. Modes'
  BY <1>4, <1>5 DEF Modes, InBoot, Booter, InCommit
<1>8. Bounds'
  BY <1>4 DEF FinishCommit, Inv, Bounds, Copying, Holding
<1> QED
  BY <1>5, <1>6, <1>7, <1>8 DEF Inv

-----------------------------------------------------------------------------
(* Recovery: one process exists.                                            *)

LEMMA BootAlone ==
  ASSUME Inv, NEW p \in Proc, pc[p] \in Booter
  PROVE  /\ Active = {} /\ outstanding = 0
         /\ \A q \in Proc : q # p => pc[q] = "off"
<1>1. \A q \in Proc : pc[q] \in InBoot
  BY PCSets DEF Inv, Modes
<1>2. \A q \in Proc : q # p => pc[q] = "off"
  BY <1>1 DEF Inv, Modes, Booter, InBoot
<1>3. Active = {}
  BY <1>1, PCSets DEF Active
<1> QED
  BY <1>2, <1>3, FS_EmptySet DEF Inv

LEMMA StepInBoot ==
  ASSUME Inv, NEW p \in Proc, pc[p] \in Booter,
         NEW l \in Booter, pc' = [pc EXCEPT ![p] = l],
         UNCHANGED <<outstanding, committing>>
  PROVE  /\ pc' \in [Proc -> PC] /\ Active' = {}
         /\ Modes' /\ outstanding' = Cardinality(Active')
         /\ \A q \in Proc : q # p => pc'[q] \notin Copying \cup Holding \cup {"r_head"}
<1>1. pc' \in [Proc -> PC] /\ pc'[p] = l /\ \A q \in Proc : q # p => pc'[q] = "off"
  BY BootAlone, PCSets DEF Inv, TypeOK
<1>2. \A q \in Proc : pc'[q] \in InBoot /\ pc'[q] \notin InCommit /\ pc'[q] \notin InCall
  BY <1>1, PCSets DEF InBoot
<1>3. Active' = {}
  BY <1>2 DEF Active
<1>4. \A q \in Proc : pc'[q] \in Booter => q = p
  BY <1>1 DEF Booter
<1>5. Modes'
  BY <1>2, <1>3, <1>4 DEF Modes
<1>6. \A q \in Proc : q # p => pc'[q] \notin Copying \cup Holding \cup {"r_head"}
  BY <1>1 DEF Copying, Holding
<1>7. outstanding' = Cardinality(Active')
  BY <1>3, BootAlone, FS_EmptySet
<1> QED
  BY <1>1, <1>3, <1>5, <1>6, <1>7

LEMMA ReadHeadInv ==
  ASSUME Inv, NEW p \in Proc, ReadHead(p) PROVE Inv' /\ Active' = {}
<1>1. PICK l \in {"r_clear", "r_install"} :
        pc' = [pc EXCEPT ![p] = l] /\ (l = "r_install" => head # <<>>)
  BY DEF ReadHead
<1>2. pc[p] \in Booter /\ l \in Booter
  BY <1>1 DEF ReadHead, Booter
<1>3. pc' \in [Proc -> PC] /\ Active' = {} /\ Modes' /\ outstanding' = Cardinality(Active')
      /\ \A q \in Proc : q # p => pc'[q] \notin Copying \cup Holding \cup {"r_head"}
  BY <1>1, <1>2, StepInBoot DEF ReadHead
<1>4. TypeOK'
  BY <1>3 DEF ReadHead, Inv, TypeOK
<1>5. Bounds'
  <2>1. tail[p] = 1
    BY DEF ReadHead, Inv, Bounds
  <2>2. l = "r_install" => 1 \in 1..Len(head)
    BY <1>1 DEF Inv, TypeOK
  <2>3. pc'[p] = l
    BY <1>1 DEF Inv, TypeOK
  <2> QED
    BY <1>3, <2>1, <2>2, <2>3 DEF ReadHead, Inv, TypeOK, Bounds, Copying, Holding
<1> QED
  BY <1>3, <1>4, <1>5 DEF Inv

LEMMA RecoverInstallInv ==
  ASSUME Inv, NEW p \in Proc, RecoverInstall(p) PROVE Inv' /\ Active' = {}
<1>1. pc[p] = "r_install" /\ "r_install" \in Copying /\ "r_install" \in Booter
      /\ "r_clear" \in PC /\ "r_clear" \in Booter
  BY DEF RecoverInstall, Copying, Booter, PC, InBoot
<1>2. PICK l \in {"r_install", "r_clear"} : pc' = [pc EXCEPT ![p] = l]
  BY <1>1, AdvanceStep DEF RecoverInstall
<1>3. tail' \in [Proc -> Nat] /\ tail'[p] \in 1..Len(lh)
  BY <1>1, AdvanceStep DEF RecoverInstall
<1>4. pc' \in [Proc -> PC] /\ Active' = {} /\ Modes' /\ outstanding' = Cardinality(Active')
      /\ \A q \in Proc : q # p => pc'[q] \notin Copying \cup Holding \cup {"r_head"}
  BY <1>1, <1>2, StepInBoot DEF RecoverInstall
<1>5. disk' \in [Block -> Val] /\ cache' \in [Block -> Val \cup {Absent}]
  BY <1>1, CopyHomeType DEF RecoverInstall
<1>6. TypeOK'
  BY <1>3, <1>4, <1>5 DEF RecoverInstall, Inv, TypeOK
<1>7. Bounds'
  BY <1>2, <1>3, <1>4 DEF RecoverInstall, Inv, TypeOK, Bounds, Holding
<1> QED
  BY <1>4, <1>6, <1>7 DEF Inv

LEMMA RecoverClearInv ==
  ASSUME Inv, NEW p \in Proc, RecoverClear(p) PROVE Inv' /\ Active' = {}
<1>1. pc[p] \in Booter
  BY DEF RecoverClear, Booter
<1>2. TypeOK'
  BY DEF RecoverClear, Inv, TypeOK, PC
<1>3. Active' = {} /\ outstanding' = Cardinality(Active')
  <2>1. Active' = {}
    BY DEF RecoverClear, Active, InCall
  <2> QED
    BY <1>1, <2>1, BootAlone, FS_EmptySet DEF RecoverClear
<1>4. Modes'
  BY <1>3 DEF RecoverClear, Modes, InBoot, Booter, InCommit
<1>5. Bounds'
  BY ConstantsAssumption DEF RecoverClear, Bounds, Copying, Holding
<1> QED
  BY <1>2, <1>3, <1>4, <1>5 DEF Inv

-----------------------------------------------------------------------------
(* Crashes and the other users of the cache.                                *)

LEMMA CrashInv ==
  ASSUME Inv, NEW p \in Proc, Crash(p) PROVE Inv' /\ Active' = {}
<1>1. TypeOK'
  <2>1. pc' \in [Proc -> PC]
    BY DEF Crash, BootPC, PC, InBoot
  <2>2. outstanding' \in 0..Cardinality(Proc)
    BY ConstantsAssumption, FS_CardinalityType DEF Crash
  <2>3. /\ cache' \in [Block -> Val \cup {Absent}] /\ refcnt' \in [Block -> Int]
        /\ cur' \in [Proc -> Block \cup {NoBlock}] /\ lh' \in Seq(Block)
    BY DEF Crash
  <2>4. /\ tail' \in [Proc -> Nat] /\ wrote' \in [Proc -> SUBSET Block]
        /\ committing' \in BOOLEAN
    BY DEF Crash
  <2>5. disk' \in [Block -> Val] /\ head' \in Seq(Block) /\ logdata' \in [1..LOGSIZE -> Val]
    BY DEF Crash, Inv, TypeOK
  <2> QED
    BY <2>1, <2>2, <2>3, <2>4, <2>5 DEF TypeOK
<1>2. Active' = {}
  BY DEF Crash, BootPC, Active, InCall
<1>3. outstanding' = Cardinality(Active')
  BY <1>2, FS_EmptySet DEF Crash
<1>4. Modes'
  BY <1>2 DEF Crash, BootPC, Modes, InBoot, Booter, InCommit
<1>5. Bounds'
  BY ConstantsAssumption DEF Crash, BootPC, Inv, Bounds, Copying, Holding
<1> QED
  BY <1>1, <1>2, <1>3, <1>4, <1>5 DEF Inv

LEMMA CacheInv ==
  ASSUME Inv, NEW b \in Block, ReadBlock(b) \/ Recycle(b)
  PROVE  Inv' /\ UNCHANGED <<lh, pc, cur, wrote, outstanding, committing>>
<1>1. UNCHANGED <<disk, head, logdata, refcnt, lh, outstanding, committing, pc, cur, tail, wrote>>
  BY DEF ReadBlock, Recycle
<1>2. cache' \in [Block -> Val \cup {Absent}]
  BY DEF ReadBlock, Recycle, Inv, TypeOK
<1>3. TypeOK'
  BY <1>1, <1>2 DEF Inv, TypeOK
<1>4. Active' = Active
  BY <1>1 DEF Active
<1> QED
  BY <1>1, <1>3, <1>4 DEF Inv, Modes, Bounds

LEMMA StutterInv == Inv /\ UNCHANGED vars => Inv'
<1> SUFFICES ASSUME Inv, UNCHANGED vars PROVE Inv'
  OBVIOUS
<1>1. Active' = Active
  BY DEF vars, Active
<1> QED
  BY <1>1 DEF vars, Inv, TypeOK, Modes, Bounds

LEMMA NextInv == Inv /\ [Next]_vars => Inv'
<1> SUFFICES ASSUME Inv, [Next]_vars PROVE Inv'
  OBVIOUS
<1>1. ASSUME NEW p \in Proc, BeginOp(p) PROVE Inv'
  BY <1>1, BeginSleepInv, BeginAdmitInv DEF BeginOp
<1>2. ASSUME NEW p \in Proc, Update(p) PROVE Inv'
  BY <1>2, BreadInv, ModifyInv, LogWriteInv, BrelseInv DEF Update
<1>3. ASSUME NEW p \in Proc, EndOp(p) PROVE Inv'
  BY <1>3, EndOpLeaveInv, EndOpCommitInv DEF EndOp
<1>4. ASSUME NEW p \in Proc, Commit(p) PROVE Inv'
  BY <1>4, WriteLogInv, WriteHeadInv, InstallTransInv, ClearHeadInv, FinishCommitInv
     DEF Commit
<1>5. ASSUME NEW p \in Proc, Recover(p) PROVE Inv'
  BY <1>5, ReadHeadInv, RecoverInstallInv, RecoverClearInv DEF Recover
<1>6. ASSUME NEW p \in Proc, Crash(p) PROVE Inv'
  BY <1>6, CrashInv
<1>7. ASSUME NEW b \in Block, ReadBlock(b) \/ Recycle(b) PROVE Inv'
  BY <1>7, CacheInv
<1>8. CASE UNCHANGED vars
  BY <1>8, StutterInv
<1> QED
  BY <1>1, <1>2, <1>3, <1>4, <1>5, <1>6, <1>7, <1>8 DEF Next

\* Inv holds in every reachable state: at most one process commits or
\* recovers, no call is inside its transaction meanwhile (end_op raises
\* committing only when the last call leaves), log.outstanding is the number
\* of calls between begin_op and end_op, and write_log and install_trans
\* never index past log.lh.n.
THEOREM Shape == Spec => []Inv
<1>1. Init => Inv
  BY InitInv
<1>2. Inv /\ [Next]_vars => Inv'
  BY NextInv
<1> QED
  BY <1>1, <1>2, PTL DEF Spec

\* The variables of the log and of the cache keep their types; in particular
\* log.outstanding never goes below zero or above the number of processes.
THEOREM Typing == Spec => []TypeOK
<1>1. Inv => TypeOK
  BY DEF Inv
<1> QED
  BY <1>1, Shape, PTL

-----------------------------------------------------------------------------
(* Layer 2: the accounting of log space.                                    *)

\* What a call has written is in the log, and stays within its allowance.
WroteInv ==
  \A p \in Active :
    /\ \A b \in wrote[p] : Logged(lh, b)
    /\ pc[p] = "dirty" => Cardinality(wrote[p] \cup {cur[p]}) <= OpBlocks

SpaceInv == NoPanic /\ LogSpace /\ WroteInv

LEMMA PromisedFinite == IsFiniteSet(Promised) /\ Cardinality(Promised) \in Nat
<1>1. IsFiniteSet(Proc \X (1..OpBlocks))
  <2>1. IsFiniteSet(1..OpBlocks)
    BY ConstantsAssumption, FS_Interval
  <2>2. IsFiniteSet(Proc)
    BY ConstantsAssumption
  <2> QED
    BY <2>1, <2>2, FS_Product, ZenonT(20)
<1>2. Promised \subseteq Proc \X (1..OpBlocks)
  BY DEF Promised
<1> QED
  BY <1>1, <1>2, FS_Subset, FS_CardinalityType

\* No space is used up by a step that logs nothing and admits nobody.
LEMMA QuietStep ==
  ASSUME Inv, SpaceInv, Active' \subseteq Active, UNCHANGED <<lh, wrote>>,
         \A p \in Active' : /\ pc'[p] # "panic"
                            /\ pc'[p] = "dirty" =>
                                 Cardinality(wrote[p] \cup {cur'[p]}) <= OpBlocks
  PROVE  SpaceInv'
<1>1. NoPanic'
  BY DEF NoPanic, Active, InCall
<1>2. WroteInv'
  <2>1. \A p \in Active' : \A b \in wrote'[p] : Logged(lh', b)
    BY DEF SpaceInv, WroteInv
  <2> QED
    BY <2>1 DEF WroteInv, Logged
<1>3. LogSpace'
  <2>1. Promised' \subseteq Promised
    BY DEF Promised, Active
  <2>2. Cardinality(Promised') <= Cardinality(Promised) /\ Cardinality(Promised') \in Nat
    BY <2>1, PromisedFinite, FS_Subset, FS_CardinalityType
  <2>3. SUFFICES ASSUME Active' # {}
                 PROVE  Len(lh) + Cardinality(Promised') <= LOGSIZE - (MAXOPBLOCKS - OpBlocks)
    BY DEF LogSpace
  <2>4. Len(lh) + Cardinality(Promised) <= LOGSIZE - (MAXOPBLOCKS - OpBlocks)
    BY <2>3 DEF SpaceInv, LogSpace
  <2>5. Len(lh) \in Nat
    BY DEF Inv, TypeOK
  <2> QED
    BY <2>2, <2>4, <2>5, PromisedFinite, ConstantsAssumption
<1> QED
  BY <1>1, <1>2, <1>3 DEF SpaceInv

\* n callers reserving m blocks each leave unused at least what one does not
\* write.
LEMMA Reserve ==
  ASSUME NEW n \in Nat, n >= 1, NEW m \in Nat, NEW o \in Nat, o < m
  PROVE  n * o <= n * m - (m - o)
<1> DEFINE e == m - o
       k == n - 1
<1>1. e \in Nat /\ k \in Nat /\ m = o + e /\ n = k + 1
  OBVIOUS
<1> HIDE DEF e, k
<1>2. n * m = n * o + n * e /\ n * e = k * e + e /\ k * e \in Nat /\ n * o \in Nat
  BY <1>1, SMTT(20)
<1> QED
  BY <1>1, <1>2

\* begin_op admits a caller only when the log has room for its reservation.
LEMMA BeginAdmitSpace ==
  ASSUME LogRoom, Inv, SpaceInv, NEW p \in Proc, BeginAdmit(p) PROVE SpaceInv'
<1>1. Active' = Active \cup {p} /\ p \notin Active
  BY BeginAdmitActive
<1>2. pc' = [pc EXCEPT ![p] = "op"] /\ wrote' = [wrote EXCEPT ![p] = {}] /\ UNCHANGED <<lh, cur>>
  BY DEF BeginAdmit
<1>3. NoPanic'
  BY <1>2 DEF SpaceInv, NoPanic, Inv, TypeOK
<1>4. WroteInv'
  <2>1. SUFFICES ASSUME NEW q \in Active'
                 PROVE  /\ \A b \in wrote'[q] : Logged(lh, b)
                        /\ pc'[q] = "dirty" => Cardinality(wrote'[q] \cup {cur[q]}) <= OpBlocks
    BY <1>2 DEF WroteInv, Logged
  <2>2. CASE q = p
    BY <1>2, <2>2 DEF Inv, TypeOK
  <2>3. CASE q # p
    <3>1. q \in Active /\ q \in Proc /\ pc'[q] = pc[q] /\ wrote'[q] = wrote[q]
      BY <1>1, <1>2, <2>1, <2>3 DEF Active, Inv, TypeOK
    <3> QED
      BY <3>1 DEF SpaceInv, WroteInv
  <2> QED
    BY <2>2, <2>3
<1>5. LogSpace'
  <2> DEFINE n == outstanding + 1
  <2>1. n \in Nat /\ n >= 1 /\ n = Cardinality(Active') /\ IsFiniteSet(Active')
    BY <1>1, ActiveFinite, FS_AddElement DEF Inv, TypeOK
  <2>2. Promised' \subseteq Active' \X (1..OpBlocks)
    BY DEF Promised, Active
  <2>3. Cardinality(Promised') <= n * OpBlocks /\ Cardinality(Promised') \in Nat
    <3>1. IsFiniteSet(1..OpBlocks) /\ Cardinality(1..OpBlocks) = OpBlocks
      BY ConstantsAssumption, FS_Interval
    <3>2. /\ IsFiniteSet(Active' \X (1..OpBlocks))
          /\ Cardinality(Active' \X (1..OpBlocks)) = n * OpBlocks
      <4>1. /\ IsFiniteSet(Active' \X (1..OpBlocks))
            /\ Cardinality(Active' \X (1..OpBlocks))
                 = Cardinality(Active') * Cardinality(1..OpBlocks)
        BY <2>1, <3>1, FS_Product, ZenonT(20)
      <4> QED
        BY <2>1, <3>1, <4>1
    <3> QED
      BY <2>2, <3>2, FS_Subset, FS_CardinalityType
  <2>4. Len(lh) + n * MAXOPBLOCKS <= LOGSIZE
    <3>1. ~(Len(lh) + n * MAXOPBLOCKS > LOGSIZE)
      BY DEF BeginAdmit, MustWait
    <3>2. n * MAXOPBLOCKS \in Nat
      BY <2>1, ConstantsAssumption
    <3>3. Len(lh) \in Nat
      BY DEF Inv, TypeOK
    <3> HIDE DEF n
    <3> QED
      BY <3>1, <3>2, <3>3, ConstantsAssumption
  <2>5. n * OpBlocks <= n * MAXOPBLOCKS - (MAXOPBLOCKS - OpBlocks)
    BY <2>1, Reserve, ConstantsAssumption DEF LogRoom
  <2>6. n * MAXOPBLOCKS \in Nat /\ n * OpBlocks \in Nat
    BY <2>1, ConstantsAssumption
  <2>7. Len(lh) \in Nat /\ lh' = lh
    BY <1>2 DEF Inv, TypeOK
  <2> HIDE DEF n
  <2>8. Len(lh) + Cardinality(Promised') <= LOGSIZE - (MAXOPBLOCKS - OpBlocks)
    BY <2>3, <2>4, <2>5, <2>6, <2>7, ConstantsAssumption
  <2> QED
    BY <2>7, <2>8 DEF LogSpace
<1> QED
  BY <1>3, <1>4, <1>5 DEF SpaceInv

\* log_write does not panic, and uses up a promise when it takes a new slot.
LEMMA LogWriteSpace ==
  ASSUME LogRoom, Inv, SpaceInv, NEW p \in Proc, LogWrite(p) PROVE SpaceInv'
<1>1. p \in Active /\ pc[p] = "dirty" /\ cur[p] \in Block /\ outstanding >= 1
  <2>1. p \in Active /\ pc[p] = "dirty" /\ cur[p] \in Block
    BY DEF LogWrite, Active, InCall, Inv, Bounds, Holding
  <2>2. outstanding # 0
    BY <2>1, ActiveFinite, FS_EmptySet DEF Inv
  <2> QED
    BY <2>1, <2>2, ActiveFinite DEF Inv
<1>2. /\ Len(lh) \in Nat /\ lh \in Seq(Block)
      /\ Len(lh) + Cardinality(Promised) <= LOGSIZE - (MAXOPBLOCKS - OpBlocks)
  BY <1>1 DEF Inv, TypeOK, SpaceInv, LogSpace
<1>3. ~TooBig
  BY <1>2, PromisedFinite, ConstantsAssumption DEF TooBig, LogRoom
<1>4. /\ Record(cur[p])
      /\ wrote' = [wrote EXCEPT ![p] = @ \cup {cur[p]}]
      /\ pc' = [pc EXCEPT ![p] = "logged"]
      /\ cur' = cur
  BY <1>1, <1>3 DEF LogWrite, Inv, TypeOK
<1>5. Active' = Active
  BY <1>1, <1>4 DEF Active, InCall, Inv, TypeOK
<1>6. NoPanic'
  BY <1>4 DEF SpaceInv, NoPanic, Inv, TypeOK
<1>7. /\ IsFiniteSet(wrote[p]) /\ Cardinality(wrote[p]) \in Nat
      /\ wrote'[p] = wrote[p] \cup {cur[p]}
      /\ IsFiniteSet(wrote'[p]) /\ Cardinality(wrote'[p]) \in Nat
      /\ Cardinality(wrote[p]) <= Cardinality(wrote'[p])
      /\ Cardinality(wrote'[p]) <= OpBlocks
  <2>1. wrote[p] \subseteq Block /\ wrote'[p] = wrote[p] \cup {cur[p]} /\ wrote'[p] \subseteq Block
    BY <1>1, <1>4 DEF Inv, TypeOK
  <2>2. IsFiniteSet(wrote[p]) /\ IsFiniteSet(wrote'[p])
    BY <2>1, ConstantsAssumption, FS_Subset
  <2> QED
    BY <1>1, <2>1, <2>2, FS_Subset, FS_CardinalityType DEF SpaceInv, WroteInv
<1>8. \A q \in Proc : q # p => wrote'[q] = wrote[q] /\ pc'[q] = pc[q]
  BY <1>4 DEF Inv, TypeOK
<1>9. Promised' \subseteq Promised
  <2>1. \A s \in Promised' : s[1] \in Active /\ s[2] > Cardinality(wrote'[s[1]])
    BY <1>5 DEF Promised, Active
  <2>2. \A s \in Promised' : s[2] > Cardinality(wrote[s[1]])
    <3>1. SUFFICES ASSUME NEW s \in Promised' PROVE s[2] > Cardinality(wrote[s[1]])
      OBVIOUS
    <3>2. s[2] \in Int /\ s[1] \in Proc
      BY <3>1 DEF Promised
    <3>3. CASE s[1] = p
      <4>1. s[2] > Cardinality(wrote'[p])
        BY <2>1, <3>1, <3>3
      <4>2. s[2] > Cardinality(wrote[p])
        BY <1>7, <3>2, <4>1
      <4> QED
        BY <3>3, <4>2
    <3>4. CASE s[1] # p
      BY <1>8, <2>1, <3>1, <3>2, <3>4
    <3> QED
      BY <3>3, <3>4
  <2> QED
    BY <2>1, <2>2 DEF Promised, Active
<1>10. CASE Logged(lh, cur[p])
  <2>1. lh' = lh
    BY <1>4, <1>10 DEF Record
  <2>2. Cardinality(Promised') <= Cardinality(Promised) /\ Cardinality(Promised') \in Nat
    BY <1>9, PromisedFinite, FS_Subset, FS_CardinalityType
  <2>3. LogSpace'
    BY <1>2, <2>1, <2>2, PromisedFinite, ConstantsAssumption DEF LogSpace
  <2>4. WroteInv'
    <3>1. SUFFICES ASSUME NEW q \in Active
                   PROVE  /\ \A b \in wrote'[q] : Logged(lh, b)
                          /\ pc'[q] = "dirty" => Cardinality(wrote'[q] \cup {cur[q]}) <= OpBlocks
      BY <1>4, <1>5, <2>1 DEF WroteInv, Logged
    <3>2. CASE q = p
      BY <1>1, <1>4, <1>7, <1>10, <3>2 DEF SpaceInv, WroteInv, Inv, TypeOK
    <3>3. CASE q # p
      BY <1>8, <3>1, <3>3 DEF SpaceInv, WroteInv, Active
    <3> QED
      BY <3>2, <3>3
  <2> QED
    BY <1>6, <2>3, <2>4 DEF SpaceInv
<1>11. CASE ~Logged(lh, cur[p])
  <2> DEFINE s == <<p, Cardinality(wrote[p]) + 1>>
  <2>1. lh' = Append(lh, cur[p]) /\ Len(lh') = Len(lh) + 1
    BY <1>1, <1>2, <1>4, <1>11 DEF Record
  <2>2. Cardinality(wrote'[p]) = Cardinality(wrote[p]) + 1
    <3>1. cur[p] \notin wrote[p]
      BY <1>1, <1>11 DEF SpaceInv, WroteInv
    <3> QED
      BY <1>7, <3>1, FS_AddElement
  <2>3. s \in Promised
    BY <1>1, <1>7, <2>2, ConstantsAssumption DEF Promised, Active
  <2>4. s \notin Promised'
    <3>1. s[1] = p /\ s[2] = Cardinality(wrote'[p])
      BY <2>2
    <3>2. ~(s[2] > Cardinality(wrote'[s[1]]))
      BY <1>7, <3>1
    <3> QED
      BY <3>2 DEF Promised
  <2>5. Cardinality(Promised') <= Cardinality(Promised) - 1 /\ Cardinality(Promised') \in Nat
    <3>1. Promised' \subseteq Promised \ {s}
      BY <1>9, <2>4
    <3>2. IsFiniteSet(Promised \ {s}) /\ Cardinality(Promised \ {s}) = Cardinality(Promised) - 1
      BY <2>3, PromisedFinite, FS_RemoveElement
    <3> QED
      BY <3>1, <3>2, FS_Subset, FS_CardinalityType
  <2>6. LogSpace'
    BY <1>2, <2>1, <2>5, PromisedFinite, ConstantsAssumption DEF LogSpace
  <2>7. \A b : Logged(lh, b) => Logged(lh', b)
    BY <1>1, <1>2, <2>1 DEF Logged
  <2>8. Logged(lh', cur[p])
    BY <1>1, <1>2, <2>1 DEF Logged
  <2>9. WroteInv'
    <3>1. SUFFICES ASSUME NEW q \in Active
                   PROVE  /\ \A b \in wrote'[q] : Logged(lh', b)
                          /\ pc'[q] = "dirty" => Cardinality(wrote'[q] \cup {cur[q]}) <= OpBlocks
      BY <1>4, <1>5 DEF WroteInv, Logged
    <3>2. CASE q = p
      BY <1>1, <1>4, <1>7, <2>7, <2>8, <3>2 DEF SpaceInv, WroteInv, Inv, TypeOK
    <3>3. CASE q # p
      BY <1>8, <2>7, <3>1, <3>3 DEF SpaceInv, WroteInv, Active
    <3> QED
      BY <3>2, <3>3
  <2> QED
    BY <1>6, <2>6, <2>9 DEF SpaceInv
<1> QED
  BY <1>10, <1>11

LEMMA NextSpace ==
  ASSUME LogRoom, Inv, SpaceInv, [Next]_vars PROVE SpaceInv'
<1>1. ASSUME NEW p \in Proc, BeginSleep(p) PROVE SpaceInv'
  <2>1. \A q \in Active' : q \in Active /\ pc'[q] = pc[q] /\ pc[q] # "panic"
    BY <1>1 DEF BeginSleep, Active, InCall, Inv, TypeOK, SpaceInv, NoPanic
  <2>2. UNCHANGED <<lh, wrote, cur>>
    BY <1>1 DEF BeginSleep
  <2> QED
    BY <2>1, <2>2, QuietStep DEF SpaceInv, WroteInv
<1>2. ASSUME NEW p \in Proc, NEW b \in Block, Bread(p, b) PROVE SpaceInv'
  <2>1. \A q \in Active' : /\ q \in Active /\ pc'[q] # "panic"
                           /\ pc'[q] = "dirty" => pc[q] = "dirty" /\ cur'[q] = cur[q]
    BY <1>2 DEF Bread, Active, InCall, Inv, TypeOK, SpaceInv, NoPanic
  <2>2. UNCHANGED <<lh, wrote>>
    BY <1>2 DEF Bread
  <2> QED
    BY <2>1, <2>2, QuietStep DEF SpaceInv, WroteInv
<1>3. ASSUME NEW p \in Proc, NEW v \in Val, Modify(p, v) PROVE SpaceInv'
  <2>1. \A q \in Active' : q \in Active /\ pc'[q] # "panic"
    BY <1>3 DEF Modify, Active, InCall, Inv, TypeOK, SpaceInv, NoPanic
  <2>2. UNCHANGED <<lh, wrote, cur>> /\ Cardinality(wrote[p] \cup {cur[p]}) <= OpBlocks
    BY <1>3 DEF Modify
  <2>3. \A q \in Active' : q # p => pc'[q] = pc[q]
    BY <1>3 DEF Modify, Active, Inv, TypeOK
  <2> QED
    BY <2>1, <2>2, <2>3, QuietStep DEF SpaceInv, WroteInv
<1>4. ASSUME NEW p \in Proc, Brelse(p) PROVE SpaceInv'
  <2>1. \A q \in Active' : /\ q \in Active /\ pc'[q] # "panic"
                           /\ pc'[q] = "dirty" => pc[q] = "dirty" /\ cur'[q] = cur[q]
    BY <1>4 DEF Brelse, Active, InCall, Inv, TypeOK, SpaceInv, NoPanic
  <2>2. UNCHANGED <<lh, wrote>>
    BY <1>4 DEF Brelse
  <2> QED
    BY <2>1, <2>2, QuietStep DEF SpaceInv, WroteInv
<1>5. ASSUME NEW p \in Proc, EndOpLeave(p) PROVE SpaceInv'
  <2>1. Active' = Active \ {p} /\ p \in Active /\ ~committing
    BY <1>5, EndOpLeaveInv DEF EndOpLeave, Active, InCall, Inv, Modes
  <2>2. UNCHANGED <<lh, wrote, cur>>
    BY <1>5 DEF EndOpLeave
  <2>3. \A q \in Active' : pc'[q] = pc[q]
    BY <1>5, <2>1 DEF EndOpLeave, Active, InCall, WakeAll, Inv, TypeOK
  <2> QED
    BY <2>1, <2>2, <2>3, QuietStep DEF SpaceInv, WroteInv, NoPanic, Active
<1>6. ASSUME Active' = {} PROVE SpaceInv'
  BY <1>6 DEF SpaceInv, NoPanic, LogSpace, WroteInv, Active, InCall
<1>7. ASSUME NEW p \in Proc, BeginOp(p) PROVE SpaceInv'
  BY <1>1, <1>7, BeginAdmitSpace DEF BeginOp
<1>8. ASSUME NEW p \in Proc, Update(p) PROVE SpaceInv'
  BY <1>2, <1>3, <1>4, <1>8, LogWriteSpace DEF Update
<1>9. ASSUME NEW p \in Proc, EndOp(p) PROVE SpaceInv'
  BY <1>5, <1>6, <1>9, EndOpCommitInv DEF EndOp
<1>10. ASSUME NEW p \in Proc, Commit(p) PROVE SpaceInv'
  BY <1>6, <1>10, WriteLogInv, WriteHeadInv, InstallTransInv, ClearHeadInv, FinishCommitInv
     DEF Commit
<1>11. ASSUME NEW p \in Proc, Recover(p) \/ Crash(p) PROVE SpaceInv'
  BY <1>6, <1>11, ReadHeadInv, RecoverInstallInv, RecoverClearInv, CrashInv DEF Recover
<1>12. ASSUME UNCHANGED <<lh, pc, cur, wrote>> PROVE SpaceInv'
  BY <1>12 DEF SpaceInv, NoPanic, LogSpace, WroteInv, Active, Promised, Logged
<1>13. ASSUME NEW b \in Block, ReadBlock(b) \/ Recycle(b) PROVE SpaceInv'
  BY <1>12, <1>13, CacheInv
<1>14. CASE UNCHANGED vars
  BY <1>12, <1>14 DEF vars
<1> QED
  BY <1>7, <1>8, <1>9, <1>10, <1>11, <1>13, <1>14 DEF Next

LEMMA InitSpace == Init => SpaceInv
BY DEF Init, BootPC, SpaceInv, NoPanic, LogSpace, WroteInv, Active, InCall

LEMMA SpaceAlways == ASSUME LogRoom PROVE Spec => [](Inv /\ SpaceInv)
<1>1. Init => Inv /\ SpaceInv
  BY InitInv, InitSpace
<1>2. Inv /\ SpaceInv /\ [Next]_vars => Inv' /\ SpaceInv'
  BY NextInv, NextSpace
<1> QED
  BY <1>1, <1>2, PTL DEF Spec

\* The accounting of begin_op is enough: what is logged plus what the
\* admitted calls may still log never passes the size of the log, whatever
\* the number of callers.
THEOREM SpaceKept == ASSUME LogRoom PROVE Spec => []LogSpace
<1>1. Inv /\ SpaceInv => LogSpace
  BY DEF SpaceInv
<1> QED
  BY <1>1, SpaceAlways, PTL

\* No call reaches a panic of log_write ("too big a transaction", "log_write
\* outside of trans") or of end_op ("log.committing"), as long as each call
\* stays below its reservation and the on-disk log holds what begin_op admits.
THEOREM NeverPanics == ASSUME LogRoom PROVE Spec => []NoPanic
<1>1. Inv /\ SpaceInv => NoPanic
  BY DEF SpaceInv
<1> QED
  BY <1>1, SpaceAlways, PTL

-----------------------------------------------------------------------------
(* Layer 3: while blocks are copied home, the header in memory and the one   *)
(* on disk name the same blocks.                                             *)

HeadInv == \A p \in Proc : pc[p] \in {"install", "r_install"} => head = lh

LEMMA HeadStep == ASSUME Inv, HeadInv, [Next]_vars PROVE HeadInv'
<1> USE DEF HeadInv
<1>1. ASSUME NEW p \in Proc, BeginOp(p) PROVE HeadInv'
  BY <1>1 DEF BeginOp, BeginSleep, BeginAdmit, Inv, TypeOK
<1>2. ASSUME NEW p \in Proc, pc[p] \in InCall PROVE \A q \in Proc : pc[q] \notin Copying
  <2>1. p \in Active /\ pc[p] \notin InBoot
    BY <1>2, PCSets DEF Active
  <2> QED
    BY <2>1 DEF Inv, Modes, Copying, InCommit, InBoot
<1>3. ASSUME NEW p \in Proc, Update(p) PROVE HeadInv'
  <2>1. pc[p] \in InCall
    BY <1>3 DEF Update, Bread, Modify, LogWrite, Brelse, InCall
  <2>2. PICK l \in InCall : pc' = [pc EXCEPT ![p] = l]
    BY <1>3 DEF Update, Bread, Modify, LogWrite, Brelse, InCall
  <2> QED
    BY <1>2, <2>1, <2>2 DEF Inv, TypeOK, InCall, Copying
<1>4. ASSUME NEW p \in Proc, EndOp(p) PROVE HeadInv'
  <2>1. pc[p] \in InCall /\ pc[p] = "op"
    BY <1>4 DEF EndOp, EndOpLeave, EndOpCommit, InCall
  <2>2. \A q \in Proc : pc'[q] \in {"panic", "idle", "begin", "finish", "write_log", pc[q]}
    BY <1>4, <2>1 DEF EndOp, EndOpLeave, EndOpCommit, WakeAll, Inv, TypeOK
  <2> QED
    BY <1>2, <2>1, <2>2 DEF Copying
<1>5. ASSUME NEW p \in Proc, Commit(p) PROVE HeadInv'
  <2>1. pc[p] \in InCommit
    BY <1>5 DEF Commit, WriteLog, WriteHead, InstallTrans, ClearHead, FinishCommit, InCommit
  <2>2. \A q \in Proc : q # p => pc[q] \in {"idle", "begin", "asleep"}
    BY <2>1, CommitAlone
  <2>3. CASE WriteLog(p)
    BY <2>2, <2>3 DEF WriteLog, Advance, Inv, TypeOK
  <2>4. CASE WriteHead(p)
    BY <2>4 DEF WriteHead
  <2>5. CASE InstallTrans(p)
    BY <2>5 DEF InstallTrans
  <2>6. CASE ClearHead(p)
    BY <2>6 DEF ClearHead
  <2>7. CASE FinishCommit(p)
    BY <2>2, <2>7 DEF FinishCommit, WakeAll, Inv, TypeOK
  <2> QED
    BY <1>5, <2>3, <2>4, <2>5, <2>6, <2>7 DEF Commit
<1>6. ASSUME NEW p \in Proc, Recover(p) \/ Crash(p) PROVE HeadInv'
  <2>1. CASE ReadHead(p)
    <3>1. \A q \in Proc : q # p => pc[q] = "off"
      BY <2>1, BootAlone DEF ReadHead, Booter
    <3> QED
      BY <2>1, <3>1 DEF ReadHead, Inv, TypeOK
  <2>2. CASE RecoverInstall(p)
    <3>1. \A q \in Proc : q # p => pc[q] = "off"
      BY <2>2, BootAlone DEF RecoverInstall, Booter
    <3> QED
      BY <2>2, <3>1 DEF RecoverInstall, Advance, Inv, TypeOK
  <2>3. CASE RecoverClear(p)
    BY <2>3 DEF RecoverClear
  <2>4. CASE Crash(p)
    BY <2>4 DEF Crash, BootPC
  <2> QED
    BY <1>6, <2>1, <2>2, <2>3, <2>4 DEF Recover
<1>7. ASSUME NEW b \in Block, ReadBlock(b) \/ Recycle(b) PROVE HeadInv'
  BY <1>7 DEF ReadBlock, Recycle
<1>8. CASE UNCHANGED vars
  BY <1>8 DEF vars
<1> QED
  BY <1>1, <1>3, <1>4, <1>5, <1>6, <1>7, <1>8 DEF Next

\* A home block changes on disk only in install_trans, and only to contents
\* that are already on disk in the log under a header that names the block.
LEMMA HomeWrite ==
  ASSUME Inv, HeadInv, [Next]_vars, NEW b \in Block, disk'[b] # disk[b]
  PROVE  \E i \in DOMAIN head : head[i] = b /\ disk'[b] = logdata[i]
<1>1. PICK p \in Proc : pc[p] \in {"install", "r_install"} /\ CopyHome(p)
  BY DEF Next, BeginOp, BeginSleep, BeginAdmit, Update, Bread, Modify, LogWrite, Brelse,
         EndOp, EndOpLeave, EndOpCommit, Commit, WriteLog, WriteHead, InstallTrans,
         ClearHead, FinishCommit, Recover, ReadHead, RecoverInstall, RecoverClear, Crash,
         ReadBlock, Recycle, vars
<1>2. head = lh /\ pc[p] \in Copying
  BY <1>1 DEF HeadInv, Copying
<1>3. tail[p] \in DOMAIN head /\ lh[tail[p]] \in Block
  BY <1>2, LogIndex DEF Inv, TypeOK
<1>4. disk' = [disk EXCEPT ![lh[tail[p]]] = logdata[tail[p]]]
  BY <1>1 DEF CopyHome
<1>5. b = lh[tail[p]] /\ disk'[b] = logdata[tail[p]]
  BY <1>3, <1>4 DEF Inv, TypeOK
<1> QED
  BY <1>2, <1>3, <1>5

\* The write-ahead rule of commit() and recover_from_log(): no home block is
\* overwritten before the header that commits its new contents is on disk.
THEOREM WriteAheadHolds == Spec => WriteAhead
<1>1. Init => Inv /\ HeadInv
  BY InitInv DEF Init, BootPC, HeadInv
<1>2. Inv /\ HeadInv /\ [Next]_vars => Inv' /\ HeadInv'
  BY NextInv, HeadStep
<1>3. Inv /\ HeadInv /\ [Next]_vars
        => [\A b \in Block : disk'[b] # disk[b] =>
              \E i \in DOMAIN head : head[i] = b /\ disk'[b] = logdata[i]]_vars
  BY HomeWrite
<1> QED
  BY <1>1, <1>2, <1>3, PTL DEF Spec, WriteAhead

-----------------------------------------------------------------------------
(* The copies of a block, and the atomic disk.                              *)

\* From write_head to the second write_head the two headers are the same.
Copied == {"install", "clear", "r_install", "r_clear"}

\* Absorption: no header names a block twice.
Distinct ==
  /\ \A i, j \in DOMAIN lh : lh[i] = lh[j] => i = j
  /\ \A i, j \in DOMAIN head : head[i] = head[j] => i = j

\* A buffer is locked by one process, and only inside a call.
Locks ==
  /\ \A p \in Proc : cur[p] # NoBlock => pc[p] \in Holding \cup {"panic"}
  /\ \A p, q \in Proc : cur[p] # NoBlock /\ cur[p] = cur[q] => p = q

\* A block that is pinned or locked is in a buffer.
Cached == \A b \in Block : Pinned(b) \/ ~Unlocked(b) => cache[b] # Absent

\* A buffer differs from the home block only while the log has it pinned, or
\* between the change of b->data and log_write.
Clean ==
  \A b \in Block :
    \/ cache[b] \in {Absent, disk[b]}
    \/ Pinned(b)
    \/ \E p \in Proc : cur[p] = b /\ pc[p] \in {"dirty", "panic"}

\* The header on disk names a transaction only between the two write_heads.
Header ==
  /\ head = <<>> \/ Booting \/ \E p \in Proc : pc[p] \in {"install", "clear"}
  /\ \A p \in Proc : pc[p] \in Copied => head = lh

\* What is logged will be committed: by a call in progress or a commit under
\* way.
Pending ==
  /\ \/ lh = <<>>
     \/ Active # {}
     \/ \E p \in Proc : pc[p] \in {"write_log", "write_head"} \cup Copied
  /\ \A p \in Proc : pc[p] = "logged" => Logged(lh, cur[p])

\* How far the loops have come: the log block is the buffer once write_log
\* has passed it, and the home block once install_trans has passed it.
Saved ==
  \A p \in Proc : \A i \in DOMAIN lh :
    /\ \/ pc[p] = "write_log" /\ i < tail[p]
       \/ pc[p] = "write_head"
       \/ pc[p] = "install" /\ i >= tail[p]
       => logdata[i] = cache[lh[i]]
    /\ \/ pc[p] \in {"install", "r_install"} /\ i < tail[p]
       \/ pc[p] \in {"clear", "r_clear"}
       => logdata[i] = disk[lh[i]]
    /\ pc[p] = "write_head" => tail[p] = 1

Copies ==
  Distinct /\ Locks /\ RefcntExact /\ Cached /\ Clean /\ Header /\ Pending /\ Saved

-----------------------------------------------------------------------------
(* The phases.                                                              *)

\* No process commits or recovers while a call is in progress.
LEMMA CallPhase ==
  ASSUME Inv, NEW p \in Proc, pc[p] \in InCall
  PROVE  /\ \A q \in Proc : pc[q] \notin InCommit \cup InBoot \cup Copied
         /\ \A b \in Block : Pinned(b) <=> Logged(lh, b)
         /\ ~Booting /\ Active # {}
<1>1. p \in Active
  BY DEF Active
<1>2. \A q \in Proc : pc[q] \notin InCommit \cup InBoot
  BY <1>1, PCSets DEF Inv, Modes
<1>3. \A q \in Proc : pc[q] \notin Copied
  BY <1>2 DEF Copied, InCommit, InBoot
<1>4. \A b \in Block : Pinned(b) <=> Logged(lh, b)
  BY <1>3 DEF Pinned, Logged, Copied
<1> QED
  BY <1>1, <1>2, <1>3, <1>4 DEF Booting

-----------------------------------------------------------------------------
(* Calls: one process changes a buffer it has locked.                        *)
\* log_write appends the block to the header.
LEMMA AppendLogged ==
  ASSUME NEW t \in Seq(Block), NEW b \in Block, NEW c
  PROVE  Logged(Append(t, b), c) <=> Logged(t, c) \/ c = b
<1> DEFINE u == Append(t, b)
<1>1. /\ Len(u) = Len(t) + 1 /\ DOMAIN u = 1..Len(u) /\ DOMAIN t = 1..Len(t) /\ Len(t) \in Nat
      /\ \A i \in 1..Len(t) : u[i] = t[i]
      /\ u[Len(t) + 1] = b
  OBVIOUS
<1> HIDE DEF u
<1>2. (\E i \in DOMAIN u : u[i] = c) <=> (\E i \in DOMAIN t : t[i] = c) \/ c = b
  BY <1>1
<1> QED
  BY <1>2 DEF Logged, u

LEMMA BreadCopies == ASSUME Inv, Copies, NEW p \in Proc, NEW b \in Block, Bread(p, b) PROVE Copies'
<1>1. pc[p] \in InCall /\ pc'[p] \in InCall /\ \A q \in Proc : q # p => pc'[q] = pc[q]
  BY DEF Bread, InCall, Inv, TypeOK
<1>2. /\ \A q \in Proc : pc[q] \notin InCommit \cup InBoot \cup Copied
      /\ \A c \in Block : Pinned(c) <=> Logged(lh, c)
      /\ ~Booting /\ Active # {}
  BY <1>1, CallPhase
<1>3. \A q \in Proc : pc'[q] \notin InCommit \cup InBoot \cup Copied
  BY <1>1, <1>2, PCSets DEF InCall, Copied
<1>4. /\ \A c \in Block : Pinned(c)' <=> Logged(lh', c)
      /\ Active' # {}
  BY <1>1, <1>3 DEF Pinned, Logged, Copied, Active
<1>5. head = <<>>
  BY <1>2 DEF Copies, Header, Copied
<1>6. b # NoBlock
  BY ConstantsAssumption
<1>7. /\ disk \in [Block -> Val] /\ cache \in [Block -> Val \cup {Absent}] /\ Absent \notin Val
      /\ refcnt \in [Block -> Int] /\ cur \in [Proc -> Block \cup {NoBlock}] /\ NoBlock \notin Block
      /\ pc \in [Proc -> PC] /\ lh \in Seq(Block)
  BY ConstantsAssumption DEF Inv, TypeOK
<1>8. \A c \in Block : Unlocked(c)' <=> c # b /\ Unlocked(c)
  <2>1. cur[p] = NoBlock
    BY DEF Copies, Locks, Holding, Bread
  <2> QED
    BY <1>6, <1>7, <2>1 DEF Bread, Unlocked
<1>c1. Distinct'
  BY <1>5 DEF Copies, Distinct, Bread
<1>c2. Locks'
  BY <1>1, <1>6, <1>7, <1>8 DEF Copies, Locks, Holding, Unlocked, Bread
<1>c3. RefcntExact'
  BY <1>2, <1>4, <1>6, <1>7, <1>8 DEF Copies, RefcntExact, Bread
<1>c4. Cached'
  BY <1>2, <1>4, <1>6, <1>7, <1>8 DEF Copies, Cached, Contents, Bread
<1>c5. Clean'
  BY <1>1, <1>2, <1>4, <1>6, <1>7, <1>8 DEF Copies, Clean, Contents, Bread
<1>c6. Header'
  BY <1>3, <1>5 DEF Header, Bread
<1>c7. Pending'
  BY <1>1, <1>2, <1>3, <1>4, <1>5, <1>6 DEF Copies, Pending, Logged, Bread, Inv, TypeOK
<1>c8. Saved'
  BY <1>3 DEF Saved, Copied, InCommit, InBoot
<1> QED
  BY <1>c1, <1>c2, <1>c3, <1>c4, <1>c5, <1>c6, <1>c7, <1>c8 DEF Copies

LEMMA ModifyCopies == ASSUME Inv, Copies, NEW p \in Proc, NEW v \in Val, Modify(p, v) PROVE Copies'
<1>1. pc[p] \in InCall /\ pc'[p] \in InCall /\ \A q \in Proc : q # p => pc'[q] = pc[q]
  BY DEF Modify, InCall, Inv, TypeOK
<1>2. /\ \A q \in Proc : pc[q] \notin InCommit \cup InBoot \cup Copied
      /\ \A b \in Block : Pinned(b) <=> Logged(lh, b)
      /\ ~Booting /\ Active # {}
  BY <1>1, CallPhase
<1>3. \A q \in Proc : pc'[q] \notin InCommit \cup InBoot \cup Copied
  BY <1>1, <1>2, PCSets DEF InCall, Copied
<1>4. /\ \A b \in Block : Pinned(b)' <=> Logged(lh', b)
      /\ Active' # {}
  BY <1>1, <1>3 DEF Pinned, Logged, Copied, Active
<1>5. head = <<>>
  BY <1>2 DEF Copies, Header, Copied
<1>6. cur[p] \in Block /\ v # Absent
  BY ConstantsAssumption DEF Modify, Inv, Bounds, Holding
<1>7. /\ disk \in [Block -> Val] /\ cache \in [Block -> Val \cup {Absent}] /\ Absent \notin Val
      /\ refcnt \in [Block -> Int] /\ cur \in [Proc -> Block \cup {NoBlock}] /\ NoBlock \notin Block
      /\ pc \in [Proc -> PC] /\ lh \in Seq(Block)
  BY ConstantsAssumption DEF Inv, TypeOK
<1>8. \A c \in Block : Unlocked(c)' <=> Unlocked(c)
  BY DEF Modify, Unlocked
<1>c1. Distinct'
  BY <1>5 DEF Copies, Distinct, Modify
<1>c2. Locks'
  BY <1>1, <1>6, <1>7, <1>8 DEF Copies, Locks, Holding, Unlocked, Modify
<1>c3. RefcntExact'
  BY <1>2, <1>4, <1>6, <1>7, <1>8 DEF Copies, RefcntExact, Modify
<1>c4. Cached'
  BY <1>2, <1>4, <1>6, <1>7, <1>8 DEF Copies, Cached, Contents, Modify
<1>c5. Clean'
  BY <1>1, <1>2, <1>4, <1>6, <1>7, <1>8 DEF Copies, Clean, Contents, Modify
<1>c6. Header'
  BY <1>3, <1>5 DEF Header, Modify
<1>c7. Pending'
  BY <1>1, <1>2, <1>3, <1>4, <1>5, <1>6 DEF Copies, Pending, Logged, Modify, Inv, TypeOK
<1>c8. Saved'
  BY <1>3 DEF Saved, Copied, InCommit, InBoot
<1> QED
  BY <1>c1, <1>c2, <1>c3, <1>c4, <1>c5, <1>c6, <1>c7, <1>c8 DEF Copies

LEMMA LogWriteCopies == ASSUME Inv, Copies, NEW p \in Proc, LogWrite(p) PROVE Copies'
<1>1. pc[p] \in InCall /\ pc'[p] \in InCall /\ \A q \in Proc : q # p => pc'[q] = pc[q]
  BY DEF LogWrite, InCall, Inv, TypeOK
<1>2. /\ \A q \in Proc : pc[q] \notin InCommit \cup InBoot \cup Copied
      /\ \A b \in Block : Pinned(b) <=> Logged(lh, b)
      /\ ~Booting /\ Active # {}
  BY <1>1, CallPhase
<1>3. \A q \in Proc : pc'[q] \notin InCommit \cup InBoot \cup Copied
  BY <1>1, <1>2, PCSets DEF InCall, Copied
<1>4. /\ \A b \in Block : Pinned(b)' <=> Logged(lh', b)
      /\ Active' # {}
  BY <1>1, <1>3 DEF Pinned, Logged, Copied, Active
<1>5. head = <<>>
  BY <1>2 DEF Copies, Header, Copied
<1>6. cur[p] \in Block
  BY DEF LogWrite, Inv, Bounds, TypeOK, Holding
<1>7. /\ disk \in [Block -> Val] /\ cache \in [Block -> Val \cup {Absent}] /\ Absent \notin Val
      /\ refcnt \in [Block -> Int] /\ cur \in [Proc -> Block \cup {NoBlock}] /\ NoBlock \notin Block
      /\ pc \in [Proc -> PC] /\ lh \in Seq(Block)
  BY ConstantsAssumption DEF Inv, TypeOK
<1>8. /\ ~Unlocked(cur[p])
      /\ \A c \in Block : Unlocked(c)' <=> Unlocked(c)
  BY DEF LogWrite, Unlocked
<1>9. /\ \A c : Logged(lh, c) => Logged(lh', c)
      /\ pc'[p] \in {"panic", "logged"}
      /\ pc'[p] = "panic" \/ Logged(lh', cur[p])
      /\ \/ lh' = lh /\ refcnt' = refcnt
         \/ /\ ~Logged(lh, cur[p]) /\ lh' = Append(lh, cur[p])
            /\ \A c : Logged(lh', c) <=> Logged(lh, c) \/ c = cur[p]
            /\ refcnt' = [refcnt EXCEPT ![cur[p]] = @ + 1]
  <2>1. CASE TooBig \/ outstanding < 1
    BY <1>7, <2>1 DEF LogWrite, Inv, TypeOK
  <2>2. CASE ~(TooBig \/ outstanding < 1) /\ Logged(lh, cur[p])
    BY <1>7, <2>2 DEF LogWrite, Record
  <2>3. CASE ~(TooBig \/ outstanding < 1) /\ ~Logged(lh, cur[p])
    <3>1. lh' = Append(lh, cur[p]) /\ refcnt' = [refcnt EXCEPT ![cur[p]] = @ + 1]
      BY <2>3 DEF LogWrite, Record
    <3>2. \A c : Logged(lh', c) <=> Logged(lh, c) \/ c = cur[p]
      BY <1>6, <1>7, <3>1, AppendLogged
    <3>3. pc'[p] = "logged"
      BY <1>7, <2>3 DEF LogWrite
    <3> QED
      BY <2>3, <3>1, <3>2, <3>3
  <2> QED
    BY <2>1, <2>2, <2>3
<1>c1. Distinct'
  <2>1. CASE lh' = lh
    BY <1>5, <2>1 DEF Copies, Distinct, LogWrite
  <2>2. CASE ~Logged(lh, cur[p]) /\ lh' = Append(lh, cur[p])
    <3>1. /\ Len(lh') = Len(lh) + 1 /\ DOMAIN lh' = 1..Len(lh') /\ DOMAIN lh = 1..Len(lh)
          /\ Len(lh) \in Nat /\ lh'[Len(lh) + 1] = cur[p]
          /\ \A i \in 1..Len(lh) : lh'[i] = lh[i] /\ lh[i] # cur[p]
      BY <1>6, <1>7, <2>2 DEF Logged
    <3> QED
      BY <1>5, <3>1 DEF Copies, Distinct, LogWrite
  <2> QED
    BY <1>9, <2>1, <2>2
<1>c2. Locks'
  BY <1>1, <1>6, <1>7, <1>9 DEF Copies, Locks, Holding, LogWrite
<1>c3. RefcntExact'
  BY <1>2, <1>4, <1>6, <1>7, <1>8, <1>9 DEF Copies, RefcntExact
<1>c4. Cached'
  BY <1>2, <1>4, <1>6, <1>7, <1>8, <1>9 DEF Copies, Cached, LogWrite
<1>c5. Clean'
  <2> SUFFICES ASSUME NEW c \in Block, ~(cache[c] \in {Absent, disk[c]}), ~Logged(lh', c)
               PROVE  \E q \in Proc : cur[q] = c /\ pc'[q] \in {"dirty", "panic"}
    BY <1>4 DEF Clean, LogWrite
  <2>1. PICK q \in Proc : cur[q] = c /\ pc[q] \in {"dirty", "panic"}
    BY <1>2, <1>9 DEF Copies, Clean
  <2>2. CASE q # p
    BY <1>1, <2>1, <2>2
  <2>3. CASE q = p
    BY <1>7, <1>9, <2>1, <2>3 DEF LogWrite
  <2> QED
    BY <2>2, <2>3
<1>c6. Header'
  BY <1>3, <1>5 DEF Header, LogWrite
<1>c7. Pending'
  BY <1>1, <1>4, <1>7, <1>9 DEF Copies, Pending, LogWrite
<1>c8. Saved'
  BY <1>3 DEF Saved, Copied, InCommit, InBoot
<1> QED
  BY <1>c1, <1>c2, <1>c3, <1>c4, <1>c5, <1>c6, <1>c7, <1>c8 DEF Copies

LEMMA BrelseCopies == ASSUME Inv, Copies, NEW p \in Proc, Brelse(p) PROVE Copies'
<1>1. pc[p] \in InCall /\ pc'[p] \in InCall /\ \A q \in Proc : q # p => pc'[q] = pc[q]
  BY DEF Brelse, InCall, Inv, TypeOK
<1>2. /\ \A q \in Proc : pc[q] \notin InCommit \cup InBoot \cup Copied
      /\ \A b \in Block : Pinned(b) <=> Logged(lh, b)
      /\ ~Booting /\ Active # {}
  BY <1>1, CallPhase
<1>3. \A q \in Proc : pc'[q] \notin InCommit \cup InBoot \cup Copied
  BY <1>1, <1>2, PCSets DEF InCall, Copied
<1>4. /\ \A b \in Block : Pinned(b)' <=> Logged(lh', b)
      /\ Active' # {}
  BY <1>1, <1>3 DEF Pinned, Logged, Copied, Active
<1>5. head = <<>>
  BY <1>2 DEF Copies, Header, Copied
<1>6. cur[p] \in Block
  BY DEF Brelse, Inv, Bounds, TypeOK, Holding
<1>7. /\ disk \in [Block -> Val] /\ cache \in [Block -> Val \cup {Absent}] /\ Absent \notin Val
      /\ refcnt \in [Block -> Int] /\ cur \in [Proc -> Block \cup {NoBlock}] /\ NoBlock \notin Block
      /\ pc \in [Proc -> PC] /\ lh \in Seq(Block)
  BY ConstantsAssumption DEF Inv, TypeOK
<1>8. /\ ~Unlocked(cur[p])
      /\ \A c \in Block : Unlocked(c)' <=> c = cur[p] \/ Unlocked(c)
  BY <1>6, <1>7 DEF Copies, Locks, Brelse, Unlocked
<1>c1. Distinct'
  BY <1>5 DEF Copies, Distinct, Brelse
<1>c2. Locks'
  BY <1>1, <1>6, <1>7, <1>8 DEF Copies, Locks, Holding, Brelse
<1>c3. RefcntExact'
  BY <1>2, <1>4, <1>6, <1>7, <1>8 DEF Copies, RefcntExact, Brelse
<1>c4. Cached'
  BY <1>2, <1>4, <1>6, <1>7, <1>8 DEF Copies, Cached, Contents, Brelse
<1>c5. Clean'
  <2> SUFFICES ASSUME NEW c \in Block, ~(cache[c] \in {Absent, disk[c]}), ~Logged(lh, c)
               PROVE  \E q \in Proc : cur'[q] = c /\ pc'[q] \in {"dirty", "panic"}
    BY <1>4 DEF Clean, Brelse
  <2>1. PICK q \in Proc : cur[q] = c /\ pc[q] \in {"dirty", "panic"}
    BY <1>2 DEF Copies, Clean
  <2>2. q # p
    BY <2>1 DEF Brelse
  <2> QED
    BY <1>1, <1>7, <2>1, <2>2 DEF Brelse
<1>c6. Header'
  BY <1>3, <1>5 DEF Header, Brelse
<1>c7. Pending'
  BY <1>1, <1>2, <1>3, <1>4, <1>5, <1>6 DEF Copies, Pending, Logged, Brelse, Inv, TypeOK
<1>c8. Saved'
  BY <1>3 DEF Saved, Copied, InCommit, InBoot
<1> QED
  BY <1>c1, <1>c2, <1>c3, <1>c4, <1>c5, <1>c6, <1>c7, <1>c8 DEF Copies

-----------------------------------------------------------------------------
(* Between calls.                                                           *)

\* Entering, leaving and waking up move no block.
LEMMA OutsideStep ==
  ASSUME Inv, Copies, UNCHANGED <<disk, head, logdata, cache, refcnt, lh, cur, tail>>,
         \A q \in Proc : \/ pc'[q] = pc[q]
                         \/ /\ pc[q] \in {"idle", "begin", "asleep", "op", "finish"}
                            /\ pc'[q] \in {"idle", "begin", "asleep", "op", "finish"},
         \/ lh = <<>>
         \/ Active' # {}
         \/ \E p \in Proc : pc[p] \in {"write_log", "write_head"} \cup Copied
  PROVE  Copies'
<1>1. \A q \in Proc : \A S \in {Copied, {"install"}, {"install", "clear"}, {"logged"},
          {"write_log", "write_head"} \cup Copied, {"clear", "r_install", "r_clear"}, InBoot,
          Holding \cup {"panic"}, {"dirty", "panic"}, {"write_log"}, {"write_head"},
          {"install", "r_install"}, {"clear", "r_clear"}} : pc'[q] \in S <=> pc[q] \in S
  BY DEF Copied, InBoot, Holding
<1>2. Booting' = Booting
  BY <1>1 DEF Booting
<1>3. \A b : Pinned(b)' <=> Pinned(b)
  BY <1>1 DEF Pinned
<1>4. \A b : Unlocked(b)' <=> Unlocked(b)
  BY DEF Unlocked
<1>5. Distinct' /\ Locks'
  BY <1>1 DEF Copies, Distinct, Locks
<1>6. RefcntExact' /\ Cached'
  BY <1>3, <1>4 DEF Copies, RefcntExact, Cached
<1>7. Clean'
  BY <1>1, <1>3 DEF Copies, Clean
<1>8. Header'
  BY <1>1, <1>2 DEF Copies, Header
<1>9. Pending'
  BY <1>1 DEF Copies, Pending, Logged
<1>10. Saved'
  BY <1>1 DEF Copies, Saved
<1> QED
  BY <1>5, <1>6, <1>7, <1>8, <1>9, <1>10 DEF Copies

LEMMA BeginCopies == ASSUME Inv, Copies, NEW p \in Proc, BeginOp(p) PROVE Copies'
<1>1. \A q \in Proc : pc'[q] = pc[q] \/ (pc[q] \in {"idle", "begin"} /\ pc'[q] \in {"asleep", "op"})
  BY DEF BeginOp, BeginSleep, BeginAdmit, Inv, TypeOK
<1>2. Active \subseteq Active'
  BY <1>1 DEF Active, InCall
<1> QED
  BY <1>1, <1>2, OutsideStep DEF BeginOp, BeginSleep, BeginAdmit, Copies, Pending

LEMMA EndOpLeaveCopies == ASSUME Inv, Copies, NEW p \in Proc, EndOpLeave(p) PROVE Copies'
<1>1. \A q \in Proc : \/ pc'[q] = pc[q]
                      \/ pc[q] \in {"op", "asleep"} /\ pc'[q] \in {"idle", "begin"}
  <2>1. ~committing
    BY DEF EndOpLeave, Inv, Modes, Active, InCall
  <2> QED
    BY <2>1 DEF EndOpLeave, WakeAll, Inv, TypeOK
<1>2. Active' # {}
  <2>1. Inv'
    BY EndOpLeaveInv
  <2>2. outstanding' # 0 /\ outstanding' = Cardinality(Active')
    BY <2>1 DEF Inv, TypeOK, EndOpLeave
  <2> QED
    BY <2>2, FS_EmptySet
<1> QED
  BY <1>1, <1>2, OutsideStep DEF EndOpLeave

LEMMA FinishCopies == ASSUME Inv, Copies, NEW p \in Proc, FinishCommit(p) PROVE Copies'
<1>1. pc[p] = "finish" /\ pc[p] \in InCommit
  BY DEF FinishCommit, InCommit
<1>2. /\ \A q \in Proc : q # p => pc[q] \in {"idle", "begin", "asleep"}
      /\ Active = {}
  BY <1>1, CommitAlone
<1>3. \A q \in Proc : \/ pc'[q] = pc[q]
                      \/ pc[q] \in {"finish", "asleep"} /\ pc'[q] \in {"idle", "begin"}
  BY <1>1 DEF FinishCommit, WakeAll, Inv, TypeOK
<1>4. lh = <<>>
  BY <1>1, <1>2 DEF Copies, Pending, Copied
<1> QED
  BY <1>3, <1>4, OutsideStep DEF FinishCommit

-----------------------------------------------------------------------------
(* The commit: nobody holds a buffer.                                       *)

\* No process inside a call: no buffer is locked.
LEMMA AllUnlocked ==
  ASSUME Inv, Copies, Active = {}
  PROVE  (\A q \in Proc : cur[q] = NoBlock) /\ \A b \in Block : Unlocked(b)
<1>1. \A q \in Proc : cur[q] = NoBlock
  BY DEF Copies, Locks, Active, InCall, Holding
<1> QED
  BY <1>1, ConstantsAssumption DEF Unlocked

\* The process that commits decides what is pinned.
LEMMA CommitPhase ==
  ASSUME Inv, Copies, NEW p \in Proc, pc[p] \in InCommit
  PROVE  /\ \A q \in Proc : q # p => pc[q] \in {"idle", "begin", "asleep"}
         /\ Active = {} /\ ~Booting
         /\ \A q \in Proc : cur[q] = NoBlock
         /\ \A b \in Block : Unlocked(b)
         /\ \A b : Pinned(b) <=> \E i \in DOMAIN lh : /\ lh[i] = b /\ pc[p] # "clear"
                                                      /\ pc[p] = "install" => tail[p] <= i
<1>1. Active = {} /\ \A q \in Proc : q # p => pc[q] \in {"idle", "begin", "asleep"}
  BY CommitAlone
<1>2. (\A q \in Proc : cur[q] = NoBlock) /\ \A b \in Block : Unlocked(b)
  BY <1>1, AllUnlocked
<1>3. ~Booting
  BY <1>1 DEF Booting, InBoot, InCommit
<1>4. \A b : Pinned(b) <=> \E i \in DOMAIN lh : /\ lh[i] = b /\ pc[p] # "clear"
                                                /\ pc[p] = "install" => tail[p] <= i
  BY <1>1 DEF Pinned, InCommit
<1> QED
  BY <1>1, <1>2, <1>3, <1>4

LEMMA EndOpCommitCopies == ASSUME Inv, Copies, NEW p \in Proc, EndOpCommit(p) PROVE Copies'
<1>1. pc[p] = "op" /\ pc[p] \in InCall /\ ~committing
  BY DEF EndOpCommit, InCall, Inv, Modes, Active
<1>2. /\ \A q \in Proc : pc[q] \notin InCommit \cup InBoot \cup Copied
      /\ \A b \in Block : Pinned(b) <=> Logged(lh, b)
      /\ ~Booting
  BY <1>1, CallPhase
<1>3. Active' = {}
  BY EndOpCommitInv
<1>4. /\ \A q \in Proc : q # p => pc'[q] = pc[q]
      /\ pc'[p] \in {"write_log", "finish"} /\ (lh # <<>> => pc'[p] = "write_log") /\ tail'[p] = 1
  BY <1>1 DEF EndOpCommit, Inv, TypeOK
<1>5. /\ \A q \in Proc : cur[q] = NoBlock
      /\ \A b \in Block : Unlocked(b) /\ Unlocked(b)'
  <2>1. \A q \in Proc : cur[q] = NoBlock
    BY <1>1, <1>3, <1>4 DEF Copies, Locks, Active, InCall, Holding
  <2> QED
    BY <2>1, ConstantsAssumption DEF Unlocked, EndOpCommit
<1>6. \A q \in Proc : pc'[q] \notin Copied
  BY <1>2, <1>4 DEF Copied
<1>7. \A b \in Block : Pinned(b)' <=> Logged(lh, b)
  BY <1>6 DEF Pinned, Logged, Copied, EndOpCommit
<1>8. head = <<>>
  BY <1>2 DEF Copies, Header, Copied
<1>9. Distinct' /\ Locks'
  BY <1>5 DEF Copies, Distinct, Locks, EndOpCommit
<1>10. RefcntExact' /\ Cached'
  BY <1>2, <1>5, <1>7 DEF Copies, RefcntExact, Cached, EndOpCommit
<1>11. Clean'
  BY <1>2, <1>5, <1>7, ConstantsAssumption DEF Copies, Clean, EndOpCommit
<1>12. Header'
  BY <1>6, <1>8 DEF Header, EndOpCommit
<1>13. Pending'
  BY <1>1, <1>3, <1>4 DEF Copies, Pending, Active, InCall, EndOpCommit
<1>14. Saved'
  BY <1>2, <1>4, <1>6 DEF Saved, Copied, InCommit
<1> QED
  BY <1>9, <1>10, <1>11, <1>12, <1>13, <1>14 DEF Copies

\* What the loops of a commit copy: the pinned buffer to the log, and the log
\* to the home of the block, which leaves the buffer as it was.
LEMMA WriteLogMoves ==
  ASSUME Inv, Copies, NEW p \in Proc, WriteLog(p)
  PROVE  /\ cache' = cache /\ logdata' = [logdata EXCEPT ![tail[p]] = cache[lh[tail[p]]]]
         /\ tail[p] \in 1..LOGSIZE
<1>1. pc[p] = "write_log" /\ pc[p] \in InCommit /\ tail[p] \in 1..LOGSIZE /\ tail[p] \in 1..Len(lh)
  BY LogIndex DEF WriteLog, Copying, InCommit
<1>2. lh[tail[p]] \in Block /\ tail[p] \in DOMAIN lh
  BY <1>1 DEF Inv, TypeOK
<1>3. Pinned(lh[tail[p]])
  BY <1>1, <1>2, CommitPhase
<1>4. Contents(lh[tail[p]]) = cache[lh[tail[p]]]
  BY <1>2, <1>3 DEF Copies, Cached, Contents
<1> QED
  BY <1>1, <1>2, <1>4 DEF WriteLog, Inv, TypeOK

LEMMA InstallMoves ==
  ASSUME Inv, Copies, NEW p \in Proc, InstallTrans(p)
  PROVE  /\ cache' = cache /\ disk' = [disk EXCEPT ![lh[tail[p]]] = logdata[tail[p]]]
         /\ logdata[tail[p]] = cache[lh[tail[p]]]
<1>1. pc[p] = "install" /\ tail[p] \in 1..LOGSIZE /\ tail[p] \in 1..Len(lh)
  BY LogIndex DEF InstallTrans, Copying
<1>2. lh[tail[p]] \in Block /\ tail[p] \in DOMAIN lh
  BY <1>1 DEF Inv, TypeOK
<1>3. logdata[tail[p]] = cache[lh[tail[p]]]
  BY <1>1, <1>2 DEF Copies, Saved
<1> QED
  BY <1>2, <1>3 DEF InstallTrans, CopyHome, Inv, TypeOK

LEMMA WriteLogCopies == ASSUME Inv, Copies, NEW p \in Proc, WriteLog(p) PROVE Copies'
<1>1. /\ pc[p] \in InCommit /\ pc'[p] \in {"write_log", "write_head"} /\ pc'[p] \in InCommit
      /\ \A q \in Proc : q # p => pc'[q] = pc[q]
  BY DEF WriteLog, Advance, InCommit, Inv, TypeOK
<1>2. /\ \A q \in Proc : q # p => pc[q] \in {"idle", "begin", "asleep"}
      /\ Active = {} /\ ~Booting
      /\ \A q \in Proc : cur[q] = NoBlock
      /\ \A b \in Block : Unlocked(b)
      /\ \A b : Pinned(b) <=> \E i \in DOMAIN lh : /\ lh[i] = b /\ pc[p] # "clear"
                                                   /\ pc[p] = "install" => tail[p] <= i
  BY <1>1, CommitPhase
<1>3. /\ \A q \in Proc : cur'[q] = NoBlock
      /\ \A b \in Block : Unlocked(b)'
  BY <1>2 DEF WriteLog, Unlocked
<1>4. \A b : Pinned(b)' <=> \E i \in DOMAIN lh' : /\ lh'[i] = b /\ pc'[p] # "clear"
                                                  /\ pc'[p] = "install" => tail'[p] <= i
  BY <1>1, <1>2 DEF Pinned, InCommit
<1>5. /\ disk \in [Block -> Val] /\ cache \in [Block -> Val \cup {Absent}] /\ Absent \notin Val
      /\ logdata \in [1..LOGSIZE -> Val]
      /\ refcnt \in [Block -> Int] /\ tail \in [Proc -> Nat]
      /\ lh \in Seq(Block) /\ DOMAIN lh = 1..Len(lh) /\ Len(lh) \in Nat
      /\ \A i \in DOMAIN lh : lh[i] \in Block
  BY ConstantsAssumption DEF Inv, TypeOK
<1>6. /\ tail[p] \in DOMAIN lh /\ lh[tail[p]] \in Block
      /\ pc'[p] = IF tail[p] = Len(lh) THEN "write_head" ELSE "write_log"
      /\ tail'[p] = IF tail[p] = Len(lh) THEN 1 ELSE tail[p] + 1
  BY <1>5 DEF WriteLog, Advance, Inv, TypeOK, Bounds, Copying
<1>7. /\ cache' = cache /\ logdata' = [logdata EXCEPT ![tail[p]] = cache[lh[tail[p]]]]
      /\ tail[p] \in 1..LOGSIZE
  BY WriteLogMoves
<1>c1. Distinct'
  BY <1>1, <1>2, <1>3, <1>4, <1>5, <1>6, <1>7 DEF Copies, Distinct, WriteLog
<1>c2. Locks'
  BY <1>3 DEF Locks
<1>c3. RefcntExact'
  BY <1>1, <1>2, <1>3, <1>4, <1>5, <1>6, <1>7 DEF Copies, RefcntExact, WriteLog
<1>c4. Cached'
  BY <1>1, <1>2, <1>3, <1>4, <1>7 DEF Copies, Cached, WriteLog
<1>c5. Clean'
  <2>1. \A b \in Block : Pinned(b)' <=> Pinned(b)
    BY <1>1, <1>2, <1>4 DEF WriteLog
  <2> QED
    BY <1>2, <1>5, <1>7, <2>1 DEF Copies, Clean, WriteLog
<1>c6. Header'
  BY <1>1, <1>2, <1>3, <1>4, <1>5, <1>6, <1>7 DEF Copies, Header, Copied, WriteLog
<1>c7. Pending'
  BY <1>1, <1>2, <1>3, <1>4, <1>5, <1>6, <1>7 DEF Copies, Pending, Copied, WriteLog
<1>c8. Saved'
  <2>1. \A i \in DOMAIN lh : i < tail[p] => logdata[i] = cache[lh[i]]
    BY DEF Copies, Saved, WriteLog
  <2>2. \A i \in DOMAIN lh : i <= tail[p] => logdata'[i] = cache'[lh'[i]]
    <3>1. lh' = lh
      BY DEF WriteLog
    <3>2. logdata'[tail[p]] = cache'[lh'[tail[p]]]
      BY <1>5, <1>7, <3>1
    <3>3. \A i \in DOMAIN lh : i < tail[p] => logdata'[i] = cache'[lh'[i]]
      BY <1>5, <1>6, <1>7, <2>1, <3>1
    <3> QED
      BY <1>5, <1>6, <3>2, <3>3
  <2>3. CASE tail[p] = Len(lh)
    <3>1. \A i \in DOMAIN lh : logdata'[i] = cache'[lh'[i]]
      BY <1>5, <2>2, <2>3
    <3>2. pc'[p] = "write_head" /\ tail'[p] = 1 /\ lh' = lh
      BY <1>6, <2>3 DEF WriteLog
    <3> QED
      BY <1>1, <1>2, <3>1, <3>2 DEF Saved
  <2>4. CASE tail[p] # Len(lh)
    <3>1. pc'[p] = "write_log" /\ tail'[p] = tail[p] + 1 /\ lh' = lh
      BY <1>1, <1>6, <2>4 DEF WriteLog
    <3>2. \A i \in DOMAIN lh : i < tail'[p] => logdata'[i] = cache'[lh'[i]]
      BY <1>5, <1>6, <2>2, <3>1
    <3> QED
      BY <1>1, <1>2, <3>1, <3>2 DEF Saved
  <2> QED
    BY <2>3, <2>4
<1> QED
  BY <1>c1, <1>c2, <1>c3, <1>c4, <1>c5, <1>c6, <1>c7, <1>c8 DEF Copies

LEMMA WriteHeadCopies == ASSUME Inv, Copies, NEW p \in Proc, WriteHead(p) PROVE Copies'
<1>1. /\ pc[p] \in InCommit /\ pc'[p] \in {"install"} /\ pc'[p] \in InCommit
      /\ \A q \in Proc : q # p => pc'[q] = pc[q]
  BY DEF WriteHead, Advance, InCommit, Inv, TypeOK
<1>2. /\ \A q \in Proc : q # p => pc[q] \in {"idle", "begin", "asleep"}
      /\ Active = {} /\ ~Booting
      /\ \A q \in Proc : cur[q] = NoBlock
      /\ \A b \in Block : Unlocked(b)
      /\ \A b : Pinned(b) <=> \E i \in DOMAIN lh : /\ lh[i] = b /\ pc[p] # "clear"
                                                   /\ pc[p] = "install" => tail[p] <= i
  BY <1>1, CommitPhase
<1>3. /\ \A q \in Proc : cur'[q] = NoBlock
      /\ \A b \in Block : Unlocked(b)'
  BY <1>2 DEF WriteHead, Unlocked
<1>4. \A b : Pinned(b)' <=> \E i \in DOMAIN lh' : /\ lh'[i] = b /\ pc'[p] # "clear"
                                                  /\ pc'[p] = "install" => tail'[p] <= i
  BY <1>1, <1>2 DEF Pinned, InCommit
<1>5. /\ disk \in [Block -> Val] /\ cache \in [Block -> Val \cup {Absent}] /\ Absent \notin Val
      /\ logdata \in [1..LOGSIZE -> Val]
      /\ refcnt \in [Block -> Int] /\ tail \in [Proc -> Nat]
      /\ lh \in Seq(Block) /\ DOMAIN lh = 1..Len(lh) /\ Len(lh) \in Nat
      /\ \A i \in DOMAIN lh : lh[i] \in Block
  BY ConstantsAssumption DEF Inv, TypeOK
<1>6. tail[p] = 1 /\ tail'[p] = 1 /\ lh # <<>>
  <2>1. pc[p] = "write_head"
    BY DEF WriteHead
  <2>2. tail[p] \in 1..Len(lh)
    BY <2>1 DEF Inv, Bounds, Copying
  <2>3. 1 \in DOMAIN lh
    BY <1>5, <2>2
  <2> QED
    BY <1>5, <2>1, <2>3 DEF WriteHead, Copies, Saved
<1>7. \A b : Pinned(b)' <=> Pinned(b)
  BY <1>1, <1>2, <1>4, <1>5, <1>6 DEF WriteHead
<1>c1. Distinct'
  BY <1>1, <1>2, <1>3, <1>4, <1>5, <1>6, <1>7 DEF Copies, Distinct, WriteHead
<1>c2. Locks'
  BY <1>3 DEF Locks
<1>c3. RefcntExact'
  BY <1>2, <1>3, <1>7 DEF Copies, RefcntExact, WriteHead
<1>c4. Cached'
  BY <1>2, <1>3, <1>7 DEF Copies, Cached, WriteHead
<1>c5. Clean'
  BY <1>2, <1>5, <1>7, ConstantsAssumption DEF Copies, Clean, WriteHead
<1>c6. Header'
  BY <1>1, <1>2, <1>3, <1>4, <1>5, <1>6, <1>7 DEF Copies, Header, Copied, WriteHead
<1>c7. Pending'
  BY <1>1, <1>2, <1>3, <1>4, <1>5, <1>6, <1>7 DEF Copies, Pending, Copied, WriteHead
<1>c8. Saved'
  BY <1>1, <1>2, <1>3, <1>4, <1>5, <1>6, <1>7 DEF Copies, Saved, WriteHead
<1> QED
  BY <1>c1, <1>c2, <1>c3, <1>c4, <1>c5, <1>c6, <1>c7, <1>c8 DEF Copies

LEMMA InstallTransCopies == ASSUME Inv, Copies, NEW p \in Proc, InstallTrans(p) PROVE Copies'
<1>1. /\ pc[p] \in InCommit /\ pc'[p] \in {"install", "clear"} /\ pc'[p] \in InCommit
      /\ \A q \in Proc : q # p => pc'[q] = pc[q]
  BY DEF InstallTrans, Advance, InCommit, Inv, TypeOK
<1>2. /\ \A q \in Proc : q # p => pc[q] \in {"idle", "begin", "asleep"}
      /\ Active = {} /\ ~Booting
      /\ \A q \in Proc : cur[q] = NoBlock
      /\ \A b \in Block : Unlocked(b)
      /\ \A b : Pinned(b) <=> \E i \in DOMAIN lh : /\ lh[i] = b /\ pc[p] # "clear"
                                                   /\ pc[p] = "install" => tail[p] <= i
  BY <1>1, CommitPhase
<1>3. /\ \A q \in Proc : cur'[q] = NoBlock
      /\ \A b \in Block : Unlocked(b)'
  BY <1>2 DEF InstallTrans, Unlocked
<1>4. \A b : Pinned(b)' <=> \E i \in DOMAIN lh' : /\ lh'[i] = b /\ pc'[p] # "clear"
                                                  /\ pc'[p] = "install" => tail'[p] <= i
  BY <1>1, <1>2 DEF Pinned, InCommit
<1>5. /\ disk \in [Block -> Val] /\ cache \in [Block -> Val \cup {Absent}] /\ Absent \notin Val
      /\ logdata \in [1..LOGSIZE -> Val]
      /\ refcnt \in [Block -> Int] /\ tail \in [Proc -> Nat]
      /\ lh \in Seq(Block) /\ DOMAIN lh = 1..Len(lh) /\ Len(lh) \in Nat
      /\ \A i \in DOMAIN lh : lh[i] \in Block
  BY ConstantsAssumption DEF Inv, TypeOK
<1>6. /\ tail[p] \in DOMAIN lh /\ lh[tail[p]] \in Block
      /\ pc'[p] = IF tail[p] = Len(lh) THEN "clear" ELSE "install"
      /\ tail'[p] = IF tail[p] = Len(lh) THEN 1 ELSE tail[p] + 1
  BY <1>5 DEF InstallTrans, Advance, Inv, TypeOK, Bounds, Copying
<1>7. /\ cache' = cache /\ disk' = [disk EXCEPT ![lh[tail[p]]] = logdata[tail[p]]]
      /\ logdata[tail[p]] = cache[lh[tail[p]]]
  BY InstallMoves
<1>8. \A b : Pinned(b)' <=> Pinned(b) /\ b # lh[tail[p]]
  <2>1. \A b : Pinned(b) <=> \E i \in DOMAIN lh : lh[i] = b /\ tail[p] <= i
    BY <1>2 DEF InstallTrans
  <2>2. \A b : Pinned(b)' <=> \E i \in DOMAIN lh : lh[i] = b /\ tail[p] < i
    <3>1. CASE tail[p] = Len(lh)
      BY <1>4, <1>5, <1>6, <3>1 DEF InstallTrans
    <3>2. CASE tail[p] # Len(lh)
      <4>1. pc'[p] = "install" /\ tail'[p] = tail[p] + 1 /\ lh' = lh
        BY <1>6, <3>2 DEF InstallTrans
      <4>2. \A i \in DOMAIN lh : tail'[p] <= i <=> tail[p] < i
        BY <1>5, <1>6, <4>1
      <4> QED
        BY <1>4, <4>1, <4>2
    <3> QED
      BY <3>1, <3>2
  <2>3. \A i \in DOMAIN lh : lh[i] = lh[tail[p]] <=> i = tail[p]
    BY <1>6 DEF Copies, Distinct
  <2>4. \A i \in DOMAIN lh : tail[p] < i <=> tail[p] <= i /\ i # tail[p]
    BY <1>5, <1>6
  <2> QED
    BY <2>1, <2>2, <2>3, <2>4
<1>9. Pinned(lh[tail[p]])
  BY <1>2, <1>5, <1>6 DEF InstallTrans
<1>c1. Distinct'
  BY <1>1, <1>2, <1>3, <1>4, <1>5, <1>6, <1>7 DEF Copies, Distinct, InstallTrans
<1>c2. Locks'
  BY <1>3 DEF Locks
<1>c3. RefcntExact'
  BY <1>2, <1>3, <1>5, <1>6, <1>8, <1>9 DEF Copies, RefcntExact, InstallTrans
<1>c4. Cached'
  BY <1>2, <1>3, <1>7, <1>8 DEF Copies, Cached
<1>c5. Clean'
  <2> SUFFICES ASSUME NEW c \in Block, ~Pinned(c)'
               PROVE  cache'[c] \in {Absent, disk'[c]}
    BY DEF Clean
  <2>1. CASE c = lh[tail[p]]
    BY <1>5, <1>7, <2>1
  <2>2. CASE c # lh[tail[p]]
    <3>1. cache[c] \in {Absent, disk[c]}
      BY <1>2, <1>8, <2>2, ConstantsAssumption DEF Copies, Clean
    <3> QED
      BY <1>7, <2>2, <3>1
  <2> QED
    BY <2>1, <2>2
<1>c6. Header'
  BY <1>1, <1>2, <1>3, <1>4, <1>5, <1>6, <1>7 DEF Copies, Header, Copied, InstallTrans
<1>c7. Pending'
  BY <1>1, <1>2, <1>3, <1>4, <1>5, <1>6, <1>7 DEF Copies, Pending, Copied, InstallTrans
<1>c8. Saved'
  <2>1. /\ \A i \in DOMAIN lh : i >= tail[p] => logdata[i] = cache[lh[i]]
        /\ \A i \in DOMAIN lh : i < tail[p] => logdata[i] = disk[lh[i]]
    BY DEF Copies, Saved, InstallTrans
  <2>2. logdata' = logdata /\ lh' = lh
    BY DEF InstallTrans
  <2>3. \A i \in DOMAIN lh : i # tail[p] => lh[i] # lh[tail[p]]
    BY <1>6 DEF Copies, Distinct
  <2>4. \A i \in DOMAIN lh : i <= tail[p] => logdata'[i] = disk'[lh'[i]]
    <3>1. logdata'[tail[p]] = disk'[lh'[tail[p]]]
      BY <1>5, <1>6, <1>7, <2>2
    <3>2. \A i \in DOMAIN lh : i < tail[p] => logdata'[i] = disk'[lh'[i]]
      BY <1>5, <1>6, <1>7, <2>1, <2>2, <2>3
    <3> QED
      BY <1>5, <1>6, <3>1, <3>2
  <2>5. CASE tail[p] = Len(lh)
    <3>1. \A i \in DOMAIN lh : logdata'[i] = disk'[lh'[i]]
      BY <1>5, <2>4, <2>5
    <3>2. pc'[p] = "clear" /\ tail'[p] = 1 /\ lh' = lh
      BY <1>6, <2>2, <2>5
    <3> QED
      BY <1>1, <1>2, <3>1, <3>2 DEF Saved
  <2>6. CASE tail[p] # Len(lh)
    <3>1. pc'[p] = "install" /\ tail'[p] = tail[p] + 1 /\ lh' = lh
      BY <1>6, <2>2, <2>6
    <3>2. \A i \in DOMAIN lh : i < tail'[p] => logdata'[i] = disk'[lh'[i]]
      BY <1>5, <1>6, <2>4, <3>1
    <3>3. \A i \in DOMAIN lh : i >= tail'[p] => logdata'[i] = cache'[lh'[i]]
      BY <1>5, <1>6, <1>7, <2>1, <2>2, <3>1
    <3> QED
      BY <1>1, <1>2, <3>1, <3>2, <3>3 DEF Saved
  <2> QED
    BY <2>5, <2>6
<1> QED
  BY <1>c1, <1>c2, <1>c3, <1>c4, <1>c5, <1>c6, <1>c7, <1>c8 DEF Copies

LEMMA ClearHeadCopies == ASSUME Inv, Copies, NEW p \in Proc, ClearHead(p) PROVE Copies'
<1>1. /\ pc[p] \in InCommit /\ pc'[p] \in {"finish"} /\ pc'[p] \in InCommit
      /\ \A q \in Proc : q # p => pc'[q] = pc[q]
  BY DEF ClearHead, Advance, InCommit, Inv, TypeOK
<1>2. /\ \A q \in Proc : q # p => pc[q] \in {"idle", "begin", "asleep"}
      /\ Active = {} /\ ~Booting
      /\ \A q \in Proc : cur[q] = NoBlock
      /\ \A b \in Block : Unlocked(b)
      /\ \A b : Pinned(b) <=> \E i \in DOMAIN lh : /\ lh[i] = b /\ pc[p] # "clear"
                                                   /\ pc[p] = "install" => tail[p] <= i
  BY <1>1, CommitPhase
<1>3. /\ \A q \in Proc : cur'[q] = NoBlock
      /\ \A b \in Block : Unlocked(b)'
  BY <1>2 DEF ClearHead, Unlocked
<1>4. \A b : Pinned(b)' <=> \E i \in DOMAIN lh' : /\ lh'[i] = b /\ pc'[p] # "clear"
                                                  /\ pc'[p] = "install" => tail'[p] <= i
  BY <1>1, <1>2 DEF Pinned, InCommit
<1>5. /\ disk \in [Block -> Val] /\ cache \in [Block -> Val \cup {Absent}] /\ Absent \notin Val
      /\ logdata \in [1..LOGSIZE -> Val]
      /\ refcnt \in [Block -> Int] /\ tail \in [Proc -> Nat]
      /\ lh \in Seq(Block) /\ DOMAIN lh = 1..Len(lh) /\ Len(lh) \in Nat
      /\ \A i \in DOMAIN lh : lh[i] \in Block
  BY ConstantsAssumption DEF Inv, TypeOK
<1>c1. Distinct'
  BY <1>1, <1>2, <1>3, <1>4, <1>5 DEF Copies, Distinct, ClearHead
<1>c2. Locks'
  BY <1>3 DEF Locks
<1>c3. RefcntExact'
  BY <1>1, <1>2, <1>3, <1>4, <1>5 DEF Copies, RefcntExact, ClearHead
<1>c4. Cached'
  BY <1>1, <1>2, <1>3, <1>4, <1>5 DEF Copies, Cached, ClearHead
<1>c5. Clean'
  BY <1>1, <1>2, <1>3, <1>4, <1>5 DEF Copies, Clean, ClearHead
<1>c6. Header'
  BY <1>1, <1>2, <1>3, <1>4, <1>5 DEF Copies, Header, Copied, ClearHead
<1>c7. Pending'
  BY <1>1, <1>2, <1>3, <1>4, <1>5 DEF Copies, Pending, Copied, ClearHead
<1>c8. Saved'
  BY <1>1, <1>2, <1>3, <1>4, <1>5 DEF Copies, Saved, ClearHead
<1> QED
  BY <1>c1, <1>c2, <1>c3, <1>c4, <1>c5, <1>c6, <1>c7, <1>c8 DEF Copies

-----------------------------------------------------------------------------
(* Recovery, crashes, and the other users of the cache.                     *)

\* While the machine boots no buffer is locked or pinned.
LEMMA BootPhase ==
  ASSUME Inv, Copies, NEW p \in Proc, pc[p] \in Booter
  PROVE  /\ \A q \in Proc : q # p => pc[q] = "off"
         /\ Active = {} /\ Booting
         /\ \A q \in Proc : cur[q] = NoBlock
         /\ \A b \in Block : Unlocked(b)
         /\ \A b : ~Pinned(b)
         /\ pc[p] = "r_head" => lh = <<>>
<1>1. Active = {} /\ \A q \in Proc : q # p => pc[q] = "off"
  BY BootAlone
<1>2. (\A q \in Proc : cur[q] = NoBlock) /\ \A b \in Block : Unlocked(b)
  BY <1>1, AllUnlocked
<1>3. Booting
  BY PCSets DEF Booting
<1>4. pc[p] = "r_head" => lh = <<>>
  BY <1>1 DEF Copies, Pending, Copied
<1>5. \A b : ~Pinned(b)
  BY <1>4 DEF Pinned, Booter
<1> QED
  BY <1>1, <1>2, <1>3, <1>4, <1>5

LEMMA ReadHeadCopies == ASSUME Inv, Copies, NEW p \in Proc, ReadHead(p) PROVE Copies'
<1>1. /\ pc[p] \in Booter /\ pc'[p] \in {"r_install", "r_clear"}
      /\ \A q \in Proc : q # p => pc'[q] = pc[q]
  BY DEF ReadHead, Advance, Booter, Inv, TypeOK
<1>2. /\ \A q \in Proc : q # p => pc[q] = "off"
      /\ \A q \in Proc : cur[q] = NoBlock
      /\ \A b \in Block : Unlocked(b)
      /\ \A b : ~Pinned(b)
      /\ pc[p] = "r_head" => lh = <<>>
  BY <1>1, BootPhase
<1>3. /\ \A q \in Proc : cur'[q] = NoBlock
      /\ \A b \in Block : Unlocked(b)'
      /\ Booting'
  BY <1>1, <1>2 DEF ReadHead, Unlocked, Booting, InBoot
<1>4. \A b : ~Pinned(b)'
  BY <1>1 DEF Pinned
<1>5. /\ disk \in [Block -> Val] /\ cache \in [Block -> Val \cup {Absent}] /\ Absent \notin Val
      /\ logdata \in [1..LOGSIZE -> Val] /\ tail \in [Proc -> Nat]
      /\ lh \in Seq(Block) /\ DOMAIN lh = 1..Len(lh) /\ Len(lh) \in Nat
      /\ \A i \in DOMAIN lh : lh[i] \in Block
  BY ConstantsAssumption DEF Inv, TypeOK
<1>6. /\ tail[p] = 1 /\ tail' = tail /\ lh' = head
      /\ pc'[p] = IF head = <<>> THEN "r_clear" ELSE "r_install"
      /\ head \in Seq(Block) /\ DOMAIN head = 1..Len(head) /\ Len(head) \in Nat
  BY DEF ReadHead, Inv, TypeOK, Bounds
<1>c1. Distinct'
  BY DEF Copies, Distinct, ReadHead
<1>c2. Locks'
  BY <1>3 DEF Locks
<1>c3. RefcntExact'
  BY <1>2, <1>3, <1>4 DEF Copies, RefcntExact, ReadHead
<1>c4. Cached'
  BY <1>3, <1>4 DEF Cached
<1>c5. Clean'
  BY <1>2, <1>5 DEF Copies, Clean, ReadHead
<1>c6. Header'
  BY <1>1, <1>2, <1>3 DEF Copies, Header, Copied, ReadHead
<1>c7. Pending'
  BY <1>1, <1>2 DEF Pending, Copied
<1>c8. Saved'
  BY <1>1, <1>2, <1>6 DEF Saved
<1> QED
  BY <1>c1, <1>c2, <1>c3, <1>c4, <1>c5, <1>c6, <1>c7, <1>c8 DEF Copies

LEMMA RecoverInstallCopies == ASSUME Inv, Copies, NEW p \in Proc, RecoverInstall(p) PROVE Copies'
<1>1. /\ pc[p] \in Booter /\ pc'[p] \in {"r_install", "r_clear"}
      /\ \A q \in Proc : q # p => pc'[q] = pc[q]
  BY DEF RecoverInstall, Advance, Booter, Inv, TypeOK
<1>2. /\ \A q \in Proc : q # p => pc[q] = "off"
      /\ \A q \in Proc : cur[q] = NoBlock
      /\ \A b \in Block : Unlocked(b)
      /\ \A b : ~Pinned(b)
      /\ pc[p] = "r_head" => lh = <<>>
  BY <1>1, BootPhase
<1>3. /\ \A q \in Proc : cur'[q] = NoBlock
      /\ \A b \in Block : Unlocked(b)'
      /\ Booting'
  BY <1>1, <1>2 DEF RecoverInstall, Unlocked, Booting, InBoot
<1>4. \A b : ~Pinned(b)'
  BY <1>1 DEF Pinned
<1>5. /\ disk \in [Block -> Val] /\ cache \in [Block -> Val \cup {Absent}] /\ Absent \notin Val
      /\ logdata \in [1..LOGSIZE -> Val] /\ tail \in [Proc -> Nat]
      /\ lh \in Seq(Block) /\ DOMAIN lh = 1..Len(lh) /\ Len(lh) \in Nat
      /\ \A i \in DOMAIN lh : lh[i] \in Block
  BY ConstantsAssumption DEF Inv, TypeOK
<1>6. /\ tail[p] \in DOMAIN lh /\ lh[tail[p]] \in Block
      /\ pc'[p] = IF tail[p] = Len(lh) THEN "r_clear" ELSE "r_install"
      /\ tail'[p] = IF tail[p] = Len(lh) THEN 1 ELSE tail[p] + 1
  BY <1>5 DEF RecoverInstall, Advance, Inv, TypeOK, Bounds, Copying
<1>7. /\ cache' = [cache EXCEPT ![lh[tail[p]]] = logdata[tail[p]]]
      /\ disk' = [disk EXCEPT ![lh[tail[p]]] = logdata[tail[p]]]
      /\ pc[p] = "r_install"
  BY DEF RecoverInstall, CopyHome
<1>c1. Distinct'
  BY DEF Copies, Distinct, RecoverInstall
<1>c2. Locks'
  BY <1>3 DEF Locks
<1>c3. RefcntExact'
  BY <1>2, <1>3, <1>4 DEF Copies, RefcntExact, RecoverInstall
<1>c4. Cached'
  BY <1>3, <1>4 DEF Cached
<1>c5. Clean'
  BY <1>2, <1>5, <1>6, <1>7 DEF Copies, Clean
<1>c6. Header'
  BY <1>1, <1>2, <1>3 DEF Copies, Header, Copied, RecoverInstall
<1>c7. Pending'
  BY <1>1, <1>2 DEF Pending, Copied
<1>c8. Saved'
  BY <1>1, <1>2, <1>5, <1>6, <1>7 DEF Copies, Saved, Distinct, RecoverInstall
<1> QED
  BY <1>c1, <1>c2, <1>c3, <1>c4, <1>c5, <1>c6, <1>c7, <1>c8 DEF Copies

LEMMA RecoverClearCopies == ASSUME Inv, Copies, NEW p \in Proc, RecoverClear(p) PROVE Copies'
<1>1. pc[p] \in Booter /\ \A q \in Proc : pc'[q] = "idle"
  BY DEF RecoverClear, Booter
<1>2. /\ \A q \in Proc : q # p => pc[q] = "off"
      /\ \A q \in Proc : cur[q] = NoBlock
      /\ \A b \in Block : Unlocked(b)
      /\ \A b : ~Pinned(b)
  BY <1>1, BootPhase
<1>3. /\ lh' = <<>> /\ head' = <<>>
      /\ \A q \in Proc : cur'[q] = NoBlock
      /\ \A b \in Block : Unlocked(b)'
      /\ \A b : ~Pinned(b)'
  BY <1>2 DEF RecoverClear, Unlocked, Pinned
<1>4. Distinct' /\ Locks' /\ Cached' /\ Header' /\ Pending' /\ Saved'
  BY <1>1, <1>3 DEF Distinct, Locks, Cached, Header, Pending, Saved, Copied
<1>5. RefcntExact' /\ Clean'
  BY <1>2, <1>3 DEF Copies, RefcntExact, Clean, RecoverClear
<1> QED
  BY <1>4, <1>5 DEF Copies

\* The memory of a machine that starts is empty.
LEMMA StartCopies ==
  ASSUME cache' = [b \in Block |-> Absent], refcnt' = [b \in Block |-> 0], lh' = <<>>,
         NEW p \in Proc, pc' = BootPC(p), cur' = [q \in Proc |-> NoBlock],
         \A i, j \in DOMAIN head' : head'[i] = head'[j] => i = j
  PROVE  Copies'
<1>1. /\ \A q \in Proc : cur'[q] = NoBlock /\ pc'[q] \in {"off", "r_head"}
      /\ pc'[p] = "r_head"
  BY DEF BootPC
<1>2. /\ \A b \in Block : Unlocked(b)'
      /\ \A b : ~Pinned(b)'
      /\ Booting'
  BY <1>1, ConstantsAssumption DEF Unlocked, Pinned, Booting, InBoot
<1>3. Distinct' /\ Locks' /\ Cached' /\ Header' /\ Pending' /\ Saved'
  BY <1>1, <1>2 DEF Distinct, Locks, Cached, Header, Pending, Saved, Copied
<1>4. RefcntExact' /\ Clean'
  BY <1>2 DEF RefcntExact, Clean
<1> QED
  BY <1>3, <1>4 DEF Copies

LEMMA CrashCopies == ASSUME Inv, Copies, NEW p \in Proc, Crash(p) PROVE Copies'
BY StartCopies DEF Crash, Copies, Distinct

LEMMA ReadBlockCopies == ASSUME Inv, Copies, NEW b \in Block, ReadBlock(b) PROVE Copies'
<1>1. /\ cache \in [Block -> Val \cup {Absent}] /\ disk \in [Block -> Val] /\ Absent \notin Val
      /\ \A i \in DOMAIN lh : lh[i] \in Block
  BY ConstantsAssumption DEF Inv, TypeOK
<1>2. ~Pinned(b) /\ Unlocked(b)
  BY DEF ReadBlock, Copies, Cached
<1>3. /\ \A c : Pinned(c)' <=> Pinned(c)
      /\ \A c : Unlocked(c)' <=> Unlocked(c)
      /\ Booting' = Booting /\ Active' = Active
  BY DEF ReadBlock, Pinned, Unlocked, Booting, Active
<1>4. \A c \in Block : c # b => cache'[c] = cache[c]
  BY DEF ReadBlock, Inv, TypeOK
<1>5. Distinct' /\ Locks' /\ Header' /\ Pending' /\ RefcntExact'
  BY <1>3 DEF Copies, Distinct, Locks, Header, Pending, RefcntExact, Logged, ReadBlock
<1>6. Cached'
  BY <1>2, <1>3, <1>4 DEF Copies, Cached
<1>7. Clean'
  <2>1. cache'[b] \in {Absent, disk[b]} /\ disk' = disk /\ cur' = cur /\ pc' = pc
    BY <1>1 DEF ReadBlock
  <2> QED
    BY <1>3, <1>4, <2>1 DEF Copies, Clean
<1>8. Saved'
  <2> SUFFICES ASSUME NEW q \in Proc, NEW i \in DOMAIN lh,
                      \/ pc[q] = "write_log" /\ i < tail[q]
                      \/ pc[q] = "write_head"
                      \/ pc[q] = "install" /\ i >= tail[q]
               PROVE  logdata[i] = cache'[lh[i]]
    BY DEF Copies, Saved, ReadBlock
  <2>1. pc[q] \in InCommit /\ (pc[q] = "install" => tail[q] <= i)
    BY DEF InCommit, Inv, TypeOK
  <2>2. Pinned(lh[i])
    BY <2>1, CommitPhase
  <2> QED
    BY <1>1, <1>2, <1>4, <2>2 DEF Copies, Saved
<1> QED
  BY <1>5, <1>6, <1>7, <1>8 DEF Copies

LEMMA RecycleCopies == ASSUME Inv, Copies, NEW b \in Block, Recycle(b) PROVE Copies'
<1>1. /\ cache \in [Block -> Val \cup {Absent}] /\ disk \in [Block -> Val] /\ Absent \notin Val
      /\ \A i \in DOMAIN lh : lh[i] \in Block
  BY ConstantsAssumption DEF Inv, TypeOK
<1>2. ~Pinned(b) /\ Unlocked(b)
  <2>1. (IF Pinned(b) THEN 1 ELSE 0) + (IF Unlocked(b) THEN 0 ELSE 1) = 0
    BY DEF Recycle, Copies, RefcntExact
  <2> QED
    BY <2>1
<1>3. /\ \A c : Pinned(c)' <=> Pinned(c)
      /\ \A c : Unlocked(c)' <=> Unlocked(c)
      /\ Booting' = Booting /\ Active' = Active
  BY DEF Recycle, Pinned, Unlocked, Booting, Active
<1>4. \A c \in Block : c # b => cache'[c] = cache[c]
  BY DEF Recycle, Inv, TypeOK
<1>5. Distinct' /\ Locks' /\ Header' /\ Pending' /\ RefcntExact'
  BY <1>3 DEF Copies, Distinct, Locks, Header, Pending, RefcntExact, Logged, Recycle
<1>6. Cached'
  BY <1>2, <1>3, <1>4 DEF Copies, Cached
<1>7. Clean'
  <2>1. cache'[b] \in {Absent, disk[b]} /\ disk' = disk /\ cur' = cur /\ pc' = pc
    BY <1>1 DEF Recycle
  <2> QED
    BY <1>3, <1>4, <2>1 DEF Copies, Clean
<1>8. Saved'
  <2> SUFFICES ASSUME NEW q \in Proc, NEW i \in DOMAIN lh,
                      \/ pc[q] = "write_log" /\ i < tail[q]
                      \/ pc[q] = "write_head"
                      \/ pc[q] = "install" /\ i >= tail[q]
               PROVE  logdata[i] = cache'[lh[i]]
    BY DEF Copies, Saved, Recycle
  <2>1. pc[q] \in InCommit /\ (pc[q] = "install" => tail[q] <= i)
    BY DEF InCommit, Inv, TypeOK
  <2>2. Pinned(lh[i])
    BY <2>1, CommitPhase
  <2> QED
    BY <1>1, <1>2, <1>4, <2>2 DEF Copies, Saved
<1> QED
  BY <1>5, <1>6, <1>7, <1>8 DEF Copies

LEMMA CopiesStep == ASSUME Inv, Copies, [Next]_vars PROVE Copies'
<1>1. ASSUME NEW p \in Proc, BeginOp(p) PROVE Copies'
  BY <1>1, BeginCopies
<1>2. ASSUME NEW p \in Proc, Update(p) PROVE Copies'
  BY <1>2, BreadCopies, ModifyCopies, LogWriteCopies, BrelseCopies DEF Update
<1>3. ASSUME NEW p \in Proc, EndOp(p) PROVE Copies'
  BY <1>3, EndOpLeaveCopies, EndOpCommitCopies DEF EndOp
<1>4. ASSUME NEW p \in Proc, Commit(p) PROVE Copies'
  BY <1>4, WriteLogCopies, WriteHeadCopies, InstallTransCopies, ClearHeadCopies, FinishCopies
     DEF Commit
<1>5. ASSUME NEW p \in Proc, Recover(p) PROVE Copies'
  BY <1>5, ReadHeadCopies, RecoverInstallCopies, RecoverClearCopies DEF Recover
<1>6. ASSUME NEW p \in Proc, Crash(p) PROVE Copies'
  BY <1>6, CrashCopies
<1>7. ASSUME NEW b \in Block, ReadBlock(b) \/ Recycle(b) PROVE Copies'
  BY <1>7, ReadBlockCopies, RecycleCopies
<1>8. CASE UNCHANGED vars
  <2>1. Active' = Active
    BY <1>8 DEF vars, Active
  <2> QED
    BY <1>8, <2>1, OutsideStep DEF vars, Copies, Pending
<1> QED
  BY <1>1, <1>2, <1>3, <1>4, <1>5, <1>6, <1>7, <1>8 DEF Next

LEMMA InitCopies == Init => Copies
<1> SUFFICES ASSUME Init PROVE Copies
  OBVIOUS
<1>1. PICK p \in Proc : pc = BootPC(p)
  BY DEF Init
<1>2. /\ \A q \in Proc : cur[q] = NoBlock /\ pc[q] \in {"off", "r_head"}
      /\ pc[p] = "r_head" /\ lh = <<>> /\ head = <<>>
  BY <1>1 DEF Init, BootPC
<1>3. /\ \A b \in Block : Unlocked(b)
      /\ \A b : ~Pinned(b)
      /\ Booting
  BY <1>2, ConstantsAssumption DEF Unlocked, Pinned, Booting, InBoot
<1>4. Distinct /\ Locks /\ Cached /\ Header /\ Pending /\ Saved
  BY <1>2, <1>3 DEF Distinct, Locks, Cached, Header, Pending, Saved, Copied
<1>5. RefcntExact /\ Clean
  BY <1>3 DEF Init, RefcntExact, Clean
<1> QED
  BY <1>4, <1>5 DEF Copies

LEMMA CopiesAlways == Spec => [](Inv /\ Copies)
<1>1. Init => Inv /\ Copies
  BY InitInv, InitCopies
<1>2. Inv /\ Copies /\ [Next]_vars => Inv' /\ Copies'
  BY NextInv, CopiesStep
<1> QED
  BY <1>1, <1>2, PTL DEF Spec

-----------------------------------------------------------------------------
(* What the invariant says of the state between transactions, and of a       *)
(* reboot.                                                                   *)

\* With nothing in the log, the disk is what a reboot finds, and a read finds
\* the disk except where a call has changed a buffer.
LEMMA Settled ==
  ASSUME Inv, Copies, head = <<>>, \A b \in Block : ~Pinned(b), Active = {}
  PROVE  /\ Durable = [b \in Block |-> disk[b]]
         /\ \A b \in Block : Contents(b) = disk[b]
<1>1. \A b : ~Logged(head, b)
  BY DEF Logged
<1>2. \A b \in Block : cache[b] \in {Absent, disk[b]}
  <2>1. \A q \in Proc : cur[q] = NoBlock
    BY AllUnlocked
  <2> QED
    BY <2>1, ConstantsAssumption DEF Copies, Clean
<1> QED
  BY <1>1, <1>2 DEF Durable, Contents

\* log_write() and install_trans() pin each block of log.lh once: a reference count is
\* the lock and the pin, over absorption, commit, installation and crashes.  When no
\* call is inside and nobody commits, the header is empty and the disk has what the
\* cache has.
THEOREM CacheIsExact == Spec => []CacheExact
<1>1. Inv /\ Copies => CacheExact
  <2> SUFFICES ASSUME Inv, Copies PROVE QuiescentDurable
    BY DEF CacheExact, Copies
  <2> SUFFICES ASSUME outstanding = 0, ~committing, ~Booting
               PROVE  head = <<>> /\ Current = Durable
    BY DEF QuiescentDurable
  <2>1. Active = {}
    BY ActiveFinite, FS_EmptySet DEF Inv
  <2>2. \A p \in Proc : pc[p] \notin InCommit \cup InBoot
    BY DEF Inv, Modes, Booting
  <2>3. lh = <<>> /\ head = <<>>
    BY <2>1, <2>2 DEF Copies, Pending, Header, Copied, InCommit, InBoot
  <2>4. \A b \in Block : ~Pinned(b)
    BY <2>3 DEF Pinned
  <2>5. Durable = [b \in Block |-> disk[b]] /\ \A b \in Block : Contents(b) = disk[b]
    BY <2>1, <2>3, <2>4, Settled
  <2> QED
    BY <2>3, <2>5 DEF Current
<1> QED
  BY <1>1, CopiesAlways, PTL

-----------------------------------------------------------------------------
(* The refinement: each step of the log is a step of the atomic disk or      *)
(* changes nothing it can see.                                               *)

\* A header without duplicates finds each block it names in the log.
LEMMA InTheLog ==
  ASSUME Copies, NEW i \in DOMAIN head, head[i] \in Block
  PROVE  Durable[head[i]] = logdata[i]
<1>1. Logged(head, head[i]) /\ \A j \in DOMAIN head : head[j] = head[i] => j = i
  BY DEF Copies, Distinct, Logged
<1>2. (CHOOSE j \in DOMAIN head : head[j] = head[i]) = i
  BY <1>1
<1> QED
  BY <1>1, <1>2 DEF Durable

\* Steps that move no block leave both views as they are.
LEMMA SameViews ==
  ASSUME UNCHANGED <<disk, head, logdata, cache>>, Booting' <=> Booting
  PROVE  Durable' = Durable /\ Current' = Current
<1>1. Durable' = Durable
  BY DEF Durable, Logged
<1> QED
  BY <1>1 DEF Current, Contents

\* Bread, ReadBlock and Recycle move contents between the disk and a buffer.
LEMMA SameContents ==
  ASSUME UNCHANGED <<disk, head, logdata>>, Booting' <=> Booting,
         \A b \in Block : Contents(b)' = Contents(b)
  PROVE  Durable' = Durable /\ Current' = Current
<1>1. Durable' = Durable
  BY DEF Durable, Logged
<1> QED
  BY <1>1 DEF Current

\* write_head is the commit: all that was current becomes durable.
LEMMA WriteHeadCommits ==
  ASSUME Inv, Copies, NEW p \in Proc, WriteHead(p)
  PROVE  Active = {} /\ Active' = {} /\ Durable' = Current /\ Current' = Current
<1>1. pc[p] = "write_head" /\ pc[p] \in InCommit
  BY DEF WriteHead, InCommit
<1>2. /\ \A q \in Proc : q # p => pc[q] \in {"idle", "begin", "asleep"}
      /\ Active = {} /\ ~Booting
      /\ \A q \in Proc : cur[q] = NoBlock
      /\ \A b : Pinned(b) <=> \E i \in DOMAIN lh : lh[i] = b
  BY <1>1, CommitPhase
<1>3. Active' = {} /\ ~Booting'
  BY <1>1, <1>2 DEF WriteHead, Active, Booting, InCall, InBoot, Inv, TypeOK
<1>4. Copies' /\ head' = lh /\ UNCHANGED <<disk, logdata, cache, lh>>
  BY WriteHeadCopies DEF WriteHead
<1>5. Current' = Current
  BY <1>2, <1>3, <1>4 DEF Current, Contents
<1>6. ASSUME NEW b \in Block PROVE Durable'[b] = Contents(b)
  <2>1. CASE Pinned(b)
    <3>1. PICK i \in DOMAIN lh : lh[i] = b
      BY <1>2, <2>1
    <3>2. Contents(b) = logdata[i]
      BY <1>1, <2>1, <3>1 DEF Copies, Saved, Cached, Contents
    <3>3. Durable'[b] = logdata'[i]
      <4>1. i \in DOMAIN head' /\ head'[i] = b
        BY <1>4, <3>1
      <4>2. \A j \in DOMAIN head' : head'[j] = head'[i] => j = i
        BY <1>4, <4>1 DEF Copies, Distinct
      <4>3. Logged(head', b) /\ (CHOOSE j \in DOMAIN head' : head'[j] = b) = i
        BY <4>1, <4>2 DEF Logged
      <4> QED
        BY <4>3 DEF Durable
    <3> QED
      BY <1>4, <3>2, <3>3
  <2>2. CASE ~Pinned(b)
    <3>1. ~Logged(head', b)
      BY <1>2, <1>4, <2>2 DEF Logged
    <3>2. Contents(b) = disk[b]
      BY <1>2, <2>2, ConstantsAssumption DEF Copies, Clean, Contents
    <3> QED
      BY <1>4, <3>1, <3>2 DEF Durable
  <2> QED
    BY <2>1, <2>2
<1>7. Durable' = Current
  BY <1>2, <1>6 DEF Durable, Current
<1> QED
  BY <1>2, <1>3, <1>5, <1>7

\* Copying a logged block home changes neither what is durable nor, once the
\* machine runs, what is read.
LEMMA HomeDurable ==
  ASSUME Inv, Copies, NEW p \in Proc, pc[p] \in {"install", "r_install"}, CopyHome(p),
         UNCHANGED <<head, logdata>>
  PROVE  Durable' = Durable
<1>1. head = lh /\ tail[p] \in DOMAIN lh /\ lh[tail[p]] \in Block
  BY DEF Copies, Header, Copied, Inv, TypeOK, Bounds, Copying
<1>2. \A b \in Block : b # lh[tail[p]] => disk'[b] = disk[b]
  BY <1>1 DEF CopyHome, Inv, TypeOK
<1>3. Logged(head, lh[tail[p]])
  BY <1>1 DEF Logged
<1>4. \A b \in Block : Logged(head, b) \/ disk'[b] = disk[b]
  BY <1>2, <1>3
<1>5. \A b : Logged(head', b) <=> Logged(head, b)
  BY DEF Logged
<1> QED
  BY <1>4, <1>5 DEF Durable

\* Once every block of the header is home, the header can go.
LEMMA ClearDurable ==
  ASSUME Inv, Copies, NEW p \in Proc, pc[p] \in {"clear", "r_clear"}, head' = <<>>,
         UNCHANGED disk
  PROVE  Durable' = Durable /\ \A b \in Block : Durable[b] = disk[b]
<1>1. head = lh /\ \A i \in DOMAIN lh : lh[i] \in Block
  BY DEF Copies, Header, Copied, Inv, TypeOK
<1>2. ASSUME NEW b \in Block PROVE Durable[b] = disk[b]
  <2>1. CASE Logged(head, b)
    <3>1. PICK i \in DOMAIN head : head[i] = b
      BY <2>1 DEF Logged
    <3>2. Durable[b] = logdata[i]
      BY <3>1, InTheLog
    <3> QED
      BY <1>1, <3>1, <3>2 DEF Copies, Saved
  <2>2. CASE ~Logged(head, b)
    BY <2>2 DEF Durable
  <2> QED
    BY <2>1, <2>2
<1>3. Durable' = [b \in Block |-> disk[b]]
  BY DEF Durable, Logged
<1>4. Durable = [b \in Block |-> Durable[b]]
  BY DEF Durable
<1> QED
  BY <1>2, <1>3, <1>4

LEMMA ViewStep ==
  ASSUME Inv, Copies, [Next]_vars
  PROVE  [Atomic!ANext]_(Atomic!avars)
<1> DEFINE Seen == [Atomic!ANext]_(Atomic!avars)
<1> USE DEF Atomic!avars, Atomic!ANext
\* Moving between the pcs outside Booting.
<1>0. ASSUME NEW p \in Proc, pc[p] \notin InBoot, pc'[p] \notin InBoot
      PROVE  ~Booting /\ ~Booting'
  <2>1. ~Booting
    BY <1>0 DEF Booting, Inv, Modes
  <2>2. Inv'
    BY NextInv
  <2> QED
    BY <1>0, <2>1, <2>2 DEF Booting, Inv, Modes
<1>1. ASSUME NEW p \in Proc, BeginOp(p) PROVE Seen
  <2>1. ~Booting /\ ~Booting'
    BY <1>0, <1>1 DEF BeginOp, BeginSleep, BeginAdmit, InBoot, Inv, TypeOK
  <2>2. Durable' = Durable /\ Current' = Current
    BY <1>1, <2>1, SameViews DEF BeginOp, BeginSleep, BeginAdmit
  <2>3. CASE BeginSleep(p)
    <3>1. Active' = Active
      BY <2>3 DEF BeginSleep, Active, InCall, Inv, TypeOK
    <3> QED
      BY <2>2, <3>1
  <2>4. CASE BeginAdmit(p)
    BY <2>2, <2>4, BeginAdmitActive DEF Atomic!ABegin
  <2> QED
    BY <1>1, <2>3, <2>4 DEF BeginOp
<1>2. ASSUME NEW p \in Proc, Update(p) PROVE Seen
  <2>1. /\ pc[p] \in InCall /\ pc'[p] \in InCall /\ \A q \in Proc : q # p => pc'[q] = pc[q]
    BY <1>2 DEF Update, Bread, Modify, LogWrite, Brelse, InCall, Inv, TypeOK
  <2>2. ~Booting /\ ~Booting'
    BY <1>0, <2>1, PCSets DEF InCall
  <2>3. Active' = Active /\ p \in Active
    BY <2>1 DEF Active
  <2>4. ASSUME NEW b \in Block, Bread(p, b) PROVE Seen
    <3>1. \A c \in Block : Contents(c)' = Contents(c)
      BY <2>4 DEF Bread, Contents, Inv, TypeOK
    <3> QED
      BY <2>2, <2>3, <2>4, <3>1, SameContents DEF Bread
  <2>5. ASSUME NEW v \in Val, Modify(p, v) PROVE Seen
    <3>1. cur[p] \in Block /\ cache'[cur[p]] = v /\ v # Absent
      BY <2>5, ConstantsAssumption DEF Modify, Inv, TypeOK, Bounds, Holding
    <3>2. \A b \in Block : b # cur[p] => cache'[b] = cache[b]
      BY <2>5 DEF Modify, Inv, TypeOK
    <3>3. Current = [b \in Block |-> Contents(b)] /\ Current' = [b \in Block |-> Contents(b)']
      BY <2>2 DEF Current
    <3>4. \A b \in Block : Contents(b)' = IF b = cur[p] THEN v ELSE Contents(b)
      BY <2>5, <3>1, <3>2 DEF Contents, Modify
    <3>5. Current' = [Current EXCEPT ![cur[p]] = v]
      BY <3>3, <3>4
    <3>6. Durable' = Durable
      BY <2>5 DEF Modify, Durable, Logged
    <3>7. Atomic!AWrite(p, cur[p], v)
      BY <2>3, <3>5, <3>6 DEF Atomic!AWrite
    <3> QED
      BY <3>1, <3>7
  <2>6. CASE LogWrite(p) \/ Brelse(p)
    BY <2>2, <2>3, <2>6, SameViews DEF LogWrite, Brelse
  <2> QED
    BY <1>2, <2>4, <2>5, <2>6 DEF Update
<1>3. ASSUME NEW p \in Proc, EndOp(p) PROVE Seen
  <2>1. pc[p] = "op" /\ p \in Active
    BY <1>3 DEF EndOp, EndOpLeave, EndOpCommit, Active, InCall
  <2>2. Active' = Active \ {p}
    <3>1. CASE EndOpLeave(p)
      BY <3>1, EndOpLeaveInv
    <3>2. CASE EndOpCommit(p)
      <4>1. IsFiniteSet(Active) /\ Cardinality(Active) = 1
        BY <3>2, ActiveFinite DEF Inv, EndOpCommit
      <4>2. PICK x : Active = {x}
        BY <4>1, FS_Singleton
      <4> QED
        BY <2>1, <3>2, <4>2, EndOpCommitInv
    <3> QED
      BY <1>3, <3>1, <3>2 DEF EndOp
  <2>3. ~Booting /\ ~Booting'
    <3>1. pc'[p] \notin InBoot
      <4>1. ~committing
        BY <2>1 DEF Inv, Modes
      <4> QED
        BY <1>3, <4>1 DEF EndOp, EndOpLeave, EndOpCommit, WakeAll, InBoot, Inv, TypeOK
    <3> QED
      BY <1>0, <2>1, <3>1 DEF InBoot
  <2>4. Durable' = Durable /\ Current' = Current
    BY <1>3, <2>3, SameViews DEF EndOp, EndOpLeave, EndOpCommit
  <2> QED
    BY <2>1, <2>2, <2>4 DEF Atomic!AEnd
<1>4. ASSUME NEW p \in Proc, Commit(p) PROVE Seen
  <2>1. pc[p] \in InCommit /\ pc'[p] \in InCommit \cup {"idle"}
    BY <1>4 DEF Commit, WriteLog, WriteHead, InstallTrans, ClearHead, FinishCommit, Advance,
                WakeAll, InCommit, Inv, TypeOK
  <2>2. ~Booting /\ ~Booting'
    BY <1>0, <2>1, PCSets DEF InBoot
  <2>3. /\ Active = {}
        /\ \A b : Pinned(b) <=> \E i \in DOMAIN lh : /\ lh[i] = b /\ pc[p] # "clear"
                                                     /\ pc[p] = "install" => tail[p] <= i
    BY <2>1, CommitPhase
  <2>4. Active' = {}
    BY <1>4, WriteLogInv, WriteHeadInv, InstallTransInv, ClearHeadInv, FinishCommitInv DEF Commit
  <2>5. CASE WriteLog(p)
    <3>1. cache' = cache /\ UNCHANGED <<disk, head>>
      BY <2>5, WriteLogMoves DEF WriteLog
    <3>2. head = <<>>
      <4>1. \A q \in Proc : pc[q] \notin {"install", "clear"}
        BY <2>1, <2>5 DEF WriteLog, Inv, Modes, InCommit
      <4> QED
        BY <2>2, <4>1 DEF Copies, Header
    <3>3. Durable' = Durable
      BY <3>1, <3>2 DEF Durable, Logged
    <3>4. Current' = Current
      BY <2>2, <3>1 DEF Current, Contents
    <3> QED
      BY <2>3, <2>4, <3>3, <3>4
  <2>6. CASE WriteHead(p)
    BY <2>6, WriteHeadCommits DEF Atomic!ACommit
  <2>7. CASE InstallTrans(p)
    <3>1. Durable' = Durable
      BY <2>7, HomeDurable DEF InstallTrans
    <3>2. cache' = cache /\ disk' = [disk EXCEPT ![lh[tail[p]]] = logdata[tail[p]]]
          /\ logdata[tail[p]] = cache[lh[tail[p]]]
      BY <2>7, InstallMoves
    <3>3. cache[lh[tail[p]]] # Absent /\ lh[tail[p]] \in Block
      <4>1. tail[p] \in DOMAIN lh /\ lh[tail[p]] \in Block /\ tail[p] \in Nat
        BY <2>7 DEF InstallTrans, Inv, TypeOK, Bounds, Copying
      <4>2. Pinned(lh[tail[p]])
        BY <2>3, <2>7, <4>1 DEF InstallTrans
      <4> QED
        BY <4>1, <4>2 DEF Copies, Cached
    <3>4. \A b \in Block : Contents(b)' = Contents(b)
      BY <3>2, <3>3 DEF Contents, Inv, TypeOK
    <3>5. Current' = Current
      BY <2>2, <3>4 DEF Current
    <3> QED
      BY <2>3, <2>4, <3>1, <3>5
  <2>8. CASE ClearHead(p)
    <3>1. Durable' = Durable
      BY <2>8, ClearDurable DEF ClearHead
    <3>2. Current' = Current
      BY <2>2, <2>8 DEF Current, Contents, ClearHead
    <3> QED
      BY <2>3, <2>4, <3>1, <3>2
  <2>9. CASE FinishCommit(p)
    BY <2>2, <2>3, <2>4, <2>9, SameViews DEF FinishCommit
  <2> QED
    BY <1>4, <2>5, <2>6, <2>7, <2>8, <2>9 DEF Commit
<1>5. ASSUME NEW p \in Proc, Recover(p) PROVE Seen
  <2>1. pc[p] \in Booter
    BY <1>5 DEF Recover, ReadHead, RecoverInstall, RecoverClear, Booter
  <2>2. Active = {} /\ Booting /\ \A b : ~Pinned(b)
    BY <2>1, BootPhase
  <2>3. Active' = {}
    BY <1>5, ReadHeadInv, RecoverInstallInv, RecoverClearInv DEF Recover
  <2>4. Durable' = Durable
    <3>1. CASE ReadHead(p)
      BY <3>1 DEF ReadHead, Durable, Logged
    <3>2. CASE RecoverInstall(p)
      BY <3>2, HomeDurable DEF RecoverInstall
    <3>3. CASE RecoverClear(p)
      BY <3>3, ClearDurable DEF RecoverClear
    <3> QED
      BY <1>5, <3>1, <3>2, <3>3 DEF Recover
  <2>5. Current' = Current
    <3>1. CASE ReadHead(p) \/ RecoverInstall(p)
      <4>1. pc'[p] \in InBoot
        BY <3>1 DEF ReadHead, RecoverInstall, Advance, InBoot, Inv, TypeOK
      <4>2. Booting'
        BY <4>1 DEF Booting
      <4> QED
        BY <2>2, <2>4, <4>2 DEF Current
    <3>2. CASE RecoverClear(p)
      <4>1. ~Booting'
        BY <3>2 DEF RecoverClear, Booting, InBoot
      <4>2. \A b \in Block : Durable[b] = disk[b]
        BY <3>2, ClearDurable DEF RecoverClear
      <4>3. \A b \in Block : Contents(b)' = disk[b]
        <5>1. \A q \in Proc : cur[q] = NoBlock
          BY <2>2, AllUnlocked
        <5>2. \A b \in Block : cache[b] \in {Absent, disk[b]}
          BY <2>2, <5>1, ConstantsAssumption DEF Copies, Clean
        <5> QED
          BY <3>2, <5>2 DEF RecoverClear, Contents
      <4> QED
        BY <2>2, <4>1, <4>2, <4>3 DEF Current
    <3> QED
      BY <1>5, <3>1, <3>2 DEF Recover
  <2> QED
    BY <2>2, <2>3, <2>4, <2>5
<1>6. ASSUME NEW p \in Proc, Crash(p) PROVE Seen
  <2>1. Booting' /\ Active' = {}
    BY <1>6, CrashInv DEF Crash, BootPC, Booting, InBoot
  <2>2. Durable' = Durable
    BY <1>6 DEF Crash, Durable, Logged
  <2>3. Current' = Durable
    BY <2>1, <2>2 DEF Current, Durable
  <2> QED
    BY <2>1, <2>2, <2>3 DEF Atomic!ACrash
<1>7. ASSUME NEW b \in Block, ReadBlock(b) \/ Recycle(b) PROVE Seen
  <2>1. UNCHANGED <<disk, head, logdata, pc>>
    BY <1>7 DEF ReadBlock, Recycle
  <2>2. Booting' = Booting /\ Active' = Active
    BY <2>1 DEF Booting, Active
  <2>3. \A c \in Block : Contents(c)' = Contents(c)
    <3>1. CASE ReadBlock(b)
      BY <3>1 DEF ReadBlock, Contents, Inv, TypeOK
    <3>2. CASE Recycle(b)
      <4>1. (IF Pinned(b) THEN 1 ELSE 0) + (IF Unlocked(b) THEN 0 ELSE 1) = 0
        BY <3>2 DEF Recycle, Copies, RefcntExact
      <4>2. ~Pinned(b) /\ Unlocked(b)
        BY <4>1
      <4>3. cache[b] \in {Absent, disk[b]}
        BY <4>2 DEF Copies, Clean, Unlocked
      <4> QED
        BY <3>2, <4>3 DEF Recycle, Contents, Inv, TypeOK
    <3> QED
      BY <1>7, <3>1, <3>2
  <2> QED
    BY <2>1, <2>2, <2>3, SameContents
<1>8. CASE UNCHANGED vars
  <2>1. Booting' = Booting /\ Active' = Active
    BY <1>8 DEF vars, Booting, Active
  <2> QED
    BY <1>8, <2>1, SameViews DEF vars
<1> QED
  BY <1>1, <1>2, <1>3, <1>4, <1>5, <1>6, <1>7, <1>8 DEF Next

\* The log of kernel/log.c over the buffer cache implements a disk on which
\* the writes of the calls in progress become durable together, at a moment
\* when no call is half done, or not at all, wherever the machine stops.
THEOREM LogIsAtomic == Spec => AtomicSpec
<1>1. Init => Atomic!AInit
  <2> SUFFICES ASSUME Init PROVE Atomic!AInit
    OBVIOUS
  <2>1. PICK p \in Proc : pc = BootPC(p)
    BY DEF Init
  <2>2. Active = {} /\ Booting
    BY <2>1 DEF BootPC, Active, Booting, InCall, InBoot
  <2>3. Durable = [b \in Block |-> disk[b]] /\ disk \in [Block -> Val]
    BY DEF Init, Durable, Logged
  <2>4. Current = Durable
    BY <2>2, <2>3 DEF Current
  <2> QED
    BY <2>2, <2>3, <2>4 DEF Atomic!AInit
<1>2. Inv /\ Copies /\ [Next]_vars => [Atomic!ANext]_(Atomic!avars)
  BY ViewStep
<1> QED
  BY <1>1, <1>2, CopiesAlways, PTL DEF Spec, AtomicSpec, Atomic!ASpec
=============================================================================
