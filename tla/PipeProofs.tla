------------------------------ MODULE PipeProofs ------------------------------
(***************************************************************************)
(* Theorems about Pipe, for any number of readers and writers, any capacity   *)
(* and any counts.                                                          *)
(*                                                                          *)
(* The inductive invariant has four parts: types; who holds the lock is in    *)
(* the middle of a loop (LockHeld); who is in a call has the end open that    *)
(* the call is about, and one process at most is about to close an end        *)
(* (Ends); and what a process knows of the ring while it holds the lock or    *)
(* sleeps (Tests, Sleepers).  Beside it RingBound bounds the bytes in the     *)
(* ring, from which each step is shown to be one of the bounded queue.        *)
(***************************************************************************)
EXTENDS Pipe, SequenceTheorems, TLAPS

Ends ==
  /\ \A p \in Proc : pc[p] \in WritePC => p \in wfd
  /\ \A p \in Proc : pc[p] \in ReadPC => p \in rfd
  /\ \A p \in Proc : pc[p] = "close_read" => rfd = {} /\ readopen
  /\ \A p \in Proc : pc[p] = "close_write" => wfd = {} /\ writeopen
  /\ \A p, q \in Proc : pc[p] \in ClosePC /\ pc[q] = pc[p] => p = q
  /\ ~readopen => rfd = {}
  /\ ~writeopen => wfd = {}
  /\ freed => ~readopen /\ ~writeopen

\* What a process has tested since it took the lock still holds.
Tests ==
  \A p \in Proc :
    /\ pc[p] = "w_body" => readopen /\ i[p] < n[p]
    /\ pc[p] \in {"r_acquire", "r_wait", "r_block", "r_sleep"} => i[p] = 0
    /\ pc[p] = "r_block" => Empty /\ writeopen
    /\ pc[p] = "r_copy" /\ i[p] = 0 => ~(Empty /\ writeopen)

\* The holder of the lock has written, or read, since it took it: it will wake
\* the other side before it releases the lock, or leave a trace in stranded.
Wrote == \E q \in Proc : lock = q /\ pc[q] \in {"w_loop", "w_body"} /\ i[q] > 0
HasRead == \E q \in Proc : lock = q /\ pc[q] = "r_copy" /\ i[q] > 0

Sleepers ==
  \A p \in Proc :
    /\ pc[p] = "r_sleep" => writeopen /\ (Empty \/ stranded \/ Wrote)
    /\ pc[p] = "w_sleep" => readopen /\ (Full \/ HasRead)

Inv == TypeOK /\ LockHeld /\ Ends /\ Tests /\ Sleepers

\* The number of bytes between two counters, and the bytes.
CountOf(r, w) == (w - r) % WRAP
RingOf(d, r, w) == [k \in 1..CountOf(r, w) |-> d[(r + k - 1) % PIPESIZE]]
Count == CountOf(nread, nwrite)

-----------------------------------------------------------------------------
(* Arithmetic of the ring.                                                  *)

LEMMA DivMod == ASSUME NEW P \in Nat \ {0}, NEW a \in Nat
  PROVE a % P \in 0..(P-1) /\ \E q \in Nat : a = q * P + (a % P)
<1>1. a % P \in 0..(P-1)
  OBVIOUS
<1>2. a \div P \in Nat 
  OBVIOUS
<1>3. a = (a \div P) * P + (a % P)
  OBVIOUS
<1> QED BY <1>1, <1>2, <1>3
LEMMA Multiples == ASSUME NEW P \in Nat \ {0}, NEW d \in Int, d * P > -P, d * P < P PROVE d = 0
<1>1. CASE d >= 1
  <2>1. d * P >= P
    BY <1>1
  <2> QED BY <2>1
<1>2. CASE d <= -1
  <2>1. d * P <= -P
    BY <1>2
  <2> QED BY <2>1
<1> QED BY <1>1, <1>2
LEMMA Shift == ASSUME NEW P \in Nat \ {0}, NEW x \in Nat, NEW k \in Nat PROVE (x + k * P) % P = x % P
<1>1. PICK q \in Nat : x = q * P + (x % P)
  BY DivMod
<1>2. x + k * P \in Nat
  OBVIOUS
<1>3. PICK s \in Nat : x + k * P = s * P + ((x + k * P) % P)
  BY DivMod, <1>2
<1> DEFINE m == x % P  t == (x + k * P) % P
<1>4. m \in 0..(P - 1) /\ t \in 0..(P - 1)
  BY DivMod, <1>2
<1>5. (s - q - k) * P = m - t
  <2>1. (s - q - k) * P = s * P - q * P - k * P
    OBVIOUS
  <2>2. s * P = x + k * P - t /\ q * P = x - m
    BY <1>1, <1>3, <1>4
  <2> QED
    BY <2>1, <2>2, <1>4
<1>6. s - q - k = 0
  <2> HIDE DEF m, t
  <2> QED
  BY <1>4, <1>5, Multiples
<1> QED
  BY <1>4, <1>5, <1>6
LEMMA Apart == ASSUME NEW P \in Nat \ {0}, NEW x \in Nat, NEW y \in Nat, x < y, y < x + P PROVE x % P # y % P
<1> SUFFICES ASSUME x % P = y % P PROVE FALSE
  OBVIOUS
<1>1. PICK q \in Nat : x = q * P + (x % P)
  BY DivMod
<1>2. PICK s \in Nat : y = s * P + (y % P)
  BY DivMod
<1>3. x % P \in Int
  BY DivMod
<1>4. y - x = (s - q) * P
  BY <1>1, <1>2, <1>3
<1>5. s - q = 0
  BY <1>4, Multiples
<1> QED
  BY <1>4, <1>5

LEMMA Counters ==
  ASSUME NEW a \in 0..(WRAP - 1), NEW b \in 0..(WRAP - 1)
  PROVE  /\ (a - b) % WRAP = IF a >= b THEN a - b ELSE a - b + WRAP
         /\ (a + 1) % WRAP = IF a + 1 = WRAP THEN 0 ELSE a + 1
<1>1. WRAP \in Nat \ {0}
  BY PipeAssumption
<1>2. ASSUME NEW x \in 0..(WRAP - 1) PROVE x % WRAP = x /\ (x + WRAP) % WRAP = x /\ (x - WRAP) % WRAP = x
  BY <1>1
<1>3. CASE a >= b
  BY <1>1, <1>2, <1>3
<1>4. CASE ~(a >= b)
  <2>1. (a - b + WRAP) \in 0..(WRAP - 1)
    BY <1>1, <1>4
  <2>2. (a - b) = (a - b + WRAP) - WRAP
    BY <1>1, <1>4
  <2>3. (a - b) % WRAP = a - b + WRAP
    BY <1>2, <2>1, <2>2
  <2> QED
   BY <1>1, <1>2, <1>4, <2>3
<1> QED BY <1>3, <1>4

\* A place in the ring does not change when a counter wraps.
LEMMA Place ==
  ASSUME NEW x \in Nat
  PROVE  (x + WRAP) % PIPESIZE = x % PIPESIZE
<1>1. PICK k \in 1..WRAP : WRAP = k * PIPESIZE
  BY PipeAssumption
<1>2. k \in Nat /\ PIPESIZE \in Nat \ {0}
  BY PipeAssumption
<1>3. (x + k * PIPESIZE) % PIPESIZE = x % PIPESIZE
  BY <1>2, Shift
<1> QED
  BY <1>1, <1>3

LEMMA CountIs ==
  ASSUME NEW r \in 0..(WRAP - 1), NEW w \in 0..(WRAP - 1)
  PROVE  /\ CountOf(r, w) = IF w >= r THEN w - r ELSE w - r + WRAP
         /\ CountOf(r, w) \in 0..(WRAP - 1)
         /\ r = w <=> CountOf(r, w) = 0
         /\ w = (r + PIPESIZE) % WRAP <=> CountOf(r, w) = PIPESIZE
         /\ w % PIPESIZE = (r + CountOf(r, w)) % PIPESIZE
<1>1. WRAP \in Nat /\ PIPESIZE \in Nat \ {0} /\ WRAP > PIPESIZE
  BY PipeAssumption
<1>2. CountOf(r, w) = IF w >= r THEN w - r ELSE w - r + WRAP
  BY Counters DEF CountOf
<1> DEFINE c == CountOf(r, w)
<1>3. c = IF w >= r THEN w - r ELSE w - r + WRAP
  BY <1>2
<1> HIDE DEF c
<1>4. c \in 0..(WRAP - 1) /\ (r = w <=> c = 0)
  BY <1>1, <1>3
<1>5. w = (r + PIPESIZE) % WRAP <=> c = PIPESIZE
  <2>1. CASE r + PIPESIZE < WRAP
    <3>1. (r + PIPESIZE) % WRAP = r + PIPESIZE
      BY <1>1, <2>1
    <3> QED
      BY <1>1, <1>3, <2>1, <3>1
  <2>2. CASE r + PIPESIZE >= WRAP
    <3>1. r + PIPESIZE - WRAP \in 0..(WRAP - 1)
      BY <1>1, <2>2
    <3>2. (r + PIPESIZE) % WRAP = r + PIPESIZE - WRAP
      BY <1>1, <2>2, <3>1
    <3> QED
      BY <1>1, <1>3, <2>2, <3>2
  <2> QED
    BY <1>1, <2>1, <2>2
<1>6. w % PIPESIZE = (r + c) % PIPESIZE
  <2>1. CASE w >= r
    <3>1. r + c = w
      BY <1>1, <1>3, <2>1
    <3> QED
      BY <3>1
  <2>2. CASE ~(w >= r)
    <3>1. r + c = w + WRAP /\ w \in Nat
      BY <1>1, <1>3, <2>2
    <3> QED
      BY <3>1, Place
  <2> QED
    BY <2>1, <2>2
<1> QED
  BY <1>2, <1>4, <1>5, <1>6 DEF c

LEMMA RingIsSeq ==
  ASSUME NEW r \in 0..(WRAP - 1), NEW w \in 0..(WRAP - 1),
         NEW d \in [0..(PIPESIZE - 1) -> Byte]
  PROVE  /\ RingOf(d, r, w) \in Seq(Byte)
         /\ Len(RingOf(d, r, w)) = CountOf(r, w)
         /\ \A k \in 1..CountOf(r, w) : /\ (r + k - 1) % PIPESIZE \in 0..(PIPESIZE - 1)
                                        /\ RingOf(d, r, w)[k] = d[(r + k - 1) % PIPESIZE]
<1> DEFINE c == CountOf(r, w)
           at(k) == (r + k - 1) % PIPESIZE
<1>1. WRAP \in Nat /\ PIPESIZE \in Nat \ {0} /\ c \in Nat
  BY PipeAssumption, CountIs
<1>2. \A k \in 1..c : at(k) \in 0..(PIPESIZE - 1)
  <2> SUFFICES ASSUME NEW k \in 1..c PROVE at(k) \in 0..(PIPESIZE - 1)
    OBVIOUS
  <2>1. r + k - 1 \in Nat
    BY <1>1
  <2> QED
    BY <1>1, <2>1, DivMod
<1>3. RingOf(d, r, w) = [k \in 1..c |-> d[at(k)]]
  BY DEF RingOf
<1> HIDE DEF c, at
<1>4. \A k \in 1..c : d[at(k)] \in Byte
  BY <1>2
<1>5. RingOf(d, r, w) \in Seq(Byte) /\ Len(RingOf(d, r, w)) = c
  BY <1>1, <1>3, <1>4
<1>6. \A k \in 1..c : RingOf(d, r, w)[k] = d[at(k)]
  BY <1>3
<1> QED
  BY <1>2, <1>5, <1>6 DEF c, at

\* A byte put into the ring is the last of the queue.
LEMMA PutIsAppend ==
  ASSUME NEW r \in 0..(WRAP - 1), NEW w \in 0..(WRAP - 1),
         NEW d \in [0..(PIPESIZE - 1) -> Byte], NEW c \in Byte,
         CountOf(r, w) < PIPESIZE
  PROVE  /\ RingOf([d EXCEPT ![w % PIPESIZE] = c], r, (w + 1) % WRAP) = Append(RingOf(d, r, w), c)
         /\ CountOf(r, (w + 1) % WRAP) = CountOf(r, w) + 1
<1> DEFINE m == CountOf(r, w)
           w1 == (w + 1) % WRAP
           d1 == [d EXCEPT ![w % PIPESIZE] = c]
           at(k) == (r + k - 1) % PIPESIZE
<1>1. WRAP \in Nat /\ PIPESIZE \in Nat \ {0} /\ WRAP > PIPESIZE
  BY PipeAssumption
<1>2. w1 = (IF w + 1 = WRAP THEN 0 ELSE w + 1) /\ w1 \in 0..(WRAP - 1)
  BY <1>1, Counters
<1>3. m \in Nat /\ m = IF w >= r THEN w - r ELSE w - r + WRAP
  BY CountIs
<1>4. CountOf(r, w1) = IF w1 >= r THEN w1 - r ELSE w1 - r + WRAP
  BY <1>2, CountIs
<1>5. CountOf(r, w1) = m + 1
  BY <1>1, <1>2, <1>3, <1>4
<1>6. d1 \in [0..(PIPESIZE - 1) -> Byte]
  OBVIOUS
<1>7. w % PIPESIZE = at(m + 1) /\ w % PIPESIZE \in 0..(PIPESIZE - 1)
  <2>1. r + (m + 1) - 1 = r + m /\ w \in Nat
    BY <1>1, <1>3
  <2>2. w % PIPESIZE = (r + m) % PIPESIZE
    BY CountIs
  <2> QED
    BY <1>1, <2>1, <2>2, DivMod
<1>8. ASSUME NEW k \in 1..m PROVE at(k) # at(m + 1)
  <2>1. r + k - 1 \in Nat /\ r + (m + 1) - 1 \in Nat /\ r + k - 1 < r + (m + 1) - 1 /\ r + (m + 1) - 1 < r + k - 1 + PIPESIZE
    BY <1>1, <1>3
  <2> QED
    BY <1>1, <2>1, Apart
<1> DEFINE Q == RingOf(d, r, w)
           Q1 == RingOf(d1, r, w1)
<1>9. /\ Q \in Seq(Byte) /\ Len(Q) = m
      /\ \A k \in 1..m : at(k) \in 0..(PIPESIZE - 1) /\ Q[k] = d[at(k)]
  BY RingIsSeq
<1>10. /\ Q1 \in Seq(Byte) /\ Len(Q1) = m + 1
       /\ \A k \in 1..(m + 1) : Q1[k] = d1[at(k)]
  <2> HIDE DEF d1, w1, m
  <2>1. /\ Q1 \in Seq(Byte) /\ Len(Q1) = CountOf(r, w1)
        /\ \A k \in 1..CountOf(r, w1) : Q1[k] = d1[at(k)]
    BY <1>2, <1>6, RingIsSeq
  <2> QED
    BY <2>1, <1>5
<1>11. d1[at(m + 1)] = c /\ \A k \in 1..m : d1[at(k)] = d[at(k)]
  BY <1>7, <1>8, <1>9
<1> HIDE DEF Q, Q1, m, at, d1, w1
<1>12. Append(Q, c) \in Seq(Byte) /\ Len(Append(Q, c)) = m + 1
  BY <1>9
<1>13. \A k \in 1..(m + 1) : Q1[k] = Append(Q, c)[k]
  <2> TAKE k \in 1..(m + 1)
  <2>1. CASE k = m + 1
    BY <1>3, <1>9, <1>10, <1>11, <2>1
  <2>2. CASE k # m + 1
    <3>1. k \in 1..m
      BY <1>3, <2>2
    <3>2. Append(Q, c)[k] = Q[k]
      BY <1>3, <1>9, <3>1
    <3> QED
      BY <1>3, <1>9, <1>10, <1>11, <3>1, <3>2
  <2> QED
    BY <2>1, <2>2
<1>14. Q1 = Append(Q, c)
  BY <1>10, <1>12, <1>13, SeqEqual
<1> QED
  BY <1>5, <1>14 DEF Q, Q1, m, d1, w1

\* The byte taken from the ring is the first of the queue.
LEMMA TakeIsTail ==
  ASSUME NEW r \in 0..(WRAP - 1), NEW w \in 0..(WRAP - 1),
         NEW d \in [0..(PIPESIZE - 1) -> Byte], r # w
  PROVE  /\ RingOf(d, r, w) # <<>>
         /\ d[r % PIPESIZE] = Head(RingOf(d, r, w))
         /\ RingOf(d, (r + 1) % WRAP, w) = Tail(RingOf(d, r, w))
         /\ CountOf((r + 1) % WRAP, w) = CountOf(r, w) - 1
<1> DEFINE m == CountOf(r, w)
           r1 == (r + 1) % WRAP
           at(k) == (r + k - 1) % PIPESIZE
<1>1. WRAP \in Nat /\ PIPESIZE \in Nat \ {0} /\ WRAP > PIPESIZE
  BY PipeAssumption
<1>2. r1 = (IF r + 1 = WRAP THEN 0 ELSE r + 1) /\ r1 \in 0..(WRAP - 1)
  BY <1>1, Counters
<1>3. m \in Nat \ {0} /\ m = IF w >= r THEN w - r ELSE w - r + WRAP
  BY CountIs
<1>4. CountOf(r1, w) = IF w >= r1 THEN w - r1 ELSE w - r1 + WRAP
  BY <1>2, CountIs
<1>5. CountOf(r1, w) = m - 1
  BY <1>1, <1>2, <1>3, <1>4
<1>6. ASSUME NEW k \in 1..(m - 1) PROVE (r1 + k - 1) % PIPESIZE = at(k + 1)
  <2>1. CASE r + 1 = WRAP
    <3>1. r + (k + 1) - 1 = (k - 1) + WRAP /\ r1 + k - 1 = k - 1 /\ k - 1 \in Nat
      BY <1>1, <1>2, <1>3, <2>1
    <3> QED
      BY <3>1, Place
  <2>2. CASE r + 1 # WRAP
    <3>1. r + (k + 1) - 1 = r1 + k - 1
      BY <1>1, <1>2, <1>3, <2>2
    <3> QED
      BY <3>1
  <2> QED
    BY <2>1, <2>2
<1> DEFINE Q == RingOf(d, r, w)
           Q1 == RingOf(d, r1, w)
<1>7. /\ Q \in Seq(Byte) /\ Len(Q) = m
      /\ \A k \in 1..m : Q[k] = d[at(k)]
  BY RingIsSeq
<1>8. /\ Q1 \in Seq(Byte) /\ Len(Q1) = m - 1
      /\ \A k \in 1..(m - 1) : Q1[k] = d[(r1 + k - 1) % PIPESIZE]
  <2> HIDE DEF r1, m
  <2>1. /\ Q1 \in Seq(Byte) /\ Len(Q1) = CountOf(r1, w)
        /\ \A k \in 1..CountOf(r1, w) : Q1[k] = d[(r1 + k - 1) % PIPESIZE]
    BY <1>2, RingIsSeq
  <2> QED
    BY <2>1, <1>5
<1>9. at(1) = r % PIPESIZE
  OBVIOUS
<1>10. \A k \in 1..(m - 1) : Q1[k] = d[at(k + 1)]
  BY <1>6, <1>8
<1> HIDE DEF Q, Q1, m, at, r1
<1>11. Q # <<>> /\ Head(Q) = d[r % PIPESIZE]
  BY <1>3, <1>7, <1>9
<1>12. Tail(Q) \in Seq(Byte) /\ Len(Tail(Q)) = m - 1 /\ \A k \in 1..(m - 1) : Tail(Q)[k] = Q[k + 1]
  BY <1>3, <1>7, <1>11
<1>13. \A k \in 1..(m - 1) : Q1[k] = Tail(Q)[k]
  BY <1>3, <1>7, <1>10, <1>12
<1>14. Q1 = Tail(Q)
  BY <1>8, <1>12, <1>13, SeqEqual
<1> QED
  BY <1>5, <1>11, <1>14 DEF Q, Q1, m, r1

\* A position in the ring, and a counter after one step.
LEMMA Positions ==
  /\ \A x \in 0..(WRAP - 1) : x % PIPESIZE \in 0..(PIPESIZE - 1)
  /\ \A x \in 0..(WRAP - 1) : (x + 1) % WRAP \in 0..(WRAP - 1)
  /\ \A x \in 0..(WRAP - 1) : (x + 1) % WRAP # x
<1>1. PIPESIZE \in Nat \ {0} /\ WRAP \in Nat /\ WRAP > 1
  BY PipeAssumption
<1>2. ASSUME NEW x \in 0..(WRAP - 1) PROVE x % PIPESIZE \in 0..(PIPESIZE - 1)
  BY <1>1, DivMod
<1>3. ASSUME NEW x \in 0..(WRAP - 1)
      PROVE  (x + 1) % WRAP \in 0..(WRAP - 1) /\ (x + 1) % WRAP # x
  <2>1. (x + 1) % WRAP = IF x + 1 = WRAP THEN 0 ELSE x + 1
    BY Counters
  <2> QED
    BY <1>1, <2>1
<1> QED
  BY <1>2, <1>3

-----------------------------------------------------------------------------
LEMMA InitInv == Init => Inv
<1> SUFFICES ASSUME Init PROVE Inv
  OBVIOUS
<1> USE DEF Init
<1>1. TypeOK
  <2>1. data \in [0..(PIPESIZE - 1) -> Byte]
    OBVIOUS
  <2>2. 0 \in 0..(WRAP - 1) /\ 0 \in 0..MaxN
    BY PipeAssumption
  <2>3. pc \in [Proc -> {"idle"} \cup WritePC \cup ReadPC \cup ClosePC]
    OBVIOUS
  <2> QED
    BY <2>1, <2>2, <2>3, PipeAssumption DEF TypeOK
<1>2. LockHeld /\ Tests /\ Sleepers
  BY PipeAssumption DEF LockHeld, Tests, Sleepers, Locked
<1>3. Ends
  BY DEF Ends, WritePC, ReadPC, ClosePC
<1> QED
  BY <1>1, <1>2, <1>3 DEF Inv

-----------------------------------------------------------------------------
(* One lemma for each action.                                               *)

LEMMA WriteCallInv == ASSUME Inv, NEW p \in Proc, NEW k \in 0..MaxN, WriteCall(p, k) PROVE Inv'
<1> USE PipeAssumption DEF Inv, WriteCall, Goto, ring, ends
<1>1. TypeOK'
  BY DEF TypeOK, WritePC, ReadPC, ClosePC
<1>2. LockHeld'
  BY DEF TypeOK, LockHeld, Locked
<1>3. Ends'
  BY DEF TypeOK, Ends, LockHeld, Locked, WritePC, ReadPC, ClosePC
<1>4. Tests'
  BY DEF TypeOK, Tests, LockHeld, Locked, Empty
<1>5. Sleepers'
  BY DEF TypeOK, Sleepers, Tests, LockHeld, Locked, Ends, ReadPC, WritePC, ClosePC, Empty, Full, Wrote, HasRead
<1> QED
  BY <1>1, <1>2, <1>3, <1>4, <1>5

LEMMA AcquireInv == ASSUME Inv, NEW p \in Proc, Acquire(p) PROVE Inv'
<1> USE PipeAssumption DEF Inv, Acquire, Goto, ring, ends
<1>1. TypeOK'
  BY DEF TypeOK, WritePC, ReadPC, ClosePC
<1>2. LockHeld'
  BY DEF TypeOK, LockHeld, Locked
<1>3. Ends'
  BY DEF TypeOK, Ends, LockHeld, Locked, WritePC, ReadPC, ClosePC
<1>4. Tests'
  BY DEF TypeOK, Tests, LockHeld, Locked, Empty
<1>5. Sleepers'
  BY DEF TypeOK, Sleepers, Tests, LockHeld, Locked, Ends, ReadPC, WritePC, ClosePC, Empty, Full, Wrote, HasRead
<1> QED
  BY <1>1, <1>2, <1>3, <1>4, <1>5

LEMMA WriteAbortInv == ASSUME Inv, NEW p \in Proc, WriteAbort(p) PROVE Inv'
<1> USE PipeAssumption DEF Inv, WriteAbort, Goto, Return, ring, ends
<1>1. TypeOK'
  BY DEF TypeOK, WritePC, ReadPC, ClosePC
<1>2. LockHeld'
  BY DEF TypeOK, LockHeld, Locked
<1>3. Ends'
  BY DEF TypeOK, Ends, LockHeld, Locked, WritePC, ReadPC, ClosePC
<1>4. Tests'
  BY DEF TypeOK, Tests, LockHeld, Locked, Empty
<1>5. Sleepers'
  BY DEF TypeOK, Sleepers, Tests, LockHeld, Locked, Ends, ReadPC, WritePC, ClosePC, Empty, Full, Wrote, HasRead
<1> QED
  BY <1>1, <1>2, <1>3, <1>4, <1>5

LEMMA WriteCheckInv == ASSUME Inv, NEW p \in Proc, WriteCheck(p) PROVE Inv'
<1> USE PipeAssumption DEF Inv, WriteCheck, Goto, ring, ends
<1>1. TypeOK'
  BY DEF TypeOK, WritePC, ReadPC, ClosePC
<1>2. LockHeld'
  BY DEF TypeOK, LockHeld, Locked
<1>3. Ends'
  BY DEF TypeOK, Ends, LockHeld, Locked, WritePC, ReadPC, ClosePC
<1>4. Tests'
  BY DEF TypeOK, Tests, LockHeld, Locked, Empty
<1>5. Sleepers'
  BY DEF TypeOK, Sleepers, Tests, LockHeld, Locked, Ends, ReadPC, WritePC, ClosePC, Empty, Full, Wrote, HasRead
<1> QED
  BY <1>1, <1>2, <1>3, <1>4, <1>5

LEMMA WriteFullInv == ASSUME Inv, NEW p \in Proc, WriteFull(p) PROVE Inv'
<1> USE PipeAssumption DEF Inv, WriteFull, Goto, WakeReaders, ring, ends
<1>1. TypeOK'
  BY DEF TypeOK, WritePC, ReadPC, ClosePC
<1>2. LockHeld'
  BY DEF TypeOK, LockHeld, Locked
<1>3. Ends'
  BY DEF TypeOK, Ends, LockHeld, Locked, WritePC, ReadPC, ClosePC
<1>4. Tests'
  BY DEF TypeOK, Tests, LockHeld, Locked, Empty
<1>5. Sleepers'
  BY DEF TypeOK, Sleepers, Tests, LockHeld, Locked, Ends, ReadPC, WritePC, ClosePC, Empty, Full, Wrote, HasRead
<1> QED
  BY <1>1, <1>2, <1>3, <1>4, <1>5

LEMMA WriteByteInv == ASSUME Inv, NEW p \in Proc, NEW c \in Byte, WriteByte(p, c) PROVE Inv'
<1> USE PipeAssumption DEF Inv, WriteByte, Goto, ends
<1>1. TypeOK'
  <2>1. nwrite' \in 0..(WRAP - 1)
    BY Positions DEF TypeOK
  <2>2. data' \in [0..(PIPESIZE - 1) -> Byte]
    BY Positions DEF TypeOK
  <2>3. i' \in [Proc -> 0..MaxN]
    BY DEF TypeOK, Tests
  <2> QED
    BY <2>1, <2>2, <2>3 DEF TypeOK, WritePC
<1>2. LockHeld'
  BY DEF TypeOK, LockHeld, Locked
<1>3. Ends'
  BY DEF TypeOK, Ends, LockHeld, Locked, WritePC, ReadPC, ClosePC
<1>4. Tests'
  BY DEF TypeOK, Tests, LockHeld, Locked, Empty
<1>5. Sleepers'
  BY DEF TypeOK, Sleepers, Tests, LockHeld, Locked, Ends, ReadPC, WritePC, ClosePC, Empty, Full, Wrote, HasRead
<1> QED
  BY <1>1, <1>2, <1>3, <1>4, <1>5

LEMMA WriteReturnInv == ASSUME Inv, NEW p \in Proc, WriteReturn(p) PROVE Inv'
<1> USE PipeAssumption DEF Inv, WriteReturn, Goto, Return, WakeReaders, ring, ends
<1>1. TypeOK'
  <2>1. n' \in [Proc -> 0..MaxN] /\ i' \in [Proc -> 0..MaxN]
    BY DEF TypeOK
  <2>2. pc' \in [Proc -> {"idle"} \cup WritePC \cup ReadPC \cup ClosePC]
    BY DEF TypeOK, ReadPC
  <2> QED
    BY <2>1, <2>2 DEF TypeOK
<1>2. LockHeld'
  BY DEF TypeOK, LockHeld, Locked
<1>3. Ends'
  BY DEF TypeOK, Ends, LockHeld, Locked, WritePC, ReadPC, ClosePC
<1>4. Tests'
  BY DEF TypeOK, Tests, LockHeld, Locked, Empty
<1>5. Sleepers'
  BY DEF TypeOK, Sleepers, Tests, LockHeld, Locked, Ends, ReadPC, WritePC, ClosePC, Empty, Full, Wrote, HasRead
<1> QED
  BY <1>1, <1>2, <1>3, <1>4, <1>5

LEMMA ReadCallInv == ASSUME Inv, NEW p \in Proc, NEW k \in 0..MaxN, ReadCall(p, k) PROVE Inv'
<1> USE PipeAssumption DEF Inv, ReadCall, Goto, ring, ends
<1>1. TypeOK'
  BY DEF TypeOK, WritePC, ReadPC, ClosePC
<1>2. LockHeld'
  BY DEF TypeOK, LockHeld, Locked
<1>3. Ends'
  BY DEF TypeOK, Ends, LockHeld, Locked, WritePC, ReadPC, ClosePC
<1>4. Tests'
  BY DEF TypeOK, Tests, LockHeld, Locked, Empty
<1>5. Sleepers'
  BY DEF TypeOK, Sleepers, Tests, LockHeld, Locked, Ends, ReadPC, WritePC, ClosePC, Empty, Full, Wrote, HasRead
<1> QED
  BY <1>1, <1>2, <1>3, <1>4, <1>5

LEMMA ReadAbortInv == ASSUME Inv, NEW p \in Proc, ReadAbort(p) PROVE Inv'
<1> USE PipeAssumption DEF Inv, ReadAbort, Goto, Return, ring, ends
<1>1. TypeOK'
  BY DEF TypeOK, WritePC, ReadPC, ClosePC
<1>2. LockHeld'
  BY DEF TypeOK, LockHeld, Locked
<1>3. Ends'
  BY DEF TypeOK, Ends, LockHeld, Locked, WritePC, ReadPC, ClosePC
<1>4. Tests'
  BY DEF TypeOK, Tests, LockHeld, Locked, Empty
<1>5. Sleepers'
  BY DEF TypeOK, Sleepers, Tests, LockHeld, Locked, Ends, ReadPC, WritePC, ClosePC, Empty, Full, Wrote, HasRead
<1> QED
  BY <1>1, <1>2, <1>3, <1>4, <1>5

LEMMA ReadCheckInv == ASSUME Inv, NEW p \in Proc, ReadCheck(p) PROVE Inv'
<1> USE PipeAssumption DEF Inv, ReadCheck, Goto, ring, ends
<1>1. TypeOK'
  BY DEF TypeOK, WritePC, ReadPC, ClosePC
<1>2. LockHeld'
  BY DEF TypeOK, LockHeld, Locked
<1>3. Ends'
  BY DEF TypeOK, Ends, LockHeld, Locked, WritePC, ReadPC, ClosePC
<1>4. Tests'
  BY DEF TypeOK, Tests, LockHeld, Locked, Empty
<1>5. Sleepers'
  BY DEF TypeOK, Sleepers, Tests, LockHeld, Locked, Ends, ReadPC, WritePC, ClosePC, Empty, Full, Wrote, HasRead
<1> QED
  BY <1>1, <1>2, <1>3, <1>4, <1>5

LEMMA ReadSleepInv == ASSUME Inv, NEW p \in Proc, ReadSleep(p) PROVE Inv'
<1> USE PipeAssumption DEF Inv, ReadSleep, Goto, ring, ends
<1>1. TypeOK'
  BY DEF TypeOK, WritePC, ReadPC, ClosePC
<1>2. LockHeld'
  BY DEF TypeOK, LockHeld, Locked
<1>3. Ends'
  BY DEF TypeOK, Ends, LockHeld, Locked, WritePC, ReadPC, ClosePC
<1>4. Tests'
  BY DEF TypeOK, Tests, LockHeld, Locked, Empty
<1>5. Sleepers'
  BY DEF TypeOK, Sleepers, Tests, LockHeld, Locked, Ends, ReadPC, WritePC, ClosePC, Empty, Full, Wrote, HasRead
<1> QED
  BY <1>1, <1>2, <1>3, <1>4, <1>5

LEMMA ReadEnterInv == ASSUME Inv, NEW p \in Proc, ReadEnter(p) PROVE Inv'
<1> USE PipeAssumption DEF Inv, ReadEnter, Goto, ring, ends
<1>1. TypeOK'
  BY DEF TypeOK, WritePC, ReadPC, ClosePC
<1>2. LockHeld'
  BY DEF TypeOK, LockHeld, Locked
<1>3. Ends'
  BY DEF TypeOK, Ends, LockHeld, Locked, WritePC, ReadPC, ClosePC
<1>4. Tests'
  BY DEF TypeOK, Tests, LockHeld, Locked, Empty
<1>5. Sleepers'
  BY DEF TypeOK, Sleepers, Tests, LockHeld, Locked, Ends, ReadPC, WritePC, ClosePC, Empty, Full, Wrote, HasRead
<1> QED
  BY <1>1, <1>2, <1>3, <1>4, <1>5

LEMMA ReadByteInv == ASSUME Inv, NEW p \in Proc, ReadByte(p) PROVE Inv'
<1> USE PipeAssumption DEF Inv, ReadByte, TakeByte, ends
<1>1. TypeOK'
  <2>1. nread' \in 0..(WRAP - 1) /\ taken' \in Byte
    BY Positions DEF TypeOK
  <2>2. i' \in [Proc -> 0..MaxN]
    BY DEF TypeOK
  <2> QED
    BY <2>1, <2>2 DEF TypeOK
<1>2. LockHeld'
  BY DEF TypeOK, LockHeld, Locked
<1>3. Ends'
  BY DEF TypeOK, Ends, LockHeld, Locked, WritePC, ReadPC, ClosePC
<1>4. Tests'
  BY DEF TypeOK, Tests, LockHeld, Locked, Empty
<1>5. Sleepers'
  BY DEF TypeOK, Sleepers, Tests, LockHeld, Locked, Ends, ReadPC, WritePC, ClosePC, Empty, Full, Wrote, HasRead
<1> QED
  BY <1>1, <1>2, <1>3, <1>4, <1>5

LEMMA ReadReturnInv == ASSUME Inv, NEW p \in Proc, ReadReturn(p) PROVE Inv'
<1> USE PipeAssumption DEF Inv, ReadReturn, Goto, Return, WakeWriters, ring, ends
<1>1. TypeOK'
  BY DEF TypeOK, WritePC, ReadPC, ClosePC
<1>2. LockHeld'
  BY DEF TypeOK, LockHeld, Locked
<1>3. Ends'
  BY DEF TypeOK, Ends, LockHeld, Locked, WritePC, ReadPC, ClosePC
<1>4. Tests'
  BY DEF TypeOK, Tests, LockHeld, Locked, Empty
<1>5. Sleepers'
  BY DEF TypeOK, Sleepers, Tests, LockHeld, Locked, Ends, ReadPC, WritePC, ClosePC, Empty, Full, Wrote, HasRead
<1> QED
  BY <1>1, <1>2, <1>3, <1>4, <1>5

LEMMA ReadFaultInv == ASSUME Inv, NEW p \in Proc, ReadFault(p) PROVE Inv'
<1> USE PipeAssumption DEF Inv, ReadFault, Goto, Return, TakeByte, WakeWriters, ends
<1>1. TypeOK'
  <2>1. nread' \in 0..(WRAP - 1) /\ taken' \in Byte
    BY Positions DEF TypeOK
  <2>2. n' \in [Proc -> 0..MaxN] /\ i' \in [Proc -> 0..MaxN]
    BY DEF TypeOK
  <2>3. pc' \in [Proc -> {"idle"} \cup WritePC \cup ReadPC \cup ClosePC]
    BY DEF TypeOK, WritePC
  <2> QED
    BY <2>1, <2>2, <2>3 DEF TypeOK
<1>2. LockHeld'
  BY DEF TypeOK, LockHeld, Locked
<1>3. Ends'
  BY DEF TypeOK, Ends, LockHeld, Locked, WritePC, ReadPC, ClosePC
<1>4. Tests'
  BY DEF TypeOK, Tests, LockHeld, Locked, Empty
<1>5. Sleepers'
  BY DEF TypeOK, Sleepers, Tests, LockHeld, Locked, Ends, ReadPC, WritePC, ClosePC, Empty, Full, Wrote, HasRead
<1> QED
  BY <1>1, <1>2, <1>3, <1>4, <1>5

LEMMA CloseReadInv == ASSUME Inv, NEW p \in Proc, CloseRead(p) PROVE Inv'
<1> USE PipeAssumption DEF Inv, CloseRead, Goto, ring
<1>1. TypeOK'
  BY DEF TypeOK, WritePC, ReadPC, ClosePC
<1>2. LockHeld'
  BY DEF TypeOK, LockHeld, Locked
<1>3. Ends'
  BY DEF TypeOK, Ends, LockHeld, Locked, WritePC, ReadPC, ClosePC
<1>4. Tests'
  BY DEF TypeOK, Tests, LockHeld, Locked, Empty
<1>5. Sleepers'
  BY DEF TypeOK, Sleepers, Tests, LockHeld, Locked, Ends, ReadPC, WritePC, ClosePC, Empty, Full, Wrote, HasRead
<1> QED
  BY <1>1, <1>2, <1>3, <1>4, <1>5

LEMMA CloseWriteInv == ASSUME Inv, NEW p \in Proc, CloseWrite(p) PROVE Inv'
<1> USE PipeAssumption DEF Inv, CloseWrite, Goto, ring
<1>1. TypeOK'
  BY DEF TypeOK, WritePC, ReadPC, ClosePC
<1>2. LockHeld'
  BY DEF TypeOK, LockHeld, Locked
<1>3. Ends'
  BY DEF TypeOK, Ends, LockHeld, Locked, WritePC, ReadPC, ClosePC
<1>4. Tests'
  BY DEF TypeOK, Tests, LockHeld, Locked, Empty
<1>5. Sleepers'
  BY DEF TypeOK, Sleepers, Tests, LockHeld, Locked, Ends, ReadPC, WritePC, ClosePC, Empty, Full, Wrote, HasRead
<1> QED
  BY <1>1, <1>2, <1>3, <1>4, <1>5

LEMMA PipeCloseInv == ASSUME Inv, NEW p \in Proc, PipeClose(p) PROVE Inv'
<1> USE PipeAssumption DEF Inv, PipeClose, Goto, WakeReaders, WakeWriters, ring
<1>1. TypeOK'
  BY DEF TypeOK, WritePC, ReadPC, ClosePC
<1>2. LockHeld'
  BY DEF TypeOK, LockHeld, Locked
<1>3. Ends'
  BY DEF TypeOK, Ends, LockHeld, Locked, WritePC, ReadPC, ClosePC
<1>4. Tests'
  BY DEF TypeOK, Tests, LockHeld, Locked, Empty
<1>5. Sleepers'
  BY DEF TypeOK, Sleepers, Tests, LockHeld, Locked, Ends, ReadPC, WritePC, ClosePC, Empty, Full, Wrote, HasRead
<1> QED
  BY <1>1, <1>2, <1>3, <1>4, <1>5

LEMMA KillInv == ASSUME Inv, NEW p \in Proc, Kill(p) PROVE Inv'
<1> USE PipeAssumption DEF Inv, Kill, Goto, ring, ends
<1>1. TypeOK'
  BY DEF TypeOK, WritePC, ReadPC, ClosePC
<1>2. LockHeld'
  BY DEF TypeOK, LockHeld, Locked
<1>3. Ends'
  BY DEF TypeOK, Ends, LockHeld, Locked, WritePC, ReadPC, ClosePC
<1>4. Tests'
  BY DEF TypeOK, Tests, LockHeld, Locked, Empty
<1>5. Sleepers'
  BY DEF TypeOK, Sleepers, Tests, LockHeld, Locked, Ends, ReadPC, WritePC, ClosePC, Empty, Full, Wrote, HasRead
<1> QED
  BY <1>1, <1>2, <1>3, <1>4, <1>5

-----------------------------------------------------------------------------
(* The ring as a queue.                                                     *)

RingBound == CountOf(nread, nwrite) <= PIPESIZE

\* A step that moves neither the ring nor the ends is invisible; closing an end closes
\* the end of the queue.
LEMMA QueueIs == Queue = RingOf(data, nread, nwrite) /\ Queue' = RingOf(data', nread', nwrite')
BY DEF Queue, RingOf, CountOf

LEMMA StillFifo ==
  ASSUME Inv, RingBound, UNCHANGED <<ring, readopen, writeopen>>
  PROVE  RingBound' /\ UNCHANGED Fifo!fvars
BY QueueIs DEF ring, RingBound, Fifo!fvars

LEMMA PutFifo ==
  ASSUME Inv, RingBound, NEW p \in Proc, NEW c \in Byte, WriteByte(p, c)
  PROVE  RingBound' /\ Fifo!FPut(c)
<1> USE PipeAssumption DEF Inv, TypeOK
<1>1. readopen /\ writeopen
  BY DEF WriteByte, Tests, Ends, WritePC
<1>2. CountOf(nread, nwrite) \in Nat /\ CountOf(nread, nwrite) < PIPESIZE
  <2>1. CountOf(nread, nwrite) \in 0..(WRAP - 1) /\ (Full <=> CountOf(nread, nwrite) = PIPESIZE)
    BY CountIs DEF Full
  <2>2. ~Full /\ CountOf(nread, nwrite) <= PIPESIZE
    BY DEF WriteByte, RingBound
  <2> QED
    BY <2>1, <2>2, PipeAssumption
<1>3. /\ nwrite' = (nwrite + 1) % WRAP /\ nread' = nread
      /\ data' = [data EXCEPT ![nwrite % PIPESIZE] = c]
      /\ UNCHANGED <<taken, readopen, writeopen>>
  BY DEF WriteByte, ends
<1>4. Queue' = Append(Queue, c) /\ CountOf(nread', nwrite') = CountOf(nread, nwrite) + 1
  <2>1. /\ RingOf([data EXCEPT ![nwrite % PIPESIZE] = c], nread, (nwrite + 1) % WRAP)
             = Append(RingOf(data, nread, nwrite), c)
        /\ CountOf(nread, (nwrite + 1) % WRAP) = CountOf(nread, nwrite) + 1
    BY <1>2, PutIsAppend
  <2> QED
    BY <1>3, <2>1, QueueIs
<1>5. Len(Queue) < PIPESIZE
  BY <1>2, RingIsSeq, QueueIs
<1>6. RingBound'
  BY <1>2, <1>4, PipeAssumption DEF RingBound
<1> QED
  BY <1>1, <1>3, <1>4, <1>5, <1>6 DEF Fifo!FPut

LEMMA TakeFifo ==
  ASSUME Inv, RingBound, NEW p \in Proc, p \in rfd, ~Empty, TakeByte, UNCHANGED ends
  PROVE  RingBound' /\ Fifo!FTake
<1> USE PipeAssumption DEF Inv, TypeOK
<1>1. readopen
  BY DEF Ends
<1>2. CountOf(nread, nwrite) \in Nat /\ nread # nwrite
  <2>1. CountOf(nread, nwrite) \in 0..(WRAP - 1)
    BY CountIs
  <2> QED
    BY <2>1, PipeAssumption DEF Empty
<1>3. /\ nread' = (nread + 1) % WRAP /\ nwrite' = nwrite /\ data' = data
      /\ taken' = data[nread % PIPESIZE]
      /\ UNCHANGED <<readopen, writeopen>>
  BY DEF TakeByte, ends
<1>4. /\ Queue # <<>> /\ taken' = Head(Queue) /\ Queue' = Tail(Queue)
      /\ CountOf(nread', nwrite') = CountOf(nread, nwrite) - 1
  <2>1. /\ RingOf(data, nread, nwrite) # <<>>
        /\ data[nread % PIPESIZE] = Head(RingOf(data, nread, nwrite))
        /\ RingOf(data, (nread + 1) % WRAP, nwrite) = Tail(RingOf(data, nread, nwrite))
        /\ CountOf((nread + 1) % WRAP, nwrite) = CountOf(nread, nwrite) - 1
    BY <1>2, TakeIsTail
  <2> QED
    BY <1>3, <2>1, QueueIs
<1>5. RingBound'
  BY <1>2, <1>4, PipeAssumption DEF RingBound
<1> QED
  BY <1>1, <1>3, <1>4, <1>5 DEF Fifo!FTake

LEMMA CloseFifo ==
  ASSUME Inv, RingBound, NEW p \in Proc, PipeClose(p)
  PROVE  RingBound' /\ (Fifo!FCloseRead \/ Fifo!FCloseWrite)
<1> USE PipeAssumption DEF Inv, TypeOK
<1>1. UNCHANGED ring /\ pc[p] \in ClosePC
  BY DEF PipeClose
<1>2. RingBound' /\ UNCHANGED <<Queue, taken>>
  BY <1>1, QueueIs DEF ring, RingBound
<1>3. CASE pc[p] = "close_read"
  <2>1. readopen /\ readopen' = FALSE /\ writeopen' = writeopen
    BY <1>3 DEF PipeClose, Ends
  <2> QED
    BY <1>2, <2>1 DEF Fifo!FCloseRead
<1>4. CASE pc[p] = "close_write"
  <2>1. writeopen /\ writeopen' = FALSE /\ readopen' = readopen
    BY <1>4 DEF PipeClose, Ends
  <2> QED
    BY <1>2, <2>1 DEF Fifo!FCloseWrite
<1> QED
  BY <1>1, <1>3, <1>4 DEF ClosePC

LEMMA FifoStep ==
  ASSUME Inv, RingBound, [Next]_vars
  PROVE  RingBound' /\ (Fifo!FNext \/ UNCHANGED Fifo!fvars)
<1>1. CASE UNCHANGED vars
  BY <1>1, StillFifo DEF vars, ends
<1>2. ASSUME NEW p \in Proc, NEW k \in 0..MaxN, WriteCall(p, k) \/ ReadCall(p, k)
      PROVE  UNCHANGED <<ring, readopen, writeopen>>
  BY <1>2 DEF WriteCall, ReadCall, ends
<1>3. ASSUME NEW p \in Proc, Acquire(p) \/ FileClose(p) \/ Kill(p)
      PROVE  UNCHANGED <<ring, readopen, writeopen>>
  BY <1>3 DEF Acquire, FileClose, CloseRead, CloseWrite, Kill, ends
<1>4. ASSUME NEW p \in Proc, NEW c \in Byte, WriteByte(p, c)
      PROVE  RingBound' /\ Fifo!FNext
  BY <1>4, PutFifo DEF Fifo!FNext
<1>5. ASSUME NEW p \in Proc, WriteAbort(p) \/ WriteCheck(p) \/ WriteFull(p) \/ WriteReturn(p)
      PROVE  UNCHANGED <<ring, readopen, writeopen>>
  BY <1>5 DEF WriteAbort, WriteCheck, WriteFull, WriteReturn, ends
<1>6. ASSUME NEW p \in Proc, ReadByte(p) \/ ReadFault(p)
      PROVE  RingBound' /\ Fifo!FNext
  <2>1. p \in rfd
    BY <1>6 DEF Inv, Ends, ReadPC, ReadByte, ReadFault
  <2>2. ~Empty /\ TakeByte /\ UNCHANGED ends
    BY <1>6 DEF ReadByte, ReadFault
  <2> QED
    BY <2>1, <2>2, TakeFifo DEF Fifo!FNext
<1>7. ASSUME NEW p \in Proc, ReadAbort(p) \/ ReadCheck(p) \/ ReadSleep(p) \/ ReadEnter(p) \/ ReadReturn(p)
      PROVE  UNCHANGED <<ring, readopen, writeopen>>
  BY <1>7 DEF ReadAbort, ReadCheck, ReadSleep, ReadEnter, ReadReturn, ends
<1>8. ASSUME NEW p \in Proc, PipeClose(p)
      PROVE  RingBound' /\ Fifo!FNext
  BY <1>8, CloseFifo DEF Fifo!FNext
<1> QED
  BY <1>1, <1>2, <1>3, <1>4, <1>5, <1>6, <1>7, <1>8, StillFifo DEF Next, PipeWrite, PipeRead

-----------------------------------------------------------------------------
LEMMA InvNext == ASSUME Inv, [Next]_vars PROVE Inv'
<1>1. CASE UNCHANGED vars
  BY <1>1 DEF vars, ring, ends, Inv, TypeOK, LockHeld, Ends, Tests, Sleepers, Wrote, HasRead, Empty, Full
<1>2. ASSUME NEW p \in Proc, NEW k \in 0..MaxN, WriteCall(p, k) \/ ReadCall(p, k) PROVE Inv'
  BY <1>2, WriteCallInv, ReadCallInv
<1>3. ASSUME NEW p \in Proc, PipeWrite(p) PROVE Inv'
  BY <1>3, WriteAbortInv, WriteCheckInv, WriteFullInv, WriteByteInv, WriteReturnInv DEF PipeWrite
<1>4. ASSUME NEW p \in Proc, PipeRead(p) PROVE Inv'
  BY <1>4, ReadAbortInv, ReadCheckInv, ReadSleepInv, ReadEnterInv, ReadByteInv, ReadReturnInv,
     ReadFaultInv DEF PipeRead
<1>5. ASSUME NEW p \in Proc, Acquire(p) \/ FileClose(p) \/ PipeClose(p) \/ Kill(p) PROVE Inv'
  BY <1>5, AcquireInv, CloseReadInv, CloseWriteInv, PipeCloseInv, KillInv DEF FileClose
<1> QED
  BY <1>1, <1>2, <1>3, <1>4, <1>5 DEF Next

\* The only way out of the copy loop with nothing read is an empty ring, and a
\* reader entered that loop for another reason.
LEMMA EofStep == ASSUME Inv, [Next]_vars PROVE ReadEndsClosed
<1> SUFFICES ASSUME NEW p \in Proc,
                    pc[p] = "r_copy", pc'[p] = "idle", i[p] = 0, n[p] > 0, nread' = nread
             PROVE  Empty /\ ~writeopen
  BY DEF ReadEndsClosed
<1>1. ~(Empty /\ writeopen) /\ pc \in [Proc -> {"idle"} \cup WritePC \cup ReadPC \cup ClosePC]
  BY DEF Inv, Tests, TypeOK
<1> SUFFICES Empty
  BY <1>1
<1>2. ASSUME NEW q \in Proc, NEW k \in 0..MaxN, WriteCall(q, k) \/ ReadCall(q, k) PROVE Empty
  BY <1>1, <1>2 DEF WriteCall, ReadCall, Goto
<1>3. ASSUME NEW q \in Proc, PipeWrite(q) PROVE Empty
  BY <1>1, <1>3 DEF PipeWrite, WriteAbort, WriteCheck, WriteFull, WriteByte, WriteReturn, Goto, WakeReaders
<1>4. ASSUME NEW q \in Proc, ReadAbort(q) \/ ReadCheck(q) \/ ReadSleep(q) \/ ReadEnter(q) \/ ReadByte(q) PROVE Empty
  BY <1>1, <1>4 DEF ReadAbort, ReadCheck, ReadSleep, ReadEnter, ReadByte, Goto
<1>5. ASSUME NEW q \in Proc, ReadReturn(q) PROVE Empty
  <2>1. CASE q = p
    BY <1>5, <2>1 DEF ReadReturn, Inv, TypeOK
  <2>2. CASE q # p
    BY <1>1, <1>5, <2>2 DEF ReadReturn, Goto, WakeWriters
  <2> QED
    BY <2>1, <2>2
<1>6. ASSUME NEW q \in Proc, ReadFault(q) PROVE Empty
  BY <1>6, Positions DEF ReadFault, TakeByte, Inv, TypeOK
<1>7. ASSUME NEW q \in Proc, Acquire(q) \/ FileClose(q) \/ PipeClose(q) \/ Kill(q) PROVE Empty
  BY <1>1, <1>7 DEF Acquire, FileClose, CloseRead, CloseWrite, PipeClose, Kill, Goto, WakeReaders,
     WakeWriters, ClosePC
<1>8. CASE UNCHANGED vars
  BY <1>1, <1>8 DEF vars
<1> QED
  BY <1>2, <1>3, <1>4, <1>5, <1>6, <1>7, <1>8 DEF Next, PipeRead

-----------------------------------------------------------------------------
\* What the invariant says of a pipe that has been freed, and of sleepers.
LEMMA InvSafe == ASSUME Inv PROVE NoUseAfterFree /\ NoLostWakeup
<1>1. NoUseAfterFree
  BY DEF Inv, TypeOK, Ends, NoUseAfterFree, ClosePC
<1>2. NoLostWakeup
  BY PipeAssumption DEF Inv, TypeOK, Sleepers, Wrote, HasRead, NoLostWakeup
<1> QED
  BY <1>1, <1>2

\* The empty pipe is the empty queue.
LEMMA FifoInit == ASSUME Init PROVE RingBound /\ Fifo!FInit
<1>1. CountOf(nread, nwrite) = 0 /\ RingBound
  BY PipeAssumption, CountIs DEF Init, RingBound
<1>2. Queue = <<>>
  BY <1>1 DEF Queue, CountOf
<1> QED
  BY <1>1, <1>2 DEF Init, Fifo!FInit

LEMMA Inductive == Spec => [](Inv /\ RingBound)
<1>1. Init => Inv /\ RingBound
  BY InitInv, FifoInit
<1>2. Inv /\ RingBound /\ [Next]_vars => Inv' /\ RingBound'
  BY InvNext, FifoStep
<1> QED
  BY <1>1, <1>2, PTL DEF Spec

\* The types of Pipe, and the lock: whoever is between acquire and release of
\* pi->lock holds it, and nobody else does.
THEOREM LockSafe == Spec => [](TypeOK /\ LockHeld)
<1>1. Inv => TypeOK /\ LockHeld
  BY DEF Inv
<1> QED
  BY <1>1, Inductive, PTL

\* No process is in piperead, pipewrite or pipeclose after kfree(pi).
THEOREM FreeSafe == Spec => []NoUseAfterFree
BY Inductive, InvSafe, PTL

\* No reader sleeps on bytes that are there or on a closed pipe, no writer on
\* room that is there: sleep() and wakeup() on pi->nread and pi->nwrite match.
THEOREM WakeupsMatch == Spec => []NoLostWakeup
BY Inductive, InvSafe, PTL

\* read() returns 0 only at the end of the pipe.
THEOREM EofHolds == Spec => EofMeansClosed
BY Inductive, EofStep, PTL DEF Spec, EofMeansClosed

\* The ring of pipe.c implements the bounded queue.
THEOREM PipeIsFifo == Spec => FifoSpec
<1>1. Init => Fifo!FInit
  BY FifoInit
<1>2. Inv /\ RingBound /\ [Next]_vars => [Fifo!FNext]_(Fifo!fvars)
  BY FifoStep
<1> QED
  BY <1>1, <1>2, Inductive, PTL DEF Spec, FifoSpec, Fifo!FSpec
=============================================================================
