--------------------------- MODULE DirectoryProofs ---------------------------
(***************************************************************************)
(* Proofs about module Directory: for any number of processes, inodes and   *)
(* names and any set of flat calls (FlatCalls), the inode layer reaches     *)
(* no panic and no circular wait, reference counts are exact, and           *)
(* entries, link counts and the tree of directories agree.                  *)
(*                                                                          *)
(* Inv is the inductive invariant.  A step that changes only the table and  *)
(* the variables of one process is Quiet, and what it may do to other       *)
(* processes' locks and copies is stated once (QuietStep).  The steps that   *)
(* change the disk or what somebody puts use LoudStep: all that Inv says     *)
(* but for what it says of the other processes, which the step spares        *)
(* (Spares).                                                                *)
(*                                                                          *)
(* References and links are counted with Count: a step changes a function   *)
(* at one point (Changed), and so a count by one (CountOne).                *)
(***************************************************************************)
EXTENDS MCDirectory, FiniteSetTheorems, TLAPS

\* Directories are made in the root only, by an absolute path.  With directories in
\* directories the code itself breaks NoPanic: the entry ".." of a removed directory
\* may lead to an inode that has been freed (the run dir_parent shows it).
FlatCalls == \A c \in Calls : c.kind = "mkdir" => c.path.abs /\ Len(c.path.elems) <= 1

Same(x, y) == IF x = y THEN 1 ELSE 0

Nth(t, n) == IF n <= Len(t) THEN t[n] ELSE None

\* How often f takes the value v on S.
Count(S, f, v) == Cardinality({s \in S : f[s] = v})

-----------------------------------------------------------------------------
(* Counting.                                                                *)

\* Same is 0 or 1.
LEMMA SameNat == \A x, y : Same(x, y) \in 0..1
BY DEF Same

\* A count is a natural number.
LEMMA CountNat ==
  ASSUME NEW S, IsFiniteSet(S), NEW f, NEW v
  PROVE  IsFiniteSet({s \in S : f[s] = v}) /\ Count(S, f, v) \in Nat
<1>1. {s \in S : f[s] = v} \subseteq S
  OBVIOUS
<1> QED
  BY <1>1, FS_Subset, FS_CardinalityType DEF Count

\* One value changed.
Changed(S, s, f, g) == s \in S /\ \A t \in S : t # s => g[t] = f[t]

\* A change at one point changes a count by what it takes and brings.
LEMMA CountOne ==
  ASSUME NEW S, IsFiniteSet(S), NEW f, NEW g, NEW s, Changed(S, s, f, g), NEW v
  PROVE  Count(S, g, v) = Count(S, f, v) - Same(f[s], v) + Same(g[s], v)
<1>0. s \in S /\ \A t \in S : t # s => g[t] = f[t]
  BY DEF Changed
<1> DEFINE F == {t \in S : f[t] = v}
           G == {t \in S : g[t] = v}
           R == {t \in S \ {s} : f[t] = v}
<1>1. R \subseteq S /\ IsFiniteSet(R) /\ s \notin R
  <2>1. R \subseteq S
    OBVIOUS
  <2> QED
    BY <2>1, FS_Subset
<1>2. Cardinality(R) \in Nat /\ Cardinality(R \cup {s}) = Cardinality(R) + 1
  BY <1>1, FS_AddElement, FS_CardinalityType
<1>3. (f[s] = v => F = R \cup {s}) /\ (f[s] # v => F = R)
  BY <1>0
<1>4. (g[s] = v => G = R \cup {s}) /\ (g[s] # v => G = R)
  BY <1>0
<1> HIDE DEF F, G, R
<1>5. Cardinality(F) = Cardinality(R) + Same(f[s], v)
  <2>1. CASE f[s] = v
    BY <1>2, <1>3, <2>1 DEF Same
  <2>2. CASE f[s] # v
    BY <1>2, <1>3, <2>2 DEF Same
  <2> QED
    BY <2>1, <2>2
<1>6. Cardinality(G) = Cardinality(R) + Same(g[s], v)
  <2>1. CASE g[s] = v
    BY <1>2, <1>4, <2>1 DEF Same
  <2>2. CASE g[s] # v
    BY <1>2, <1>4, <2>2 DEF Same
  <2> QED
    BY <2>1, <2>2
<1>7. Count(S, f, v) = Cardinality(F) /\ Count(S, g, v) = Cardinality(G)
  BY DEF Count, F, G
<1>8. Same(f[s], v) \in Int /\ Same(g[s], v) \in Int
  BY DEF Same
<1> QED
  BY <1>2, <1>5, <1>6, <1>7, <1>8

\* No change, no change of the count.
LEMMA CountSame ==
  ASSUME NEW S, NEW f, NEW g, \A t \in S : g[t] = f[t], NEW v
  PROVE  Count(S, g, v) = Count(S, f, v)
<1>1. {t \in S : g[t] = v} = {t \in S : f[t] = v}
  OBVIOUS
<1> QED
  BY <1>1 DEF Count

\* Values that only leave v.
LEMMA CountLess ==
  ASSUME NEW S, IsFiniteSet(S), NEW f, NEW g, NEW v, \A t \in S : g[t] = v => f[t] = v
  PROVE  Count(S, g, v) <= Count(S, f, v)
<1> DEFINE F == {t \in S : f[t] = v}
           G == {t \in S : g[t] = v}
<1>1. IsFiniteSet(F) /\ Count(S, f, v) \in Nat
  BY CountNat
<1>3. G \subseteq F
  OBVIOUS
<1> HIDE DEF F, G
<1>2. Cardinality(G) <= Cardinality(F)
  BY <1>1, <1>3, FS_Subset
<1> QED
  BY <1>2 DEF Count, F, G

\* What occurs is counted.
LEMMA CountPos ==
  ASSUME NEW S, IsFiniteSet(S), NEW f, NEW s \in S, NEW v, f[s] = v
  PROVE  Count(S, f, v) >= 1
<1>1. IsFiniteSet({t \in S : f[t] = v}) /\ Count(S, f, v) \in Nat
  BY CountNat
<1>2. Count(S, f, v) # 0
  BY <1>1, FS_EmptySet DEF Count
<1> QED
  BY <1>1, <1>2

\* What does not occur is not.
LEMMA CountNone ==
  ASSUME NEW S, IsFiniteSet(S), NEW f, NEW v
  PROVE  Count(S, f, v) = 0 <=> \A s \in S : f[s] # v
<1>1. IsFiniteSet({t \in S : f[t] = v}) /\ Count(S, f, v) \in Nat
  BY CountNat
<1> QED
  BY <1>1, FS_EmptySet DEF Count

\* Two occurrences count two.
LEMMA CountTwo ==
  ASSUME NEW S, IsFiniteSet(S), NEW f, NEW s \in S, NEW t \in S, s # t, NEW v, f[s] = v, f[t] = v
  PROVE  Count(S, f, v) >= 2
<1>1. IsFiniteSet({x \in S : f[x] = v}) /\ Count(S, f, v) \in Nat
  BY CountNat
<1>2. Count(S, f, v) >= 1
  BY CountPos
<1>3. Count(S, f, v) # 1
  <2>1. SUFFICES ASSUME Count(S, f, v) = 1 PROVE FALSE
    OBVIOUS
  <2>2. PICK z : {x \in S : f[x] = v} = {z}
    BY <1>1, <2>1, FS_Singleton DEF Count
  <2> QED
    BY <2>2
<1> QED
  BY <1>1, <1>2, <1>3

-----------------------------------------------------------------------------
(* References: what a process holds.                                        *)

Fields == {"at", "dp", "ip"}
InLoc(l) == [x \in Procs \X Fields |-> l[x[1]][x[2]]]
InTodo(t) == [x \in Procs \X {1, 2} |-> Nth(t[x[1]], x[2])]

HeldOf(l, c, f, t, i) ==
  (Count(Procs \X Fields, InLoc(l), i) + (Count(Procs, c, i) + Count(Procs, f, i)))
  + Count(Procs \X {1, 2}, InTodo(t), i)

\* What one process holds of i.
LocBy(l, i) == (Same(l.at, i) + Same(l.dp, i)) + Same(l.ip, i)
TodoBy(t, i) == Same(Nth(t, 1), i) + Same(Nth(t, 2), i)
HeldBy(l, c, f, t, i) == (LocBy(l, i) + (Same(c, i) + Same(f, i))) + TodoBy(t, i)

\* The sets that are counted over are finite.
LEMMA ProcSets ==
  IsFiniteSet(Procs) /\ IsFiniteSet(Procs \X Fields) /\ IsFiniteSet(Procs \X {1, 2})
<1>1. IsFiniteSet({"at", "dp", "ip"}) /\ IsFiniteSet({1, 2})
  <2>1. IsFiniteSet({"at"}) /\ IsFiniteSet({1})
    BY FS_Singleton
  <2>2. IsFiniteSet({"at"} \cup {"dp"}) /\ IsFiniteSet({1} \cup {2})
    BY <2>1, FS_AddElement
  <2>3. IsFiniteSet(({"at"} \cup {"dp"}) \cup {"ip"})
    BY <2>2, FS_AddElement
  <2>4. {"at", "dp", "ip"} = ({"at"} \cup {"dp"}) \cup {"ip"} /\ {1, 2} = {1} \cup {2}
    OBVIOUS
  <2> QED
    BY <2>2, <2>3, <2>4
<1> QED
  BY <1>1, FS_Product, DirectoryAssumption DEF Fields

\* Held, the property's count of holders, in terms of Count.
LEMMA HeldIs ==
  ASSUME NEW i \in Inum
  PROVE  Held(i) = HeldOf(loc, cwd, fd, todo, i)
<1>1. {x \in Procs \X {"at", "dp", "ip"} : loc[x[1]][x[2]] = i} = {x \in Procs \X Fields : InLoc(loc)[x] = i}
  BY DEF Fields, InLoc
<1>2. {x \in Procs \X {1, 2} : x[2] <= Len(todo[x[1]]) /\ todo[x[1]][x[2]] = i}
        = {x \in Procs \X {1, 2} : InTodo(todo)[x] = i}
  BY DEF InTodo, Nth, Inum, None
<1>3. /\ Count(Procs \X Fields, InLoc(loc), i) \in Nat /\ Count(Procs, cwd, i) \in Nat
      /\ Count(Procs, fd, i) \in Nat /\ Count(Procs \X {1, 2}, InTodo(todo), i) \in Nat
  BY ProcSets, CountNat
<1>4. Held(i) = Count(Procs \X Fields, InLoc(loc), i) + Count(Procs, cwd, i) + Count(Procs, fd, i)
                  + Count(Procs \X {1, 2}, InTodo(todo), i)
  BY <1>1, <1>2 DEF Held, Count
<1> QED
  BY <1>3, <1>4 DEF HeldOf

\* It is a natural number.
LEMMA HeldNat ==
  ASSUME NEW l, NEW c, NEW f, NEW t, NEW i
  PROVE  HeldOf(l, c, f, t, i) \in Nat
<1>1. /\ Count(Procs \X Fields, InLoc(l), i) \in Nat /\ Count(Procs, c, i) \in Nat
      /\ Count(Procs, f, i) \in Nat /\ Count(Procs \X {1, 2}, InTodo(t), i) \in Nat
  BY ProcSets, CountNat
<1> QED
  BY <1>1 DEF HeldOf

\* Only p changes what it holds.
Others(p, f, g) == Changed(Procs, p, f, g)
Lists(t) == \A q \in Procs : Len(t[q]) \in Nat

\* A step of p changes the holders of an inode by what p held and holds.
LEMMA HeldMove ==
  ASSUME NEW p \in Procs, NEW i \in Inum,
         NEW l, NEW c, NEW f, NEW t, NEW l2, NEW c2, NEW f2, NEW t2,
         Lists(t), Lists(t2), Others(p, l, l2), Others(p, c, c2), Others(p, f, f2), Others(p, t, t2)
  PROVE  HeldOf(l2, c2, f2, t2, i)
           = HeldOf(l, c, f, t, i) - HeldBy(l[p], c[p], f[p], t[p], i)
             + HeldBy(l2[p], c2[p], f2[p], t2[p], i)
<1> DEFINE S == Procs \X Fields
           R == Procs \X {1, 2}
           e0 == InLoc(l)
           e1 == [e0 EXCEPT ![<<p, "at">>] = l2[p].at]
           e2 == [e1 EXCEPT ![<<p, "dp">>] = l2[p].dp]
           e3 == InLoc(l2)
           d0 == InTodo(t)
           d2 == InTodo(t2)
           d1 == [d0 EXCEPT ![<<p, 1>>] = d2[<<p, 1>>]]
<1>1. /\ <<p, "at">> \in S /\ <<p, "dp">> \in S /\ <<p, "ip">> \in S
      /\ <<p, 1>> \in R /\ <<p, 2>> \in R
  BY DEF Fields
<1>2. \A x \in S : x = <<x[1], x[2]>> /\ x[1] \in Procs /\ x[2] \in Fields
  OBVIOUS
<1>3. \A x \in S : x # <<p, "at">> => e1[x] = e0[x]
  BY DEF InLoc, Others, Changed
<1>4. \A x \in S : x # <<p, "dp">> => e2[x] = e1[x]
  BY DEF InLoc, Others, Changed
<1>5. \A x \in S : x # <<p, "ip">> => e3[x] = e2[x]
  <2>1. SUFFICES ASSUME NEW x \in S, x # <<p, "ip">> PROVE e3[x] = e2[x]
    OBVIOUS
  <2>2. PICK q \in Procs, y \in Fields : x = <<q, y>>
    BY <2>1
  <2>3. CASE q # p
    BY <2>2, <2>3 DEF InLoc, Others, Changed
  <2>4. CASE q = p /\ y = "at"
    BY <2>2, <2>4 DEF InLoc
  <2>5. CASE q = p /\ y = "dp"
    BY <2>2, <2>5 DEF InLoc
  <2> QED
    BY <2>1, <2>2, <2>3, <2>4, <2>5 DEF Fields
<1>6. /\ e0[<<p, "at">>] = l[p].at /\ e1[<<p, "at">>] = l2[p].at
      /\ e1[<<p, "dp">>] = l[p].dp /\ e2[<<p, "dp">>] = l2[p].dp
      /\ e2[<<p, "ip">>] = l[p].ip /\ e3[<<p, "ip">>] = l2[p].ip
  BY <1>1 DEF InLoc
<1>7. /\ \A x \in R : x = <<x[1], x[2]>> /\ x[1] \in Procs /\ x[2] \in {1, 2}
  OBVIOUS
<1>8. /\ \A x \in R : x # <<p, 1>> => d1[x] = d0[x]
      /\ \A x \in R : x # <<p, 2>> => d2[x] = d1[x]
  BY <1>1, <1>7 DEF InTodo, Others, Changed, Lists
<1>9. /\ d0[<<p, 1>>] = Nth(t[p], 1)
      /\ d1[<<p, 1>>] = Nth(t2[p], 1)
      /\ d1[<<p, 2>>] = Nth(t[p], 2)
      /\ d2[<<p, 2>>] = Nth(t2[p], 2)
  BY <1>1 DEF InTodo
<1> HIDE DEF S, R, e0, e1, e2, e3, d0, d2, d1
<1>10. IsFiniteSet(S) /\ IsFiniteSet(R) /\ IsFiniteSet(Procs)
  BY ProcSets DEF S, R
<1>11. /\ Count(S, e1, i) = Count(S, e0, i) - Same(l[p].at, i) + Same(l2[p].at, i)
       /\ Count(S, e2, i) = Count(S, e1, i) - Same(l[p].dp, i) + Same(l2[p].dp, i)
       /\ Count(S, e3, i) = Count(S, e2, i) - Same(l[p].ip, i) + Same(l2[p].ip, i)
  <2>1. Count(S, e1, i) = Count(S, e0, i) - Same(e0[<<p, "at">>], i) + Same(e1[<<p, "at">>], i)
    <3> DEFINE s == <<p, "at">>
    <3>1. Changed(S, s, e0, e1)
      BY <1>1, <1>3 DEF Changed
    <3> HIDE DEF s
    <3>2. Count(S, e1, i) = Count(S, e0, i) - Same(e0[s], i) + Same(e1[s], i)
      BY <1>10, <3>1, CountOne
    <3> QED
      BY <3>2 DEF s
  <2>2. Count(S, e2, i) = Count(S, e1, i) - Same(e1[<<p, "dp">>], i) + Same(e2[<<p, "dp">>], i)
    <3> DEFINE s == <<p, "dp">>
    <3>1. Changed(S, s, e1, e2)
      BY <1>1, <1>4 DEF Changed
    <3> HIDE DEF s
    <3>2. Count(S, e2, i) = Count(S, e1, i) - Same(e1[s], i) + Same(e2[s], i)
      BY <1>10, <3>1, CountOne
    <3> QED
      BY <3>2 DEF s
  <2>3. Count(S, e3, i) = Count(S, e2, i) - Same(e2[<<p, "ip">>], i) + Same(e3[<<p, "ip">>], i)
    <3> DEFINE s == <<p, "ip">>
    <3>1. Changed(S, s, e2, e3)
      BY <1>1, <1>5 DEF Changed
    <3> HIDE DEF s
    <3>2. Count(S, e3, i) = Count(S, e2, i) - Same(e2[s], i) + Same(e3[s], i)
      BY <1>10, <3>1, CountOne
    <3> QED
      BY <3>2 DEF s
  <2> QED
    BY <1>6, <2>1, <2>2, <2>3
<1>12. /\ Count(Procs, c2, i) = Count(Procs, c, i) - Same(c[p], i) + Same(c2[p], i)
       /\ Count(Procs, f2, i) = Count(Procs, f, i) - Same(f[p], i) + Same(f2[p], i)
  <2>1. Count(Procs, c2, i) = Count(Procs, c, i) - Same(c[p], i) + Same(c2[p], i)
    BY <1>10, CountOne DEF Others
  <2>2. Count(Procs, f2, i) = Count(Procs, f, i) - Same(f[p], i) + Same(f2[p], i)
    BY <1>10, CountOne DEF Others
  <2> QED
    BY <2>1, <2>2
<1>13. /\ Count(R, d1, i) = Count(R, d0, i) - Same(Nth(t[p], 1), i)
                            + Same(Nth(t2[p], 1), i)
       /\ Count(R, d2, i) = Count(R, d1, i) - Same(Nth(t[p], 2), i)
                            + Same(Nth(t2[p], 2), i)
  <2>1. Count(R, d1, i) = Count(R, d0, i) - Same(d0[<<p, 1>>], i) + Same(d1[<<p, 1>>], i)
    <3> DEFINE s == <<p, 1>>
    <3>1. Changed(R, s, d0, d1)
      BY <1>1, <1>8 DEF Changed
    <3> HIDE DEF s
    <3>2. Count(R, d1, i) = Count(R, d0, i) - Same(d0[s], i) + Same(d1[s], i)
      BY <1>10, <3>1, CountOne
    <3> QED
      BY <3>2 DEF s
  <2>2. Count(R, d2, i) = Count(R, d1, i) - Same(d1[<<p, 2>>], i) + Same(d2[<<p, 2>>], i)
    <3> DEFINE s == <<p, 2>>
    <3>1. Changed(R, s, d1, d2)
      BY <1>1, <1>8 DEF Changed
    <3> HIDE DEF s
    <3>2. Count(R, d2, i) = Count(R, d1, i) - Same(d1[s], i) + Same(d2[s], i)
      BY <1>10, <3>1, CountOne
    <3> QED
      BY <3>2 DEF s
  <2> QED
    BY <1>9, <2>1, <2>2
<1>14. /\ Count(S, e0, i) \in Int /\ Count(S, e1, i) \in Int /\ Count(S, e2, i) \in Int /\ Count(S, e3, i) \in Int
       /\ Count(R, d0, i) \in Int /\ Count(R, d1, i) \in Int /\ Count(R, d2, i) \in Int
       /\ Count(Procs, c, i) \in Int /\ Count(Procs, f, i) \in Int
       /\ Count(Procs, c2, i) \in Int /\ Count(Procs, f2, i) \in Int
  <2>1. ASSUME NEW x, NEW y, IsFiniteSet(x) PROVE Count(x, y, i) \in Int
    <3>1. Count(x, y, i) \in Nat
      BY <2>1, CountNat
    <3> QED
      BY <3>1
  <2> QED
    BY <1>10, <2>1
<1>16. \A x : Same(x, i) \in Int
  BY DEF Same
<1>17. Count(S, e3, i) = Count(S, e0, i) - LocBy(l[p], i) + LocBy(l2[p], i)
  <2> DEFINE x1 == Same(l[p].at, i)  x2 == Same(l[p].dp, i)  x3 == Same(l[p].ip, i)
             y1 == Same(l2[p].at, i) y2 == Same(l2[p].dp, i) y3 == Same(l2[p].ip, i)
  <2>1. x1 \in Int /\ x2 \in Int /\ x3 \in Int /\ y1 \in Int /\ y2 \in Int /\ y3 \in Int
    BY <1>16
  <2>2. /\ Count(S, e1, i) = Count(S, e0, i) - x1 + y1
        /\ Count(S, e2, i) = Count(S, e1, i) - x2 + y2
        /\ Count(S, e3, i) = Count(S, e2, i) - x3 + y3
    BY <1>11
  <2>3. LocBy(l[p], i) = (x1 + x2) + x3 /\ LocBy(l2[p], i) = (y1 + y2) + y3
    BY DEF LocBy
  <2> HIDE DEF x1, x2, x3, y1, y2, y3
  <2>4. Count(S, e2, i) = Count(S, e0, i) - (x1 + x2) + (y1 + y2)
    BY <1>14, <2>1, <2>2
  <2> DEFINE x == x1 + x2  y == y1 + y2
  <2>5. x \in Int /\ y \in Int
    BY <2>1
  <2>6. Count(S, e2, i) = Count(S, e0, i) - x + y
    BY <2>4
  <2>7. LocBy(l[p], i) = x + x3 /\ LocBy(l2[p], i) = y + y3
    BY <2>3
  <2> HIDE DEF x, y
  <2> QED
    BY <1>14, <2>1, <2>2, <2>5, <2>6, <2>7
<1>18. Count(R, d2, i) = Count(R, d0, i) - TodoBy(t[p], i) + TodoBy(t2[p], i)
  <2> DEFINE x1 == Same(Nth(t[p], 1), i)  x2 == Same(Nth(t[p], 2), i)
             y1 == Same(Nth(t2[p], 1), i) y2 == Same(Nth(t2[p], 2), i)
  <2>1. x1 \in Int /\ x2 \in Int /\ y1 \in Int /\ y2 \in Int
    BY <1>16
  <2>2. /\ Count(R, d1, i) = Count(R, d0, i) - x1 + y1
        /\ Count(R, d2, i) = Count(R, d1, i) - x2 + y2
    BY <1>13
  <2>3. TodoBy(t[p], i) = x1 + x2 /\ TodoBy(t2[p], i) = y1 + y2
    BY DEF TodoBy
  <2> HIDE DEF x1, x2, y1, y2
  <2> QED
    BY <1>14, <2>1, <2>2, <2>3
<1>19. Count(Procs, c2, i) + Count(Procs, f2, i)
         = (Count(Procs, c, i) + Count(Procs, f, i)) - (Same(c[p], i) + Same(f[p], i)) + (Same(c2[p], i) + Same(f2[p], i))
  <2> DEFINE x1 == Same(c[p], i)  x2 == Same(f[p], i)
             y1 == Same(c2[p], i) y2 == Same(f2[p], i)
  <2>1. x1 \in Int /\ x2 \in Int /\ y1 \in Int /\ y2 \in Int
    BY <1>16
  <2>2. /\ Count(Procs, c2, i) = Count(Procs, c, i) - x1 + y1
        /\ Count(Procs, f2, i) = Count(Procs, f, i) - x2 + y2
    BY <1>12
  <2> HIDE DEF x1, x2, y1, y2
  <2>3. Count(Procs, c2, i) + Count(Procs, f2, i)
          = (Count(Procs, c, i) + Count(Procs, f, i)) - (x1 + x2) + (y1 + y2)
    BY <1>14, <2>1, <2>2
  <2> QED
    BY <2>3 DEF x1, x2, y1, y2
<1> DEFINE k == Count(Procs, c, i) + Count(Procs, f, i)
           k2 == Count(Procs, c2, i) + Count(Procs, f2, i)
           m == Same(c[p], i) + Same(f[p], i)
           m2 == Same(c2[p], i) + Same(f2[p], i)
<1>20. k \in Int /\ k2 \in Int
  BY <1>14
<1>21. m \in Int /\ m2 \in Int
  <2>1. Same(c[p], i) \in Int /\ Same(f[p], i) \in Int /\ Same(c2[p], i) \in Int /\ Same(f2[p], i) \in Int
    BY <1>16
  <2> HIDE DEF k, k2
  <2> QED
    BY <2>1
<1>22. LocBy(l[p], i) \in Int /\ LocBy(l2[p], i) \in Int
  <2>1. \A x : LocBy(x, i) \in Int
    BY <1>16 DEF LocBy
  <2> QED
    BY <2>1
<1>23. TodoBy(t[p], i) \in Int /\ TodoBy(t2[p], i) \in Int
  <2>1. \A x : TodoBy(x, i) \in Int
    BY <1>16 DEF TodoBy
  <2> QED
    BY <2>1
<1>24. /\ HeldBy(l[p], c[p], f[p], t[p], i) = (LocBy(l[p], i) + m) + TodoBy(t[p], i)
       /\ HeldBy(l2[p], c2[p], f2[p], t2[p], i) = (LocBy(l2[p], i) + m2) + TodoBy(t2[p], i)
  BY DEF HeldBy
<1>25. /\ HeldOf(l, c, f, t, i) = (Count(S, e0, i) + k) + Count(R, d0, i)
       /\ HeldOf(l2, c2, f2, t2, i) = (Count(S, e3, i) + k2) + Count(R, d2, i)
  BY DEF HeldOf, S, R, e0, e3, d0, d2
<1>26. k2 = k - m + m2
  BY <1>19
<1> HIDE DEF k, k2, m, m2
<1> DEFINE x == Count(S, e3, i) + k2
           y == Count(S, e0, i) + k
           n == LocBy(l[p], i) + m
           n2 == LocBy(l2[p], i) + m2
<1>27. x = y - n + n2
  BY <1>14, <1>17, <1>20, <1>21, <1>22, <1>26
<1>28. x \in Int /\ y \in Int /\ n \in Int /\ n2 \in Int
  BY <1>14, <1>20, <1>21, <1>22
<1>29. /\ HeldOf(l, c, f, t, i) = y + Count(R, d0, i) /\ HeldOf(l2, c2, f2, t2, i) = x + Count(R, d2, i)
       /\ HeldBy(l[p], c[p], f[p], t[p], i) = n + TodoBy(t[p], i)
       /\ HeldBy(l2[p], c2[p], f2[p], t2[p], i) = n2 + TodoBy(t2[p], i)
  BY <1>24, <1>25
<1> HIDE DEF x, y, n, n2
<1> QED
  BY <1>14, <1>18, <1>23, <1>27, <1>28, <1>29

-----------------------------------------------------------------------------
(* The inductive invariant.                                                 *)

Opt(S) == S \cup {None}
Places == {"idle", "walk", "open", "c_found", "create", "c_init", "c_return", "bad", "unlink", "u_child",
           "u_dec", "link_inc", "link_dir", "link_undo", "chdir", "chdir2", "g_scan", "g_next"}
Goals == {"none", "open", "create", "link_inc", "link_dir", "unlink", "chdir"}
Local == [pc : Places, call : Opt(Calls), at : Opt(Inum), rest : Seq(Names \cup Dots), goal : Goals,
          dp : Opt(Inum), ip : Opt(Inum), cur : Opt(Inum), last : Opt(Inum), up : Opt(Inum)]
Todo == {<<>>} \cup {<<i>> : i \in Inum} \cup {<<i, j>> : i \in Inum, j \in Inum}

AllTypes ==
  /\ disk \in [Inum -> Dinode]
  /\ ents \in [Inum -> [Names \cup Dots -> Inum \cup {None}]]
  /\ ref \in [Inum -> Nat]
  /\ mem \in [Inum -> [valid : BOOLEAN, type : {"free", "dir", "file", "dev"}, nlink : Nat]]
  /\ lock \in [Inum -> Procs \cup {None}]
  /\ cwd \in [Procs -> Inum \cup {None}]
  /\ fd \in [Procs -> Inum \cup {None}]
  /\ put \in [Procs -> {"test", "trunc", "release", "drop"}]
  /\ lost \in Nat
  /\ stray \subseteq Inum
  /\ loc \in [Procs -> Local]
  /\ todo \in [Procs -> Todo]

\* The next inode that p puts, and the one after it.
Next1(p) == Nth(todo[p], 1)
Next2(p) == Nth(todo[p], 2)

\* The local variables that are in use at each place.
AtPlaces == {"walk", "g_scan"}
DpPlaces == {"create", "unlink", "link_dir", "c_init", "bad", "u_child"}
IpPlaces == {"open", "link_inc", "chdir", "c_found", "c_init", "c_return", "u_child", "u_dec",
             "link_dir", "link_undo", "chdir2"}
Linking(l) == l.pc \in {"link_dir", "link_undo"} \/ (l.pc = "walk" /\ l.goal = "link_dir")

Shape(p) ==
  LET l == loc[p] IN
    /\ l.at # None <=> l.pc \in AtPlaces
    /\ l.dp # None <=> l.pc \in DpPlaces
    /\ l.ip # None <=> l.pc \in IpPlaces \/ Linking(l)
    /\ cwd[p] = None <=> l.pc = "chdir2"
    /\ l.pc \in {"create", "unlink", "link_dir", "c_init", "u_child"} => Len(l.rest) = 1
    /\ l.pc \notin {"idle", "g_scan", "g_next"} => l.call \in Calls
    /\ l.pc = "walk" => l.goal \in {"link_dir", Goal(l.call.kind)}
    /\ l.pc = "g_scan" => l.last = l.at
    /\ l.pc = "g_next" => l.up = Root
    /\ l.pc = "walk" /\ l.goal # "link_dir" /\ l.call.kind = "mkdir" => l.at = Root /\ Len(l.rest) <= 1
    /\ l.pc \in {"create", "c_init"} /\ l.call.kind = "mkdir" => l.dp = Root
    /\ put[p] # "test" => Next1(p) # None
    /\ l.pc \in {"c_init", "u_child"} => Next1(p) = None

Alive(i) == disk[i].type # "free"
IsDir(i) == disk[i].type = "dir"
HasDots(i) == ents[i]["."] = i /\ ents[i][".."] = Root
Bare(i) == \A n \in Names \cup Dots : ents[i][n] = None

\* What a process holds is allocated, but for the inode that it has freed.
Living(p) ==
  LET l == loc[p] IN
    /\ l.at # None => Alive(l.at)
    /\ l.dp # None => Alive(l.dp)
    /\ l.ip # None => Alive(l.ip)
    /\ cwd[p] # None => Alive(cwd[p])
    /\ fd[p] # None => Alive(fd[p])
    /\ Next1(p) # None /\ put[p] \in {"test", "trunc"} => Alive(Next1(p))
    /\ Next2(p) # None => Alive(Next2(p))

\* Parents and current directories are directories, a directory that can be walked
\* has its entries "." and "..".
Dirs(p) ==
  LET l == loc[p] IN
    /\ l.dp # None => IsDir(l.dp) /\ HasDots(l.dp)
    /\ cwd[p] # None => IsDir(cwd[p]) /\ HasDots(cwd[p])
    /\ l.pc = "g_scan" => IsDir(l.at)
    /\ l.pc = "chdir2" => IsDir(l.ip)
    /\ Linking(l) => ~IsDir(l.ip)
    /\ l.at # None /\ IsDir(l.at) => HasDots(l.at)
    /\ l.ip # None /\ l.pc # "c_init" /\ IsDir(l.ip) => HasDots(l.ip)

\* The entries that a process has looked up stay, because it has locked the directory.
Making(p) ==
  loc[p].pc = "c_init" =>
    /\ disk[loc[p].ip].nlink = 0 /\ disk[loc[p].ip].type = TypeOf(loc[p].call.kind)
    /\ Bare(loc[p].ip)
    /\ ents[loc[p].dp][Last(p)] = None
Erasing(p) ==
  /\ loc[p].pc = "u_child" => ents[loc[p].dp][Last(p)] = loc[p].ip /\ Last(p) \in Names
  /\ loc[p].pc = "u_dec" /\ IsDir(loc[p].ip) => \A n \in Names : ents[loc[p].ip][n] = None

\* Nobody else has come to an inode that is being made.
Fresh(p) ==
  loc[p].pc = "c_init" => \A q \in Procs :
    /\ loc[q].at # loc[p].ip /\ loc[q].dp # loc[p].ip /\ cwd[q] # loc[p].ip
    /\ q # p => loc[q].ip # loc[p].ip

HasLock(p, i) ==
  \/ put[p] \in {"trunc", "release"} /\ Next1(p) = i
  \/ loc[p].pc \in {"c_init", "u_child", "bad"} /\ loc[p].dp = i
  \/ loc[p].pc \in {"c_return", "u_dec"} /\ loc[p].ip = i
Locks(p) == \A i \in Inum : lock[i] = p <=> HasLock(p, i)

Truncs(p) ==
  /\ put[p] = "trunc" => ref[Next1(p)] = 1 /\ disk[Next1(p)].nlink = 0
  /\ put[p] = "release" /\ Alive(Next1(p)) =>
       \E q \in Procs : loc[q].pc = "c_init" /\ loc[q].ip = Next1(p)

RefSum == \A i \in Inum : ref[i] = HeldOf(loc, cwd, fd, todo, i) + (IF i = Root THEN lost ELSE 0)

\* A copy with type 0 is about to be dropped.
Copied(i) ==
  /\ lock[i] # None => mem[i].valid
  /\ mem[i].valid /\ ref[i] > 0 =>
       \/ mem[i].type # "free" /\ mem[i].type = disk[i].type /\ mem[i].nlink = disk[i].nlink
       \/ mem[i].type = "free" /\ lock[i] # None /\ put[lock[i]] = "release" /\ Next1(lock[i]) = i

Entries == \A d \in Inum : \A n \in Names : ents[d][n] # None =>
  /\ IsDir(d) /\ HasDots(d)
  /\ ents[d][n] # Root /\ Alive(ents[d][n])
  /\ IsDir(ents[d][n]) => d = Root /\ HasDots(ents[d][n])
OneName == \A d, e \in Inum : \A m, n \in Names :
  ents[d][m] # None /\ ents[d][m] = ents[e][n] /\ IsDir(ents[d][m]) => d = e /\ m = n
RootOK == IsDir(Root) /\ HasDots(Root) /\ Root \notin stray
FreeBare == \A i \in Inum : ~Alive(i) => Bare(i)

\* Links that are owed to an inode: its names, its subdirectories, and the links
\* that link() has counted early and unlink() not yet taken back.
NamesIn(m) == [e \in Inum \X Names |-> m[e[1]][e[2]]]
KidsIn(d, m) == [j \in Inum |-> IF d[j].type = "dir" /\ \E e \in Inum \X Names : m[e[1]][e[2]] = j THEN Root ELSE None]
LinkersIn(l) == [p \in Procs |-> IF Linking(l[p]) THEN l[p].ip ELSE None]
DecsIn(l) == [p \in Procs |-> IF l[p].pc = "u_dec" THEN l[p].ip ELSE None]
Owed(d, m, l, i) ==
  (Count(Inum \X Names, NamesIn(m), i) + (Count(Inum, KidsIn(d, m), i) + (IF i = Root THEN 1 ELSE 0)))
  + (Count(Procs, LinkersIn(l), i) + Count(Procs, DecsIn(l), i))

Counted(i) == Alive(i) =>
  /\ disk[i].nlink >= Owed(disk, ents, loc, i)
  /\ i \notin stray => disk[i].nlink = Owed(disk, ents, loc, i)
Orphans(d) == IsDir(d) /\ disk[d].nlink = 0 =>
  \A n \in Names : ents[d][n] # None => ents[d][n] \in stray
Kept(i) == Alive(i) /\ disk[i].nlink = 0 /\ i \notin stray =>
  ref[i] > 0 /\ (mem[i].valid \/ \E p \in Procs : loc[p].pc = "c_init" /\ loc[p].ip = i)

Climbing == {p \in Procs : loc[p].pc \in {"g_scan", "g_next"}}
LostFew == lost + Cardinality(Climbing) <= MaxLost + Cardinality(Procs)

Inv ==
  /\ AllTypes
  /\ \A p \in Procs : Shape(p) /\ Living(p) /\ Dirs(p) /\ Making(p) /\ Erasing(p) /\ Fresh(p) /\ Locks(p) /\ Truncs(p)
  /\ RefSum
  /\ \A i \in Inum : Copied(i) /\ Counted(i) /\ Orphans(i) /\ Kept(i)
  /\ Entries /\ OneName /\ RootOK /\ FreeBare
  /\ LostFew

-----------------------------------------------------------------------------
(* Facts about the state.                                                   *)

\* 0 is no inode and no process.
LEMMA NoInode == None \notin Inum /\ Root \in Inum /\ Inum \subseteq Nat /\ None \notin Procs
BY DirectoryAssumption DEF None, Inum, Root

\* No inode is not an inode.
LEMMA SameNone == \A x \in Inum : Same(None, x) = 0 /\ Same(x, x) = 1
BY NoInode DEF Same

\* The elements of the short lists.
LEMMA NthOf ==
  /\ Nth(<<>>, 1) = None /\ Nth(<<>>, 2) = None
  /\ \A d : Nth(<<d>>, 1) = d /\ Nth(<<d>>, 2) = None
  /\ \A d, e : Nth(<<d, e>>, 1) = d /\ Nth(<<d, e>>, 2) = e
BY DEF Nth

\* What the list of inodes to put can be.
LEMMA TodoOf ==
  ASSUME NEW t \in Todo
  PROVE  /\ Len(t) \in Nat
         /\ Nth(t, 1) \in Opt(Inum) /\ Nth(t, 2) \in Opt(Inum)
         /\ t = <<>> <=> Nth(t, 1) = None
         /\ Nth(t, 1) = None => Nth(t, 2) = None
         /\ t # <<>> => /\ Head(t) = Nth(t, 1) /\ Tail(t) \in Todo
                        /\ Nth(Tail(t), 1) = Nth(t, 2) /\ Nth(Tail(t), 2) = None
<1>1. CASE t = <<>>
  BY <1>1, NthOf DEF Opt
<1>2. CASE \E i \in Inum : t = <<i>>
  <2>1. PICK i \in Inum : t = <<i>>
    BY <1>2
  <2>2. Len(t) = 1 /\ t # <<>> /\ Head(t) = i /\ Tail(t) = <<>>
    BY <2>1
  <2>3. Nth(t, 1) = i /\ Nth(t, 2) = None /\ Nth(Tail(t), 1) = None /\ Nth(Tail(t), 2) = None
    BY <2>1, <2>2, NthOf
  <2>4. i # None /\ i \in Opt(Inum) /\ None \in Opt(Inum) /\ Tail(t) \in Todo
    BY <2>2, NoInode DEF Opt, Todo
  <2> QED
    BY <2>2, <2>3, <2>4
<1>3. CASE \E i, j \in Inum : t = <<i, j>>
  <2>1. PICK i \in Inum, j \in Inum : t = <<i, j>>
    BY <1>3
  <2>2. Len(t) = 2 /\ t # <<>> /\ Head(t) = i /\ Tail(t) = <<j>>
    BY <2>1
  <2>3. Nth(t, 1) = i /\ Nth(t, 2) = j /\ Nth(Tail(t), 1) = j /\ Nth(Tail(t), 2) = None
    BY <2>1, <2>2, NthOf
  <2>4. i # None /\ i \in Opt(Inum) /\ j \in Opt(Inum) /\ Tail(t) \in Todo
    BY <2>2, NoInode DEF Opt, Todo
  <2> QED
    BY <2>2, <2>3, <2>4
<1> QED
  BY <1>1, <1>2, <1>3 DEF Todo

\* The list of p, and what it puts next.
LEMMA TodoIs ==
  ASSUME AllTypes, NEW p \in Procs
  PROVE  /\ todo[p] \in Todo /\ Lists(todo)
         /\ Next1(p) \in Opt(Inum) /\ Next2(p) \in Opt(Inum)
         /\ todo[p] = <<>> <=> Next1(p) = None
         /\ Next1(p) = None => Next2(p) = None
         /\ todo[p] # <<>> => /\ Head(todo[p]) = Next1(p) /\ Tail(todo[p]) \in Todo
                              /\ Nth(Tail(todo[p]), 1) = Next2(p) /\ Nth(Tail(todo[p]), 2) = None
<1>1. \A q \in Procs : todo[q] \in Todo
  BY DEF AllTypes
<1> QED
  BY <1>1, TodoOf DEF Next1, Next2, Lists

\* What a process holds is referenced.
Holds(p, i) ==
  \/ loc[p].at = i \/ loc[p].dp = i \/ loc[p].ip = i
  \/ cwd[p] = i \/ fd[p] = i \/ Next1(p) = i \/ Next2(p) = i

\* Where p holds, in the functions that are counted.
LEMMA HeldParts ==
  ASSUME NEW p \in Procs, NEW i
  PROVE  /\ InLoc(loc)[<<p, "at">>] = loc[p].at /\ InLoc(loc)[<<p, "dp">>] = loc[p].dp
         /\ InLoc(loc)[<<p, "ip">>] = loc[p].ip
         /\ InTodo(todo)[<<p, 1>>] = Next1(p) /\ InTodo(todo)[<<p, 2>>] = Next2(p)
         /\ <<p, "at">> \in Procs \X Fields /\ <<p, "dp">> \in Procs \X Fields /\ <<p, "ip">> \in Procs \X Fields
         /\ <<p, 1>> \in Procs \X {1, 2} /\ <<p, 2>> \in Procs \X {1, 2}
BY DEF InLoc, InTodo, Fields, Next1, Next2

\* A reference count is a sum of counts.
LEMMA RefIs ==
  ASSUME AllTypes, RefSum, NEW i \in Inum
  PROVE  \E x, y, z, w, k \in Nat :
           /\ ref[i] = ((x + (y + z)) + w) + k
           /\ x = Count(Procs \X Fields, InLoc(loc), i) /\ y = Count(Procs, cwd, i)
           /\ z = Count(Procs, fd, i) /\ w = Count(Procs \X {1, 2}, InTodo(todo), i)
<1>1. /\ Count(Procs \X Fields, InLoc(loc), i) \in Nat /\ Count(Procs, cwd, i) \in Nat
      /\ Count(Procs, fd, i) \in Nat /\ Count(Procs \X {1, 2}, InTodo(todo), i) \in Nat
  BY ProcSets, CountNat
<1>2. (IF i = Root THEN lost ELSE 0) \in Nat
  BY DEF AllTypes
<1>3. ref[i] = HeldOf(loc, cwd, fd, todo, i) + (IF i = Root THEN lost ELSE 0)
  BY DEF RefSum
<1> QED
  BY <1>1, <1>2, <1>3 DEF HeldOf

\* What is held is referenced.
LEMMA HeldPos ==
  ASSUME AllTypes, RefSum, NEW p \in Procs, NEW i \in Inum, Holds(p, i)
  PROVE  ref[i] >= 1
<1>1. PICK x \in Nat, y \in Nat, z \in Nat, w \in Nat, k \in Nat :
        /\ ref[i] = ((x + (y + z)) + w) + k
        /\ x = Count(Procs \X Fields, InLoc(loc), i) /\ y = Count(Procs, cwd, i)
        /\ z = Count(Procs, fd, i) /\ w = Count(Procs \X {1, 2}, InTodo(todo), i)
  BY RefIs
<1>2. loc[p].at = i \/ loc[p].dp = i \/ loc[p].ip = i => x >= 1
  <2>1. \A s \in Procs \X Fields : InLoc(loc)[s] = i => Count(Procs \X Fields, InLoc(loc), i) >= 1
    BY ProcSets, CountPos
  <2> QED
    BY <1>1, <2>1, HeldParts
<1>3. cwd[p] = i => y >= 1
  BY <1>1, ProcSets, CountPos
<1>4. fd[p] = i => z >= 1
  BY <1>1, ProcSets, CountPos
<1>5. Next1(p) = i \/ Next2(p) = i => w >= 1
  <2>1. \A s \in Procs \X {1, 2} : InTodo(todo)[s] = i => Count(Procs \X {1, 2}, InTodo(todo), i) >= 1
    BY ProcSets, CountPos
  <2> QED
    BY <1>1, <2>1, HeldParts
<1>6. x >= 1 \/ y >= 1 \/ z >= 1 \/ w >= 1
  BY <1>2, <1>3, <1>4, <1>5 DEF Holds
<1> QED
  BY <1>1, <1>6

\* The last reference is the one that is being put.
LEMMA Sole ==
  ASSUME AllTypes, RefSum, NEW p \in Procs, NEW i \in Inum, Next1(p) = i, ref[i] = 1, NEW q \in Procs
  PROVE  /\ loc[q].at # i /\ loc[q].dp # i /\ loc[q].ip # i /\ cwd[q] # i /\ fd[q] # i /\ Next2(q) # i
         /\ q # p => Next1(q) # i /\ ~Holds(q, i)
<1>1. PICK x \in Nat, y \in Nat, z \in Nat, w \in Nat, k \in Nat :
        /\ ref[i] = ((x + (y + z)) + w) + k
        /\ x = Count(Procs \X Fields, InLoc(loc), i) /\ y = Count(Procs, cwd, i)
        /\ z = Count(Procs, fd, i) /\ w = Count(Procs \X {1, 2}, InTodo(todo), i)
  BY RefIs
<1>2. w >= 1
  BY <1>1, HeldParts, ProcSets, CountPos
<1>3. x = 0 /\ y = 0 /\ z = 0 /\ w = 1
  BY <1>1, <1>2
<1>4. loc[q].at # i /\ loc[q].dp # i /\ loc[q].ip # i
  <2>1. Count(Procs \X Fields, InLoc(loc), i) = 0 <=> \A s \in Procs \X Fields : InLoc(loc)[s] # i
    BY ProcSets, CountNone
  <2>2. \A s \in Procs \X Fields : InLoc(loc)[s] # i
    BY <1>1, <1>3, <2>1
  <2>3. /\ InLoc(loc)[<<q, "at">>] # i /\ InLoc(loc)[<<q, "dp">>] # i /\ InLoc(loc)[<<q, "ip">>] # i
    BY <2>2, HeldParts
  <2> QED
    BY <2>3, HeldParts
<1>5. cwd[q] # i /\ fd[q] # i
  <2>1. \A s \in Procs : cwd[s] # i
    <3>1. Count(Procs, cwd, i) = 0 <=> \A s \in Procs : cwd[s] # i
      BY ProcSets, CountNone
    <3> QED
      BY <1>1, <1>3, <3>1
  <2>2. \A s \in Procs : fd[s] # i
    <3>1. Count(Procs, fd, i) = 0 <=> \A s \in Procs : fd[s] # i
      BY ProcSets, CountNone
    <3> QED
      BY <1>1, <1>3, <3>1
  <2> QED
    BY <2>1, <2>2
<1>6. \A s \in Procs \X {1, 2} : s # <<p, 1>> => InTodo(todo)[s] # i
  <2>1. SUFFICES ASSUME NEW s \in Procs \X {1, 2}, s # <<p, 1>>, InTodo(todo)[s] = i PROVE FALSE
    OBVIOUS
  <2>2. <<p, 1>> \in Procs \X {1, 2} /\ InTodo(todo)[<<p, 1>>] = i
    BY HeldParts
  <2> DEFINE r == <<p, 1>>
  <2>3. r \in Procs \X {1, 2} /\ InTodo(todo)[r] = i /\ s # r
    BY <2>1, <2>2
  <2> HIDE DEF r
  <2>4. Count(Procs \X {1, 2}, InTodo(todo), i) >= 2
    BY <2>1, <2>3, ProcSets, CountTwo
  <2> QED
    BY <1>1, <1>3, <2>4
<1>7. <<q, 2>> # <<p, 1>> /\ (q # p => <<q, 1>> # <<p, 1>>)
  OBVIOUS
<1> QED
  BY <1>4, <1>5, <1>6, <1>7, HeldParts DEF Holds

\* A step that moves the count with what p holds keeps it exact.
LEMMA RefMove ==
  ASSUME AllTypes, RefSum, NEW p \in Procs, Lists(todo'), lost' = lost,
         Others(p, loc, loc'), Others(p, cwd, cwd'), Others(p, fd, fd'), Others(p, todo, todo'),
         \A i \in Inum : ref'[i] = ref[i] + HeldBy(loc'[p], cwd'[p], fd'[p], todo'[p], i)
                                          - HeldBy(loc[p], cwd[p], fd[p], todo[p], i)
  PROVE  RefSum'
<1>1. SUFFICES ASSUME NEW i \in Inum
               PROVE  ref'[i] = HeldOf(loc', cwd', fd', todo', i) + (IF i = Root THEN lost ELSE 0)
  BY DEF RefSum
<1> DEFINE h == HeldOf(loc, cwd, fd, todo, i)
           h2 == HeldOf(loc', cwd', fd', todo', i)
           d == HeldBy(loc[p], cwd[p], fd[p], todo[p], i)
           d2 == HeldBy(loc'[p], cwd'[p], fd'[p], todo'[p], i)
           k == IF i = Root THEN lost ELSE 0
<1>2. Lists(todo)
  BY TodoIs
<1>3. h2 = h - d + d2
  BY <1>2, HeldMove
<1>4. h \in Int /\ h2 \in Int
  BY HeldNat
<1>5. \A x, c, f, t : HeldBy(x, c, f, t, i) \in Int
  BY DEF HeldBy, LocBy, TodoBy, Same
<1>6. d \in Int /\ d2 \in Int /\ k \in Int
  BY <1>5 DEF AllTypes
<1>7. ref[i] = h + k /\ ref'[i] = ref[i] + d2 - d
  BY DEF RefSum
<1> HIDE DEF h, h2, d, d2, k
<1>8. ref'[i] = h2 + k
  BY <1>3, <1>4, <1>6, <1>7
<1> QED
  BY <1>8 DEF h2, k

\* The copy that ilock() makes or finds is what is on the disk.
LEMMA CopyIs ==
  ASSUME AllTypes, NEW i \in Inum, Copied(i), ref[i] > 0, lock[i] = None \/ put[lock[i]] # "release"
  PROVE  /\ Copy(i).valid = TRUE /\ Copy(i).type = disk[i].type /\ Copy(i).nlink = disk[i].nlink
         /\ Copy(i) = [valid |-> TRUE, type |-> disk[i].type, nlink |-> disk[i].nlink]
<1>1. mem[i] \in [valid : BOOLEAN, type : {"free", "dir", "file", "dev"}, nlink : Nat]
  BY DEF AllTypes
<1>2. CASE mem[i].valid
  <2>1. mem[i].type = disk[i].type /\ mem[i].nlink = disk[i].nlink
    BY <1>2 DEF Copied
  <2> QED
    BY <1>1, <1>2, <2>1 DEF Copy
<1>3. CASE ~mem[i].valid
  BY <1>3 DEF Copy
<1> QED
  BY <1>2, <1>3

-----------------------------------------------------------------------------
(* Facts about links.                                                       *)

Entry == Inum \X Names

\* The sets that links are counted over are finite.
LEMMA LinkSets == IsFiniteSet(Inum) /\ IsFiniteSet(Entry) /\ IsFiniteSet(Procs)
<1>1. IsFiniteSet(Inum)
  BY FS_Interval, DirectoryAssumption DEF Inum
<1> QED
  BY <1>1, FS_Product, DirectoryAssumption DEF Entry

\* Links owed are a sum of counts.
LEMMA OwedIs ==
  ASSUME NEW d, NEW m, NEW l, NEW i
  PROVE  /\ Count(Entry, NamesIn(m), i) \in Nat /\ Count(Inum, KidsIn(d, m), i) \in Nat
         /\ Count(Procs, LinkersIn(l), i) \in Nat /\ Count(Procs, DecsIn(l), i) \in Nat
         /\ (IF i = Root THEN 1 ELSE 0) \in Nat
         /\ Owed(d, m, l, i) \in Nat
         /\ Owed(d, m, l, i)
              = (Count(Entry, NamesIn(m), i) + (Count(Inum, KidsIn(d, m), i) + (IF i = Root THEN 1 ELSE 0)))
                + (Count(Procs, LinkersIn(l), i) + Count(Procs, DecsIn(l), i))
<1>1. /\ Count(Entry, NamesIn(m), i) \in Nat /\ Count(Inum, KidsIn(d, m), i) \in Nat
      /\ Count(Procs, LinkersIn(l), i) \in Nat /\ Count(Procs, DecsIn(l), i) \in Nat
  BY LinkSets, CountNat
<1>2. (IF i = Root THEN 1 ELSE 0) \in Nat
  OBVIOUS
<1>3. Owed(d, m, l, i)
        = (Count(Entry, NamesIn(m), i) + (Count(Inum, KidsIn(d, m), i) + (IF i = Root THEN 1 ELSE 0)))
          + (Count(Procs, LinkersIn(l), i) + Count(Procs, DecsIn(l), i))
  BY DEF Owed, Entry
<1> DEFINE r == IF i = Root THEN 1 ELSE 0
<1> HIDE DEF r
<1>4. Owed(d, m, l, i) \in Nat
  BY <1>1, <1>2, <1>3 DEF r
<1> QED
  BY <1>1, <1>2, <1>3, <1>4

\* An inode that owes nothing has no name and nobody links or unlinks it.
LEMMA OwesNothing ==
  ASSUME AllTypes, NEW i \in Inum, Counted(i), Alive(i), disk[i].nlink = 0
  PROVE  /\ i # Root
         /\ \A d \in Inum : \A n \in Names : ents[d][n] # i
         /\ \A p \in Procs : ~(Linking(loc[p]) /\ loc[p].ip = i) /\ ~(loc[p].pc = "u_dec" /\ loc[p].ip = i)
         /\ Owed(disk, ents, loc, i) = 0
         /\ Count(Inum, KidsIn(disk, ents), i) = 0
<1>1. Owed(disk, ents, loc, i) = 0
  <2>1. Owed(disk, ents, loc, i) \in Nat
    BY OwedIs
  <2> QED
    BY <2>1 DEF Counted
<1>2. /\ Count(Entry, NamesIn(ents), i) = 0 /\ Count(Inum, KidsIn(disk, ents), i) = 0
      /\ Count(Procs, LinkersIn(loc), i) = 0 /\ Count(Procs, DecsIn(loc), i) = 0
      /\ (IF i = Root THEN 1 ELSE 0) = 0
  <2> DEFINE r == IF i = Root THEN 1 ELSE 0
  <2>1. r \in Nat
    OBVIOUS
  <2> HIDE DEF r
  <2>2. /\ Count(Entry, NamesIn(ents), i) \in Nat /\ Count(Inum, KidsIn(disk, ents), i) \in Nat
        /\ Count(Procs, LinkersIn(loc), i) \in Nat /\ Count(Procs, DecsIn(loc), i) \in Nat
    BY OwedIs
  <2>3. Owed(disk, ents, loc, i)
          = (Count(Entry, NamesIn(ents), i) + (Count(Inum, KidsIn(disk, ents), i) + r))
            + (Count(Procs, LinkersIn(loc), i) + Count(Procs, DecsIn(loc), i))
    BY OwedIs DEF r
  <2>4. /\ Count(Entry, NamesIn(ents), i) = 0 /\ Count(Inum, KidsIn(disk, ents), i) = 0
        /\ Count(Procs, LinkersIn(loc), i) = 0 /\ Count(Procs, DecsIn(loc), i) = 0
        /\ r = 0
    BY <1>1, <2>1, <2>2, <2>3
  <2> QED
    BY <2>4 DEF r
<1>3. ASSUME NEW d \in Inum, NEW n \in Names PROVE ents[d][n] # i
  <2>1. Count(Entry, NamesIn(ents), i) = 0 <=> \A e \in Entry : NamesIn(ents)[e] # i
    BY LinkSets, CountNone
  <2>2. \A e \in Entry : NamesIn(ents)[e] # i
    BY <1>2, <2>1
  <2>3. <<d, n>> \in Entry /\ NamesIn(ents)[<<d, n>>] = ents[d][n]
    BY DEF Entry, NamesIn
  <2> QED
    BY <2>2, <2>3
<1>4. ASSUME NEW p \in Procs
      PROVE  ~(Linking(loc[p]) /\ loc[p].ip = i) /\ ~(loc[p].pc = "u_dec" /\ loc[p].ip = i)
  <2>1. Count(Procs, LinkersIn(loc), i) = 0 <=> \A q \in Procs : LinkersIn(loc)[q] # i
    BY LinkSets, CountNone
  <2>2. Count(Procs, DecsIn(loc), i) = 0 <=> \A q \in Procs : DecsIn(loc)[q] # i
    BY LinkSets, CountNone
  <2>3. LinkersIn(loc)[p] # i /\ DecsIn(loc)[p] # i
    BY <1>2, <2>1, <2>2
  <2> QED
    BY <2>3 DEF LinkersIn, DecsIn
<1> QED
  BY <1>1, <1>2, <1>3, <1>4

\* What has a name is allocated and counts it.
LEMMA NameCounts ==
  ASSUME Inv, NEW d \in Inum, NEW n \in Names, ents[d][n] # None
  PROVE  ents[d][n] \in Inum /\ Alive(ents[d][n]) /\ disk[ents[d][n]].nlink >= 1
<1>1. AllTypes /\ Alive(ents[d][n])
  BY DEF Inv, Entries
<1>2. ents[d][n] \in Inum
  BY <1>1 DEF AllTypes
<1>3. disk[ents[d][n]].nlink \in Nat
  BY <1>1, <1>2 DEF AllTypes, Dinode
<1>4. disk[ents[d][n]].nlink # 0
  BY <1>1, <1>2, OwesNothing DEF Inv
<1> QED
  BY <1>1, <1>2, <1>3, <1>4

\* The root counts itself.
LEMMA RootCounts == ASSUME Inv PROVE Alive(Root) /\ disk[Root].nlink >= 1
<1>1. AllTypes /\ Alive(Root)
  BY DEF Inv, RootOK, IsDir, Alive
<1>2. disk[Root].nlink \in Nat
  BY <1>1, NoInode DEF AllTypes, Dinode
<1>3. disk[Root].nlink # 0
  BY <1>1, NoInode, OwesNothing DEF Inv
<1> QED
  BY <1>1, <1>2, <1>3

\* What p may come to: the root, a name, or what it has already.
Reach(p, i) == i = Root \/ (\E d \in Inum : \E n \in Names : ents[d][n] = i) \/ Holds(p, i)

\* What p may come to has a link or is held.
LEMMA ReachLives ==
  ASSUME Inv, NEW p \in Procs, NEW i \in Inum, Reach(p, i)
  PROVE  disk[i].nlink >= 1 \/ Holds(p, i)
<1>1. CASE i = Root
  BY <1>1, RootCounts
<1>2. CASE \E d \in Inum : \E n \in Names : ents[d][n] = i
  BY <1>2, NameCounts, NoInode
<1> QED
  BY <1>1, <1>2 DEF Reach

\* Nobody comes to an inode that is being made, or that is being truncated.
LEMMA ReachNotMade ==
  ASSUME Inv, NEW p \in Procs, NEW i \in Inum, NEW q \in Procs,
         i = Root \/ (\E d \in Inum : \E n \in Names : ents[d][n] = i)
           \/ i = loc[p].at \/ i = loc[p].dp \/ i = cwd[p] \/ (i = loc[p].ip /\ p # q),
         loc[q].pc = "c_init"
  PROVE  i # loc[q].ip
<1>1. disk[loc[q].ip].nlink = 0
  BY DEF Inv, Making
<1>2. CASE i = Root
  BY <1>1, <1>2, RootCounts
<1>3. CASE \E d \in Inum : \E n \in Names : ents[d][n] = i
  <2>1. disk[i].nlink >= 1
    BY <1>3, NameCounts, NoInode
  <2> QED
    BY <1>1, <2>1
<1>4. CASE i = loc[p].at \/ i = loc[p].dp \/ i = cwd[p] \/ (i = loc[p].ip /\ p # q)
  BY <1>4 DEF Inv, Fresh
<1> QED
  BY <1>2, <1>3, <1>4

\* Nobody comes to an inode that is being freed.
LEMMA ReachNotTruncated ==
  ASSUME Inv, NEW p \in Procs, NEW i \in Inum, Reach(p, i), NEW q \in Procs, p # q, put[q] = "trunc"
  PROVE  i # Next1(q)
<1>1. SUFFICES ASSUME i = Next1(q) PROVE FALSE
  OBVIOUS
<1>2. ref[i] = 1 /\ disk[i].nlink = 0
  BY <1>1 DEF Inv, Truncs
<1>3. ~Holds(p, i)
  BY <1>1, <1>2, Sole DEF Inv
<1>4. disk[i].nlink >= 1 \/ Holds(p, i)
  BY ReachLives
<1> QED
  BY <1>2, <1>3, <1>4

-----------------------------------------------------------------------------
(* Steps that leave the disk and the directories alone.                     *)

Frame(p) == Others(p, loc, loc') /\ Others(p, cwd, cwd') /\ Others(p, fd, fd') /\ Others(p, todo, todo')

LinkIp(l) == IF Linking(l) THEN l.ip ELSE None

\* What such a step does to the table of inodes.
Table(p, i) ==
  /\ \/ mem'[i] = mem[i] /\ (ref[i] = 0 => ref'[i] = 0)
     \/ lock[i] = None /\ Holds(p, i) /\ Alive(i) /\ mem'[i] = Copy(i)
     \/ ref[i] = 0 /\ mem'[i] = [mem[i] EXCEPT !.valid = FALSE]
  /\ ref'[i] # ref[i] => Reach(p, i)
  /\ ref'[i] = ref[i] \/ ref'[i] = ref[i] + 1 \/ (ref'[i] = ref[i] - 1 /\ Next1(p) = i /\ ~LastPut(i))

\* p's own local variables afterwards.
OwnStep(p) ==
  /\ loc[p].pc # "c_init" /\ loc'[p].pc # "c_init"
  /\ \/ loc[p].pc # "u_dec" /\ loc'[p].pc # "u_dec"
     \/ loc'[p] = loc[p]
  /\ LinkIp(loc'[p]) = LinkIp(loc[p])
  /\ \A q \in Procs : q # p /\ loc[q].pc = "c_init" =>
       /\ loc'[p].at # loc[q].ip /\ loc'[p].dp # loc[q].ip
       /\ loc'[p].ip # loc[q].ip /\ cwd'[p] # loc[q].ip
  /\ Shape(p)' /\ Living(p)' /\ Dirs(p)' /\ Erasing(p)' /\ Locks(p)'

\* A lock may be taken or given back.
LockStep(p, i) ==
  \/ lock'[i] = lock[i]
  \/ lock[i] \in {p, None} /\ lock'[i] = None
  \/ lock[i] \in {p, None} /\ lock'[i] = p /\ mem'[i].valid

Quiet(p) ==
  /\ Frame(p) /\ OwnStep(p)
  /\ UNCHANGED <<disk, ents, put, stray>> /\ put[p] = "test"
  /\ \A i \in Inum : Table(p, i) /\ LockStep(p, i)

\* A step of p leaves the variables of the others.
LEMMA Untouched ==
  ASSUME NEW p \in Procs, Frame(p), NEW q \in Procs, q # p
  PROVE  /\ loc'[q] = loc[q] /\ cwd'[q] = cwd[q] /\ fd'[q] = fd[q] /\ todo'[q] = todo[q]
         /\ Next1(q)' = Next1(q) /\ Next2(q)' = Next2(q)
BY DEF Frame, Others, Changed, Next1, Next2

\* A quiet step keeps what the invariant says of the others,
LEMMA QuietOthers ==
  ASSUME Inv, NEW p \in Procs, Quiet(p), NEW q \in Procs, q # p
  PROVE  /\ Shape(q)' /\ Living(q)' /\ Dirs(q)' /\ Making(q)' /\ Erasing(q)' /\ Fresh(q)' /\ Locks(q)' /\ Truncs(q)'
<1>1. /\ loc'[q] = loc[q] /\ cwd'[q] = cwd[q] /\ fd'[q] = fd[q]
      /\ Next1(q)' = Next1(q) /\ Next2(q)' = Next2(q)
  BY Untouched DEF Quiet
<1>2. disk' = disk /\ ents' = ents /\ put' = put
  BY DEF Quiet
<1>3. /\ Shape(q) /\ Living(q) /\ Dirs(q) /\ Making(q) /\ Erasing(q) /\ Fresh(q) /\ Locks(q) /\ Truncs(q)
  BY DEF Inv
<1>c1. Shape(q)'
  BY <1>1, <1>2, <1>3 DEF Shape, Linking
<1>c2. Living(q)'
  BY <1>1, <1>2, <1>3 DEF Living, Alive
<1>c3. Dirs(q)'
  BY <1>1, <1>2, <1>3 DEF Dirs, IsDir, HasDots, Linking
<1>c4. Making(q)' /\ Erasing(q)'
  BY <1>1, <1>2, <1>3 DEF Making, Erasing, IsDir, Bare, Last
<1>c6. Fresh(q)'
  <2>1. \A r \in Procs : r # p => loc'[r] = loc[r] /\ cwd'[r] = cwd[r]
    BY Untouched DEF Quiet
  <2>2. loc[q].pc = "c_init" =>
          /\ loc'[p].at # loc[q].ip /\ loc'[p].dp # loc[q].ip
          /\ loc'[p].ip # loc[q].ip /\ cwd'[p] # loc[q].ip
    BY DEF Quiet, OwnStep
  <2> QED
    BY <1>1, <1>3, <2>1, <2>2 DEF Fresh
<1>c7. Locks(q)'
  <2>1. \A i \in Inum : lock'[i] = q <=> lock[i] = q
    BY NoInode DEF Quiet, LockStep
  <2> QED
    BY <1>1, <1>2, <1>3, <2>1 DEF Locks, HasLock
<1>c8. Truncs(q)'
  <2>1. put[q] = "trunc" => ref'[Next1(q)] = ref[Next1(q)]
    <3>1. SUFFICES ASSUME put[q] = "trunc", ref'[Next1(q)] # ref[Next1(q)] PROVE FALSE
      OBVIOUS
    <3>2. Next1(q) \in Inum
      BY <3>1, TodoIs, <1>3 DEF Inv, Shape, Opt
    <3>3. Reach(p, Next1(q))
      BY <3>1, <3>2 DEF Quiet, Table
    <3> QED
      BY <3>1, <3>2, <3>3, ReachNotTruncated
  <2>2. \A r \in Procs : loc[r].pc = "c_init" => loc'[r] = loc[r]
    <3>1. loc[p].pc # "c_init"
      BY DEF Quiet, OwnStep
    <3>2. \A r \in Procs : r # p => loc'[r] = loc[r]
      BY Untouched DEF Quiet
    <3> QED
      BY <3>1, <3>2
  <2> QED
    BY <1>1, <1>2, <1>3, <2>1, <2>2 DEF Truncs, Alive
<1> QED
  BY <1>c1, <1>c2, <1>c3, <1>c4, <1>c6, <1>c7, <1>c8

\* of p itself,
LEMMA QuietSelf ==
  ASSUME Inv, NEW p \in Procs, Quiet(p)
  PROVE  /\ Shape(p)' /\ Living(p)' /\ Dirs(p)' /\ Making(p)' /\ Erasing(p)' /\ Fresh(p)' /\ Locks(p)' /\ Truncs(p)'
<1>1. put[p] = "test" /\ put' = put
  BY DEF Quiet
<1>2. Shape(p)' /\ Living(p)' /\ Dirs(p)' /\ Erasing(p)' /\ Locks(p)'
  BY DEF Quiet, OwnStep
<1>3. Making(p)' /\ Fresh(p)'
  BY DEF Quiet, OwnStep, Making, Fresh
<1>4. Truncs(p)'
  BY <1>1 DEF Truncs
<1> QED
  BY <1>2, <1>3, <1>4

\* Who holds a lock holds the inode.
LEMMA LockHeld ==
  ASSUME Inv, NEW i \in Inum, lock[i] # None
  PROVE  lock[i] \in Procs /\ HasLock(lock[i], i) /\ Holds(lock[i], i) /\ ref[i] >= 1 /\ mem[i].valid
<1>1. lock[i] \in Procs
  BY DEF Inv, AllTypes
<1>2. HasLock(lock[i], i)
  BY <1>1 DEF Inv, Locks
<1>3. Holds(lock[i], i)
  BY <1>2 DEF HasLock, Holds
<1>4. ref[i] >= 1
  BY <1>1, <1>3, HeldPos DEF Inv
<1> QED
  BY <1>1, <1>2, <1>3, <1>4 DEF Inv, Copied

\* and of every inode;
LEMMA QuietInodes ==
  ASSUME Inv, AllTypes', NEW p \in Procs, Quiet(p), NEW i \in Inum
  PROVE  Copied(i)' /\ Counted(i)' /\ Orphans(i)' /\ Kept(i)'
<1>1. disk' = disk /\ ents' = ents /\ put' = put /\ stray' = stray
  BY DEF Quiet
<1>6. LockStep(p, i)
  BY DEF Quiet
<1>2. Copied(i) /\ Counted(i) /\ Orphans(i) /\ Kept(i)
  BY DEF Inv
<1>3. Table(p, i)
  BY DEF Quiet
<1>4. /\ mem[i] \in [valid : BOOLEAN, type : {"free", "dir", "file", "dev"}, nlink : Nat]
      /\ ref[i] \in Nat /\ ref'[i] \in Nat
      /\ disk[i] \in [type : {"free", "dir", "file", "dev"}, nlink : Nat]
  BY DEF Inv, AllTypes, Dinode, Types
<1>5. Holds(p, i) => ref[i] >= 1
  BY HeldPos DEF Inv
<1>c1. Copied(i)'
  <2>1. lock'[i] # None => mem'[i].valid
    <3>1. CASE lock'[i] = lock[i]
      <4>1. lock[i] # None => mem[i].valid /\ ref[i] >= 1
        BY LockHeld
      <4>2. lock[i] # None => mem'[i].valid
        BY <1>3, <1>4, <4>1 DEF Table, Copy
      <4> QED
        BY <3>1, <4>2
    <3> QED
      BY <1>6, <3>1 DEF LockStep
  <2>2. ASSUME mem'[i].valid, ref'[i] > 0
        PROVE  \/ mem'[i].type # "free" /\ mem'[i].type = disk[i].type /\ mem'[i].nlink = disk[i].nlink
               \/ mem'[i].type = "free" /\ lock'[i] # None /\ put[lock'[i]] = "release" /\ Nth(todo'[lock'[i]], 1) = i
    <3>1. CASE mem'[i] = mem[i] /\ (ref[i] = 0 => ref'[i] = 0)
      <4>1. ref[i] > 0 /\ mem[i].valid
        BY <1>4, <2>2, <3>1
      <4>2. CASE lock[i] # None /\ put[lock[i]] = "release" /\ Next1(lock[i]) = i
        <5>1. put[p] = "test"
          BY DEF Quiet
        <5>2. PICK q \in Procs : q = lock[i]
          BY <4>2, LockHeld
        <5>3. lock'[i] = q /\ q # p
          BY <1>6, <4>2, <5>1, <5>2, NoInode DEF LockStep
        <5>4. todo'[q] = todo[q]
          BY <5>3, Untouched DEF Quiet
        <5>5. put[q] = "release" /\ Nth(todo[q], 1) = i
          BY <4>2, <5>2 DEF Next1
        <5>6. \/ mem[i].type # "free" /\ mem[i].type = disk[i].type /\ mem[i].nlink = disk[i].nlink
              \/ mem[i].type = "free"
          BY <1>2, <4>1 DEF Copied
        <5>7. lock'[i] # None
          BY <5>3, NoInode
        <5> QED
          BY <3>1, <5>3, <5>4, <5>5, <5>6, <5>7
      <4> QED
        BY <1>2, <3>1, <4>1, <4>2 DEF Copied
    <3>2. CASE lock[i] = None /\ Holds(p, i) /\ Alive(i) /\ mem'[i] = Copy(i)
      <4>1. ref[i] > 0 /\ AllTypes
        BY <1>4, <1>5, <3>2 DEF Inv
      <4>2. /\ Copy(i).valid = TRUE /\ Copy(i).type = disk[i].type /\ Copy(i).nlink = disk[i].nlink
        BY <1>2, <3>2, <4>1, CopyIs
      <4> QED
        BY <3>2, <4>2 DEF Alive
    <3>3. CASE ref[i] = 0 /\ mem'[i] = [mem[i] EXCEPT !.valid = FALSE]
      BY <1>4, <2>2, <3>3
    <3> QED
      BY <1>3, <3>1, <3>2, <3>3 DEF Table
  <2> QED
    BY <1>1, <2>1, <2>2 DEF Copied, Next1
<1>c2. Counted(i)'
  <2>1. LinkersIn(loc') = LinkersIn(loc) /\ DecsIn(loc') = DecsIn(loc)
    <3>1. \A q \in Procs : q # p => loc'[q] = loc[q]
      BY Untouched DEF Quiet
    <3>2. /\ LinkIp(loc'[p]) = LinkIp(loc[p])
          /\ (loc[p].pc # "u_dec" /\ loc'[p].pc # "u_dec") \/ loc'[p] = loc[p]
      BY DEF Quiet, OwnStep
    <3>3. \A q \in Procs : LinkIp(loc'[q]) = LinkIp(loc[q]) /\ (loc'[q].pc = "u_dec" <=> loc[q].pc = "u_dec")
                             /\ (loc[q].pc = "u_dec" => loc'[q] = loc[q])
      BY <3>1, <3>2
    <3>4. /\ LinkersIn(loc) = [q \in Procs |-> LinkIp(loc[q])]
          /\ LinkersIn(loc') = [q \in Procs |-> LinkIp(loc'[q])]
      BY DEF LinkersIn, LinkIp
    <3> QED
      BY <3>3, <3>4 DEF DecsIn
  <2>2. Owed(disk', ents', loc', i) = Owed(disk, ents, loc, i)
    BY <1>1, <2>1 DEF Owed
  <2> QED
    BY <1>1, <1>2, <2>2 DEF Counted, Alive
<1>c3. Orphans(i)'
  BY <1>1, <1>2 DEF Orphans, IsDir
<1>c4. Kept(i)'
  <2>1. SUFFICES ASSUME Alive(i), disk[i].nlink = 0, i \notin stray
                 PROVE  ref'[i] > 0 /\ (mem'[i].valid \/ \E q \in Procs : loc'[q].pc = "c_init" /\ loc'[q].ip = i)
    BY <1>1 DEF Kept, Alive
  <2>2. ref[i] > 0 /\ (mem[i].valid \/ \E q \in Procs : loc[q].pc = "c_init" /\ loc[q].ip = i)
    BY <1>2, <2>1 DEF Kept
  <2>3. ASSUME NEW q \in Procs, loc[q].pc = "c_init", loc[q].ip = i
        PROVE  loc'[q] = loc[q] /\ ref'[i] > 0
    <3>1. q # p
      BY <2>3 DEF Quiet, OwnStep
    <3>2. loc'[q] = loc[q] /\ cwd'[q] = cwd[q] /\ fd'[q] = fd[q] /\ Next1(q)' = Next1(q) /\ Next2(q)' = Next2(q)
      BY <3>1, Untouched DEF Quiet
    <3>3. CASE ref'[i] = ref[i] - 1
      <4>1. SUFFICES ASSUME ref[i] = 1 PROVE FALSE
        BY <1>4, <2>2, <2>3, <3>2, <3>3
      <4>6. Next1(p) = i
        BY <1>3, <1>4, <3>3 DEF Table
      <4> QED
        BY <2>3, <3>1, <4>1, <4>6, Sole DEF Inv
    <3> QED
      BY <1>3, <1>4, <2>2, <3>2, <3>3 DEF Table
  <2>4. CASE \E q \in Procs : loc[q].pc = "c_init" /\ loc[q].ip = i
    BY <2>3, <2>4
  <2>5. CASE mem[i].valid /\ ~\E q \in Procs : loc[q].pc = "c_init" /\ loc[q].ip = i
    <3>1. mem'[i].valid
      <4>1. mem'[i] = mem[i] \/ mem'[i] = Copy(i)
        BY <1>3, <2>2 DEF Table
      <4> QED
        BY <2>5, <4>1 DEF Copy
    <3>2. ref'[i] > 0
      <4>1. SUFFICES ASSUME ref'[i] = ref[i] - 1, ref[i] = 1 PROVE FALSE
        BY <1>3, <1>4, <2>2 DEF Table
      <4>2. ~LastPut(i)
        BY <1>3, <1>4, <4>1 DEF Table
      <4>3. mem[i].nlink = disk[i].nlink \/ (lock[i] # None /\ put[lock[i]] = "release" /\ Next1(lock[i]) = i)
        BY <1>2, <2>2, <2>5 DEF Copied
      <4>4. ~(lock[i] # None /\ put[lock[i]] = "release" /\ Next1(lock[i]) = i)
        <5>1. lock[i] # None => lock[i] \in Procs
          BY LockHeld
        <5> QED
          BY <2>1, <2>5, <5>1 DEF Inv, Truncs
      <4> QED
        BY <2>1, <2>5, <4>1, <4>2, <4>3, <4>4 DEF LastPut
    <3> QED
      BY <3>1, <3>2
  <2> QED
    BY <2>2, <2>4, <2>5
<1> QED
  BY <1>c1, <1>c2, <1>c3, <1>c4

\* so it keeps the invariant.
LEMMA QuietStep ==
  ASSUME Inv, AllTypes', RefSum', LostFew', NEW p \in Procs, Quiet(p)
  PROVE  Inv'
<1>1. \A q \in Procs : /\ Shape(q)' /\ Living(q)' /\ Dirs(q)' /\ Making(q)' /\ Erasing(q)'
                       /\ Fresh(q)' /\ Locks(q)' /\ Truncs(q)'
  BY QuietOthers, QuietSelf
<1>2. \A i \in Inum : Copied(i)' /\ Counted(i)' /\ Orphans(i)' /\ Kept(i)'
  BY QuietInodes
<1>3. disk' = disk /\ ents' = ents /\ stray' = stray
  BY DEF Quiet
<1>4. Entries' /\ OneName' /\ RootOK' /\ FreeBare'
  BY <1>3 DEF Inv, Entries, OneName, RootOK, FreeBare, IsDir, Alive, HasDots, Bare
<1> QED
  BY <1>1, <1>2, <1>4 DEF Inv

-----------------------------------------------------------------------------
(* One step of one process.                                                 *)

Becomes(p, l, c, f, t) ==
  /\ loc' = [loc EXCEPT ![p] = l] /\ cwd' = [cwd EXCEPT ![p] = c]
  /\ fd' = [fd EXCEPT ![p] = f] /\ todo' = [todo EXCEPT ![p] = t]

\* What a step makes of the variables of p.
LEMMA BecomesIs ==
  ASSUME AllTypes, NEW p \in Procs, NEW l \in Local, NEW c \in Opt(Inum), NEW f \in Opt(Inum), NEW t \in Todo,
         Becomes(p, l, c, f, t)
  PROVE  /\ loc'[p] = l /\ cwd'[p] = c /\ fd'[p] = f /\ todo'[p] = t
         /\ Next1(p)' = Nth(t, 1) /\ Next2(p)' = Nth(t, 2)
         /\ loc' \in [Procs -> Local] /\ cwd' \in [Procs -> Inum \cup {None}]
         /\ fd' \in [Procs -> Inum \cup {None}] /\ todo' \in [Procs -> Todo]
         /\ Frame(p) /\ Lists(todo')
<1>1. /\ loc \in [Procs -> Local] /\ cwd \in [Procs -> Inum \cup {None}]
      /\ fd \in [Procs -> Inum \cup {None}] /\ todo \in [Procs -> Todo]
  BY DEF AllTypes
<1>2. /\ loc' \in [Procs -> Local] /\ cwd' \in [Procs -> Inum \cup {None}]
      /\ fd' \in [Procs -> Inum \cup {None}] /\ todo' \in [Procs -> Todo]
  BY <1>1 DEF Becomes, Opt
<1>3. /\ loc'[p] = l /\ cwd'[p] = c /\ fd'[p] = f /\ todo'[p] = t
  BY <1>1 DEF Becomes
<1>4. Frame(p)
  BY <1>1 DEF Becomes, Frame, Others, Changed
<1>5. Lists(todo')
  <2>1. \A q \in Procs : todo'[q] \in Todo
    BY <1>2
  <2> QED
    BY <2>1, TodoOf DEF Lists
<1> QED
  BY <1>2, <1>3, <1>4, <1>5 DEF Next1, Next2

\* Parts of the state of a process that do not change.
LEMMA Stays ==
  ASSUME AllTypes, NEW p \in Procs
  PROVE  /\ cwd = [cwd EXCEPT ![p] = cwd[p]] /\ fd = [fd EXCEPT ![p] = fd[p]]
         /\ todo = [todo EXCEPT ![p] = todo[p]] /\ loc = [loc EXCEPT ![p] = loc[p]]
         /\ cwd[p] \in Opt(Inum) /\ fd[p] \in Opt(Inum) /\ todo[p] \in Todo /\ loc[p] \in Local
BY DEF AllTypes, Opt

Copies == [valid : BOOLEAN, type : {"free", "dir", "file", "dev"}, nlink : Nat]
Tables == /\ mem' \in [Inum -> Copies] /\ ref' \in [Inum -> Nat] /\ lock' \in [Inum -> Procs \cup {None}]

\* A step that starts no getcwd() keeps the bound of lost references.
LEMMA ClimbLess ==
  ASSUME Inv, NEW p \in Procs, Others(p, loc, loc'), lost' = lost,
         loc'[p].pc \in {"g_scan", "g_next"} => loc[p].pc \in {"g_scan", "g_next"}
  PROVE  LostFew'
<1>1. Climbing' \subseteq Climbing /\ Climbing \subseteq Procs
  BY DEF Climbing, Others, Changed
<1>2. IsFiniteSet(Climbing) /\ IsFiniteSet(Procs)
  BY <1>1, FS_Subset, ProcSets
<1>3. Cardinality(Climbing') <= Cardinality(Climbing)
  BY <1>1, <1>2, FS_Subset
<1>4. IsFiniteSet(Climbing')
  BY <1>1, <1>2, FS_Subset
<1>5. Cardinality(Climbing) \in Nat /\ Cardinality(Climbing') \in Nat /\ Cardinality(Procs) \in Nat
  BY <1>2, <1>4, FS_CardinalityType
<1>6. lost \in Nat /\ lost + Cardinality(Climbing) <= MaxLost + Cardinality(Procs) /\ MaxLost \in Nat
  BY DirectoryAssumption DEF Inv, LostFew, AllTypes
<1> QED
  BY <1>3, <1>5, <1>6 DEF LostFew

\* A quiet step that is given by the new variables of p.
LEMMA TurnStep ==
  ASSUME Inv, NEW p \in Procs, NEW l \in Local, NEW c \in Opt(Inum), NEW f \in Opt(Inum), NEW t \in Todo,
         Becomes(p, l, c, f, t), UNCHANGED <<disk, ents, put, stray>>, put[p] = "test",
         Tables, OwnStep(p), lost' = lost,
         l.pc \in {"g_scan", "g_next"} => loc[p].pc \in {"g_scan", "g_next"},
         \A i \in Inum : ref'[i] = ref[i] + HeldBy(l, c, f, t, i)
                                          - HeldBy(loc[p], cwd[p], fd[p], todo[p], i),
         \A i \in Inum : Table(p, i) /\ LockStep(p, i)
  PROVE  Inv'
<1>1. AllTypes /\ RefSum
  BY DEF Inv
<1>2. /\ loc'[p] = l /\ cwd'[p] = c /\ fd'[p] = f /\ todo'[p] = t
      /\ loc' \in [Procs -> Local] /\ cwd' \in [Procs -> Inum \cup {None}]
      /\ fd' \in [Procs -> Inum \cup {None}] /\ todo' \in [Procs -> Todo]
      /\ Frame(p) /\ Lists(todo')
  BY <1>1, BecomesIs
<1>3. AllTypes'
  BY <1>1, <1>2 DEF AllTypes, Tables, Copies
<1>4. RefSum'
  BY <1>1, <1>2, RefMove DEF Frame
<1>5. LostFew'
  BY <1>2, ClimbLess DEF Frame
<1>6. Quiet(p)
  BY <1>2 DEF Quiet
<1> QED
  BY <1>3, <1>4, <1>5, <1>6, QuietStep

-----------------------------------------------------------------------------
(* The table of inodes.                                                     *)

\* The table with a copy that ilock() has read.
LEMMA LoadedIs ==
  ASSUME AllTypes, NEW d \in Inum
  PROVE  /\ Copy(d) \in Copies /\ Copy(d).valid = TRUE
         /\ Loaded(d) \in [Inum -> Copies] /\ Loaded(d)[d] = Copy(d)
         /\ \A i \in Inum : i # d => Loaded(d)[i] = mem[i]
<1>1. mem \in [Inum -> Copies] /\ disk[d] \in [type : {"free", "dir", "file", "dev"}, nlink : Nat]
  BY DEF AllTypes, Dinode, Types, Copies
<1>2. Copy(d) \in Copies /\ Copy(d).valid = TRUE
  BY <1>1 DEF Copy, Copies
<1> QED
  BY <1>1, <1>2 DEF Loaded

\* What m a step starts from: the table, or the table with d loaded.
Start(p, m) ==
  \/ m = mem
  \/ \E d \in Inum : m = Loaded(d) /\ Lockable(d) /\ Holds(p, d) /\ Alive(d)

\* The table that a step starts from.
LEMMA StartIs ==
  ASSUME Inv, NEW p \in Procs, NEW m, Start(p, m)
  PROVE  /\ m \in [Inum -> Copies]
         /\ \A i \in Inum : \/ m[i] = mem[i]
                            \/ lock[i] = None /\ Holds(p, i) /\ Alive(i) /\ m[i] = Copy(i) /\ ref[i] >= 1
<1>1. AllTypes /\ RefSum /\ mem \in [Inum -> Copies]
  BY DEF Inv, AllTypes, Copies
<1>2. CASE m = mem
  BY <1>1, <1>2
<1>3. ASSUME NEW d \in Inum, m = Loaded(d), Lockable(d), Holds(p, d), Alive(d)
      PROVE  /\ m \in [Inum -> Copies]
             /\ \A i \in Inum : \/ m[i] = mem[i]
                                \/ lock[i] = None /\ Holds(p, i) /\ Alive(i) /\ m[i] = Copy(i) /\ ref[i] >= 1
  <2>1. ref[d] >= 1
    BY <1>1, <1>3, HeldPos
  <2>2. lock[d] = None
    BY <1>3 DEF Lockable
  <2> QED
    BY <1>1, <1>3, <2>1, <2>2, LoadedIs
<1> QED
  BY <1>2, <1>3 DEF Start

\* ilock() is quiet,
LEMMA LoadTable ==
  ASSUME Inv, NEW p \in Procs, NEW m, Start(p, m), mem' = m, ref' = ref, lock' = lock
  PROVE  /\ Tables /\ \A i \in Inum : Table(p, i) /\ LockStep(p, i)
         /\ \A i \in Inum : ref'[i] = ref[i]
<1>1. AllTypes
  BY DEF Inv
<1>2. /\ m \in [Inum -> Copies]
      /\ \A i \in Inum : \/ m[i] = mem[i]
                         \/ lock[i] = None /\ Holds(p, i) /\ Alive(i) /\ m[i] = Copy(i) /\ ref[i] >= 1
  BY StartIs
<1>3. Tables
  BY <1>1, <1>2 DEF Tables, AllTypes
<1> QED
  BY <1>2, <1>3 DEF Table, LockStep

\* and so is iget() of what p may come to.
LEMMA GetTable ==
  ASSUME Inv, NEW p \in Procs, NEW m, Start(p, m), NEW g \in Inum, Reach(p, g), Get(g, m), lock' = lock
  PROVE  /\ Tables /\ \A i \in Inum : Table(p, i) /\ LockStep(p, i)
         /\ \A i \in Inum : ref'[i] = ref[i] + Same(g, i)
<1>1. AllTypes
  BY DEF Inv
<1>2. /\ m \in [Inum -> Copies]
      /\ \A i \in Inum : \/ m[i] = mem[i]
                         \/ lock[i] = None /\ Holds(p, i) /\ Alive(i) /\ m[i] = Copy(i) /\ ref[i] >= 1
  BY StartIs
<1>3. ref' = [ref EXCEPT ![g] = @ + 1] /\ mem' = Got(m, g) /\ ref \in [Inum -> Nat]
  BY <1>1 DEF Get, AllTypes
<1>4. ref' \in [Inum -> Nat] /\ \A i \in Inum : ref'[i] = ref[i] + Same(g, i)
  BY <1>3 DEF Same
<1>5. mem' \in [Inum -> Copies]
  BY <1>2, <1>3 DEF Got, Copies
<1>6. Tables
  BY <1>1, <1>4, <1>5 DEF Tables, AllTypes
<1>7. ASSUME NEW i \in Inum PROVE Table(p, i)
  <2>1. CASE i = g /\ ref[g] = 0
    <3>1. m[i] = mem[i]
      BY <1>2, <2>1
    <3>2. mem'[i] = [mem[i] EXCEPT !.valid = FALSE]
      BY <1>2, <1>3, <2>1, <3>1 DEF Got
    <3>3. ref'[i] = ref[i] + 1
      BY <1>3, <2>1
    <3> QED
      BY <2>1, <3>2, <3>3 DEF Table
  <2>2. CASE i = g /\ ref[g] # 0
    <3>1. mem'[i] = m[i] /\ ref'[i] = ref[i] + 1
      BY <1>3, <2>2 DEF Got
    <3> QED
      BY <1>2, <2>2, <3>1 DEF Table
  <2>3. CASE i # g
    <3>1. mem'[i] = m[i] /\ ref'[i] = ref[i]
      BY <1>2, <1>3, <2>3 DEF Got
    <3> QED
      BY <1>2, <3>1 DEF Table
  <2> QED
    BY <2>1, <2>2, <2>3
<1> QED
  BY <1>4, <1>6, <1>7 DEF LockStep

-----------------------------------------------------------------------------
(* What a quiet step has to show.                                           *)

LockPlaces == {"c_init", "u_child", "bad", "c_return", "u_dec"}

ShapeOf(l, c, x) ==
  /\ l.at # None <=> l.pc \in AtPlaces
  /\ l.dp # None <=> l.pc \in DpPlaces
  /\ l.ip # None <=> l.pc \in IpPlaces \/ Linking(l)
  /\ c = None <=> l.pc = "chdir2"
  /\ l.pc \in {"create", "unlink", "link_dir", "c_init", "u_child"} => Len(l.rest) = 1
  /\ l.pc \notin {"idle", "g_scan", "g_next"} => l.call \in Calls
  /\ l.pc = "walk" => l.goal \in {"link_dir", Goal(l.call.kind)}
  /\ l.pc = "g_scan" => l.last = l.at
  /\ l.pc = "g_next" => l.up = Root
  /\ l.pc = "walk" /\ l.goal # "link_dir" /\ l.call.kind = "mkdir" => l.at = Root /\ Len(l.rest) <= 1
  /\ l.pc \in {"create", "c_init"} /\ l.call.kind = "mkdir" => l.dp = Root
  /\ l.pc \in {"c_init", "u_child"} => x = None

LivingOf(l, c, f, t) ==
  /\ l.at # None => Alive(l.at)
  /\ l.dp # None => Alive(l.dp)
  /\ l.ip # None => Alive(l.ip)
  /\ c # None => Alive(c)
  /\ f # None => Alive(f)
  /\ Nth(t, 1) # None => Alive(Nth(t, 1))
  /\ Nth(t, 2) # None => Alive(Nth(t, 2))

DirsOf(l, c) ==
  /\ l.dp # None => IsDir(l.dp) /\ HasDots(l.dp)
  /\ c # None => IsDir(c) /\ HasDots(c)
  /\ l.pc = "g_scan" => IsDir(l.at)
  /\ l.pc = "chdir2" => IsDir(l.ip)
  /\ Linking(l) => ~IsDir(l.ip)
  /\ l.at # None /\ IsDir(l.at) => HasDots(l.at)
  /\ l.ip # None /\ l.pc # "c_init" /\ IsDir(l.ip) => HasDots(l.ip)

\* Where a step of p may get an inode from.
From(p, i) ==
  \/ i = None \/ i = Root \/ \E d \in Inum : \E n \in Names : ents[d][n] = i
  \/ i = loc[p].at \/ i = loc[p].dp \/ i = loc[p].ip \/ i = cwd[p]

Safely(p, l, c, f, t) ==
  /\ ShapeOf(l, c, Nth(t, 1)) /\ LivingOf(l, c, f, t) /\ DirsOf(l, c)
  /\ LinkIp(l) = LinkIp(loc[p])
  /\ l.pc \notin {"c_init", "u_child"}
  /\ loc[p].pc # "c_init" /\ (loc[p].pc = "u_dec" \/ l.pc = "u_dec" => l = loc[p])
  /\ From(p, l.at) /\ From(p, l.dp) /\ From(p, l.ip) /\ From(p, c)

\* The new variables of p are as the invariant wants them.
LEMMA SafelyIs ==
  ASSUME Inv, NEW p \in Procs, NEW l \in Local, NEW c \in Opt(Inum), NEW f \in Opt(Inum), NEW t \in Todo,
         Becomes(p, l, c, f, t), UNCHANGED <<disk, ents, put, stray>>, put[p] = "test",
         Safely(p, l, c, f, t), Locks(p)'
  PROVE  OwnStep(p)
<1>1. AllTypes
  BY DEF Inv
<1>2. /\ loc'[p] = l /\ cwd'[p] = c /\ fd'[p] = f /\ todo'[p] = t
      /\ Next1(p)' = Nth(t, 1) /\ Next2(p)' = Nth(t, 2)
  BY <1>1, BecomesIs
<1>3. put'[p] = "test" /\ disk' = disk /\ ents' = ents
  OBVIOUS
<1>4. Shape(p)'
  BY <1>2, <1>3 DEF Safely, ShapeOf, Shape, Linking
<1>5. Living(p)'
  BY <1>2, <1>3 DEF Safely, LivingOf, Living, Alive
<1>6. Dirs(p)'
  BY <1>2, <1>3 DEF Safely, DirsOf, Dirs, IsDir, HasDots, Linking
<1>7. Erasing(p)'
  <2>1. Erasing(p)
    BY DEF Inv
  <2>2. l.pc # "u_child" /\ (l.pc = "u_dec" => l = loc[p])
    BY DEF Safely
  <2> QED
    BY <1>2, <1>3, <2>1, <2>2 DEF Erasing, IsDir
<1>8. ASSUME NEW q \in Procs, q # p, loc[q].pc = "c_init"
      PROVE  l.at # loc[q].ip /\ l.dp # loc[q].ip /\ l.ip # loc[q].ip /\ c # loc[q].ip
  <2>1. loc[q].ip \in Inum /\ loc[q].ip # None
    <3>1. Shape(q) /\ loc[q] \in Local
      BY <1>1 DEF Inv, AllTypes
    <3> QED
      BY <1>8, <3>1 DEF Shape, IpPlaces, Local, Opt
  <2>2. ASSUME NEW i \in Inum, From(p, i) PROVE i # loc[q].ip
    BY <1>8, <2>1, <2>2, ReachNotMade DEF From
  <2>3. l.at \in Opt(Inum) /\ l.dp \in Opt(Inum) /\ l.ip \in Opt(Inum)
    BY DEF Local
  <2> QED
    BY <2>1, <2>2, <2>3 DEF Safely, Opt
<1> QED
  BY <1>1, <1>2, <1>4, <1>5, <1>6, <1>7, <1>8 DEF OwnStep, Safely

\* A step that takes or gives back no lock.
LEMMA SameLocks ==
  ASSUME Inv, NEW p \in Procs, NEW l \in Local, NEW c \in Opt(Inum), NEW f \in Opt(Inum), NEW t \in Todo,
         Becomes(p, l, c, f, t), put' = put, put[p] = "test", lock' = lock,
         \/ loc[p].pc \notin LockPlaces /\ l.pc \notin LockPlaces
         \/ l = loc[p]
         \/ loc[p].pc = "u_child" /\ l.pc = "bad" /\ l.dp = loc[p].dp
  PROVE  Locks(p)'
<1>1. Locks(p) /\ AllTypes
  BY DEF Inv
<1>2. loc'[p] = l /\ put'[p] = "test"
  BY <1>1, BecomesIs
<1>3. \A i \in Inum : HasLock(p, i)' <=> HasLock(p, i)
  BY <1>2 DEF HasLock, LockPlaces
<1> QED
  BY <1>1, <1>3 DEF Locks

\* A step that gives back the lock on d.
LEMMA FreesLock ==
  ASSUME Inv, NEW p \in Procs, NEW l \in Local, NEW c \in Opt(Inum), NEW f \in Opt(Inum), NEW t \in Todo,
         Becomes(p, l, c, f, t), put' = put, put[p] = "test", l.pc \notin LockPlaces,
         NEW d \in Inum, loc[p].pc \in LockPlaces \ {"c_init", "u_child"},
         d = IF loc[p].pc = "bad" THEN loc[p].dp ELSE loc[p].ip,
         lock' = [lock EXCEPT ![d] = None], mem' = mem, ref' = ref
  PROVE  /\ Locks(p)' /\ Tables /\ \A i \in Inum : Table(p, i) /\ LockStep(p, i)
<1>1. Locks(p) /\ AllTypes
  BY DEF Inv
<1>2. loc'[p] = l /\ put'[p] = "test" /\ lock \in [Inum -> Procs \cup {None}]
  BY <1>1, BecomesIs DEF AllTypes
<1>3. \A i \in Inum : ~HasLock(p, i)'
  BY <1>2 DEF HasLock, LockPlaces
<1>4. \A i \in Inum : HasLock(p, i) <=> i = d
  BY DEF HasLock, LockPlaces
<1>5. lock[d] = p /\ \A i \in Inum : lock[i] = p => i = d
  BY <1>1, <1>4 DEF Locks
<1>6. \A i \in Inum : lock'[i] # p /\ lock'[i] \in Procs \cup {None}
  BY <1>2, <1>5, NoInode
<1>7. Locks(p)'
  BY <1>3, <1>6 DEF Locks
<1>8. Tables
  BY <1>1, <1>2 DEF Tables, AllTypes, Copies
<1> QED
  BY <1>2, <1>5, <1>7, <1>8 DEF Table, LockStep

\* What is known of p between two steps.
LEMMA AtIs ==
  ASSUME Inv, NEW p \in Procs, NEW x, At(p, x)
  PROVE  /\ loc[p].pc = x /\ todo[p] = <<>> /\ Next1(p) = None /\ Next2(p) = None /\ put[p] = "test"
         /\ AllTypes /\ loc[p] \in Local /\ cwd[p] \in Opt(Inum) /\ fd[p] \in Opt(Inum) /\ <<>> \in Todo
         /\ \A i \in Inum : <<i>> \in Todo
         /\ ShapeOf(loc[p], cwd[p], None) /\ LivingOf(loc[p], cwd[p], fd[p], <<>>) /\ DirsOf(loc[p], cwd[p])
<1>1. AllTypes /\ Shape(p) /\ Living(p) /\ Dirs(p)
  BY DEF Inv
<1>2. loc[p].pc = x /\ todo[p] = <<>>
  BY DEF At
<1>3. Next1(p) = None /\ Next2(p) = None
  BY <1>1, <1>2, TodoIs
<1>4. put[p] = "test"
  BY <1>1, <1>3 DEF Shape
<1>5. ShapeOf(loc[p], cwd[p], None)
  BY <1>1, <1>3 DEF Shape, ShapeOf
<1>6. DirsOf(loc[p], cwd[p])
  BY <1>1 DEF Dirs, DirsOf
<1>7. LivingOf(loc[p], cwd[p], fd[p], <<>>)
  BY <1>1, NthOf DEF Living, LivingOf
<1>8. loc[p] \in Local /\ cwd[p] \in Opt(Inum) /\ fd[p] \in Opt(Inum) /\ <<>> \in Todo /\ \A i \in Inum : <<i>> \in Todo
  BY <1>1 DEF AllTypes, Opt, Todo
<1> QED
  BY <1>1, <1>2, <1>3, <1>4, <1>5, <1>6, <1>7, <1>8

\* ilock() of what p has.
LEMMA LockIs ==
  ASSUME Inv, NEW p \in Procs, NEW d \in Inum, Holds(p, d), Lockable(d)
  PROVE  /\ lock[d] = None /\ ref[d] >= 1 /\ Alive(d)
         /\ Copy(d).type = disk[d].type /\ Copy(d).nlink = disk[d].nlink
         /\ Copy(d) = [valid |-> TRUE, type |-> disk[d].type, nlink |-> disk[d].nlink]
         /\ Start(p, Loaded(d))
<1>1. AllTypes /\ RefSum /\ Copied(d)
  BY DEF Inv
<1>2. ref[d] >= 1 /\ lock[d] = None
  BY <1>1, HeldPos DEF Lockable
<1>3. ref[d] > 0
  BY <1>1, <1>2 DEF AllTypes
<1>4. /\ Copy(d).type = disk[d].type /\ Copy(d).nlink = disk[d].nlink
      /\ Copy(d) = [valid |-> TRUE, type |-> disk[d].type, nlink |-> disk[d].nlink]
  BY <1>1, <1>2, <1>3, CopyIs
<1>5. Alive(d)
  BY <1>1, <1>2, <1>3 DEF Lockable, Copied, Alive
<1> QED
  BY <1>2, <1>4, <1>5 DEF Start

\* dirlookup() in a directory that p has.
LEMMA LookupIs ==
  ASSUME Inv, NEW p \in Procs, NEW d \in Inum, d = loc[p].at \/ d = loc[p].dp,
         IsDir(d), HasDots(d), NEW n \in Names \cup Dots, ents[d][n] # None
  PROVE  /\ ents[d][n] \in Inum /\ Alive(ents[d][n]) /\ Reach(p, ents[d][n]) /\ From(p, ents[d][n])
         /\ IsDir(ents[d][n]) => HasDots(ents[d][n])
<1>1. AllTypes /\ RootOK /\ Entries
  BY DEF Inv
<1>2. CASE n = "."
  <2>1. ents[d][n] = d
    BY <1>2 DEF HasDots
  <2> QED
    BY <2>1 DEF IsDir, Alive, Reach, Holds, From
<1>3. CASE n = ".."
  <2>1. ents[d][n] = Root
    BY <1>3 DEF HasDots
  <2> QED
    BY <1>1, <2>1, NoInode DEF RootOK, IsDir, Alive, Reach, From
<1>4. CASE n \in Names
  <2>1. ents[d][n] \in Inum /\ Reach(p, ents[d][n]) /\ From(p, ents[d][n])
    BY <1>1, <1>4 DEF AllTypes, Reach, From
  <2> QED
    BY <1>1, <1>4, <2>1 DEF Entries
<1> QED
  BY <1>2, <1>3, <1>4 DEF Dots

-----------------------------------------------------------------------------
(* Quiet steps, by what they do to the table.                               *)

NoClimb(p, l) == l.pc \in {"g_scan", "g_next"} => loc[p].pc \in {"g_scan", "g_next"}
HeldLike(p, l, c, f, t) == \A i \in Inum : HeldBy(l, c, f, t, i) = HeldBy(loc[p], cwd[p], fd[p], todo[p], i)

\* What p holds is a number.
LEMMA HeldInt == \A l, c, f, t, i : HeldBy(l, c, f, t, i) \in Int
BY DEF HeldBy, LocBy, TodoBy, Same

\* A step that only reads,
LEMMA QuietLoad ==
  ASSUME Inv, NEW p \in Procs, NEW l \in Local, NEW c \in Opt(Inum), NEW f \in Opt(Inum), NEW t \in Todo,
         Becomes(p, l, c, f, t), UNCHANGED <<disk, ents, ref, lock, put, lost, stray>>, put[p] = "test",
         Safely(p, l, c, f, t), NoClimb(p, l), HeldLike(p, l, c, f, t), Start(p, mem'),
         \/ loc[p].pc \notin LockPlaces /\ l.pc \notin LockPlaces
         \/ l = loc[p]
         \/ loc[p].pc = "u_child" /\ l.pc = "bad" /\ l.dp = loc[p].dp
  PROVE  Inv'
<1>1. Locks(p)'
  BY SameLocks
<1>2. OwnStep(p)
  BY <1>1, SafelyIs
<1>3. Tables /\ \A i \in Inum : Table(p, i) /\ LockStep(p, i)
  <2> DEFINE m == mem'
  <2>1. Start(p, m) /\ mem' = m
    OBVIOUS
  <2> HIDE DEF m
  <2> QED
    BY <2>1, LoadTable
<1>4. \A i \in Inum : ref'[i] = ref[i] + HeldBy(l, c, f, t, i) - HeldBy(loc[p], cwd[p], fd[p], todo[p], i)
  <2>1. SUFFICES ASSUME NEW i \in Inum
                 PROVE  ref'[i] = ref[i] + HeldBy(l, c, f, t, i) - HeldBy(loc[p], cwd[p], fd[p], todo[p], i)
    OBVIOUS
  <2> DEFINE h == HeldBy(l, c, f, t, i)
  <2>2. h = HeldBy(loc[p], cwd[p], fd[p], todo[p], i) /\ h \in Int /\ ref[i] \in Int
    BY HeldInt DEF HeldLike, Inv, AllTypes
  <2> HIDE DEF h
  <2>3. ref[i] = ref[i] + h - h /\ ref'[i] = ref[i]
    BY <2>2
  <2> QED
    BY <2>2, <2>3 DEF h
<1> QED
  BY <1>2, <1>3, <1>4, TurnStep DEF NoClimb

HeldMore(p, l, c, f, t, g) ==
  \A i \in Inum : HeldBy(l, c, f, t, i) = HeldBy(loc[p], cwd[p], fd[p], todo[p], i) + Same(g, i)

\* one that adds a reference (its sum,
LEMMA GetRefs ==
  ASSUME Inv, NEW p \in Procs, NEW l, NEW c, NEW f, NEW t, NEW g, HeldMore(p, l, c, f, t, g),
         \A i \in Inum : ref'[i] = ref[i] + Same(g, i)
  PROVE  \A i \in Inum : ref'[i] = ref[i] + HeldBy(l, c, f, t, i) - HeldBy(loc[p], cwd[p], fd[p], todo[p], i)
<1>1. SUFFICES ASSUME NEW i \in Inum
               PROVE  ref'[i] = ref[i] + HeldBy(l, c, f, t, i) - HeldBy(loc[p], cwd[p], fd[p], todo[p], i)
  OBVIOUS
<1> DEFINE h == HeldBy(loc[p], cwd[p], fd[p], todo[p], i)
           k == HeldBy(l, c, f, t, i)
           s == Same(g, i)
<1>2. k = h + s /\ h \in Int /\ s \in Int /\ ref[i] \in Int /\ ref'[i] = ref[i] + s
  BY HeldInt, SameNat DEF HeldMore, Inv, AllTypes
<1> HIDE DEF h, k, s
<1>3. ref'[i] = ref[i] + k - h
  BY <1>2
<1> QED
  BY <1>3 DEF h, k

\* and the step),
LEMMA QuietGet ==
  ASSUME Inv, NEW p \in Procs, NEW l \in Local, NEW c \in Opt(Inum), NEW f \in Opt(Inum), NEW t \in Todo,
         Becomes(p, l, c, f, t), UNCHANGED <<disk, ents, lock, put, lost, stray>>, put[p] = "test",
         Safely(p, l, c, f, t), NoClimb(p, l), NEW g \in Inum, HeldMore(p, l, c, f, t, g),
         NEW m, Start(p, m), Reach(p, g), Get(g, m),
         loc[p].pc \notin LockPlaces /\ l.pc \notin LockPlaces
  PROVE  Inv'
<1>1. Locks(p)'
  BY SameLocks
<1>2. OwnStep(p)
  BY <1>1, SafelyIs
<1>3. Tables /\ (\A i \in Inum : Table(p, i) /\ LockStep(p, i)) /\ \A i \in Inum : ref'[i] = ref[i] + Same(g, i)
  BY GetTable
<1>4. \A i \in Inum : ref'[i] = ref[i] + HeldBy(l, c, f, t, i) - HeldBy(loc[p], cwd[p], fd[p], todo[p], i)
  BY <1>3, GetRefs
<1> QED
  BY <1>2, <1>3, <1>4, TurnStep DEF NoClimb

\* and one that unlocks.
LEMMA QuietFree ==
  ASSUME Inv, NEW p \in Procs, NEW l \in Local, NEW c \in Opt(Inum), NEW f \in Opt(Inum), NEW t \in Todo,
         Becomes(p, l, c, f, t), UNCHANGED <<disk, ents, ref, mem, put, lost, stray>>, put[p] = "test",
         Safely(p, l, c, f, t), NoClimb(p, l), HeldLike(p, l, c, f, t), l.pc \notin LockPlaces,
         NEW d \in Inum, loc[p].pc \in LockPlaces \ {"c_init", "u_child"},
         d = IF loc[p].pc = "bad" THEN loc[p].dp ELSE loc[p].ip,
         lock' = [lock EXCEPT ![d] = None]
  PROVE  Inv'
<1>1. Locks(p)' /\ Tables /\ \A i \in Inum : Table(p, i) /\ LockStep(p, i)
  BY FreesLock
<1>2. OwnStep(p)
  BY <1>1, SafelyIs
<1>4. \A i \in Inum : ref'[i] = ref[i] + HeldBy(l, c, f, t, i) - HeldBy(loc[p], cwd[p], fd[p], todo[p], i)
  <2>1. SUFFICES ASSUME NEW i \in Inum
                 PROVE  ref'[i] = ref[i] + HeldBy(l, c, f, t, i) - HeldBy(loc[p], cwd[p], fd[p], todo[p], i)
    OBVIOUS
  <2> DEFINE h == HeldBy(l, c, f, t, i)
  <2>2. h = HeldBy(loc[p], cwd[p], fd[p], todo[p], i) /\ h \in Int /\ ref[i] \in Int
    BY HeldInt DEF HeldLike, Inv, AllTypes
  <2> HIDE DEF h
  <2>3. ref[i] = ref[i] + h - h /\ ref'[i] = ref[i]
    BY <2>2
  <2> QED
    BY <2>2, <2>3 DEF h
<1> QED
  BY <1>1, <1>2, <1>4, TurnStep DEF NoClimb

-----------------------------------------------------------------------------
(* The end of a call.                                                       *)

\* p has only d in hand, and what of it can go to its descriptor or be put.
Hand(p, d) == LocBy(loc[p], d) = 1 /\ \A i \in Inum \ {d} : LocBy(loc[p], i) = 0

\* Between calls a process has no inode in hand.
LEMMA IdleIs ==
  /\ Idle \in Local /\ Idle.pc = "idle" /\ Idle.at = None /\ Idle.dp = None /\ Idle.ip = None
  /\ \A i \in Inum : LocBy(Idle, i) = 0
<1>1. /\ Idle.pc = "idle" /\ Idle.at = None /\ Idle.dp = None /\ Idle.ip = None
  BY DEF Idle
<1>2. Idle \in Local
  BY DEF Idle, Local, Opt, Places, Goals
<1>3. \A i \in Inum : LocBy(Idle, i) = 0
  BY <1>1, NoInode DEF LocBy, Same
<1> QED
  BY <1>1, <1>2, <1>3

\* What the end of a call has to show.
LEMMA Ends ==
  ASSUME Inv, NEW p \in Procs, NEW x, At(p, x), NEW d \in Inum,
         x \notin {"c_init", "u_child", "u_dec", "chdir2"}, ~Linking(loc[p]), Hand(p, d),
         NEW f \in Opt(Inum), NEW t \in Todo,
         (f = fd[p] /\ t = <<d>>) \/ (fd[p] = None /\ f = d /\ t = <<>>)
  PROVE  /\ Safely(p, Idle, cwd[p], f, t) /\ NoClimb(p, Idle) /\ HeldLike(p, Idle, cwd[p], f, t)
<1>1. /\ loc[p].pc = x /\ todo[p] = <<>> /\ loc[p] \in Local /\ AllTypes
      /\ ShapeOf(loc[p], cwd[p], None) /\ LivingOf(loc[p], cwd[p], fd[p], <<>>) /\ DirsOf(loc[p], cwd[p])
  BY AtIs
<1>2. d = loc[p].at \/ d = loc[p].dp \/ d = loc[p].ip
  BY DEF Hand, LocBy, Same
<1>3. Alive(d)
  BY <1>1, <1>2, NoInode DEF LivingOf
<1>4. d # None
  BY NoInode
<1>5. ShapeOf(Idle, cwd[p], Nth(t, 1))
  BY <1>1, IdleIs DEF ShapeOf, Linking, AtPlaces, DpPlaces, IpPlaces
<1>6. LivingOf(Idle, cwd[p], f, t)
  BY <1>1, <1>3, IdleIs, NthOf DEF LivingOf
<1>7. DirsOf(Idle, cwd[p])
  BY <1>1, IdleIs DEF DirsOf, Linking
<1>8. LinkIp(Idle) = LinkIp(loc[p])
  BY IdleIs DEF LinkIp, Linking
<1>9. Safely(p, Idle, cwd[p], f, t)
  BY <1>1, <1>5, <1>6, <1>7, <1>8, IdleIs DEF Safely, From
<1>10. HeldLike(p, Idle, cwd[p], f, t)
  <2>1. SUFFICES ASSUME NEW i \in Inum
                 PROVE  HeldBy(Idle, cwd[p], f, t, i) = HeldBy(loc[p], cwd[p], fd[p], todo[p], i)
    BY DEF HeldLike
  <2>2. LocBy(Idle, i) = 0 /\ LocBy(loc[p], i) = Same(d, i)
    BY IdleIs DEF Hand, Same
  <2>3. TodoBy(<<>>, i) = 0 /\ TodoBy(<<d>>, i) = Same(d, i) /\ Same(None, i) = 0
    BY NthOf, SameNone DEF TodoBy, Same
  <2> DEFINE s == Same(d, i)
             k == Same(cwd[p], i)
             h == Same(fd[p], i)
  <2>4. s \in Int /\ k \in Int /\ h \in Int
    BY SameNat
  <2>5. CASE f = fd[p] /\ t = <<d>>
    <3>1. HeldBy(Idle, cwd[p], f, t, i) = (0 + (k + h)) + s /\ HeldBy(loc[p], cwd[p], fd[p], todo[p], i) = (s + (k + h)) + 0
      BY <1>1, <2>2, <2>3, <2>5 DEF HeldBy
    <3> HIDE DEF s, k, h
    <3> QED
      BY <2>4, <3>1
  <2>6. CASE fd[p] = None /\ f = d /\ t = <<>>
    <3>1. HeldBy(Idle, cwd[p], f, t, i) = (0 + (k + s)) + 0 /\ HeldBy(loc[p], cwd[p], fd[p], todo[p], i) = (s + (k + 0)) + 0
      BY <1>1, <2>2, <2>3, <2>6 DEF HeldBy
    <3> HIDE DEF s, k, h
    <3> QED
      BY <2>4, <3>1
  <2> QED
    BY <2>5, <2>6
<1> QED
  BY <1>9, <1>10, IdleIs DEF NoClimb

\* The places with one inode in hand.
LEMMA HandIs ==
  ASSUME Inv, NEW p \in Procs, NEW x, At(p, x)
  PROVE  /\ x \in {"open", "c_found", "link_inc", "chdir", "c_return"} =>
              loc[p].ip \in Inum /\ Hand(p, loc[p].ip) /\ ~Linking(loc[p])
         /\ x \in {"create", "unlink", "bad"} => loc[p].dp \in Inum /\ Hand(p, loc[p].dp) /\ ~Linking(loc[p])
         /\ x = "g_scan" \/ (x = "walk" /\ loc[p].goal # "link_dir") =>
              loc[p].at \in Inum /\ Hand(p, loc[p].at) /\ ~Linking(loc[p])
<1>1. /\ loc[p].pc = x /\ loc[p] \in Local /\ ShapeOf(loc[p], cwd[p], None)
  BY AtIs
<1>2. \A i \in Inum : Same(None, i) = 0 /\ Same(i, i) = 1
  BY SameNone
<1>3. ASSUME x \in {"open", "c_found", "link_inc", "chdir", "c_return"}
      PROVE  loc[p].ip \in Inum /\ Hand(p, loc[p].ip) /\ ~Linking(loc[p])
  <2>1. loc[p].at = None /\ loc[p].dp = None /\ loc[p].ip \in Inum /\ ~Linking(loc[p])
    BY <1>1, <1>3 DEF ShapeOf, Local, Opt, AtPlaces, DpPlaces, IpPlaces, Linking
  <2> QED
    BY <1>2, <2>1 DEF Hand, LocBy, Same
<1>4. ASSUME x \in {"create", "unlink", "bad"}
      PROVE  loc[p].dp \in Inum /\ Hand(p, loc[p].dp) /\ ~Linking(loc[p])
  <2>1. loc[p].at = None /\ loc[p].ip = None /\ loc[p].dp \in Inum /\ ~Linking(loc[p])
    BY <1>1, <1>4 DEF ShapeOf, Local, Opt, AtPlaces, DpPlaces, IpPlaces, Linking
  <2> QED
    BY <1>2, <2>1 DEF Hand, LocBy, Same
<1>5. ASSUME x = "g_scan" \/ (x = "walk" /\ loc[p].goal # "link_dir")
      PROVE  loc[p].at \in Inum /\ Hand(p, loc[p].at) /\ ~Linking(loc[p])
  <2>1. loc[p].dp = None /\ loc[p].ip = None /\ loc[p].at \in Inum /\ ~Linking(loc[p])
    BY <1>1, <1>5 DEF ShapeOf, Local, Opt, AtPlaces, DpPlaces, IpPlaces, Linking
  <2> QED
    BY <1>2, <2>1 DEF Hand, LocBy, Same
<1> QED
  BY <1>3, <1>4, <1>5

\* The end of a call that puts or keeps the inode in hand.
LEMMA EndStep ==
  ASSUME Inv, NEW p \in Procs, NEW x, At(p, x), NEW d \in Inum,
         x \notin LockPlaces \cup {"chdir2"}, ~Linking(loc[p]), Hand(p, d),
         NEW f \in Opt(Inum), NEW t \in Todo,
         (f = fd[p] /\ t = <<d>>) \/ (fd[p] = None /\ f = d /\ t = <<>>),
         loc' = [loc EXCEPT ![p] = Idle], fd' = [fd EXCEPT ![p] = f], todo' = [todo EXCEPT ![p] = t],
         UNCHANGED <<disk, ents, ref, lock, cwd, put, lost, stray>>, Start(p, mem')
  PROVE  Inv'
<1>1. loc[p].pc = x /\ put[p] = "test" /\ AllTypes /\ cwd[p] \in Opt(Inum)
  BY AtIs
<1>2. Becomes(p, Idle, cwd[p], f, t)
  BY <1>1, Stays DEF Becomes
<1>3. Safely(p, Idle, cwd[p], f, t) /\ NoClimb(p, Idle) /\ HeldLike(p, Idle, cwd[p], f, t)
  BY Ends DEF LockPlaces
<1>4. Idle \in Local /\ Idle.pc \notin LockPlaces
  BY IdleIs DEF LockPlaces
<1> QED
  BY <1>1, <1>2, <1>3, <1>4, QuietLoad

\* What follows when p puts d at the end of a call.
LEMMA EndPut ==
  ASSUME Inv, NEW p \in Procs, NEW x, At(p, x), NEW d \in Inum,
         x \notin LockPlaces \cup {"chdir2"}, ~Linking(loc[p]), Hand(p, d), Done(p), Put(p, <<d>>),
         UNCHANGED <<disk, ents, ref, lock, cwd, fd, put, lost, stray>>, Start(p, mem')
  PROVE  Inv'
<1>1. fd[p] \in Opt(Inum) /\ <<d>> \in Todo /\ fd' = [fd EXCEPT ![p] = fd[p]]
  BY AtIs, Stays
<1>2. loc' = [loc EXCEPT ![p] = Idle] /\ todo' = [todo EXCEPT ![p] = <<d>>]
  BY DEF Done, Move, Put
<1> QED
  BY <1>1, <1>2, EndStep

\* It may become an open file.
LEMMA EndOpen ==
  ASSUME Inv, NEW p \in Procs, NEW x, At(p, x), NEW d \in Inum,
         x \notin LockPlaces \cup {"chdir2"}, ~Linking(loc[p]), Hand(p, d), Done(p), OpenInode(p, d),
         UNCHANGED <<disk, ents, ref, lock, cwd, put, lost, stray>>, Start(p, mem')
  PROVE  Inv'
<1>1. CASE Put(p, <<d>>) /\ fd' = fd
  BY <1>1, EndPut
<1>2. CASE fd[p] = None /\ fd' = [fd EXCEPT ![p] = d] /\ todo' = todo
  <2>1. d \in Opt(Inum) /\ <<>> \in Todo /\ todo' = [todo EXCEPT ![p] = <<>>]
    BY <1>2, AtIs, Stays DEF Opt
  <2>2. loc' = [loc EXCEPT ![p] = Idle]
    BY DEF Done, Move
  <2> QED
    BY <1>2, <2>1, <2>2, EndStep
<1> QED
  BY <1>1, <1>2 DEF OpenInode

\* What is in hand is held.
LEMMA HandHolds ==
  ASSUME NEW p \in Procs, NEW d, Hand(p, d)
  PROVE  Holds(p, d)
BY DEF Hand, LocBy, Same, Holds

\* Open keeps the invariant.
LEMMA OpenInv == ASSUME Inv, NEW p \in Procs, Open(p) PROVE Inv'
<1> DEFINE i == loc[p].ip
<1>1. /\ At(p, "open") /\ Lockable(i) /\ mem' = Loaded(i) /\ Done(p)
      /\ UNCHANGED <<disk, ents, ref, lock, cwd, put, lost, stray>>
      /\ (Put(p, <<i>>) /\ fd' = fd) \/ OpenInode(p, i)
  BY DEF Open
<1>2. i \in Inum /\ Hand(p, i) /\ ~Linking(loc[p])
  BY <1>1, HandIs
<1> HIDE DEF i
<1>3. Start(p, mem')
  BY <1>1, <1>2, HandHolds, LockIs
<1> QED
  BY <1>1, <1>2, <1>3, EndPut, EndOpen DEF LockPlaces

\* CreateFound keeps the invariant.
LEMMA CreateFoundInv == ASSUME Inv, NEW p \in Procs, CreateFound(p) PROVE Inv'
<1> DEFINE i == loc[p].ip
<1>1. /\ At(p, "c_found") /\ Lockable(i) /\ mem' = Loaded(i) /\ Done(p)
      /\ UNCHANGED <<disk, ents, ref, lock, cwd, put, lost, stray>>
      /\ (Put(p, <<i>>) /\ fd' = fd) \/ OpenInode(p, i)
  BY DEF CreateFound
<1>2. i \in Inum /\ Hand(p, i) /\ ~Linking(loc[p])
  BY <1>1, HandIs
<1> HIDE DEF i
<1>3. Start(p, mem')
  BY <1>1, <1>2, HandHolds, LockIs
<1> QED
  BY <1>1, <1>2, <1>3, EndPut, EndOpen DEF LockPlaces

\* The calls that end in a refusal with one inode in hand keep the invariant.
LEMMA EmptyHandInv ==
  ASSUME Inv, NEW p \in Procs, CreateNone(p) \/ UnlinkMiss(p) \/ LinkRefuse(p) \/ ChdirRefuse(p)
  PROVE  Inv'
<1>1. ASSUME NEW x, NEW d, At(p, x), x \in {"create", "unlink", "link_inc", "chdir"},
             d = IF x \in {"create", "unlink"} THEN loc[p].dp ELSE loc[p].ip,
             Lockable(d), mem' = Loaded(d), Put(p, <<d>>), Done(p),
             UNCHANGED <<disk, ents, ref, lock, cwd, fd, put, lost, stray>>
      PROVE  Inv'
  <2>1. d \in Inum /\ Hand(p, d) /\ ~Linking(loc[p])
    BY <1>1, HandIs
  <2>2. Start(p, mem')
    BY <1>1, <2>1, HandHolds, LockIs
  <2> QED
    BY <1>1, <2>1, <2>2, EndPut DEF LockPlaces
<1>2. CASE CreateNone(p)
  BY <1>1, <1>2 DEF CreateNone
<1>3. CASE UnlinkMiss(p)
  BY <1>1, <1>3 DEF UnlinkMiss
<1>4. CASE LinkRefuse(p)
  BY <1>1, <1>4 DEF LinkRefuse
<1>5. CASE ChdirRefuse(p)
  BY <1>1, <1>5 DEF ChdirRefuse
<1> QED
  BY <1>2, <1>3, <1>4, <1>5

-----------------------------------------------------------------------------
(* Moving on with other inodes in hand.                                     *)

\* What p holds when it moves on.
LEMMA MoveHeld ==
  ASSUME Inv, NEW p \in Procs, todo[p] = <<>>, NEW l, NEW d, NEW g
  PROVE  /\ (\A i \in Inum : LocBy(l, i) = LocBy(loc[p], i)) => HeldLike(p, l, cwd[p], fd[p], <<>>)
         /\ (\A i \in Inum : LocBy(l, i) + Same(d, i) = LocBy(loc[p], i)) => HeldLike(p, l, cwd[p], fd[p], <<d>>)
         /\ (\A i \in Inum : LocBy(l, i) = LocBy(loc[p], i) + Same(g, i)) => HeldMore(p, l, cwd[p], fd[p], <<>>, g)
         /\ (\A i \in Inum : LocBy(l, i) + Same(d, i) = LocBy(loc[p], i) + Same(g, i))
               => HeldMore(p, l, cwd[p], fd[p], <<d>>, g)
<1>1. SUFFICES ASSUME NEW i \in Inum
               PROVE  /\ LocBy(l, i) = LocBy(loc[p], i)
                           => HeldBy(l, cwd[p], fd[p], <<>>, i) = HeldBy(loc[p], cwd[p], fd[p], todo[p], i)
                      /\ LocBy(l, i) + Same(d, i) = LocBy(loc[p], i)
                           => HeldBy(l, cwd[p], fd[p], <<d>>, i) = HeldBy(loc[p], cwd[p], fd[p], todo[p], i)
                      /\ LocBy(l, i) = LocBy(loc[p], i) + Same(g, i)
                           => HeldBy(l, cwd[p], fd[p], <<>>, i)
                                = HeldBy(loc[p], cwd[p], fd[p], todo[p], i) + Same(g, i)
                      /\ LocBy(l, i) + Same(d, i) = LocBy(loc[p], i) + Same(g, i)
                           => HeldBy(l, cwd[p], fd[p], <<d>>, i)
                                = HeldBy(loc[p], cwd[p], fd[p], todo[p], i) + Same(g, i)
  BY DEF HeldLike, HeldMore
<1>2. TodoBy(<<>>, i) = 0 /\ TodoBy(<<d>>, i) = Same(d, i)
  BY NthOf, SameNone, SameNat DEF TodoBy
<1> DEFINE k == Same(cwd[p], i) + Same(fd[p], i)
           x == LocBy(l, i)
           y == LocBy(loc[p], i)
           s == Same(d, i)
           r == Same(g, i)
<1>3. k \in Int /\ x \in Int /\ y \in Int /\ s \in Int /\ r \in Int
  BY DEF LocBy, Same
<1>4. /\ HeldBy(l, cwd[p], fd[p], <<>>, i) = (x + k) + 0
      /\ HeldBy(l, cwd[p], fd[p], <<d>>, i) = (x + k) + s
      /\ HeldBy(loc[p], cwd[p], fd[p], todo[p], i) = (y + k) + 0
  BY <1>2 DEF HeldBy
<1> HIDE DEF k, x, y, s, r
<1>5. /\ x = y => (x + k) + 0 = (y + k) + 0
      /\ x + s = y => (x + k) + s = (y + k) + 0
      /\ x = y + r => (x + k) + 0 = ((y + k) + 0) + r
      /\ x + s = y + r => (x + k) + s = ((y + k) + 0) + r
  BY <1>3
<1> QED
  BY <1>4, <1>5 DEF x, y, s, r

\* The places of p afterwards, with cwd, fd as they are.
LEMMA MoveBecomes ==
  ASSUME Inv, NEW p \in Procs, NEW x, At(p, x), NEW l, NEW t, loc' = [loc EXCEPT ![p] = l],
         UNCHANGED <<cwd, fd>>, todo' = [todo EXCEPT ![p] = t] \/ (todo' = todo /\ t = <<>>)
  PROVE  Becomes(p, l, cwd[p], fd[p], t)
<1>1. AllTypes /\ todo[p] = <<>>
  BY AtIs
<1> QED
  BY <1>1, Stays DEF Becomes

\* What is known in the middle of a walk.
LEMMA WalkIs ==
  ASSUME Inv, NEW p \in Procs, At(p, "walk")
  PROVE  /\ loc[p].at \in Inum /\ loc[p].dp = None /\ Alive(loc[p].at) /\ Holds(p, loc[p].at)
         /\ loc[p].call \in Calls /\ loc[p].goal \in {"link_dir", Goal(loc[p].call.kind)}
         /\ loc[p].goal \in {"open", "create", "link_inc", "link_dir", "unlink", "chdir"}
         /\ loc[p].goal # "link_dir" => loc[p].ip = None
         /\ loc[p].goal = "link_dir" => loc[p].ip \in Inum /\ ~IsDir(loc[p].ip) /\ Alive(loc[p].ip)
         /\ IsDir(loc[p].at) => HasDots(loc[p].at)
         /\ cwd[p] \in Inum /\ loc[p].rest \in Seq(Names \cup Dots)
<1>1. /\ loc[p].pc = "walk" /\ loc[p] \in Local /\ ShapeOf(loc[p], cwd[p], None)
      /\ LivingOf(loc[p], cwd[p], fd[p], <<>>) /\ DirsOf(loc[p], cwd[p]) /\ cwd[p] \in Opt(Inum)
  BY AtIs
<1>2. /\ loc[p].at # None /\ loc[p].dp = None /\ cwd[p] # None
      /\ loc[p].ip # None <=> loc[p].goal = "link_dir"
      /\ loc[p].call \in Calls /\ loc[p].goal \in {"link_dir", Goal(loc[p].call.kind)}
  BY <1>1 DEF ShapeOf, AtPlaces, DpPlaces, IpPlaces, Linking
<1>3. loc[p].at \in Inum /\ (loc[p].ip # None => loc[p].ip \in Inum) /\ cwd[p] \in Inum
      /\ loc[p].rest \in Seq(Names \cup Dots)
  BY <1>1, <1>2 DEF Local, Opt
<1>4. Goal(loc[p].call.kind) \in {"open", "create", "link_inc", "unlink", "chdir"}
  <2>1. loc[p].call.kind \in Kinds
    BY <1>2, DirectoryAssumption
  <2> QED
    BY <2>1 DEF Goal, Kinds
<1>5. Alive(loc[p].at) /\ (IsDir(loc[p].at) => HasDots(loc[p].at))
  BY <1>1, <1>2 DEF LivingOf, DirsOf
<1>6. loc[p].goal = "link_dir" => ~IsDir(loc[p].ip) /\ Alive(loc[p].ip)
  BY <1>1, <1>2 DEF LivingOf, DirsOf, Linking
<1> QED
  BY <1>2, <1>3, <1>4, <1>5, <1>6 DEF Holds

\* link() goes on after its second walk has failed.
LEMMA UndoStep ==
  ASSUME Inv, NEW p \in Procs, NEW x, At(p, x), NEW d \in Inum,
         (x = "walk" /\ loc[p].goal = "link_dir" /\ d = loc[p].at) \/ (x = "link_dir" /\ d = loc[p].dp),
         loc' = [loc EXCEPT ![p] = [loc[p] EXCEPT !.pc = "link_undo", !.at = None, !.dp = None]],
         todo' = [todo EXCEPT ![p] = <<d>>],
         UNCHANGED <<disk, ents, ref, lock, cwd, fd, put, lost, stray>>, Start(p, mem')
  PROVE  Inv'
<1> DEFINE l == [loc[p] EXCEPT !.pc = "link_undo", !.at = None, !.dp = None]
<1>1. /\ loc[p].pc = x /\ todo[p] = <<>> /\ put[p] = "test" /\ loc[p] \in Local
      /\ ShapeOf(loc[p], cwd[p], None) /\ LivingOf(loc[p], cwd[p], fd[p], <<>>) /\ DirsOf(loc[p], cwd[p])
      /\ cwd[p] \in Opt(Inum) /\ fd[p] \in Opt(Inum) /\ <<d>> \in Todo
  BY AtIs
<1>2. /\ l \in Local /\ l.pc = "link_undo" /\ l.at = None /\ l.dp = None /\ l.ip = loc[p].ip
      /\ l.rest = loc[p].rest /\ l.call = loc[p].call /\ l.goal = loc[p].goal
  BY <1>1 DEF Local, Opt, Places
<1>3. Becomes(p, l, cwd[p], fd[p], <<d>>)
  BY MoveBecomes
<1> HIDE DEF l
<1>4. Linking(loc[p]) /\ Linking(l)
  BY <1>1, <1>2 DEF Linking
<1>5. ShapeOf(l, cwd[p], Nth(<<d>>, 1))
  BY <1>1, <1>2, <1>4 DEF ShapeOf, AtPlaces, DpPlaces, IpPlaces
<1>6. LivingOf(l, cwd[p], fd[p], <<d>>)
  BY <1>1, <1>2, NthOf, NoInode DEF LivingOf
<1>7. DirsOf(l, cwd[p])
  BY <1>1, <1>2, <1>4 DEF DirsOf
<1>8. Safely(p, l, cwd[p], fd[p], <<d>>)
  BY <1>1, <1>2, <1>4, <1>5, <1>6, <1>7 DEF Safely, From, LinkIp
<1>9. \A i \in Inum : LocBy(l, i) + Same(d, i) = LocBy(loc[p], i)
  <2>1. CASE x = "walk"
    <3>1. loc[p].dp = None /\ loc[p].at = d
      BY <1>1, <2>1 DEF ShapeOf, DpPlaces
    <3> QED
      BY <1>2, <3>1, NoInode DEF LocBy, Same
  <2>2. CASE x = "link_dir"
    <3>1. loc[p].at = None /\ loc[p].dp = d
      BY <1>1, <2>2 DEF ShapeOf, AtPlaces
    <3> QED
      BY <1>2, <3>1, NoInode DEF LocBy, Same
  <2> QED
    BY <2>1, <2>2
<1>10. HeldLike(p, l, cwd[p], fd[p], <<d>>)
  BY <1>1, <1>9, MoveHeld
<1>11. NoClimb(p, l) /\ loc[p].pc \notin LockPlaces /\ l.pc \notin LockPlaces
  BY <1>1, <1>2 DEF NoClimb, LockPlaces
<1> QED
  BY <1>1, <1>2, <1>3, <1>8, <1>10, <1>11, QuietLoad

\* WalkFails keeps the invariant.
LEMMA WalkFailsInv ==
  ASSUME Inv, NEW p \in Procs, At(p, "walk"), WalkFails(p, loc[p].at),
         UNCHANGED <<disk, ents, ref, lock, cwd, fd, put, lost, stray>>, Start(p, mem')
  PROVE  Inv'
<1> DEFINE d == loc[p].at
<1>1. d \in Inum /\ loc[p].dp = None /\ loc[p] \in Local
  BY WalkIs, AtIs
<1>2. CASE loc[p].goal = "link_dir"
  <2>1. loc' = [loc EXCEPT ![p] = [loc[p] EXCEPT !.pc = "link_undo", !.at = None]]
        /\ todo' = [todo EXCEPT ![p] = <<d>>]
    BY <1>2 DEF WalkFails, Move, Put
  <2>2. [loc[p] EXCEPT !.pc = "link_undo", !.at = None]
          = [loc[p] EXCEPT !.pc = "link_undo", !.at = None, !.dp = None]
    BY <1>1 DEF Local
  <2> QED
    BY <1>1, <1>2, <2>1, <2>2, UndoStep
<1>3. CASE loc[p].goal # "link_dir"
  <2>1. Done(p) /\ Put(p, <<d>>)
    BY <1>3 DEF WalkFails, Done
  <2>2. Hand(p, d) /\ ~Linking(loc[p])
    BY <1>3, HandIs
  <2> HIDE DEF d
  <2> QED
    BY <1>1, <2>1, <2>2, EndPut DEF LockPlaces
<1> QED
  BY <1>2, <1>3

\* WalkMiss keeps the invariant.
LEMMA WalkMissInv == ASSUME Inv, NEW p \in Procs, WalkMiss(p) PROVE Inv'
<1>1. /\ At(p, "walk") /\ Lockable(loc[p].at) /\ mem' = Loaded(loc[p].at) /\ WalkFails(p, loc[p].at)
      /\ UNCHANGED <<disk, ents, ref, lock, cwd, fd, put, lost, stray>>
  BY DEF WalkMiss
<1>2. Start(p, mem')
  BY <1>1, WalkIs, LockIs
<1> QED
  BY <1>1, <1>2, WalkFailsInv

\* LinkBad keeps the invariant.
LEMMA LinkBadInv == ASSUME Inv, NEW p \in Procs, LinkBad(p) PROVE Inv'
<1> DEFINE d == loc[p].dp
<1>1. /\ At(p, "link_dir") /\ Lockable(d) /\ mem' = Loaded(d) /\ todo' = [todo EXCEPT ![p] = <<d>>]
      /\ loc' = [loc EXCEPT ![p] = [loc[p] EXCEPT !.pc = "link_undo", !.dp = None]]
      /\ UNCHANGED <<disk, ents, ref, lock, cwd, fd, put, lost, stray>>
  BY DEF LinkBad, Put, Move
<1>2. loc[p] \in Local /\ loc[p].pc = "link_dir" /\ ShapeOf(loc[p], cwd[p], None)
  BY <1>1, AtIs
<1>3. loc[p].at = None /\ d \in Inum
  BY <1>2 DEF ShapeOf, AtPlaces, DpPlaces, Local, Opt
<1>4. [loc[p] EXCEPT !.pc = "link_undo", !.dp = None]
        = [loc[p] EXCEPT !.pc = "link_undo", !.at = None, !.dp = None]
  BY <1>2, <1>3 DEF Local
<1>5. Start(p, mem')
  BY <1>1, <1>3, LockIs DEF Holds
<1> QED
  BY <1>1, <1>3, <1>4, <1>5, UndoStep

\* WalkEnd keeps the invariant.
LEMMA WalkEndInv == ASSUME Inv, NEW p \in Procs, WalkEnd(p) PROVE Inv'
<1>1. At(p, "walk") /\ UNCHANGED <<disk, ents, ref, mem, lock, cwd, fd, put, lost, stray>>
  BY DEF WalkEnd, fs
<1>2. CASE Parent(loc[p].goal)
  <2>1. WalkFails(p, loc[p].at)
    BY <1>2 DEF WalkEnd
  <2>2. Start(p, mem')
    BY <1>1 DEF Start
  <2> QED
    BY <1>1, <2>1, <2>2, WalkFailsInv
<1>3. CASE ~Parent(loc[p].goal)
  <2> DEFINE l == [loc[p] EXCEPT !.pc = loc[p].goal, !.ip = loc[p].at, !.at = None]
  <2>1. loc' = [loc EXCEPT ![p] = l] /\ todo' = todo
    BY <1>3 DEF WalkEnd, Move
  <2>2. /\ loc[p].pc = "walk" /\ todo[p] = <<>> /\ put[p] = "test" /\ loc[p] \in Local /\ AllTypes
        /\ ShapeOf(loc[p], cwd[p], None) /\ LivingOf(loc[p], cwd[p], fd[p], <<>>) /\ DirsOf(loc[p], cwd[p])
        /\ cwd[p] \in Opt(Inum) /\ fd[p] \in Opt(Inum) /\ <<>> \in Todo
    BY <1>1, AtIs
  <2>3. /\ loc[p].at \in Inum /\ loc[p].dp = None /\ loc[p].goal \in {"open", "link_inc", "chdir"}
        /\ loc[p].ip = None /\ (IsDir(loc[p].at) => HasDots(loc[p].at)) /\ Alive(loc[p].at)
        /\ loc[p].call \in Calls
    BY <1>1, <1>3, WalkIs DEF Parent
  <2>4. /\ l \in Local /\ l.pc = loc[p].goal /\ l.at = None /\ l.dp = None /\ l.ip = loc[p].at
        /\ l.rest = loc[p].rest /\ l.call = loc[p].call /\ l.goal = loc[p].goal
    BY <2>2, <2>3 DEF Local, Opt, Places
  <2>5. Becomes(p, l, cwd[p], fd[p], <<>>)
    BY <1>1, <2>1, MoveBecomes
  <2> HIDE DEF l
  <2>6. ~Linking(loc[p]) /\ ~Linking(l)
    BY <2>2, <2>3, <2>4 DEF Linking
  <2>7. ShapeOf(l, cwd[p], Nth(<<>>, 1))
    BY <2>2, <2>3, <2>4, <2>6, NoInode DEF ShapeOf, AtPlaces, DpPlaces, IpPlaces
  <2>8. LivingOf(l, cwd[p], fd[p], <<>>)
    BY <2>2, <2>3, <2>4, NthOf DEF LivingOf
  <2>9. DirsOf(l, cwd[p])
    BY <2>2, <2>3, <2>4, <2>6 DEF DirsOf
  <2>10. Safely(p, l, cwd[p], fd[p], <<>>)
    BY <2>2, <2>3, <2>4, <2>6, <2>7, <2>8, <2>9 DEF Safely, From, LinkIp
  <2>11. \A i \in Inum : LocBy(l, i) = LocBy(loc[p], i)
    BY <2>3, <2>4, NoInode DEF LocBy, Same
  <2>12. HeldLike(p, l, cwd[p], fd[p], <<>>)
    BY <2>2, <2>11, MoveHeld
  <2>13. NoClimb(p, l) /\ loc[p].pc \notin LockPlaces /\ l.pc \notin LockPlaces
    BY <2>2, <2>3, <2>4 DEF NoClimb, LockPlaces
  <2>14. Start(p, mem')
    BY <1>1 DEF Start
  <2> QED
    BY <1>1, <2>2, <2>4, <2>5, <2>10, <2>12, <2>13, <2>14, QuietLoad
<1> QED
  BY <1>2, <1>3

\* WalkStop keeps the invariant.
LEMMA WalkStopInv == ASSUME Inv, NEW p \in Procs, WalkStop(p) PROVE Inv'
<1> DEFINE l == [loc[p] EXCEPT !.pc = loc[p].goal, !.dp = loc[p].at, !.at = None]
<1>1. /\ At(p, "walk") /\ UNCHANGED <<disk, ents, ref, lock, cwd, fd, todo, put, lost, stray>>
      /\ StopsHere(loc[p]) /\ Lockable(loc[p].at) /\ Copy(loc[p].at).type = "dir"
      /\ mem' = Loaded(loc[p].at) /\ loc' = [loc EXCEPT ![p] = l]
  BY DEF WalkStop, Move
<1>2. /\ loc[p].pc = "walk" /\ todo[p] = <<>> /\ put[p] = "test" /\ loc[p] \in Local /\ AllTypes
      /\ ShapeOf(loc[p], cwd[p], None) /\ LivingOf(loc[p], cwd[p], fd[p], <<>>) /\ DirsOf(loc[p], cwd[p])
      /\ cwd[p] \in Opt(Inum) /\ fd[p] \in Opt(Inum) /\ <<>> \in Todo
  BY <1>1, AtIs
<1>3. /\ loc[p].at \in Inum /\ loc[p].dp = None /\ Alive(loc[p].at) /\ Holds(p, loc[p].at)
      /\ loc[p].call \in Calls /\ (IsDir(loc[p].at) => HasDots(loc[p].at))
  BY <1>1, WalkIs
<1>4. loc[p].goal \in {"create", "unlink", "link_dir"} /\ Len(loc[p].rest) = 1
  BY <1>1 DEF StopsHere, Parent
<1>5. IsDir(loc[p].at) /\ HasDots(loc[p].at) /\ Start(p, mem')
  BY <1>1, <1>3, LockIs DEF IsDir
<1>6. /\ l \in Local /\ l.pc = loc[p].goal /\ l.at = None /\ l.dp = loc[p].at /\ l.ip = loc[p].ip
      /\ l.rest = loc[p].rest /\ l.call = loc[p].call /\ l.goal = loc[p].goal
  <2>1. loc[p].goal \in Places /\ loc[p].at \in Opt(Inum) /\ None \in Opt(Inum)
    BY <1>3, <1>4 DEF Opt, Places
  <2>2. l \in Local
    BY <1>2, <2>1 DEF Local
  <2> QED
    BY <1>2, <2>2 DEF Local
<1>7. Becomes(p, l, cwd[p], fd[p], <<>>)
  BY <1>1, MoveBecomes
<1> HIDE DEF l
<1>8. (Linking(loc[p]) <=> Linking(l)) /\ (Linking(l) <=> loc[p].goal = "link_dir")
  BY <1>2, <1>4, <1>6 DEF Linking
<1>9. ShapeOf(l, cwd[p], Nth(<<>>, 1))
  BY <1>2, <1>3, <1>4, <1>6, <1>8, NoInode DEF ShapeOf, AtPlaces, DpPlaces, IpPlaces
<1>10. LivingOf(l, cwd[p], fd[p], <<>>)
  BY <1>2, <1>3, <1>6, NthOf DEF LivingOf
<1>11. DirsOf(l, cwd[p])
  BY <1>2, <1>3, <1>4, <1>5, <1>6, <1>8 DEF DirsOf
<1>12. Safely(p, l, cwd[p], fd[p], <<>>)
  BY <1>2, <1>3, <1>4, <1>6, <1>8, <1>9, <1>10, <1>11 DEF Safely, From, LinkIp
<1>13. \A i \in Inum : LocBy(l, i) = LocBy(loc[p], i)
  BY <1>3, <1>6, NoInode DEF LocBy, Same
<1>14. HeldLike(p, l, cwd[p], fd[p], <<>>)
  BY <1>2, <1>13, MoveHeld
<1>15. NoClimb(p, l) /\ loc[p].pc \notin LockPlaces /\ l.pc \notin LockPlaces
  BY <1>2, <1>4, <1>6 DEF NoClimb, LockPlaces
<1> QED
  BY <1>1, <1>2, <1>5, <1>6, <1>7, <1>12, <1>14, <1>15, QuietLoad

\* WalkDown keeps the invariant.
LEMMA WalkDownInv == ASSUME Inv, NEW p \in Procs, WalkDown(p) PROVE Inv'
<1> DEFINE d == loc[p].at
           n == Head(loc[p].rest)
           g == ents[d][n]
           l == [loc[p] EXCEPT !.at = g, !.rest = Tail(@)]
<1>1. /\ At(p, "walk") /\ UNCHANGED <<disk, ents, lock, cwd, fd, put, lost, stray>>
      /\ ~StopsHere(loc[p]) /\ Lockable(d) /\ Copy(d).type = "dir" /\ loc[p].rest # <<>> /\ g # None
      /\ Get(g, Loaded(d)) /\ loc' = [loc EXCEPT ![p] = l] /\ todo' = [todo EXCEPT ![p] = <<d>>]
  BY DEF WalkDown, Move, Put
<1>2. /\ loc[p].pc = "walk" /\ todo[p] = <<>> /\ put[p] = "test" /\ loc[p] \in Local /\ AllTypes
      /\ ShapeOf(loc[p], cwd[p], None) /\ LivingOf(loc[p], cwd[p], fd[p], <<>>) /\ DirsOf(loc[p], cwd[p])
      /\ cwd[p] \in Opt(Inum) /\ fd[p] \in Opt(Inum)
  BY <1>1, AtIs
<1>3. /\ d \in Inum /\ loc[p].dp = None /\ Alive(d) /\ Holds(p, d)
      /\ loc[p].call \in Calls /\ (IsDir(d) => HasDots(d)) /\ loc[p].rest \in Seq(Names \cup Dots)
      /\ loc[p].goal \in {"link_dir", Goal(loc[p].call.kind)}
  BY <1>1, WalkIs
<1>4. n \in Names \cup Dots /\ Tail(loc[p].rest) \in Seq(Names \cup Dots) /\ <<d>> \in Todo
      /\ Len(Tail(loc[p].rest)) = Len(loc[p].rest) - 1 /\ Len(loc[p].rest) \in Nat /\ Len(loc[p].rest) # 0
  BY <1>1, <1>3 DEF Todo
<1>5. IsDir(d) /\ HasDots(d) /\ Start(p, Loaded(d))
  BY <1>1, <1>3, LockIs DEF IsDir
<1>6. g \in Inum /\ Alive(g) /\ Reach(p, g) /\ From(p, g) /\ (IsDir(g) => HasDots(g))
  BY <1>1, <1>3, <1>4, <1>5, LookupIs
<1>7. ~(loc[p].goal # "link_dir" /\ loc[p].call.kind = "mkdir")
  <2>1. SUFFICES ASSUME loc[p].goal # "link_dir", loc[p].call.kind = "mkdir" PROVE FALSE
    OBVIOUS
  <2>2. Len(loc[p].rest) <= 1
    BY <1>2, <2>1 DEF ShapeOf
  <2>3. Len(loc[p].rest) = 1
    BY <1>4, <2>2
  <2>4. Parent(loc[p].goal)
    BY <1>3, <2>1 DEF Goal, Parent
  <2> QED
    BY <1>1, <2>3, <2>4 DEF StopsHere
<1>8. Becomes(p, l, cwd[p], fd[p], <<d>>)
  BY <1>1, MoveBecomes
<1>9. /\ l \in Local /\ l.pc = "walk" /\ l.at = g /\ l.dp = None /\ l.ip = loc[p].ip
      /\ l.call = loc[p].call /\ l.goal = loc[p].goal
  BY <1>2, <1>3, <1>4, <1>6 DEF Local, Opt
<1> HIDE DEF l, g, n
<1>10. Linking(loc[p]) <=> Linking(l)
  BY <1>2, <1>9 DEF Linking
<1>11. ShapeOf(l, cwd[p], Nth(<<d>>, 1))
  BY <1>2, <1>3, <1>6, <1>7, <1>9, <1>10, NoInode DEF ShapeOf, AtPlaces, DpPlaces, IpPlaces
<1>12. LivingOf(l, cwd[p], fd[p], <<d>>)
  BY <1>2, <1>3, <1>6, <1>9, NthOf DEF LivingOf
<1>13. DirsOf(l, cwd[p])
  BY <1>2, <1>6, <1>9, <1>10 DEF DirsOf
<1>14. Safely(p, l, cwd[p], fd[p], <<d>>)
  BY <1>2, <1>6, <1>9, <1>10, <1>11, <1>12, <1>13 DEF Safely, From, LinkIp
<1>15. \A i \in Inum : LocBy(l, i) + Same(d, i) = LocBy(loc[p], i) + Same(g, i)
  BY <1>3, <1>9, NoInode DEF LocBy, Same
<1>16. HeldMore(p, l, cwd[p], fd[p], <<d>>, g)
  BY <1>2, <1>15, MoveHeld
<1>17. NoClimb(p, l) /\ loc[p].pc \notin LockPlaces /\ l.pc \notin LockPlaces
  BY <1>2, <1>9 DEF NoClimb, LockPlaces
<1> DEFINE m == Loaded(d)
<1>18. Start(p, m) /\ Get(g, m)
  BY <1>1, <1>5
<1> HIDE DEF m, d
<1> QED
  BY <1>1, <1>2, <1>4, <1>6, <1>8, <1>9, <1>14, <1>16, <1>17, <1>18, QuietGet

\* Begin keeps the invariant.
LEMMA BeginInv == ASSUME FlatCalls, Inv, NEW p \in Procs, NEW k \in Calls, Begin(p, k) PROVE Inv'
<1> DEFINE g == First(p, k.path)
           l == Walking(p, [Idle EXCEPT !.call = k], k.path, Goal(k.kind))
<1>1. /\ At(p, "idle") /\ UNCHANGED <<disk, ents, lock, cwd, fd, todo, put, lost, stray>>
      /\ Get(g, mem) /\ loc' = [loc EXCEPT ![p] = l]
  BY DEF Begin, Move
<1>2. /\ loc[p].pc = "idle" /\ todo[p] = <<>> /\ put[p] = "test" /\ loc[p] \in Local /\ AllTypes
      /\ ShapeOf(loc[p], cwd[p], None) /\ LivingOf(loc[p], cwd[p], fd[p], <<>>) /\ DirsOf(loc[p], cwd[p])
      /\ cwd[p] \in Opt(Inum) /\ fd[p] \in Opt(Inum) /\ <<>> \in Todo
  BY <1>1, AtIs
<1>3. loc[p].at = None /\ loc[p].dp = None /\ loc[p].ip = None /\ cwd[p] \in Inum /\ ~Linking(loc[p])
  BY <1>2 DEF ShapeOf, AtPlaces, DpPlaces, IpPlaces, Linking, Opt
<1>4. /\ k.kind \in Kinds /\ k.path.abs \in BOOLEAN /\ k.path.elems \in Seq(Names \cup Dots)
  BY DirectoryAssumption DEF Path
<1>5. Goal(k.kind) \in {"open", "create", "link_inc", "unlink", "chdir"}
  BY <1>4 DEF Goal, Kinds
<1>6. g \in Inum /\ Alive(g) /\ IsDir(g) /\ HasDots(g) /\ Reach(p, g) /\ From(p, g)
  <2>1. IsDir(cwd[p]) /\ HasDots(cwd[p])
    BY <1>2, <1>3, NoInode DEF DirsOf
  <2>2. IsDir(Root) /\ HasDots(Root)
    BY DEF Inv, RootOK
  <2>3. g = Root \/ g = cwd[p]
    BY DEF First
  <2> QED
    BY <1>3, <2>1, <2>2, <2>3, NoInode DEF IsDir, Alive, Reach, Holds, From
<1>7. Becomes(p, l, cwd[p], fd[p], <<>>)
  BY <1>1, MoveBecomes
<1>8. /\ l.pc = "walk" /\ l.at = g /\ l.dp = None /\ l.ip = None
      /\ l.call = k /\ l.goal = Goal(k.kind) /\ l.rest = k.path.elems
  BY DEF Walking, Idle, First
<1>9. l \in Local
  <2>1. [Idle EXCEPT !.call = k] \in Local
    BY IdleIs DEF Local, Opt
  <2> DEFINE r == [Idle EXCEPT !.call = k]
  <2>2. l = [r EXCEPT !.pc = "walk", !.at = g, !.rest = k.path.elems, !.goal = Goal(k.kind)]
    BY DEF Walking, First
  <2>3. g \in Opt(Inum) /\ "walk" \in Places /\ Goal(k.kind) \in Goals
    BY <1>5, <1>6 DEF Opt, Places, Goals
  <2> HIDE DEF g, r, l
  <2>4. r \in Local
    BY <2>1 DEF r
  <2> QED
    BY <1>4, <2>2, <2>3, <2>4 DEF Local
<1>10. k.kind = "mkdir" => g = Root /\ Len(k.path.elems) <= 1
  BY DEF FlatCalls, First
<1> HIDE DEF l, g
<1>11. ~Linking(l)
  BY <1>5, <1>8 DEF Linking
<1>12. ShapeOf(l, cwd[p], Nth(<<>>, 1))
  BY <1>2, <1>3, <1>6, <1>8, <1>10, <1>11, NoInode DEF ShapeOf, AtPlaces, DpPlaces, IpPlaces
<1>13. LivingOf(l, cwd[p], fd[p], <<>>)
  BY <1>2, <1>6, <1>8, NthOf DEF LivingOf
<1>14. DirsOf(l, cwd[p])
  BY <1>2, <1>6, <1>8, <1>11 DEF DirsOf
<1>15. Safely(p, l, cwd[p], fd[p], <<>>)
  BY <1>2, <1>3, <1>6, <1>8, <1>11, <1>12, <1>13, <1>14 DEF Safely, From, LinkIp
<1>16. \A i \in Inum : LocBy(l, i) = LocBy(loc[p], i) + Same(g, i)
  BY <1>3, <1>8, NoInode DEF LocBy, Same
<1>17. HeldMore(p, l, cwd[p], fd[p], <<>>, g)
  BY <1>2, <1>16, MoveHeld
<1>18. NoClimb(p, l) /\ loc[p].pc \notin LockPlaces /\ l.pc \notin LockPlaces
  BY <1>2, <1>8 DEF NoClimb, LockPlaces
<1>19. Start(p, mem)
  BY DEF Start
<1> QED
  BY <1>1, <1>2, <1>6, <1>7, <1>9, <1>15, <1>17, <1>18, <1>19, QuietGet

\* Close keeps the invariant.
LEMMA CloseInv == ASSUME Inv, NEW p \in Procs, Close(p) PROVE Inv'
<1> DEFINE d == fd[p]
<1>1. /\ At(p, "idle") /\ d # None /\ fd' = [fd EXCEPT ![p] = None] /\ todo' = [todo EXCEPT ![p] = <<d>>]
      /\ loc' = [loc EXCEPT ![p] = Idle]
      /\ UNCHANGED <<disk, ents, ref, mem, lock, cwd, put, lost, stray>>
  BY DEF Close, Put, Done, Move, fs
<1>2. /\ loc[p].pc = "idle" /\ todo[p] = <<>> /\ put[p] = "test" /\ loc[p] \in Local /\ AllTypes
      /\ ShapeOf(loc[p], cwd[p], None) /\ LivingOf(loc[p], cwd[p], fd[p], <<>>) /\ DirsOf(loc[p], cwd[p])
      /\ cwd[p] \in Opt(Inum) /\ fd[p] \in Opt(Inum) /\ None \in Opt(Inum) /\ Next1(p) = None
  BY <1>1, AtIs DEF Opt
<1>3. loc[p].at = None /\ loc[p].dp = None /\ loc[p].ip = None /\ ~Linking(loc[p]) /\ d \in Inum /\ <<d>> \in Todo
  BY <1>1, <1>2 DEF ShapeOf, AtPlaces, DpPlaces, IpPlaces, Linking, Opt, Todo
<1>4. Becomes(p, Idle, cwd[p], None, <<d>>)
  BY <1>1, <1>2, Stays DEF Becomes
<1>5. ~Linking(Idle) /\ Idle.pc \notin LockPlaces
  BY IdleIs DEF Linking, LockPlaces
<1>6. ShapeOf(Idle, cwd[p], Nth(<<d>>, 1))
  BY <1>2, <1>5, IdleIs DEF ShapeOf, AtPlaces, DpPlaces, IpPlaces
<1>7. LivingOf(Idle, cwd[p], None, <<d>>)
  BY <1>2, <1>3, IdleIs, NthOf, NoInode DEF LivingOf
<1>8. DirsOf(Idle, cwd[p])
  BY <1>2, <1>5, IdleIs DEF DirsOf
<1>9. Safely(p, Idle, cwd[p], None, <<d>>)
  BY <1>2, <1>3, <1>5, <1>6, <1>7, <1>8, IdleIs DEF Safely, From, LinkIp
<1>10. HeldLike(p, Idle, cwd[p], None, <<d>>)
  BY <1>2, <1>3, IdleIs, NthOf, SameNone DEF HeldLike, HeldBy, LocBy, TodoBy, Same
<1>11. Start(p, mem') /\ NoClimb(p, Idle) /\ loc[p].pc \notin LockPlaces
  BY <1>1, <1>2, IdleIs DEF Start, NoClimb, LockPlaces
<1> QED
  BY <1>1, <1>2, <1>3, <1>4, <1>5, <1>9, <1>10, <1>11, IdleIs, QuietLoad

\* What a process finds that is about to look up the last name in its directory.
LEMMA ParentIs ==
  ASSUME Inv, NEW p \in Procs, NEW x, At(p, x), x \in {"create", "unlink", "link_dir"}, Lockable(loc[p].dp)
  PROVE  /\ loc[p].dp \in Inum /\ loc[p].at = None /\ Last(p) \in Names \cup Dots /\ loc[p].call \in Calls
         /\ Alive(loc[p].dp) /\ IsDir(loc[p].dp) /\ HasDots(loc[p].dp) /\ Holds(p, loc[p].dp)
         /\ Start(p, Loaded(loc[p].dp)) /\ lock[loc[p].dp] = None /\ ref[loc[p].dp] >= 1
         /\ Copy(loc[p].dp) = [valid |-> TRUE, type |-> "dir", nlink |-> disk[loc[p].dp].nlink]
         /\ cwd[p] # None
<1>1. /\ loc[p].pc = x /\ loc[p] \in Local /\ ShapeOf(loc[p], cwd[p], None)
      /\ LivingOf(loc[p], cwd[p], fd[p], <<>>) /\ DirsOf(loc[p], cwd[p])
  BY AtIs
<1>2. /\ loc[p].dp # None /\ loc[p].at = None /\ Len(loc[p].rest) = 1 /\ loc[p].call \in Calls /\ cwd[p] # None
  BY <1>1 DEF ShapeOf, DpPlaces, AtPlaces
<1>3. loc[p].dp \in Inum /\ Holds(p, loc[p].dp)
  BY <1>1, <1>2 DEF Local, Opt, Holds
<1>4. IsDir(loc[p].dp) /\ HasDots(loc[p].dp)
  BY <1>1, <1>2 DEF DirsOf
<1>5. Last(p) \in Names \cup Dots
  BY <1>1, <1>2 DEF Last, Local
<1>6. /\ Start(p, Loaded(loc[p].dp)) /\ lock[loc[p].dp] = None /\ ref[loc[p].dp] >= 1 /\ Alive(loc[p].dp)
      /\ Copy(loc[p].dp) = [valid |-> TRUE, type |-> disk[loc[p].dp].type, nlink |-> disk[loc[p].dp].nlink]
  BY <1>3, LockIs
<1> QED
  BY <1>2, <1>3, <1>4, <1>5, <1>6 DEF IsDir

\* CreateLookup keeps the invariant.
LEMMA CreateLookupInv == ASSUME Inv, NEW p \in Procs, CreateLookup(p) PROVE Inv'
<1> DEFINE d == loc[p].dp
           n == Last(p)
           g == ents[d][n]
           l == [loc[p] EXCEPT !.pc = "c_found", !.ip = g, !.dp = None]
           m == Loaded(d)
<1>1. /\ At(p, "create") /\ Lockable(d) /\ g # None /\ Get(g, m)
      /\ todo' = [todo EXCEPT ![p] = <<d>>] /\ loc' = [loc EXCEPT ![p] = l]
      /\ UNCHANGED <<disk, ents, lock, cwd, fd, put, lost, stray>>
  BY DEF CreateLookup, Put, Move
<1>2. /\ loc[p].pc = "create" /\ todo[p] = <<>> /\ put[p] = "test" /\ loc[p] \in Local /\ AllTypes
      /\ ShapeOf(loc[p], cwd[p], None) /\ LivingOf(loc[p], cwd[p], fd[p], <<>>) /\ DirsOf(loc[p], cwd[p])
      /\ cwd[p] \in Opt(Inum) /\ fd[p] \in Opt(Inum)
  BY <1>1, AtIs
<1>3. /\ d \in Inum /\ n \in Names \cup Dots /\ Alive(d) /\ IsDir(d) /\ HasDots(d) /\ Start(p, m)
      /\ loc[p].at = None /\ loc[p].call \in Calls
  BY <1>1, ParentIs
<1>4. g \in Inum /\ Alive(g) /\ Reach(p, g) /\ From(p, g) /\ (IsDir(g) => HasDots(g))
  BY <1>1, <1>3, LookupIs
<1>5. loc[p].ip = None /\ ~Linking(loc[p]) /\ <<d>> \in Todo
  BY <1>2, <1>3 DEF ShapeOf, IpPlaces, Linking, Todo
<1>6. Becomes(p, l, cwd[p], fd[p], <<d>>)
  BY <1>1, MoveBecomes
<1>7. /\ l \in Local /\ l.pc = "c_found" /\ l.at = None /\ l.dp = None /\ l.ip = g
      /\ l.call = loc[p].call
  <2>1. g \in Opt(Inum) /\ None \in Opt(Inum) /\ "c_found" \in Places
    BY <1>4 DEF Opt, Places
  <2> HIDE DEF g
  <2>2. l \in Local
    BY <1>2, <2>1 DEF Local
  <2>3. /\ l.pc = "c_found" /\ l.at = loc[p].at /\ l.dp = None /\ l.ip = g
        /\ l.call = loc[p].call
    BY <1>2 DEF Local
  <2> QED
    BY <1>3, <2>2, <2>3
<1> HIDE DEF l, g, n, m, d
<1>8. ~Linking(l)
  BY <1>7 DEF Linking
<1>9. ShapeOf(l, cwd[p], Nth(<<d>>, 1))
  BY <1>2, <1>3, <1>4, <1>7, <1>8, NoInode DEF ShapeOf, AtPlaces, DpPlaces, IpPlaces
<1>10. LivingOf(l, cwd[p], fd[p], <<d>>)
  BY <1>2, <1>3, <1>4, <1>7, NthOf DEF LivingOf
<1>11. DirsOf(l, cwd[p])
  BY <1>2, <1>4, <1>7, <1>8 DEF DirsOf
<1>12. Safely(p, l, cwd[p], fd[p], <<d>>)
  BY <1>2, <1>4, <1>5, <1>7, <1>8, <1>9, <1>10, <1>11 DEF Safely, From, LinkIp
<1>13. \A i \in Inum : LocBy(l, i) + Same(d, i) = LocBy(loc[p], i) + Same(g, i)
  BY <1>3, <1>5, <1>7, NoInode DEF LocBy, Same, d
<1>14. HeldMore(p, l, cwd[p], fd[p], <<d>>, g)
  BY <1>2, <1>13, MoveHeld
<1>15. NoClimb(p, l) /\ loc[p].pc \notin LockPlaces /\ l.pc \notin LockPlaces
  BY <1>2, <1>7 DEF NoClimb, LockPlaces
<1> QED
  BY <1>1, <1>2, <1>3, <1>4, <1>5, <1>6, <1>7, <1>12, <1>14, <1>15, QuietGet

\* UnlinkRefuse keeps the invariant.
LEMMA UnlinkRefuseInv == ASSUME Inv, NEW p \in Procs, UnlinkRefuse(p) PROVE Inv'
<1> DEFINE d == loc[p].ip
           l == [loc[p] EXCEPT !.pc = "bad", !.ip = None]
<1>1. /\ At(p, "u_child") /\ Lockable(d) /\ mem' = Loaded(d)
      /\ todo' = [todo EXCEPT ![p] = <<d>>] /\ loc' = [loc EXCEPT ![p] = l]
      /\ UNCHANGED <<disk, ents, ref, lock, cwd, fd, put, lost, stray>>
  BY DEF UnlinkRefuse, Put, Move
<1>2. /\ loc[p].pc = "u_child" /\ todo[p] = <<>> /\ put[p] = "test" /\ loc[p] \in Local /\ AllTypes
      /\ ShapeOf(loc[p], cwd[p], None) /\ LivingOf(loc[p], cwd[p], fd[p], <<>>) /\ DirsOf(loc[p], cwd[p])
      /\ cwd[p] \in Opt(Inum) /\ fd[p] \in Opt(Inum)
  BY <1>1, AtIs
<1>3. d # None /\ ~Linking(loc[p]) /\ loc[p].at = None
  BY <1>2 DEF ShapeOf, IpPlaces, AtPlaces, Linking
<1>4. d \in Inum /\ <<d>> \in Todo /\ Alive(d) /\ Holds(p, d)
  BY <1>2, <1>3 DEF Local, Opt, Todo, LivingOf, Holds
<1>5. Start(p, mem')
  BY <1>1, <1>4, LockIs
<1>6. Becomes(p, l, cwd[p], fd[p], <<d>>)
  BY <1>1, MoveBecomes
<1>7. /\ l \in Local /\ l.pc = "bad" /\ l.at = None /\ l.dp = loc[p].dp /\ l.ip = None
      /\ l.call = loc[p].call
  <2>1. "bad" \in Places /\ None \in Opt(Inum)
    BY DEF Places, Opt
  <2>2. l \in Local
    BY <1>2, <2>1 DEF Local
  <2> QED
    BY <1>2, <1>3, <2>2 DEF Local
<1> HIDE DEF l
<1>8. ~Linking(l)
  BY <1>7 DEF Linking
<1>9. ShapeOf(l, cwd[p], Nth(<<d>>, 1))
  BY <1>2, <1>7, <1>8 DEF ShapeOf, AtPlaces, DpPlaces, IpPlaces
<1>10. LivingOf(l, cwd[p], fd[p], <<d>>)
  BY <1>2, <1>4, <1>7, NthOf DEF LivingOf
<1>11. DirsOf(l, cwd[p])
  BY <1>2, <1>7, <1>8 DEF DirsOf
<1>12. Safely(p, l, cwd[p], fd[p], <<d>>)
  BY <1>2, <1>3, <1>7, <1>8, <1>9, <1>10, <1>11 DEF Safely, From, LinkIp
<1>13. \A i \in Inum : LocBy(l, i) + Same(d, i) = LocBy(loc[p], i)
  BY <1>7, <1>3, NoInode DEF LocBy, Same
<1>14. HeldLike(p, l, cwd[p], fd[p], <<d>>)
  BY <1>2, <1>13, MoveHeld
<1>15. NoClimb(p, l)
  BY <1>2, <1>7 DEF NoClimb
<1> QED
  BY <1>1, <1>2, <1>4, <1>5, <1>6, <1>7, <1>12, <1>14, <1>15, QuietLoad

\* ChdirPut keeps the invariant.
LEMMA ChdirPutInv == ASSUME Inv, NEW p \in Procs, ChdirPut(p) PROVE Inv'
<1> DEFINE i == loc[p].ip
           d == cwd[p]
           l == [loc[p] EXCEPT !.pc = "chdir2"]
<1>1. /\ At(p, "chdir") /\ Lockable(i) /\ Copy(i).type = "dir" /\ mem' = Loaded(i)
      /\ todo' = [todo EXCEPT ![p] = <<d>>] /\ loc' = [loc EXCEPT ![p] = l] /\ cwd' = [cwd EXCEPT ![p] = None]
      /\ UNCHANGED <<disk, ents, ref, lock, fd, put, lost, stray>>
  BY DEF ChdirPut, Put, Move
<1>2. /\ loc[p].pc = "chdir" /\ todo[p] = <<>> /\ put[p] = "test" /\ loc[p] \in Local /\ AllTypes
      /\ ShapeOf(loc[p], cwd[p], None) /\ LivingOf(loc[p], cwd[p], fd[p], <<>>) /\ DirsOf(loc[p], cwd[p])
      /\ cwd[p] \in Opt(Inum) /\ fd[p] \in Opt(Inum) /\ None \in Opt(Inum)
  BY <1>1, AtIs DEF Opt
<1>3. d # None /\ ~Linking(loc[p]) /\ loc[p].at = None /\ loc[p].dp = None /\ i # None
  BY <1>2 DEF ShapeOf, IpPlaces, AtPlaces, DpPlaces, Linking
<1>4. d \in Inum /\ <<d>> \in Todo /\ Alive(d) /\ i \in Inum /\ Holds(p, i)
  BY <1>2, <1>3 DEF Local, Opt, Todo, LivingOf, Holds
<1>5. Start(p, mem') /\ IsDir(i)
  BY <1>1, <1>4, LockIs DEF IsDir
<1>6. Becomes(p, l, None, fd[p], <<d>>)
  BY <1>1, <1>2, Stays DEF Becomes
<1>7. /\ l \in Local /\ l.pc = "chdir2" /\ l.at = None /\ l.dp = None /\ l.ip = i
      /\ l.call = loc[p].call
  BY <1>2, <1>3 DEF Local, Opt, Places
<1> HIDE DEF l
<1>8. ~Linking(l)
  BY <1>7 DEF Linking
<1>9. ShapeOf(l, None, Nth(<<d>>, 1))
  BY <1>2, <1>3, <1>7, <1>8 DEF ShapeOf, AtPlaces, DpPlaces, IpPlaces
<1>10. LivingOf(l, None, fd[p], <<d>>)
  BY <1>2, <1>4, <1>7, NthOf DEF LivingOf
<1>11. DirsOf(l, None)
  BY <1>2, <1>5, <1>7, <1>8 DEF DirsOf
<1>12. Safely(p, l, None, fd[p], <<d>>)
  BY <1>2, <1>3, <1>7, <1>8, <1>9, <1>10, <1>11 DEF Safely, From, LinkIp
<1>14. HeldLike(p, l, None, fd[p], <<d>>)
  BY <1>2, <1>3, <1>7, NthOf, SameNone DEF HeldLike, HeldBy, LocBy, TodoBy, Same
<1>15. NoClimb(p, l) /\ loc[p].pc \notin LockPlaces /\ l.pc \notin LockPlaces
  BY <1>2, <1>7 DEF NoClimb, LockPlaces
<1> QED
  BY <1>1, <1>2, <1>4, <1>5, <1>6, <1>7, <1>12, <1>14, <1>15, QuietLoad

\* ChdirSet keeps the invariant.
LEMMA ChdirSetInv == ASSUME Inv, NEW p \in Procs, ChdirSet(p) PROVE Inv'
<1> DEFINE i == loc[p].ip
<1>1. /\ At(p, "chdir2") /\ todo' = todo /\ loc' = [loc EXCEPT ![p] = Idle] /\ cwd' = [cwd EXCEPT ![p] = i]
      /\ UNCHANGED <<disk, ents, ref, mem, lock, fd, put, lost, stray>>
  BY DEF ChdirSet, Done, Move, fs
<1>2. /\ loc[p].pc = "chdir2" /\ todo[p] = <<>> /\ put[p] = "test" /\ loc[p] \in Local /\ AllTypes
      /\ ShapeOf(loc[p], cwd[p], None) /\ LivingOf(loc[p], cwd[p], fd[p], <<>>) /\ DirsOf(loc[p], cwd[p])
      /\ cwd[p] \in Opt(Inum) /\ fd[p] \in Opt(Inum) /\ <<>> \in Todo
  BY <1>1, AtIs
<1>3. cwd[p] = None /\ ~Linking(loc[p]) /\ loc[p].at = None /\ loc[p].dp = None /\ i # None
  BY <1>2 DEF ShapeOf, IpPlaces, AtPlaces, DpPlaces, Linking
<1>4. i \in Inum /\ Alive(i) /\ i \in Opt(Inum)
  BY <1>2, <1>3 DEF Local, Opt, LivingOf
<1>5. Start(p, mem') /\ IsDir(i) /\ HasDots(i)
  BY <1>1, <1>2, <1>3 DEF DirsOf, Start
<1>6. Becomes(p, Idle, i, fd[p], <<>>)
  BY <1>1, <1>2, Stays DEF Becomes
<1>7. ~Linking(Idle) /\ Idle.pc \notin LockPlaces
  BY IdleIs DEF Linking, LockPlaces
<1>9. ShapeOf(Idle, i, Nth(<<>>, 1))
  BY <1>3, <1>7, IdleIs DEF ShapeOf, AtPlaces, DpPlaces, IpPlaces
<1>10. LivingOf(Idle, i, fd[p], <<>>)
  BY <1>2, <1>4, IdleIs, NthOf DEF LivingOf
<1>11. DirsOf(Idle, i)
  BY <1>5, <1>7, IdleIs DEF DirsOf
<1>12. Safely(p, Idle, i, fd[p], <<>>)
  BY <1>2, <1>3, <1>7, <1>9, <1>10, <1>11, IdleIs DEF Safely, From, LinkIp
<1>14. HeldLike(p, Idle, i, fd[p], <<>>)
  BY <1>2, <1>3, IdleIs, NthOf, SameNone DEF HeldLike, HeldBy, LocBy, TodoBy, Same
<1>15. NoClimb(p, Idle) /\ loc[p].pc \notin LockPlaces
  BY <1>2, IdleIs DEF NoClimb, LockPlaces
<1> QED
  BY <1>1, <1>2, <1>4, <1>5, <1>6, <1>7, <1>12, <1>14, <1>15, IdleIs, QuietLoad

\* UnlinkLookup keeps the invariant.
LEMMA UnlinkLookupInv == ASSUME Inv, NEW p \in Procs, UnlinkLookup(p) PROVE Inv'
<1> DEFINE d == loc[p].dp
           n == Last(p)
           g == ents[d][n]
           l == [loc[p] EXCEPT !.pc = "u_child", !.ip = g]
           m == Loaded(d)
<1>1. /\ At(p, "unlink") /\ Lockable(d) /\ g # None /\ Get(g, m) /\ n \notin Dots
      /\ todo' = todo /\ loc' = [loc EXCEPT ![p] = l] /\ lock' = [lock EXCEPT ![d] = p]
      /\ UNCHANGED <<disk, ents, cwd, fd, put, lost, stray>>
  BY DEF UnlinkLookup, Put, Move
<1>2. /\ loc[p].pc = "unlink" /\ todo[p] = <<>> /\ put[p] = "test" /\ loc[p] \in Local /\ AllTypes
      /\ ShapeOf(loc[p], cwd[p], None) /\ LivingOf(loc[p], cwd[p], fd[p], <<>>) /\ DirsOf(loc[p], cwd[p])
      /\ cwd[p] \in Opt(Inum) /\ fd[p] \in Opt(Inum) /\ <<>> \in Todo /\ Next1(p) = None
  BY <1>1, AtIs
<1>3. /\ d \in Inum /\ n \in Names \cup Dots /\ Alive(d) /\ IsDir(d) /\ HasDots(d) /\ Start(p, m)
      /\ loc[p].at = None /\ loc[p].call \in Calls /\ lock[d] = None /\ ref[d] >= 1
      /\ Copy(d) = [valid |-> TRUE, type |-> "dir", nlink |-> disk[d].nlink]
  BY <1>1, ParentIs
<1>4. g \in Inum /\ Alive(g) /\ Reach(p, g) /\ From(p, g) /\ (IsDir(g) => HasDots(g))
  BY <1>1, <1>3, LookupIs
<1>5. loc[p].ip = None /\ ~Linking(loc[p]) /\ Len(loc[p].rest) = 1 /\ loc[p].call \in Calls /\ cwd[p] # None
  BY <1>2 DEF ShapeOf, IpPlaces, Linking
<1>6. Becomes(p, l, cwd[p], fd[p], <<>>)
  BY <1>1, MoveBecomes
<1>7. /\ l \in Local /\ l.pc = "u_child" /\ l.at = None /\ l.dp = d /\ l.ip = g
      /\ l.call = loc[p].call /\ l.rest = loc[p].rest
  <2>1. g \in Opt(Inum) /\ "u_child" \in Places
    BY <1>4 DEF Opt, Places
  <2>2. l \in Local
    BY <1>2, <2>1 DEF Local
  <2> QED
    BY <1>2, <1>3, <2>2 DEF Local
<1>8. /\ loc'[p] = l /\ cwd'[p] = cwd[p] /\ fd'[p] = fd[p] /\ todo'[p] = <<>>
      /\ Next1(p)' = None /\ Next2(p)' = None /\ Others(p, loc, loc')
  BY <1>2, <1>6, <1>7, BecomesIs, NthOf DEF Frame
<1>9. d = loc[p].dp /\ g = ents[d][loc[p].rest[Len(loc[p].rest)]] /\ n = loc[p].rest[Len(loc[p].rest)]
  BY DEF Last
<1> HIDE DEF l, g, n, m, d
<1>10. ~Linking(l) /\ put'[p] = "test" /\ disk' = disk /\ ents' = ents
  BY <1>1, <1>2, <1>7 DEF Linking
<1>11. Shape(p)'
  BY <1>2, <1>3, <1>4, <1>5, <1>7, <1>8, <1>10, NoInode DEF Shape, Linking, AtPlaces, DpPlaces, IpPlaces
<1>12. Living(p)'
  BY <1>2, <1>3, <1>4, <1>7, <1>8, <1>10 DEF LivingOf, Living, Alive
<1>13. Dirs(p)'
  BY <1>2, <1>3, <1>4, <1>7, <1>8, <1>10 DEF DirsOf, Dirs, IsDir, HasDots, Linking
<1>14. Erasing(p)'
  <2>1. ents'[loc'[p].dp][loc'[p].rest[Len(loc'[p].rest)]] = loc'[p].ip
        /\ loc'[p].rest[Len(loc'[p].rest)] \in Names
    BY <1>1, <1>3, <1>7, <1>8, <1>9, <1>10
  <2> QED
    BY <1>7, <1>8, <2>1 DEF Erasing, Last
<1>15. Locks(p)'
  <2>1. Locks(p) /\ lock \in [Inum -> Procs \cup {None}]
    BY <1>2 DEF Inv, AllTypes
  <2>2. \A i \in Inum : ~HasLock(p, i)
    BY <1>2 DEF HasLock
  <2>3. \A i \in Inum : HasLock(p, i)' <=> i = d
    BY <1>7, <1>8, <1>10 DEF HasLock
  <2> QED
    BY <1>1, <1>3, <2>1, <2>2, <2>3 DEF Locks
<1>16. ASSUME NEW q \in Procs, q # p, loc[q].pc = "c_init"
       PROVE  l.at # loc[q].ip /\ l.dp # loc[q].ip /\ l.ip # loc[q].ip /\ cwd[p] # loc[q].ip
  <2>1. loc[q].ip \in Inum /\ loc[q].ip # None
    <3>1. Shape(q) /\ loc[q] \in Local
      BY <1>2 DEF Inv, AllTypes
    <3> QED
      BY <1>16, <3>1 DEF Shape, IpPlaces, Local, Opt
  <2>2. ASSUME NEW i \in Inum, From(p, i) PROVE i # loc[q].ip
    BY <1>16, <2>1, <2>2, ReachNotMade DEF From
  <2>3. From(p, d) /\ From(p, cwd[p])
    BY <1>9 DEF From
  <2> QED
    BY <1>2, <1>3, <1>4, <1>7, <2>1, <2>2, <2>3 DEF Opt
<1>17. OwnStep(p)
  BY <1>2, <1>7, <1>8, <1>10, <1>11, <1>12, <1>13, <1>14, <1>15, <1>16, <1>1 DEF OwnStep, LinkIp, Linking
<1>18. \A i \in Inum : LocBy(l, i) = LocBy(loc[p], i) + Same(g, i)
  BY <1>3, <1>5, <1>7, <1>9, NoInode DEF LocBy, Same
<1>19. HeldMore(p, l, cwd[p], fd[p], <<>>, g)
  BY <1>2, <1>18, MoveHeld
\* The table: as when d was locked and unlocked again, but for the lock.
<1>20. /\ m \in [Inum -> Copies] /\ m[d] = Copy(d) /\ (\A i \in Inum : i # d => m[i] = mem[i])
  <2>1. m = Loaded(d)
    BY DEF m
  <2> QED
    BY <1>2, <1>3, <2>1, LoadedIs
<1>21. /\ ref' = [ref EXCEPT ![g] = @ + 1] /\ mem' = Got(m, g) /\ ref \in [Inum -> Nat]
       /\ mem \in [Inum -> Copies] /\ lock \in [Inum -> Procs \cup {None}]
  BY <1>1, <1>2 DEF Get, AllTypes, Copies
<1>22. ref' \in [Inum -> Nat] /\ (\A i \in Inum : ref'[i] = ref[i] + Same(g, i))
  BY <1>4, <1>21 DEF Same
<1>23. Tables
  <2>1. mem' \in [Inum -> Copies]
    BY <1>4, <1>20, <1>21 DEF Got, Copies
  <2>2. lock' \in [Inum -> Procs \cup {None}]
    BY <1>1, <1>21
  <2> QED
    BY <1>22, <2>1, <2>2 DEF Tables
<1>24. Holds(p, d)
  BY <1>9 DEF Holds
<1>25. mem'[d] = Copy(d)
  <2>1. CASE g = d
    <3>1. ref[g] # 0
      BY <1>3, <1>21, <2>1
    <3> QED
      BY <1>20, <1>21, <3>1 DEF Got
  <2>2. CASE g # d
    BY <1>3, <1>4, <1>20, <1>21, <2>2 DEF Got
  <2> QED
    BY <2>1, <2>2
<1>26. ASSUME NEW i \in Inum PROVE Table(p, i)
  <2>1. ref'[i] # ref[i] => Reach(p, i)
    BY <1>4, <1>21
  <2>2. ref'[i] = ref[i] \/ ref'[i] = ref[i] + 1
    BY <1>21
  <2>3. CASE i = d
    BY <1>3, <1>24, <1>25, <2>1, <2>2, <2>3 DEF Table
  <2>4. CASE i # d /\ i = g /\ ref[i] = 0
    <3>1. mem'[i] = [mem[i] EXCEPT !.valid = FALSE]
      BY <1>20, <1>21, <2>4 DEF Got
    <3> QED
      BY <2>1, <2>2, <2>4, <3>1 DEF Table
  <2>5. CASE i # d /\ (i # g \/ ref[i] # 0)
    <3>1. mem'[i] = mem[i]
      BY <1>20, <1>21, <2>5 DEF Got
    <3>2. ref[i] = 0 => ref'[i] = 0
      BY <1>21, <2>5
    <3> QED
      BY <2>1, <2>2, <3>1, <3>2 DEF Table
  <2> QED
    BY <2>3, <2>4, <2>5
<1>27. ASSUME NEW i \in Inum PROVE LockStep(p, i)
  <2>1. mem'[d].valid = TRUE
    BY <1>3, <1>25
  <2> QED
    BY <1>1, <1>3, <1>21, <2>1 DEF LockStep
<1>28. \A i \in Inum : ref'[i] = ref[i] + HeldBy(l, cwd[p], fd[p], <<>>, i) - HeldBy(loc[p], cwd[p], fd[p], todo[p], i)
  BY <1>19, <1>22, GetRefs
<1>29. l.pc \notin {"g_scan", "g_next"}
  BY <1>7
<1> QED
  BY <1>1, <1>2, <1>6, <1>7, <1>17, <1>23, <1>26, <1>27, <1>28, <1>29, TurnStep

\* Bad keeps the invariant.
LEMMA BadInv == ASSUME Inv, NEW p \in Procs, Bad(p) PROVE Inv'
<1> DEFINE d == loc[p].dp
<1>1. /\ At(p, "bad") /\ lock' = [lock EXCEPT ![d] = None] /\ todo' = [todo EXCEPT ![p] = <<d>>]
      /\ loc' = [loc EXCEPT ![p] = Idle]
      /\ UNCHANGED <<disk, ents, ref, mem, cwd, fd, put, lost, stray>>
  BY DEF Bad, Put, Done, Move
<1>2. d \in Inum /\ Hand(p, d) /\ ~Linking(loc[p])
  BY <1>1, HandIs
<1>3. loc[p].pc = "bad" /\ put[p] = "test" /\ AllTypes /\ cwd[p] \in Opt(Inum) /\ fd[p] \in Opt(Inum) /\ <<d>> \in Todo
  BY <1>1, <1>2, AtIs
<1>4. Becomes(p, Idle, cwd[p], fd[p], <<d>>)
  BY <1>1, <1>3, Stays DEF Becomes
<1>5. d = IF loc[p].pc = "bad" THEN loc[p].dp ELSE loc[p].ip
  BY <1>3
<1> HIDE DEF d
<1>6. Safely(p, Idle, cwd[p], fd[p], <<d>>) /\ NoClimb(p, Idle) /\ HeldLike(p, Idle, cwd[p], fd[p], <<d>>)
  BY <1>1, <1>2, <1>3, Ends
<1>7. Idle \in Local /\ Idle.pc \notin LockPlaces /\ loc[p].pc \in LockPlaces \ {"c_init", "u_child"}
  BY <1>3, IdleIs DEF LockPlaces
<1> QED
  BY <1>1, <1>2, <1>3, <1>4, <1>5, <1>6, <1>7, QuietFree

\* CreateReturn keeps the invariant.
LEMMA CreateReturnInv == ASSUME Inv, NEW p \in Procs, CreateReturn(p) PROVE Inv'
<1> DEFINE d == loc[p].ip
<1>1. /\ At(p, "c_return") /\ lock' = [lock EXCEPT ![d] = None] /\ loc' = [loc EXCEPT ![p] = Idle]
      /\ (Put(p, <<d>>) /\ fd' = fd) \/ OpenInode(p, d)
      /\ UNCHANGED <<disk, ents, ref, mem, cwd, put, lost, stray>>
  BY DEF CreateReturn, Done, Move
<1>2. d \in Inum /\ Hand(p, d) /\ ~Linking(loc[p])
  BY <1>1, HandIs
<1>3. /\ loc[p].pc = "c_return" /\ put[p] = "test" /\ AllTypes /\ cwd[p] \in Opt(Inum) /\ fd[p] \in Opt(Inum)
      /\ <<d>> \in Todo /\ <<>> \in Todo /\ d \in Opt(Inum) /\ todo[p] = <<>>
  BY <1>1, <1>2, AtIs DEF Opt
<1>5. d = IF loc[p].pc = "bad" THEN loc[p].dp ELSE loc[p].ip
  BY <1>3
<1> HIDE DEF d
<1>6. \/ todo' = [todo EXCEPT ![p] = <<d>>] /\ fd' = fd
      \/ fd[p] = None /\ fd' = [fd EXCEPT ![p] = d] /\ todo' = todo
  BY <1>1 DEF OpenInode, Put
<1>7. Idle \in Local /\ Idle.pc \notin LockPlaces /\ loc[p].pc \in LockPlaces \ {"c_init", "u_child"}
  BY <1>3, IdleIs DEF LockPlaces
<1>8. ASSUME NEW f \in Opt(Inum), NEW t \in Todo, Becomes(p, Idle, cwd[p], f, t),
             (f = fd[p] /\ t = <<d>>) \/ (fd[p] = None /\ f = d /\ t = <<>>)
      PROVE  Inv'
  <2>1. Safely(p, Idle, cwd[p], f, t) /\ NoClimb(p, Idle) /\ HeldLike(p, Idle, cwd[p], f, t)
    BY <1>1, <1>2, <1>3, <1>8, Ends
  <2> QED
    BY <1>1, <1>2, <1>3, <1>5, <1>7, <1>8, <2>1, QuietFree
<1>9. CASE todo' = [todo EXCEPT ![p] = <<d>>] /\ fd' = fd
  <2>1. Becomes(p, Idle, cwd[p], fd[p], <<d>>)
    BY <1>1, <1>3, <1>9, Stays DEF Becomes
  <2> QED
    BY <1>3, <1>8, <2>1
<1>10. CASE fd[p] = None /\ fd' = [fd EXCEPT ![p] = d] /\ todo' = todo
  <2>1. Becomes(p, Idle, cwd[p], d, <<>>)
    BY <1>1, <1>3, <1>10, Stays DEF Becomes
  <2> QED
    BY <1>3, <1>8, <1>10, <2>1
<1> QED
  BY <1>6, <1>9, <1>10

\* GetcwdScan keeps the invariant.
LEMMA GetcwdScanInv == ASSUME Inv, NEW p \in Procs, GetcwdScan(p) PROVE Inv'
<1> DEFINE d == loc[p].at
           l == [loc[p] EXCEPT !.pc = "g_next", !.at = None, !.up = ents[d][".."]]
<1>1. /\ At(p, "g_scan") /\ Lockable(d) /\ mem' = Loaded(d)
      /\ todo' = [todo EXCEPT ![p] = <<d>>] /\ Put(p, <<d>>)
      /\ Done(p) \/ loc' = [loc EXCEPT ![p] = l]
      /\ UNCHANGED <<disk, ents, ref, lock, cwd, fd, put, lost, stray>>
  BY DEF GetcwdScan, Put, Move, Done
<1>2. /\ loc[p].pc = "g_scan" /\ todo[p] = <<>> /\ put[p] = "test" /\ loc[p] \in Local /\ AllTypes
      /\ ShapeOf(loc[p], cwd[p], None) /\ LivingOf(loc[p], cwd[p], fd[p], <<>>) /\ DirsOf(loc[p], cwd[p])
      /\ cwd[p] \in Opt(Inum) /\ fd[p] \in Opt(Inum)
  BY <1>1, AtIs
<1>3. d \in Inum /\ Hand(p, d) /\ ~Linking(loc[p]) /\ loc[p].dp = None /\ loc[p].ip = None
  BY <1>1, <1>2, HandIs DEF ShapeOf, DpPlaces, IpPlaces
<1>4. Start(p, mem') /\ <<d>> \in Todo
  BY <1>1, <1>3, HandHolds, LockIs DEF Todo
<1>5. ents[d][".."] = Root /\ Alive(d)
  <2>1. d # None /\ IsDir(d)
    BY <1>2, <1>3, NoInode DEF DirsOf
  <2>2. HasDots(d)
    BY <1>2, <2>1 DEF DirsOf
  <2> QED
    BY <2>1, <2>2 DEF HasDots, IsDir, Alive
<1>6. CASE Done(p)
  <2> HIDE DEF d
  <2> QED
    BY <1>1, <1>3, <1>4, <1>6, EndPut DEF LockPlaces
<1>7. CASE loc' = [loc EXCEPT ![p] = l]
  <2>1. Becomes(p, l, cwd[p], fd[p], <<d>>)
    BY <1>1, <1>7, MoveBecomes
  <2>2. /\ l.pc = "g_next" /\ l.at = None /\ l.dp = None /\ l.ip = None
        /\ l.up = Root /\ l.last = loc[p].last /\ l \in Local
    <3>1. Root \in Opt(Inum) /\ None \in Opt(Inum) /\ "g_next" \in Places
      BY NoInode DEF Opt, Places
    <3>2. l \in Local
      BY <1>2, <1>5, <3>1 DEF Local
    <3> QED
      BY <1>2, <1>3, <1>5, <3>2 DEF Local
  <2> HIDE DEF l
  <2>3. ~Linking(l)
    BY <2>2 DEF Linking
  <2>4. ShapeOf(l, cwd[p], Nth(<<d>>, 1))
    BY <1>2, <2>2, <2>3 DEF ShapeOf, AtPlaces, DpPlaces, IpPlaces
  <2>5. LivingOf(l, cwd[p], fd[p], <<d>>)
    BY <1>2, <1>5, <2>2, NthOf DEF LivingOf
  <2>6. DirsOf(l, cwd[p])
    BY <1>2, <2>2, <2>3 DEF DirsOf
  <2>7. Safely(p, l, cwd[p], fd[p], <<d>>)
    BY <1>2, <1>3, <2>2, <2>3, <2>4, <2>5, <2>6 DEF Safely, From, LinkIp
  <2>8. \A i \in Inum : LocBy(l, i) + Same(d, i) = LocBy(loc[p], i)
    BY <1>3, <2>2, NoInode DEF LocBy, Same
  <2>9. HeldLike(p, l, cwd[p], fd[p], <<d>>)
    BY <1>2, <2>8, MoveHeld
  <2>10. NoClimb(p, l) /\ loc[p].pc \notin LockPlaces /\ l.pc \notin LockPlaces
    BY <1>2, <2>2 DEF NoClimb, LockPlaces
  <2> QED
    BY <1>1, <1>2, <1>4, <2>1, <2>2, <2>7, <2>9, <2>10, QuietLoad
<1> QED
  BY <1>1, <1>6, <1>7

\* One more process on the way up, or one less and one more reference lost.
LEMMA ClimbMore ==
  ASSUME Inv, NEW p \in Procs, Others(p, loc, loc'), lost < MaxLost, lost' = lost
  PROVE  LostFew'
<1>1. Climbing' \subseteq Procs
  BY DEF Climbing
<1>2. IsFiniteSet(Climbing') /\ Cardinality(Climbing') <= Cardinality(Procs)
  BY <1>1, FS_Subset, ProcSets
<1>3. Cardinality(Climbing') \in Nat /\ Cardinality(Procs) \in Nat /\ lost \in Nat /\ MaxLost \in Nat
  BY <1>2, FS_CardinalityType, ProcSets, DirectoryAssumption DEF Inv, AllTypes
<1> QED
  BY <1>2, <1>3 DEF LostFew

\* A getcwd() that ends may lose a reference.
LEMMA ClimbDone ==
  ASSUME Inv, NEW p \in Procs, Others(p, loc, loc'), loc[p].pc = "g_next", loc'[p].pc = "idle", lost' = lost + 1
  PROVE  LostFew'
<1>1. Climbing' = Climbing \ {p} /\ p \in Climbing
  BY DEF Climbing, Others, Changed
<1>2. Climbing \subseteq Procs
  BY DEF Climbing
<1>3. IsFiniteSet(Climbing)
  BY <1>2, FS_Subset, ProcSets
<1>4. Cardinality(Climbing') = Cardinality(Climbing) - 1
  BY <1>1, <1>3, FS_RemoveElement
<1>5. Cardinality(Climbing) \in Nat /\ Cardinality(Procs) \in Nat /\ lost \in Nat /\ MaxLost \in Nat
  BY <1>3, FS_CardinalityType, ProcSets, DirectoryAssumption DEF Inv, AllTypes
<1>6. lost + Cardinality(Climbing) <= MaxLost + Cardinality(Procs)
  BY DEF Inv, LostFew
<1>7. lost' + Cardinality(Climbing') <= MaxLost + Cardinality(Procs)
  <2> DEFINE x == Cardinality(Climbing)
             y == Cardinality(Climbing')
             z == Cardinality(Procs)
  <2>1. x \in Nat /\ y = x - 1 /\ z \in Nat /\ lost + x <= MaxLost + z
    BY <1>4, <1>5, <1>6
  <2> HIDE DEF x, y, z
  <2>2. (lost + 1) + y <= MaxLost + z
    BY <1>5, <2>1
  <2> QED
    BY <2>2 DEF y, z
<1> QED
  BY <1>7 DEF LostFew

\* TurnStep where references are lost or a process sets out on the way up.
LEMMA GetUp ==
  ASSUME Inv, NEW p \in Procs, NEW l \in Local,
         Becomes(p, l, cwd[p], fd[p], <<>>), UNCHANGED <<disk, ents, lock, put, stray>>,
         put[p] = "test", todo[p] = <<>>, Safely(p, l, cwd[p], fd[p], <<>>),
         NEW g \in Inum, NEW m, Start(p, m), Reach(p, g), Get(g, m),
         loc[p].pc \notin LockPlaces /\ l.pc \notin LockPlaces, lost' \in Nat,
         \/ lost' = lost /\ HeldMore(p, l, cwd[p], fd[p], <<>>, g)
         \/ lost' = lost + 1 /\ g = Root /\ HeldLike(p, l, cwd[p], fd[p], <<>>),
         LostFew'
  PROVE  Inv'
<1>1. /\ AllTypes /\ RefSum /\ cwd[p] \in Opt(Inum) /\ fd[p] \in Opt(Inum) /\ <<>> \in Todo
  BY Stays DEF Inv, Todo
<1>2. Locks(p)'
  BY <1>1, SameLocks
<1>3. OwnStep(p)
  BY <1>1, <1>2, SafelyIs
<1>4. Tables /\ (\A i \in Inum : Table(p, i) /\ LockStep(p, i)) /\ \A i \in Inum : ref'[i] = ref[i] + Same(g, i)
  BY GetTable
<1>5. /\ loc'[p] = l /\ cwd'[p] = cwd[p] /\ fd'[p] = fd[p] /\ todo'[p] = <<>>
      /\ loc' \in [Procs -> Local] /\ cwd' \in [Procs -> Inum \cup {None}]
      /\ fd' \in [Procs -> Inum \cup {None}] /\ todo' \in [Procs -> Todo]
      /\ Frame(p) /\ Lists(todo')
  BY <1>1, BecomesIs
<1>6. AllTypes'
  BY <1>1, <1>4, <1>5 DEF AllTypes, Tables, Copies
<1>7. ASSUME lost' = lost, HeldMore(p, l, cwd[p], fd[p], <<>>, g) PROVE RefSum'
  <2>1. \A i \in Inum : ref'[i] = ref[i] + HeldBy(l, cwd[p], fd[p], <<>>, i) - HeldBy(loc[p], cwd[p], fd[p], todo[p], i)
    BY <1>4, <1>7, GetRefs
  <2>2. \A i \in Inum : ref'[i] = ref[i] + HeldBy(loc'[p], cwd'[p], fd'[p], todo'[p], i)
                                          - HeldBy(loc[p], cwd[p], fd[p], todo[p], i)
    BY <1>5, <2>1
  <2> QED
    BY <1>1, <1>5, <1>7, <2>2, RefMove DEF Frame
<1>8. ASSUME lost' = lost + 1, g = Root, HeldLike(p, l, cwd[p], fd[p], <<>>) PROVE RefSum'
  <2>1. SUFFICES ASSUME NEW i \in Inum
                 PROVE  ref'[i] = HeldOf(loc', cwd', fd', todo', i) + (IF i = Root THEN lost' ELSE 0)
    BY DEF RefSum
  <2> DEFINE h == HeldOf(loc, cwd, fd, todo, i)
             h2 == HeldOf(loc', cwd', fd', todo', i)
             d == HeldBy(loc[p], cwd[p], fd[p], todo[p], i)
             d2 == HeldBy(loc'[p], cwd'[p], fd'[p], todo'[p], i)
  <2>2. Lists(todo)
    BY <1>1, TodoIs
  <2>3. h2 = h - d + d2
    BY <1>5, <2>2, HeldMove DEF Frame
  <2>4. d2 = d
    BY <1>5, <1>8 DEF HeldLike
  <2>5. h \in Int /\ h2 \in Int /\ d \in Int
    BY HeldNat, HeldInt
  <2>6. ref[i] = h + (IF i = Root THEN lost ELSE 0) /\ lost \in Nat
    BY <1>1 DEF RefSum, AllTypes
  <2>7. ref'[i] = ref[i] + (IF i = Root THEN 1 ELSE 0)
    BY <1>4, <1>8 DEF Same
  <2> HIDE DEF h, h2, d, d2
  <2>8. h2 = h
    BY <2>3, <2>4, <2>5
  <2>9. ref'[i] = h2 + (IF i = Root THEN lost' ELSE 0)
    <3>1. CASE i = Root
      BY <1>8, <2>5, <2>6, <2>7, <2>8, <3>1
    <3>2. CASE i # Root
      BY <1>8, <2>5, <2>6, <2>7, <2>8, <3>2
    <3> QED
      BY <3>1, <3>2
  <2> QED
    BY <2>9 DEF h2
<1>9. RefSum'
  BY <1>7, <1>8
<1>10. Quiet(p)
  BY <1>3, <1>4, <1>5 DEF Quiet
<1> QED
  BY <1>6, <1>9, <1>10, QuietStep

\* GetcwdStart keeps the invariant.
LEMMA GetcwdStartInv == ASSUME Inv, NEW p \in Procs, GetcwdStart(p) PROVE Inv'
<1> DEFINE d == cwd[p]
           l == [Idle EXCEPT !.pc = "g_scan", !.at = d, !.cur = d, !.last = d]
           m == Loaded(d)
<1>1. /\ At(p, "idle") /\ Lockable(d) /\ Get(d, m) /\ lost < MaxLost
      /\ todo' = todo /\ loc' = [loc EXCEPT ![p] = l]
      /\ UNCHANGED <<disk, ents, lock, cwd, fd, put, lost, stray>>
  BY DEF GetcwdStart, Move
<1>2. /\ loc[p].pc = "idle" /\ todo[p] = <<>> /\ put[p] = "test" /\ loc[p] \in Local /\ AllTypes
      /\ ShapeOf(loc[p], cwd[p], None) /\ LivingOf(loc[p], cwd[p], fd[p], <<>>) /\ DirsOf(loc[p], cwd[p])
      /\ cwd[p] \in Opt(Inum) /\ fd[p] \in Opt(Inum) /\ <<>> \in Todo
  BY <1>1, AtIs
<1>3. loc[p].at = None /\ loc[p].dp = None /\ loc[p].ip = None /\ d \in Inum /\ ~Linking(loc[p])
  BY <1>2 DEF ShapeOf, AtPlaces, DpPlaces, IpPlaces, Linking, Opt
<1>4. IsDir(d) /\ HasDots(d) /\ Alive(d) /\ Holds(p, d) /\ Reach(p, d) /\ From(p, d)
  BY <1>2, <1>3, NoInode DEF DirsOf, IsDir, Alive, Holds, Reach, From
<1>5. Start(p, m)
  BY <1>1, <1>3, <1>4, LockIs
<1>6. Becomes(p, l, cwd[p], fd[p], <<>>)
  BY <1>1, MoveBecomes
<1>7. /\ l \in Local /\ l.pc = "g_scan" /\ l.at = d /\ l.dp = None /\ l.ip = None /\ l.last = d
  <2>1. d \in Opt(Inum) /\ "g_scan" \in Places
    BY <1>3 DEF Opt, Places
  <2>2. l \in Local
    BY <2>1, IdleIs DEF Local
  <2> QED
    BY <2>2 DEF Idle
<1> HIDE DEF l, m
<1>8. ~Linking(l)
  BY <1>7 DEF Linking
<1>9. ShapeOf(l, cwd[p], Nth(<<>>, 1))
  BY <1>2, <1>3, <1>7, <1>8, NoInode DEF ShapeOf, AtPlaces, DpPlaces, IpPlaces
<1>10. LivingOf(l, cwd[p], fd[p], <<>>)
  BY <1>2, <1>4, <1>7, NthOf DEF LivingOf
<1>11. DirsOf(l, cwd[p])
  BY <1>2, <1>4, <1>7, <1>8 DEF DirsOf
<1>12. Safely(p, l, cwd[p], fd[p], <<>>)
  BY <1>2, <1>3, <1>4, <1>7, <1>8, <1>9, <1>10, <1>11 DEF Safely, From, LinkIp
<1>13. \A i \in Inum : LocBy(l, i) = LocBy(loc[p], i) + Same(d, i)
  BY <1>3, <1>7, NoInode DEF LocBy, Same
<1>14. HeldMore(p, l, cwd[p], fd[p], <<>>, d)
  BY <1>2, <1>13, MoveHeld
<1>15. loc[p].pc \notin LockPlaces /\ l.pc \notin LockPlaces
  BY <1>2, <1>7 DEF LockPlaces
<1>16. Others(p, loc, loc')
  BY <1>2, <1>6, <1>7, BecomesIs DEF Frame
<1>17. LostFew' /\ lost' \in Nat
  BY <1>1, <1>2, <1>16, ClimbMore DEF AllTypes
<1> QED
  BY <1>1, <1>2, <1>3, <1>4, <1>5, <1>6, <1>7, <1>12, <1>14, <1>15, <1>17, GetUp

\* GetcwdNext keeps the invariant.
LEMMA GetcwdNextInv == ASSUME Inv, NEW p \in Procs, GetcwdNext(p) PROVE Inv'
<1> DEFINE l == IF loc[p].last = Root THEN Idle
                ELSE [loc[p] EXCEPT !.pc = "g_scan", !.at = Root, !.cur = loc[p].last, !.last = Root]
<1>0. At(p, "g_next")
  BY DEF GetcwdNext
<1>2. /\ loc[p].pc = "g_next" /\ todo[p] = <<>> /\ put[p] = "test" /\ loc[p] \in Local /\ AllTypes
      /\ ShapeOf(loc[p], cwd[p], None) /\ LivingOf(loc[p], cwd[p], fd[p], <<>>) /\ DirsOf(loc[p], cwd[p])
      /\ cwd[p] \in Opt(Inum) /\ fd[p] \in Opt(Inum) /\ <<>> \in Todo
  BY <1>0, AtIs
<1>3. loc[p].at = None /\ loc[p].dp = None /\ loc[p].ip = None /\ ~Linking(loc[p]) /\ loc[p].up = Root
  BY <1>2 DEF ShapeOf, AtPlaces, DpPlaces, IpPlaces, Linking
<1>1. /\ Get(Root, mem) /\ todo' = todo /\ loc' = [loc EXCEPT ![p] = l]
      /\ lost' = IF loc[p].last = Root THEN lost + 1 ELSE lost
      /\ UNCHANGED <<disk, ents, lock, cwd, fd, put, stray>>
  BY <1>3 DEF GetcwdNext, Move, Done
<1>4. IsDir(Root) /\ HasDots(Root) /\ Alive(Root) /\ Reach(p, Root) /\ From(p, Root) /\ Root \in Inum /\ None \notin Inum
  BY NoInode DEF Inv, RootOK, IsDir, Alive, Reach, From
<1>5. Start(p, mem)
  BY DEF Start
<1>6. Becomes(p, l, cwd[p], fd[p], <<>>)
  BY <1>0, <1>1, MoveBecomes
<1>7. /\ l \in Local /\ l.dp = None /\ l.ip = None
      /\ loc[p].last = Root => l = Idle
      /\ loc[p].last # Root => l.pc = "g_scan" /\ l.at = Root /\ l.last = Root
  <2>1. Root \in Opt(Inum) /\ "g_scan" \in Places /\ loc[p].last \in Opt(Inum)
    BY <1>2, <1>4 DEF Opt, Places, Local
  <2>2. CASE loc[p].last = Root
    BY <2>2, IdleIs
  <2>3. CASE loc[p].last # Root
    <3>1. l = [loc[p] EXCEPT !.pc = "g_scan", !.at = Root, !.cur = loc[p].last, !.last = Root]
      BY <2>3
    <3> HIDE DEF l
    <3>2. l \in Local
      BY <1>2, <2>1, <3>1 DEF Local
    <3> QED
      BY <1>2, <1>3, <2>3, <3>1, <3>2 DEF Local
  <2> QED
    BY <2>2, <2>3
<1>8. l.pc = (IF loc[p].last = Root THEN "idle" ELSE "g_scan") /\ l.at = (IF loc[p].last = Root THEN None ELSE Root)
  BY <1>7, IdleIs
<1> HIDE DEF l
<1>9. ~Linking(l)
  BY <1>8 DEF Linking
<1>10. ShapeOf(l, cwd[p], Nth(<<>>, 1))
  BY <1>2, <1>3, <1>4, <1>7, <1>8, <1>9 DEF ShapeOf, AtPlaces, DpPlaces, IpPlaces
<1>11. LivingOf(l, cwd[p], fd[p], <<>>)
  BY <1>2, <1>4, <1>7, <1>8, NthOf DEF LivingOf
<1>12. DirsOf(l, cwd[p])
  BY <1>2, <1>4, <1>7, <1>8, <1>9 DEF DirsOf
<1>13. Safely(p, l, cwd[p], fd[p], <<>>)
  BY <1>2, <1>3, <1>4, <1>7, <1>8, <1>9, <1>10, <1>11, <1>12 DEF Safely, From, LinkIp
<1>14. loc[p].pc \notin LockPlaces /\ l.pc \notin LockPlaces
  BY <1>2, <1>8 DEF LockPlaces
<1>15. Others(p, loc, loc') /\ loc'[p] = l
  BY <1>2, <1>6, <1>7, BecomesIs DEF Frame
<1>16. CASE loc[p].last = Root
  <2>1. \A i \in Inum : LocBy(l, i) = LocBy(loc[p], i)
    BY <1>3, <1>4, <1>7, <1>8, <1>16 DEF LocBy, Same
  <2>2. HeldLike(p, l, cwd[p], fd[p], <<>>)
    BY <1>2, <2>1, MoveHeld
  <2>3. lost' = lost + 1 /\ lost' \in Nat
    BY <1>1, <1>2, <1>16 DEF AllTypes
  <2>4. loc'[p].pc = "idle"
    BY <1>8, <1>15, <1>16
  <2>5. LostFew'
    BY <1>2, <1>15, <2>3, <2>4, ClimbDone
  <2> QED
    BY <1>1, <1>2, <1>4, <1>5, <1>6, <1>7, <1>13, <1>14, <2>2, <2>3, <2>5, GetUp
<1>17. CASE loc[p].last # Root
  <2>1. \A i \in Inum : LocBy(l, i) = LocBy(loc[p], i) + Same(Root, i)
    BY <1>3, <1>4, <1>7, <1>8, <1>17 DEF LocBy, Same
  <2>2. HeldMore(p, l, cwd[p], fd[p], <<>>, Root)
    BY <1>2, <2>1, MoveHeld
  <2>3. lost' = lost /\ lost' \in Nat
    BY <1>1, <1>2, <1>17 DEF AllTypes
  <2>4. LostFew'
    BY <1>2, <1>15, <2>3, ClimbLess
  <2> QED
    BY <1>1, <1>2, <1>4, <1>5, <1>6, <1>7, <1>13, <1>14, <2>2, <2>3, <2>4, GetUp
<1> QED
  BY <1>16, <1>17

\* PutDrop keeps the invariant.
LEMMA PutDropInv == ASSUME Inv, NEW p \in Procs, PutDrop(p) PROVE Inv'
<1> DEFINE d == Head(todo[p])
           t == Tail(todo[p])
           l == loc[p]
<1>1. /\ todo[p] # <<>> /\ put[p] = "test" /\ ~LastPut(d) /\ ref' = [ref EXCEPT ![d] = @ - 1]
      /\ todo' = [todo EXCEPT ![p] = t]
      /\ UNCHANGED <<disk, ents, mem, lock, cwd, fd, loc, put, lost, stray>>
  BY DEF PutDrop, PutStart, Put
<1>2. AllTypes /\ RefSum /\ Shape(p) /\ Living(p) /\ Dirs(p) /\ l \in Local /\ cwd[p] \in Opt(Inum) /\ fd[p] \in Opt(Inum)
  BY Stays DEF Inv
<1>3. /\ d = Next1(p) /\ d # None /\ t \in Todo /\ Nth(t, 1) = Next2(p) /\ Nth(t, 2) = None /\ d \in Inum
  BY <1>1, <1>2, TodoIs DEF Opt
<1>4. Becomes(p, l, cwd[p], fd[p], t)
  BY <1>1, <1>2, Stays DEF Becomes
<1>5. ref[d] >= 1 /\ ref[d] \in Nat
  BY <1>2, <1>3, HeldPos DEF Holds, AllTypes
<1>6. l.pc \notin {"c_init", "u_child"}
  BY <1>2, <1>3 DEF Shape
<1> HIDE DEF d, t
<1>7. ShapeOf(l, cwd[p], Nth(t, 1))
  BY <1>2, <1>6 DEF Shape, ShapeOf
<1>8. LivingOf(l, cwd[p], fd[p], t)
  BY <1>2, <1>3 DEF Living, LivingOf
<1>9. DirsOf(l, cwd[p])
  BY <1>2 DEF Dirs, DirsOf
<1>10. Safely(p, l, cwd[p], fd[p], t)
  BY <1>6, <1>7, <1>8, <1>9 DEF Safely, From
<1>11. Locks(p)'
  BY <1>1, <1>2, <1>3, <1>4, SameLocks
<1>12. OwnStep(p)
  BY <1>1, <1>2, <1>3, <1>4, <1>10, <1>11, SafelyIs
<1>13. Tables
  <2>1. ref' \in [Inum -> Nat]
    BY <1>1, <1>2, <1>3, <1>5 DEF AllTypes
  <2> QED
    BY <1>1, <1>2, <2>1 DEF Tables, AllTypes, Copies
<1>14. ASSUME NEW i \in Inum PROVE Table(p, i) /\ LockStep(p, i)
  <2>1. Reach(p, d)
    BY <1>3 DEF Reach, Holds
  <2>2. CASE i = d
    <3>1. ref'[i] = ref[i] - 1
      BY <1>1, <1>2, <1>3, <2>2 DEF AllTypes
    <3>2. mem'[i] = mem[i] /\ (ref[i] = 0 => ref'[i] = 0)
      BY <1>1, <1>5, <2>2
    <3> QED
      BY <1>1, <1>3, <2>1, <2>2, <3>1, <3>2 DEF Table, LockStep
  <2>3. CASE i # d
    <3>1. ref'[i] = ref[i]
      BY <1>1, <1>2, <1>3, <2>3 DEF AllTypes
    <3> QED
      BY <1>1, <3>1 DEF Table, LockStep
  <2> QED
    BY <2>2, <2>3
<1>15. ASSUME NEW i \in Inum
       PROVE  ref'[i] = ref[i] + HeldBy(l, cwd[p], fd[p], t, i) - HeldBy(loc[p], cwd[p], fd[p], todo[p], i)
  <2> DEFINE x == LocBy(l, i) + (Same(cwd[p], i) + Same(fd[p], i))
             y == Same(d, i)
             z == Same(Next2(p), i)
  <2>1. HeldBy(l, cwd[p], fd[p], t, i) = x + (z + 0)
    BY <1>3, SameNone DEF HeldBy, TodoBy
  <2>2. HeldBy(loc[p], cwd[p], fd[p], todo[p], i) = x + (y + z)
    BY <1>3 DEF HeldBy, TodoBy, Next1, Next2
  <2>3. x \in Int /\ y \in Int /\ z \in Int /\ ref[i] \in Int
    BY <1>2 DEF LocBy, Same, AllTypes
  <2>4. ref'[i] = ref[i] - y
    BY <1>1, <1>2, <1>3 DEF Same, AllTypes
  <2> HIDE DEF x, y, z
  <2>5. ref'[i] = ref[i] + (x + (z + 0)) - (x + (y + z))
    BY <2>3, <2>4
  <2> QED
    BY <2>1, <2>2, <2>5
<1>16. l.pc \in {"g_scan", "g_next"} => loc[p].pc \in {"g_scan", "g_next"}
  OBVIOUS
<1> QED
  BY <1>1, <1>2, <1>3, <1>4, <1>12, <1>13, <1>14, <1>15, <1>16, TurnStep

-----------------------------------------------------------------------------
(* Steps that change the disk, the directories or what somebody puts.       *)

\* What a step of p leaves to q.
Spares(p, q) ==
  /\ \A i \in Inum : Holds(q, i) /\ Alive(i) => disk'[i].type = disk[i].type /\ (HasDots(i) => HasDots(i)')
  /\ loc[q].pc = "c_init" => disk'[loc[q].ip] = disk[loc[q].ip] /\ ents'[loc[q].ip] = ents[loc[q].ip]
  /\ \A i \in Inum : lock[i] = q => ents'[i] = ents[i]
  /\ \A i \in Inum : lock'[i] = q <=> lock[i] = q
  /\ loc[q].pc = "c_init" => /\ loc'[p].at # loc[q].ip /\ loc'[p].dp # loc[q].ip
                             /\ loc'[p].ip # loc[q].ip /\ cwd'[p] # loc[q].ip
  /\ put[q] = "trunc" => ref'[Next1(q)] = ref[Next1(q)] /\ disk'[Next1(q)].nlink = disk[Next1(q)].nlink
  /\ put[q] = "release" /\ disk'[Next1(q)].type # "free" =>
       \E r \in Procs : loc'[r].pc = "c_init" /\ loc'[r].ip = Next1(q)

\* A local variable that is set is an inode that is held.
LEMMA OptHolds ==
  ASSUME AllTypes, NEW q \in Procs
  PROVE  /\ loc[q].at # None => loc[q].at \in Inum /\ Holds(q, loc[q].at)
         /\ loc[q].dp # None => loc[q].dp \in Inum /\ Holds(q, loc[q].dp)
         /\ loc[q].ip # None => loc[q].ip \in Inum /\ Holds(q, loc[q].ip)
         /\ cwd[q] # None => cwd[q] \in Inum /\ Holds(q, cwd[q])
         /\ fd[q] # None => fd[q] \in Inum /\ Holds(q, fd[q])
         /\ Next1(q) # None => Next1(q) \in Inum /\ Holds(q, Next1(q))
         /\ Next2(q) # None => Next2(q) \in Inum /\ Holds(q, Next2(q))
<1>1. loc[q] \in Local /\ cwd[q] \in Opt(Inum) /\ fd[q] \in Opt(Inum) /\ Next1(q) \in Opt(Inum) /\ Next2(q) \in Opt(Inum)
  BY Stays, TodoIs
<1> QED
  BY <1>1 DEF Local, Opt, Holds

\* Who is spared keeps what the invariant says of it,
LEMMA Spared ==
  ASSUME Inv, NEW p \in Procs, Frame(p), Others(p, put, put'), NEW q \in Procs, q # p, Spares(p, q)
  PROVE  /\ Shape(q)' /\ Living(q)' /\ Dirs(q)' /\ Making(q)' /\ Erasing(q)' /\ Fresh(q)' /\ Locks(q)' /\ Truncs(q)'
<1>1. /\ loc'[q] = loc[q] /\ cwd'[q] = cwd[q] /\ fd'[q] = fd[q]
      /\ Next1(q)' = Next1(q) /\ Next2(q)' = Next2(q) /\ put'[q] = put[q]
  BY Untouched DEF Others, Changed
<1>2. /\ Shape(q) /\ Living(q) /\ Dirs(q) /\ Making(q) /\ Erasing(q) /\ Fresh(q) /\ Locks(q) /\ Truncs(q) /\ AllTypes
  BY DEF Inv
<1>3. \A i \in Inum : Holds(q, i) /\ Alive(i) =>
        Alive(i)' /\ (IsDir(i)' <=> IsDir(i)) /\ (HasDots(i) => HasDots(i)')
  BY DEF Spares, Alive, IsDir
<1>c1. Shape(q)'
  BY <1>1, <1>2 DEF Shape, Linking
<1>c2. Living(q)'
  <2>1. \A i \in Inum : Holds(q, i) /\ Alive(i) => disk'[i].type # "free"
    BY <1>3 DEF Alive
  <2> QED
    BY <1>1, <1>2, <2>1, OptHolds DEF Living, Alive
<1>c3. Dirs(q)'
  <2> DEFINE H(i) == HasDots(i)
             G(i) == ents'[i]["."] = i /\ ents'[i][".."] = Root
             D(i) == IsDir(i)
             E(i) == disk'[i].type = "dir"
  <2>1. \A i \in Inum : Holds(q, i) /\ Alive(i) => (E(i) <=> D(i)) /\ (H(i) => G(i))
    BY <1>3 DEF IsDir, HasDots
  <2>2. Linking(loc'[q]) <=> Linking(loc[q])
    BY <1>1
  <2>3. /\ loc[q].dp # None => D(loc[q].dp) /\ H(loc[q].dp)
        /\ cwd[q] # None => D(cwd[q]) /\ H(cwd[q])
        /\ loc[q].pc = "g_scan" => D(loc[q].at) /\ loc[q].at # None
        /\ loc[q].pc = "chdir2" => D(loc[q].ip) /\ loc[q].ip # None
        /\ Linking(loc[q]) => ~D(loc[q].ip) /\ loc[q].ip # None
        /\ loc[q].at # None /\ D(loc[q].at) => H(loc[q].at)
        /\ loc[q].ip # None /\ loc[q].pc # "c_init" /\ D(loc[q].ip) => H(loc[q].ip)
    BY <1>2 DEF Dirs, Shape, AtPlaces, IpPlaces
  <2>4. /\ loc[q].dp # None => loc[q].dp \in Inum /\ Holds(q, loc[q].dp) /\ Alive(loc[q].dp)
        /\ cwd[q] # None => cwd[q] \in Inum /\ Holds(q, cwd[q]) /\ Alive(cwd[q])
        /\ loc[q].at # None => loc[q].at \in Inum /\ Holds(q, loc[q].at) /\ Alive(loc[q].at)
        /\ loc[q].ip # None => loc[q].ip \in Inum /\ Holds(q, loc[q].ip) /\ Alive(loc[q].ip)
    BY <1>2, OptHolds DEF Living
  <2> HIDE DEF D, E, G, H
  <2>5. /\ loc[q].dp # None => E(loc[q].dp) /\ G(loc[q].dp)
        /\ cwd[q] # None => E(cwd[q]) /\ G(cwd[q])
        /\ loc[q].pc = "g_scan" => E(loc[q].at)
        /\ loc[q].pc = "chdir2" => E(loc[q].ip)
        /\ Linking(loc[q]) => ~E(loc[q].ip)
        /\ loc[q].at # None /\ E(loc[q].at) => G(loc[q].at)
        /\ loc[q].ip # None /\ loc[q].pc # "c_init" /\ E(loc[q].ip) => G(loc[q].ip)
    BY <2>1, <2>3, <2>4
  <2> QED
    BY <1>1, <2>2, <2>5 DEF Dirs, IsDir, HasDots, E, G
<1>c4. Making(q)' /\ Erasing(q)'
  <2>1. /\ loc[q].pc \in {"c_init", "u_child"} => lock[loc[q].dp] = q /\ loc[q].dp \in Inum
        /\ loc[q].pc = "u_dec" => lock[loc[q].ip] = q /\ loc[q].ip \in Inum /\ Alive(loc[q].ip) /\ Holds(q, loc[q].ip)
    <3>1. /\ loc[q].pc \in {"c_init", "u_child"} => loc[q].dp \in Inum
          /\ loc[q].pc = "u_dec" => loc[q].ip \in Inum /\ Alive(loc[q].ip) /\ Holds(q, loc[q].ip)
      BY <1>2, OptHolds DEF Shape, DpPlaces, IpPlaces, Living
    <3> QED
      BY <1>2, <3>1 DEF Locks, HasLock
  <2>2. /\ loc[q].pc \in {"c_init", "u_child"} => ents'[loc[q].dp] = ents[loc[q].dp]
        /\ loc[q].pc = "u_dec" => ents'[loc[q].ip] = ents[loc[q].ip] /\ (IsDir(loc[q].ip)' <=> IsDir(loc[q].ip))
        /\ loc[q].pc = "c_init" => disk'[loc[q].ip] = disk[loc[q].ip] /\ ents'[loc[q].ip] = ents[loc[q].ip]
    BY <1>1, <1>3, <2>1 DEF Spares, IsDir
  <2>3. Making(q)'
    BY <1>1, <1>2, <2>2 DEF Making, Bare, Last
  <2>4. Erasing(q)'
    BY <1>1, <1>2, <2>2 DEF Erasing, Last, IsDir
  <2> QED
    BY <2>3, <2>4
<1>c6. Fresh(q)'
  <2>1. \A r \in Procs : r # p => loc'[r] = loc[r] /\ cwd'[r] = cwd[r]
    BY Untouched
  <2> QED
    BY <1>1, <1>2, <2>1 DEF Fresh, Spares
<1>c7. Locks(q)'
  BY <1>1, <1>2 DEF Locks, HasLock, Spares
<1>c8. Truncs(q)'
  BY <1>1, <1>2 DEF Truncs, Spares, Alive
<1> QED
  BY <1>c1, <1>c2, <1>c3, <1>c4, <1>c6, <1>c7, <1>c8

\* so it is enough to show the rest.
LEMMA LoudStep ==
  ASSUME Inv, AllTypes', RefSum', LostFew', NEW p \in Procs, Frame(p), Others(p, put, put'),
         \A q \in Procs : q # p => Spares(p, q),
         Shape(p)', Living(p)', Dirs(p)', Making(p)', Erasing(p)', Fresh(p)', Locks(p)', Truncs(p)',
         \A i \in Inum : Copied(i)' /\ Counted(i)' /\ Orphans(i)' /\ Kept(i)',
         Entries', OneName', RootOK', FreeBare'
  PROVE  Inv'
<1>1. \A q \in Procs : q # p => /\ Shape(q)' /\ Living(q)' /\ Dirs(q)' /\ Making(q)' /\ Erasing(q)'
                               /\ Fresh(q)' /\ Locks(q)' /\ Truncs(q)'
  BY Spared
<1> QED
  BY <1>1 DEF Inv

DiskTypes == /\ disk' \in [Inum -> Dinode]
             /\ ents' \in [Inum -> [Names \cup Dots -> Inum \cup {None}]]
             /\ put' \in [Procs -> {"test", "trunc", "release", "drop"}]
             /\ stray' \subseteq Inum

\* Types, references and lost references after such a step.
LEMMA LoudTypes ==
  ASSUME Inv, NEW p \in Procs, NEW l \in Local, NEW c \in Opt(Inum), NEW f \in Opt(Inum), NEW t \in Todo,
         Becomes(p, l, c, f, t), Tables, DiskTypes, lost' = lost,
         l.pc \in {"g_scan", "g_next"} => loc[p].pc \in {"g_scan", "g_next"},
         \A i \in Inum : ref'[i] = ref[i] + HeldBy(l, c, f, t, i)
                                          - HeldBy(loc[p], cwd[p], fd[p], todo[p], i)
  PROVE  AllTypes' /\ RefSum' /\ LostFew' /\ Frame(p)
<1>1. AllTypes /\ RefSum
  BY DEF Inv
<1>2. /\ loc'[p] = l /\ cwd'[p] = c /\ fd'[p] = f /\ todo'[p] = t
      /\ loc' \in [Procs -> Local] /\ cwd' \in [Procs -> Inum \cup {None}]
      /\ fd' \in [Procs -> Inum \cup {None}] /\ todo' \in [Procs -> Todo]
      /\ Frame(p) /\ Lists(todo')
  BY <1>1, BecomesIs
<1>3. AllTypes'
  BY <1>1, <1>2 DEF AllTypes, Tables, Copies, DiskTypes
<1>4. RefSum'
  BY <1>1, <1>2, RefMove DEF Frame
<1>5. LostFew'
  BY <1>2, ClimbLess DEF Frame
<1> QED
  BY <1>2, <1>3, <1>4, <1>5

\* An inode whose copy, lock and counts stay.
LEMMA CopiedSame ==
  ASSUME Inv, NEW p \in Procs, Frame(p), Others(p, put, put'), NEW i \in Inum,
         \/ mem'[i] = mem[i]
         \/ lock[i] = None /\ Alive(i) /\ mem'[i] = Copy(i),
         disk'[i] = disk[i], lock'[i] = lock[i], ref'[i] > 0 => ref[i] > 0,
         lock[i] = p => put[p] # "release" \/ Next1(p) # i
  PROVE  Copied(i)'
<1>1. AllTypes /\ Copied(i)
  BY DEF Inv
<1>2. CASE mem'[i] = mem[i]
  <2>1. lock'[i] # None => mem'[i].valid
    BY <1>1, <1>2 DEF Copied
  <2>2. ASSUME mem'[i].valid, ref'[i] > 0
        PROVE  \/ mem'[i].type # "free" /\ mem'[i].type = disk'[i].type /\ mem'[i].nlink = disk'[i].nlink
               \/ mem'[i].type = "free" /\ lock'[i] # None /\ put'[lock'[i]] = "release" /\ Nth(todo'[lock'[i]], 1) = i
    <3>1. CASE mem[i].type = "free" /\ lock[i] # None /\ put[lock[i]] = "release" /\ Next1(lock[i]) = i
      <4>1. PICK q \in Procs : q = lock[i]
        BY <3>1, LockHeld
      <4>2. q # p
        BY <3>1, <4>1
      <4>3. put'[q] = put[q] /\ todo'[q] = todo[q]
        BY <4>2, Untouched DEF Others, Changed
      <4>4. lock'[i] = q /\ q # None
        BY <3>1, <4>1
      <4>5. put[q] = "release" /\ Nth(todo[q], 1) = i
        BY <3>1, <4>1 DEF Next1
      <4> QED
        BY <1>2, <3>1, <4>3, <4>4, <4>5
    <3> QED
      BY <1>1, <1>2, <2>2, <3>1 DEF Copied
  <2> QED
    BY <2>1, <2>2 DEF Copied, Next1
<1>3. CASE lock[i] = None /\ Alive(i) /\ mem'[i] = Copy(i)
  <2>1. CASE ref'[i] > 0
    <3>1. /\ Copy(i).valid = TRUE /\ Copy(i).type = disk[i].type /\ Copy(i).nlink = disk[i].nlink
      BY <1>1, <1>3, <2>1, CopyIs
    <3> QED
      BY <1>3, <3>1 DEF Copied, Alive
  <2>2. CASE ~(ref'[i] > 0)
    BY <1>3, <2>2 DEF Copied
  <2> QED
    BY <2>1, <2>2
<1> QED
  BY <1>2, <1>3

-----------------------------------------------------------------------------
(* How the links that are owed move.                                        *)

DecIp(l) == IF l.pc = "u_dec" THEN l.ip ELSE None

\* Links that link() and unlink() are about to write or take back, after a step of p.
LEMMA LinkersMove ==
  ASSUME NEW p \in Procs, Frame(p), NEW i
  PROVE  /\ Count(Procs, LinkersIn(loc'), i)
              = Count(Procs, LinkersIn(loc), i) - Same(LinkIp(loc[p]), i) + Same(LinkIp(loc'[p]), i)
         /\ Count(Procs, DecsIn(loc'), i)
              = Count(Procs, DecsIn(loc), i) - Same(DecIp(loc[p]), i) + Same(DecIp(loc'[p]), i)
<1>1. \A q \in Procs : q # p => loc'[q] = loc[q]
  BY Untouched
<1>2. Changed(Procs, p, LinkersIn(loc), LinkersIn(loc')) /\ Changed(Procs, p, DecsIn(loc), DecsIn(loc'))
  BY <1>1 DEF Changed, LinkersIn, DecsIn
<1>3. /\ LinkersIn(loc)[p] = LinkIp(loc[p]) /\ LinkersIn(loc')[p] = LinkIp(loc'[p])
      /\ DecsIn(loc)[p] = DecIp(loc[p]) /\ DecsIn(loc')[p] = DecIp(loc'[p])
  BY DEF LinkersIn, DecsIn, LinkIp, DecIp
<1> DEFINE a0 == LinkersIn(loc)
           a1 == LinkersIn(loc')
           d0 == DecsIn(loc)
           d1 == DecsIn(loc')
<1> HIDE DEF a0, a1, d0, d1
<1>4. Changed(Procs, p, a0, a1) /\ Changed(Procs, p, d0, d1) /\ IsFiniteSet(Procs)
  BY <1>2, ProcSets DEF a0, a1, d0, d1
<1>5. Count(Procs, a1, i) = Count(Procs, a0, i) - Same(a0[p], i) + Same(a1[p], i)
  BY <1>4, CountOne
<1>6. Count(Procs, d1, i) = Count(Procs, d0, i) - Same(d0[p], i) + Same(d1[p], i)
  BY <1>4, CountOne
<1> QED
  BY <1>3, <1>5, <1>6 DEF a0, a1, d0, d1

\* Links owed after a step of p.
LEMMA OwedMove ==
  ASSUME NEW p \in Procs, Frame(p), NEW i, NEW n \in Int, NEW k \in Int,
         Count(Entry, NamesIn(ents'), i) = Count(Entry, NamesIn(ents), i) + n,
         Count(Inum, KidsIn(disk', ents'), i) = Count(Inum, KidsIn(disk, ents), i) + k
  PROVE  Owed(disk', ents', loc', i)
           = Owed(disk, ents, loc, i) + ((n + k) + ((Same(LinkIp(loc'[p]), i) - Same(LinkIp(loc[p]), i))
                                                    + (Same(DecIp(loc'[p]), i) - Same(DecIp(loc[p]), i))))
<1> DEFINE a0 == Count(Entry, NamesIn(ents), i)
           a1 == Count(Entry, NamesIn(ents'), i)
           b0 == Count(Inum, KidsIn(disk, ents), i)
           b1 == Count(Inum, KidsIn(disk', ents'), i)
           c0 == Count(Procs, LinkersIn(loc), i)
           c1 == Count(Procs, LinkersIn(loc'), i)
           d0 == Count(Procs, DecsIn(loc), i)
           d1 == Count(Procs, DecsIn(loc'), i)
           r == IF i = Root THEN 1 ELSE 0
           x0 == Same(LinkIp(loc[p]), i)
           x1 == Same(LinkIp(loc'[p]), i)
           y0 == Same(DecIp(loc[p]), i)
           y1 == Same(DecIp(loc'[p]), i)
<1>1. /\ a0 \in Int /\ a1 \in Int /\ b0 \in Int /\ b1 \in Int /\ c0 \in Int /\ c1 \in Int /\ d0 \in Int /\ d1 \in Int
      /\ r \in Int /\ x0 \in Int /\ x1 \in Int /\ y0 \in Int /\ y1 \in Int
  <2>1. \A d, m, l : /\ Count(Entry, NamesIn(m), i) \in Nat /\ Count(Inum, KidsIn(d, m), i) \in Nat
                     /\ Count(Procs, LinkersIn(l), i) \in Nat /\ Count(Procs, DecsIn(l), i) \in Nat
    BY OwedIs
  <2>2. \A x : Same(x, i) \in Int
    BY DEF Same
  <2>3. r \in Int
    OBVIOUS
  <2> HIDE DEF r
  <2> QED
    BY <2>1, <2>2, <2>3
<1>2. /\ Owed(disk, ents, loc, i) = (a0 + (b0 + r)) + (c0 + d0)
      /\ Owed(disk', ents', loc', i) = (a1 + (b1 + r)) + (c1 + d1)
  BY OwedIs
<1>3. /\ c1 = c0 - x0 + x1 /\ d1 = d0 - y0 + y1
  BY LinkersMove
<1>4. a1 = a0 + n /\ b1 = b0 + k
  OBVIOUS
<1> HIDE DEF a0, a1, b0, b1, c0, c1, d0, d1, r, x0, x1, y0, y1
<1>5. (a1 + (b1 + r)) + (c1 + d1) = ((a0 + (b0 + r)) + (c0 + d0)) + ((n + k) + ((x1 - x0) + (y1 - y0)))
  BY <1>1, <1>3, <1>4
<1> QED
  BY <1>2, <1>5 DEF x0, x1, y0, y1

\* One entry of a directory changed.
LEMMA NamesMove ==
  ASSUME NEW d \in Inum, NEW n \in Names,
         \A e \in Inum : \A m \in Names : <<e, m>> # <<d, n>> => ents'[e][m] = ents[e][m], NEW i
  PROVE  Count(Entry, NamesIn(ents'), i) = Count(Entry, NamesIn(ents), i) - Same(ents[d][n], i) + Same(ents'[d][n], i)
<1> DEFINE s == <<d, n>>
           f == NamesIn(ents)
           g == NamesIn(ents')
<1>1. s \in Entry /\ f[s] = ents[d][n] /\ g[s] = ents'[d][n]
  BY DEF Entry, NamesIn
<1>2. Changed(Entry, s, f, g)
  BY DEF Changed, Entry, NamesIn
<1> HIDE DEF s, f, g
<1>3. Count(Entry, g, i) = Count(Entry, f, i) - Same(f[s], i) + Same(g[s], i)
  BY <1>2, LinkSets, CountOne
<1> QED
  BY <1>1, <1>3 DEF f, g

\* No entry changes.
LEMMA NamesSame ==
  ASSUME \A e \in Inum : \A m \in Names : ents'[e][m] = ents[e][m], NEW i
  PROVE  Count(Entry, NamesIn(ents'), i) = Count(Entry, NamesIn(ents), i)
<1>1. \A e \in Entry : NamesIn(ents')[e] = NamesIn(ents)[e]
  BY DEF Entry, NamesIn
<1> QED
  BY <1>1, CountSame

\* The directories that have a name.
HasName(m, j) == \E e \in Inum : \E n \in Names : m[e][n] = j

\* A named directory is a link of the root.
LEMMA KidIs ==
  ASSUME NEW d, NEW m, NEW j \in Inum
  PROVE  KidsIn(d, m)[j] = IF d[j].type = "dir" /\ HasName(m, j) THEN Root ELSE None
<1>1. (\E e \in Inum \X Names : m[e[1]][e[2]] = j) <=> HasName(m, j)
  <2>1. ASSUME NEW e \in Inum \X Names, m[e[1]][e[2]] = j PROVE HasName(m, j)
    <3>1. e[1] \in Inum /\ e[2] \in Names
      OBVIOUS
    <3> QED
      BY <2>1, <3>1 DEF HasName
  <2>2. ASSUME NEW e \in Inum, NEW n \in Names, m[e][n] = j
        PROVE  \E x \in Inum \X Names : m[x[1]][x[2]] = j
    <3> DEFINE x == <<e, n>>
    <3>1. x \in Inum \X Names /\ x[1] = e /\ x[2] = n
      OBVIOUS
    <3> HIDE DEF x
    <3> QED
      BY <2>2, <3>1
  <2> QED
    BY <2>1, <2>2 DEF HasName
<1> QED
  BY <1>1 DEF KidsIn

\* No directory gets or loses its name.
LEMMA KidsSame ==
  ASSUME \A j \in Inum : disk[j].type = "dir" /\ HasName(ents, j) <=> disk'[j].type = "dir" /\ HasName(ents', j), NEW i
  PROVE  Count(Inum, KidsIn(disk', ents'), i) = Count(Inum, KidsIn(disk, ents), i)
<1>1. \A j \in Inum : KidsIn(disk', ents')[j] = KidsIn(disk, ents)[j]
  BY KidIs
<1> QED
  BY <1>1, CountSame

\* At most the directory s does.
LEMMA KidsMove ==
  ASSUME NEW s \in Inum,
         \A j \in Inum \ {s} : disk[j].type = "dir" /\ HasName(ents, j) <=> disk'[j].type = "dir" /\ HasName(ents', j),
         NEW i
  PROVE  Count(Inum, KidsIn(disk', ents'), i)
           = Count(Inum, KidsIn(disk, ents), i) - Same(KidsIn(disk, ents)[s], i) + Same(KidsIn(disk', ents')[s], i)
<1> DEFINE f == KidsIn(disk, ents)
           g == KidsIn(disk', ents')
<1>1. \A j \in Inum : j # s => g[j] = f[j]
  BY KidIs
<1>2. Changed(Inum, s, f, g)
  BY <1>1 DEF Changed
<1> HIDE DEF f, g
<1>3. Count(Inum, g, i) = Count(Inum, f, i) - Same(f[s], i) + Same(g[s], i)
  BY <1>2, LinkSets, CountOne
<1> QED
  BY <1>3 DEF f, g

\* Steps that leave the disk and the directories as they are.
LEMMA SameDisk ==
  ASSUME Inv, NEW p \in Procs, Frame(p), disk' = disk, ents' = ents, stray \subseteq stray', Root \notin stray',
         LinkIp(loc'[p]) = LinkIp(loc[p]), DecIp(loc'[p]) = DecIp(loc[p])
  PROVE  /\ \A i \in Inum : Counted(i)' /\ Orphans(i)'
         /\ Entries' /\ OneName' /\ RootOK' /\ FreeBare'
<1>1. ASSUME NEW i \in Inum PROVE Counted(i)' /\ Orphans(i)'
  <2>1. Counted(i) /\ Orphans(i)
    BY DEF Inv
  <2>2. Owed(disk', ents', loc', i) = Owed(disk, ents, loc, i)
    <3> DEFINE x == Same(LinkIp(loc[p]), i)
               y == Same(DecIp(loc[p]), i)
               o == Owed(disk, ents, loc, i)
    <3>1. Owed(disk', ents', loc', i) = o + ((0 + 0) + ((x - x) + (y - y)))
      <4>1. /\ Count(Entry, NamesIn(ents'), i) = Count(Entry, NamesIn(ents), i) + 0
            /\ Count(Inum, KidsIn(disk', ents'), i) = Count(Inum, KidsIn(disk, ents), i) + 0
        BY OwedIs
      <4> DEFINE n == 0
      <4>2. n \in Int /\ Count(Entry, NamesIn(ents'), i) = Count(Entry, NamesIn(ents), i) + n
            /\ Count(Inum, KidsIn(disk', ents'), i) = Count(Inum, KidsIn(disk, ents), i) + n
        BY <4>1
      <4> HIDE DEF n
      <4>3. Owed(disk', ents', loc', i)
              = Owed(disk, ents, loc, i) + ((n + n) + ((Same(LinkIp(loc'[p]), i) - Same(LinkIp(loc[p]), i))
                                                       + (Same(DecIp(loc'[p]), i) - Same(DecIp(loc[p]), i))))
        BY <4>2, OwedMove
      <4> QED
        BY <4>3 DEF n
    <3>2. x \in Int /\ y \in Int /\ o \in Int
      BY SameNat, OwedIs
    <3> HIDE DEF x, y, o
    <3>3. o + ((0 + 0) + ((x - x) + (y - y))) = o
      BY <3>2
    <3> QED
      BY <3>1, <3>3 DEF o
  <2>3. Counted(i)'
    BY <2>1, <2>2 DEF Counted, Alive
  <2> QED
    BY <2>1, <2>3 DEF Orphans, IsDir
<1>2. Entries' /\ OneName' /\ RootOK' /\ FreeBare'
  BY DEF Inv, Entries, OneName, RootOK, FreeBare, IsDir, Alive, HasDots, Bare
<1> QED
  BY <1>1, <1>2

\* Who has freed an inode has its lock, so nobody can go on making it.
LEMMA Released ==
  ASSUME Inv, NEW q \in Procs, put[q] \in {"trunc", "release"}
  PROVE  Next1(q) \in Inum /\ lock[Next1(q)] = q
<1>1. Shape(q) /\ Locks(q) /\ AllTypes
  BY DEF Inv
<1>2. Next1(q) \in Inum
  BY <1>1, OptHolds DEF Shape
<1> QED
  BY <1>1, <1>2 DEF Locks, HasLock

\* A step that leaves the disk alone spares the others.
LEMMA SparesDisk ==
  ASSUME Inv, NEW p \in Procs, Frame(p), disk' = disk, ents' = ents, NEW q \in Procs, q # p,
         \A i \in Inum : lock'[i] = q <=> lock[i] = q,
         loc[q].pc = "c_init" => /\ loc'[p].at # loc[q].ip /\ loc'[p].dp # loc[q].ip
                                 /\ loc'[p].ip # loc[q].ip /\ cwd'[p] # loc[q].ip,
         put[q] = "trunc" => ref'[Next1(q)] = ref[Next1(q)],
         loc[p].pc = "c_init" => loc'[p] = loc[p] \/ lock[loc[p].ip] = None
  PROVE  Spares(p, q)
<1>1. Truncs(q)
  BY DEF Inv
<1>2. ASSUME put[q] = "release", disk[Next1(q)].type # "free"
      PROVE  \E r \in Procs : loc'[r].pc = "c_init" /\ loc'[r].ip = Next1(q)
  <2>1. PICK r \in Procs : loc[r].pc = "c_init" /\ loc[r].ip = Next1(q)
    BY <1>1, <1>2 DEF Truncs, Alive
  <2>2. CASE r = p
    <3>1. lock[loc[p].ip] = q /\ q # None
      BY <1>2, <2>1, <2>2, Released, NoInode
    <3> QED
      BY <2>1, <2>2, <3>1
  <2>3. CASE r # p
    <3>1. loc'[r] = loc[r]
      BY <2>3, Untouched
    <3> QED
      BY <2>1, <3>1
  <2> QED
    BY <2>2, <2>3
<1>3. \A i \in Inum : HasDots(i) => HasDots(i)'
  BY DEF HasDots
<1> QED
  BY <1>2, <1>3 DEF Spares

\* iput() goes on: p's own variables stay.
LEMMA PutFrame ==
  ASSUME Inv, NEW p \in Procs, NEW t \in Todo, UNCHANGED <<loc, cwd, fd>>, todo' = [todo EXCEPT ![p] = t]
  PROVE  /\ Becomes(p, loc[p], cwd[p], fd[p], t) /\ Frame(p) /\ Next1(p)' = Nth(t, 1) /\ Next2(p)' = Nth(t, 2)
         /\ loc[p] \in Local /\ cwd[p] \in Opt(Inum) /\ fd[p] \in Opt(Inum)
         /\ LinkIp(loc'[p]) = LinkIp(loc[p]) /\ DecIp(loc'[p]) = DecIp(loc[p])
<1>1. AllTypes
  BY DEF Inv
<1>2. /\ Becomes(p, loc[p], cwd[p], fd[p], t)
      /\ loc[p] \in Local /\ cwd[p] \in Opt(Inum) /\ fd[p] \in Opt(Inum)
  BY <1>1, Stays DEF Becomes
<1> QED
  BY <1>1, <1>2, BecomesIs

\* What p is about to put.
LEMMA PutNext ==
  ASSUME Inv, NEW p \in Procs, todo[p] # <<>>
  PROVE  /\ Head(todo[p]) = Next1(p) /\ Next1(p) \in Inum /\ todo[p] \in Todo /\ todo = [todo EXCEPT ![p] = todo[p]]
         /\ Tail(todo[p]) \in Todo /\ Nth(Tail(todo[p]), 1) = Next2(p) /\ Nth(Tail(todo[p]), 2) = None
         /\ ref[Next1(p)] >= 1 /\ ref[Next1(p)] \in Nat /\ loc[p].pc \notin {"c_init", "u_child"}
<1>1. AllTypes /\ RefSum /\ Shape(p)
  BY DEF Inv
<1>2. /\ Head(todo[p]) = Next1(p) /\ Next1(p) \in Inum /\ todo[p] \in Todo /\ todo = [todo EXCEPT ![p] = todo[p]]
      /\ Tail(todo[p]) \in Todo /\ Nth(Tail(todo[p]), 1) = Next2(p) /\ Nth(Tail(todo[p]), 2) = None
      /\ Next1(p) # None
  BY <1>1, TodoIs, Stays, NoInode DEF Opt
<1>3. ref[Next1(p)] >= 1 /\ ref[Next1(p)] \in Nat
  BY <1>1, <1>2, HeldPos DEF Holds, AllTypes
<1> QED
  BY <1>1, <1>2, <1>3 DEF Shape

\* PutTake keeps the invariant.
LEMMA PutTakeInv == ASSUME Inv, NEW p \in Procs, PutTake(p) PROVE Inv'
<1> DEFINE i == Head(todo[p])
<1>1. /\ todo[p] # <<>> /\ put[p] = "test" /\ LastPut(i) /\ lock[i] = None
      /\ lock' = [lock EXCEPT ![i] = p] /\ put' = [put EXCEPT ![p] = "trunc"]
      /\ UNCHANGED <<disk, ents, ref, mem, cwd, fd, loc, todo, lost, stray>>
  BY DEF PutTake, PutStart
<1>2. /\ i = Next1(p) /\ i \in Inum /\ todo[p] \in Todo /\ todo' = [todo EXCEPT ![p] = todo[p]]
      /\ loc[p].pc \notin {"c_init", "u_child"} /\ Holds(p, i)
  BY <1>1, PutNext DEF Holds
<1>3. /\ AllTypes /\ Shape(p) /\ Living(p) /\ Dirs(p) /\ Making(p) /\ Erasing(p) /\ Fresh(p) /\ Locks(p) /\ Truncs(p)
      /\ lock \in [Inum -> Procs \cup {None}] /\ put \in [Procs -> {"test", "trunc", "release", "drop"}]
  BY DEF Inv, AllTypes
<1>4. /\ Becomes(p, loc[p], cwd[p], fd[p], todo[p]) /\ Frame(p) /\ loc[p] \in Local /\ cwd[p] \in Opt(Inum)
      /\ fd[p] \in Opt(Inum) /\ Next1(p)' = Next1(p) /\ Next2(p)' = Next2(p)
      /\ LinkIp(loc'[p]) = LinkIp(loc[p]) /\ DecIp(loc'[p]) = DecIp(loc[p])
  BY <1>1, <1>2, PutFrame DEF Next1, Next2
<1> HIDE DEF i
<1>5. put'[p] = "trunc" /\ Others(p, put, put')
  BY <1>1, <1>3 DEF Others, Changed
<1>6. Tables /\ DiskTypes
  BY <1>1, <1>3 DEF AllTypes, Tables, DiskTypes, Copies
<1>7. \A j \in Inum : ref'[j] = ref[j] + HeldBy(loc[p], cwd[p], fd[p], todo[p], j) - HeldBy(loc[p], cwd[p], fd[p], todo[p], j)
  <2>1. SUFFICES ASSUME NEW j \in Inum
                 PROVE  ref[j] = ref[j] + HeldBy(loc[p], cwd[p], fd[p], todo[p], j) - HeldBy(loc[p], cwd[p], fd[p], todo[p], j)
    BY <1>1
  <2> DEFINE h == HeldBy(loc[p], cwd[p], fd[p], todo[p], j)
  <2>2. h \in Int /\ ref[j] \in Int
    BY <1>3, HeldInt DEF AllTypes
  <2> HIDE DEF h
  <2>3. ref[j] = ref[j] + h - h
    BY <2>2
  <2> QED
    BY <2>3 DEF h
<1>8. AllTypes' /\ RefSum' /\ LostFew'
  BY <1>1, <1>2, <1>4, <1>6, <1>7, LoudTypes
<1>9. ref[i] = 1 /\ disk[i].nlink = 0
  <2>1. ref[i] = 1 /\ mem[i].valid /\ mem[i].nlink = 0
    BY <1>1 DEF LastPut
  <2>2. Copied(i)
    BY <1>2 DEF Inv
  <2> QED
    BY <1>1, <2>1, <2>2 DEF Copied
<1>10. ASSUME NEW q \in Procs, q # p PROVE Spares(p, q)
  <2>1. \A j \in Inum : lock'[j] = q <=> lock[j] = q
    BY <1>1, <1>2, <1>3, <1>10, NoInode
  <2>2. Fresh(q)
    BY DEF Inv
  <2>3. loc[q].pc = "c_init" => /\ loc'[p].at # loc[q].ip /\ loc'[p].dp # loc[q].ip
                                /\ loc'[p].ip # loc[q].ip /\ cwd'[p] # loc[q].ip
    BY <1>1, <1>10, <2>2 DEF Fresh
  <2> QED
    BY <1>1, <1>2, <1>4, <1>10, <2>1, <2>3, SparesDisk
<1>11. Shape(p)' /\ Living(p)' /\ Dirs(p)' /\ Making(p)' /\ Erasing(p)' /\ Fresh(p)'
  <2>1. Shape(p)'
    BY <1>1, <1>2, <1>3, <1>4, <1>5, NoInode DEF Shape, Linking
  <2>2. Living(p)'
    BY <1>1, <1>3, <1>4, <1>5 DEF Living, Alive
  <2>3. Dirs(p)' /\ Making(p)' /\ Erasing(p)' /\ Fresh(p)'
    BY <1>1, <1>3 DEF Dirs, Making, Erasing, Fresh, IsDir, HasDots, Linking, Bare, Last
  <2> QED
    BY <2>1, <2>2, <2>3
<1>12. Locks(p)'
  <2>1. \A j \in Inum : HasLock(p, j)' <=> HasLock(p, j) \/ j = i
    BY <1>1, <1>2, <1>4, <1>5 DEF HasLock
  <2> QED
    BY <1>1, <1>2, <1>3, <2>1 DEF Locks
<1>13. Truncs(p)'
  BY <1>1, <1>2, <1>4, <1>5, <1>9 DEF Truncs
<1>14. ASSUME NEW j \in Inum PROVE Copied(j)' /\ Kept(j)'
  <2>1. Copied(j) /\ Kept(j)
    BY DEF Inv
  <2>2. Kept(j)'
    BY <1>1, <2>1 DEF Kept, Alive
  <2>3. CASE j = i
    BY <1>1, <1>2, <1>9, <2>1, <2>2, <2>3 DEF Copied, LastPut
  <2>4. CASE j # i
    <3>1. lock'[j] = lock[j]
      BY <1>1, <1>3, <2>4
    <3>2. lock[j] = p => put[p] # "release"
      BY <1>1
    <3>3. Copied(j)'
      BY <1>1, <1>4, <1>5, <3>1, <3>2, CopiedSame
    <3> QED
      BY <2>2, <3>3
  <2> QED
    BY <2>3, <2>4
<1>15. Root \notin stray' /\ stray \subseteq stray'
  BY <1>1 DEF Inv, RootOK
<1>16. (\A j \in Inum : Counted(j)' /\ Orphans(j)') /\ Entries' /\ OneName' /\ RootOK' /\ FreeBare'
  BY <1>1, <1>4, <1>15, SameDisk
<1> QED
  BY <1>4, <1>5, <1>8, <1>10, <1>11, <1>12, <1>13, <1>14, <1>16, LoudStep

\* A step that keeps the references and what p holds.
LEMMA LikeRefs ==
  ASSUME Inv, NEW p \in Procs, NEW l, NEW c, NEW f, NEW t, HeldLike(p, l, c, f, t), ref' = ref
  PROVE  \A i \in Inum : ref'[i] = ref[i] + HeldBy(l, c, f, t, i) - HeldBy(loc[p], cwd[p], fd[p], todo[p], i)
<1>1. SUFFICES ASSUME NEW i \in Inum
               PROVE  ref'[i] = ref[i] + HeldBy(l, c, f, t, i) - HeldBy(loc[p], cwd[p], fd[p], todo[p], i)
  OBVIOUS
<1> DEFINE h == HeldBy(loc[p], cwd[p], fd[p], todo[p], i)
<1>2. HeldBy(l, c, f, t, i) = h /\ h \in Int /\ ref[i] \in Int
  BY HeldInt DEF HeldLike, Inv, AllTypes
<1> HIDE DEF h
<1>3. ref'[i] = ref[i] + h - h
  BY <1>2
<1> QED
  BY <1>2, <1>3 DEF h

\* The rest of the disk and of the directories is p's to keep.
LEMMA FreshOf ==
  ASSUME Inv, NEW p \in Procs, NEW q \in Procs, q # p, loc[q].pc = "c_init"
  PROVE  /\ loc[p].at # loc[q].ip /\ loc[p].dp # loc[q].ip /\ loc[p].ip # loc[q].ip /\ cwd[p] # loc[q].ip
         /\ loc[q].ip \in Inum
<1>1. Fresh(q) /\ AllTypes /\ Shape(q)
  BY DEF Inv
<1>2. loc[q].ip \in Inum
  BY <1>1, OptHolds DEF Shape, IpPlaces
<1> QED
  BY <1>1, <1>2 DEF Fresh

\* PutRelease keeps the invariant.
LEMMA PutReleaseInv == ASSUME Inv, NEW p \in Procs, PutRelease(p) PROVE Inv'
<1> DEFINE i == Head(todo[p])
<1>1. /\ todo[p] # <<>> /\ put[p] = "release"
      /\ mem' = [mem EXCEPT ![i].valid = FALSE]
      /\ lock' = [lock EXCEPT ![i] = None] /\ put' = [put EXCEPT ![p] = "drop"]
      /\ UNCHANGED <<disk, ents, ref, cwd, fd, loc, todo, lost, stray>>
  BY DEF PutRelease, PutStart
<1>2. /\ i = Next1(p) /\ i \in Inum /\ todo[p] \in Todo /\ todo' = [todo EXCEPT ![p] = todo[p]]
      /\ loc[p].pc \notin {"c_init", "u_child"} /\ Holds(p, i) /\ lock[i] = p
  BY <1>1, PutNext, Released DEF Holds
<1>3. /\ AllTypes /\ Shape(p) /\ Living(p) /\ Dirs(p) /\ Making(p) /\ Erasing(p) /\ Fresh(p) /\ Locks(p) /\ Truncs(p)
      /\ lock \in [Inum -> Procs \cup {None}] /\ put \in [Procs -> {"test", "trunc", "release", "drop"}]
      /\ mem \in [Inum -> Copies]
  BY DEF Inv, AllTypes, Copies
<1>4. /\ Becomes(p, loc[p], cwd[p], fd[p], todo[p]) /\ Frame(p) /\ loc[p] \in Local /\ cwd[p] \in Opt(Inum)
      /\ fd[p] \in Opt(Inum) /\ Next1(p)' = Next1(p) /\ Next2(p)' = Next2(p)
      /\ LinkIp(loc'[p]) = LinkIp(loc[p]) /\ DecIp(loc'[p]) = DecIp(loc[p])
  BY <1>1, <1>2, PutFrame DEF Next1, Next2
<1> HIDE DEF i
<1>5. put'[p] = "drop" /\ Others(p, put, put')
  BY <1>1, <1>3 DEF Others, Changed
<1>6. Tables /\ DiskTypes
  <2>1. mem' \in [Inum -> Copies]
    BY <1>1, <1>2, <1>3 DEF Copies
  <2> QED
    BY <1>1, <1>2, <1>3, <2>1 DEF AllTypes, Tables, DiskTypes
<1>7. \A j \in Inum : ref'[j] = ref[j] + HeldBy(loc[p], cwd[p], fd[p], todo[p], j) - HeldBy(loc[p], cwd[p], fd[p], todo[p], j)
  BY <1>1, LikeRefs DEF HeldLike
<1>8. AllTypes' /\ RefSum' /\ LostFew'
  BY <1>1, <1>2, <1>4, <1>6, <1>7, LoudTypes
\* What p works on is not the inode that it has freed.
<1>9. loc[p].dp # i /\ loc[p].ip # i
  <2>1. CASE Alive(i)
    <3>1. PICK q \in Procs : loc[q].pc = "c_init" /\ loc[q].ip = i
      BY <1>1, <1>2, <1>3, <2>1 DEF Truncs
    <3>2. q # p
      BY <1>2, <3>1
    <3> QED
      BY <3>1, <3>2, FreshOf
  <2>2. CASE ~Alive(i)
    BY <1>2, <1>3, <2>2, NoInode DEF Living
  <2> QED
    BY <2>1, <2>2
<1>10. ASSUME NEW q \in Procs, q # p PROVE Spares(p, q)
  <2>1. \A j \in Inum : lock'[j] = q <=> lock[j] = q
    BY <1>1, <1>2, <1>3, <1>10, NoInode
  <2>3. loc[q].pc = "c_init" => /\ loc'[p].at # loc[q].ip /\ loc'[p].dp # loc[q].ip
                                /\ loc'[p].ip # loc[q].ip /\ cwd'[p] # loc[q].ip
    BY <1>1, <1>10, FreshOf
  <2> QED
    BY <1>1, <1>2, <1>4, <1>10, <2>1, <2>3, SparesDisk
<1>11. Shape(p)' /\ Living(p)' /\ Dirs(p)' /\ Making(p)' /\ Erasing(p)' /\ Fresh(p)'
  <2>1. Shape(p)'
    BY <1>1, <1>2, <1>3, <1>4, <1>5, NoInode DEF Shape, Linking
  <2>2. Living(p)'
    BY <1>1, <1>3, <1>4, <1>5 DEF Living, Alive
  <2>3. Dirs(p)' /\ Making(p)' /\ Erasing(p)' /\ Fresh(p)'
    BY <1>1, <1>3 DEF Dirs, Making, Erasing, Fresh, IsDir, HasDots, Linking, Bare, Last
  <2> QED
    BY <2>1, <2>2, <2>3
<1>12. Locks(p)'
  <2>1. \A j \in Inum : HasLock(p, j)' <=> HasLock(p, j) /\ j # i
    BY <1>1, <1>2, <1>4, <1>5, <1>9 DEF HasLock
  <2> QED
    BY <1>1, <1>2, <1>3, <2>1, NoInode DEF Locks
<1>13. Truncs(p)'
  BY <1>5 DEF Truncs
<1>14. ASSUME NEW j \in Inum PROVE Copied(j)' /\ Kept(j)'
  <2>1. Copied(j) /\ Kept(j)
    BY DEF Inv
  <2>3. CASE j = i
    <3>1. lock'[j] = None /\ mem'[j].valid = FALSE
      BY <1>1, <1>2, <1>3, <2>3 DEF Copies
    <3>2. Copied(j)'
      BY <3>1 DEF Copied
    <3>3. Kept(j)'
      BY <1>1, <1>2, <1>3, <2>1, <2>3 DEF Kept, Alive, Truncs
    <3> QED
      BY <3>2, <3>3
  <2>4. CASE j # i
    <3>1. lock'[j] = lock[j] /\ mem'[j] = mem[j]
      BY <1>1, <1>3, <2>4
    <3>2. lock[j] = p => put[p] # "release" \/ Next1(p) # j
      BY <1>2, <2>4
    <3>3. Copied(j)'
      BY <1>1, <1>4, <1>5, <3>1, <3>2, CopiedSame
    <3>4. Kept(j)'
      BY <1>1, <2>1, <3>1 DEF Kept, Alive
    <3> QED
      BY <3>3, <3>4
  <2> QED
    BY <2>3, <2>4
<1>15. Root \notin stray' /\ stray \subseteq stray'
  BY <1>1 DEF Inv, RootOK
<1>16. (\A j \in Inum : Counted(j)' /\ Orphans(j)') /\ Entries' /\ OneName' /\ RootOK' /\ FreeBare'
  BY <1>1, <1>4, <1>15, SameDisk
<1> QED
  BY <1>4, <1>5, <1>8, <1>10, <1>11, <1>12, <1>13, <1>14, <1>16, LoudStep

\* PutLast keeps the invariant.
LEMMA PutLastInv == ASSUME Inv, NEW p \in Procs, PutLast(p) PROVE Inv'
<1> DEFINE i == Head(todo[p])
           t == Tail(todo[p])
<1>1. /\ todo[p] # <<>> /\ put[p] = "drop" /\ ref' = [ref EXCEPT ![i] = @ - 1]
      /\ put' = [put EXCEPT ![p] = "test"] /\ todo' = [todo EXCEPT ![p] = t]
      /\ stray' = (IF LastPut(i) THEN stray \cup {i} ELSE stray)
      /\ UNCHANGED <<disk, ents, mem, lock, cwd, fd, loc, lost>>
  BY DEF PutLast, PutStart, Put
<1>2. /\ i = Next1(p) /\ i \in Inum /\ t \in Todo /\ Nth(t, 1) = Next2(p) /\ Nth(t, 2) = None
      /\ ref[i] >= 1 /\ ref[i] \in Nat
      /\ loc[p].pc \notin {"c_init", "u_child"} /\ Holds(p, i)
  BY <1>1, PutNext DEF Holds
<1>3. /\ AllTypes /\ RefSum /\ Shape(p) /\ Living(p) /\ Dirs(p) /\ Making(p) /\ Erasing(p) /\ Fresh(p) /\ Locks(p)
      /\ Truncs(p)
      /\ lock \in [Inum -> Procs \cup {None}] /\ put \in [Procs -> {"test", "trunc", "release", "drop"}]
      /\ ref \in [Inum -> Nat] /\ stray \subseteq Inum
  BY DEF Inv, AllTypes
<1>4. /\ Becomes(p, loc[p], cwd[p], fd[p], t) /\ Frame(p) /\ loc[p] \in Local /\ cwd[p] \in Opt(Inum)
      /\ fd[p] \in Opt(Inum) /\ Next1(p)' = Next2(p) /\ Next2(p)' = None
      /\ LinkIp(loc'[p]) = LinkIp(loc[p]) /\ DecIp(loc'[p]) = DecIp(loc[p])
  BY <1>1, <1>2, PutFrame
<1> HIDE DEF i, t
<1>5. put'[p] = "test" /\ Others(p, put, put')
  BY <1>1, <1>3 DEF Others, Changed
<1>6. Tables /\ DiskTypes
  <2>1. ref' \in [Inum -> Nat]
    BY <1>1, <1>2, <1>3
  <2>2. stray' \subseteq Inum
    BY <1>1, <1>2, <1>3
  <2> QED
    BY <1>1, <1>2, <1>3, <2>1, <2>2 DEF AllTypes, Tables, DiskTypes, Copies
<1>7. ASSUME NEW j \in Inum
      PROVE  ref'[j] = ref[j] + HeldBy(loc[p], cwd[p], fd[p], t, j) - HeldBy(loc[p], cwd[p], fd[p], todo[p], j)
  <2> DEFINE x == LocBy(loc[p], j) + (Same(cwd[p], j) + Same(fd[p], j))
             y == Same(i, j)
             z == Same(Next2(p), j)
  <2>1. HeldBy(loc[p], cwd[p], fd[p], t, j) = x + (z + 0)
    BY <1>2, SameNone DEF HeldBy, TodoBy
  <2>2. HeldBy(loc[p], cwd[p], fd[p], todo[p], j) = x + (y + z)
    BY <1>2 DEF HeldBy, TodoBy, Next1, Next2
  <2>3. x \in Int /\ y \in Int /\ z \in Int /\ ref[j] \in Int
    BY <1>3 DEF LocBy, Same
  <2>4. ref'[j] = ref[j] - y
    BY <1>1, <1>2, <1>3 DEF Same
  <2> HIDE DEF x, y, z
  <2>5. ref'[j] = ref[j] + (x + (z + 0)) - (x + (y + z))
    BY <2>3, <2>4
  <2> QED
    BY <2>1, <2>2, <2>5
<1>8. AllTypes' /\ RefSum' /\ LostFew'
  BY <1>1, <1>2, <1>4, <1>6, <1>7, LoudTypes
\* The last reference sees what is on the disk.
<1>9. ASSUME ref[i] = 1, mem[i].valid, lock[i] = None \/ put[lock[i]] # "release" \/ Next1(lock[i]) # i
      PROVE  mem[i].nlink = disk[i].nlink
  BY <1>2, <1>9 DEF Inv, Copied
<1>10. ref[i] = 1 => lock[i] = None \/ put[lock[i]] # "release" \/ Next1(lock[i]) # i
  <2>1. SUFFICES ASSUME ref[i] = 1, lock[i] # None, put[lock[i]] = "release", Next1(lock[i]) = i PROVE FALSE
    OBVIOUS
  <2>2. lock[i] \in Procs /\ lock[i] # p
    BY <1>1, <1>2, <2>1, LockHeld
  <2> QED
    BY <1>2, <1>3, <2>1, <2>2, Sole
<1>11. ASSUME NEW q \in Procs, q # p PROVE Spares(p, q)
  <2>1. \A j \in Inum : lock'[j] = q <=> lock[j] = q
    BY <1>1
  <2>2. put[q] = "trunc" => ref'[Next1(q)] = ref[Next1(q)]
    <3>1. SUFFICES ASSUME put[q] = "trunc", Next1(q) = i PROVE FALSE
      BY <1>1, <1>2, <1>3
    <3>2. ref[i] = 1
      BY <3>1 DEF Inv, Truncs
    <3> QED
      BY <1>2, <1>3, <1>11, <3>1, <3>2, Sole
  <2>3. loc[q].pc = "c_init" => /\ loc'[p].at # loc[q].ip /\ loc'[p].dp # loc[q].ip
                                /\ loc'[p].ip # loc[q].ip /\ cwd'[p] # loc[q].ip
    BY <1>1, <1>11, FreshOf
  <2> QED
    BY <1>1, <1>2, <1>4, <1>11, <2>1, <2>2, <2>3, SparesDisk
<1>12. Shape(p)' /\ Living(p)' /\ Dirs(p)' /\ Making(p)' /\ Erasing(p)' /\ Fresh(p)'
  <2>1. Shape(p)'
    BY <1>1, <1>2, <1>3, <1>4, <1>5 DEF Shape, Linking
  <2>2. Living(p)'
    BY <1>1, <1>3, <1>4, <1>5 DEF Living, Alive
  <2>3. Dirs(p)' /\ Making(p)' /\ Erasing(p)' /\ Fresh(p)'
    BY <1>1, <1>3 DEF Dirs, Making, Erasing, Fresh, IsDir, HasDots, Linking, Bare, Last
  <2> QED
    BY <2>1, <2>2, <2>3
<1>13. Locks(p)'
  <2>1. \A j \in Inum : HasLock(p, j)' <=> HasLock(p, j)
    BY <1>1, <1>4, <1>5 DEF HasLock
  <2> QED
    BY <1>1, <1>3, <2>1 DEF Locks
<1>14. Truncs(p)'
  BY <1>5 DEF Truncs
<1>15. ASSUME NEW j \in Inum PROVE Copied(j)' /\ Kept(j)'
  <2>1. Copied(j) /\ Kept(j)
    BY DEF Inv
  <2>2. ref'[j] > 0 => ref[j] > 0
    BY <1>1, <1>2, <1>3
  <2>3. Copied(j)'
    BY <1>1, <1>4, <1>5, <2>2, CopiedSame
  <2>4. Kept(j)'
    <3>1. SUFFICES ASSUME Alive(j), disk[j].nlink = 0, j \notin stray'
                   PROVE  ref'[j] > 0 /\ (mem[j].valid \/ \E q \in Procs : loc[q].pc = "c_init" /\ loc[q].ip = j)
      BY <1>1 DEF Kept, Alive
    <3>2. ref[j] > 0 /\ (mem[j].valid \/ \E q \in Procs : loc[q].pc = "c_init" /\ loc[q].ip = j)
      BY <1>1, <2>1, <3>1 DEF Kept
    <3>3. CASE j # i \/ ref[i] # 1
      <4>1. ref'[j] > 0
        BY <1>1, <1>2, <1>3, <3>2, <3>3
      <4> QED
        BY <3>2, <4>1
    <3>4. CASE j = i /\ ref[i] = 1
      <4>1. \A q \in Procs : loc[q].ip # i
        BY <1>2, <1>3, <3>4, Sole
      <4>2. mem[i].valid
        BY <3>2, <3>4, <4>1
      <4>3. mem[i].nlink = 0
        BY <1>9, <1>10, <3>1, <3>4, <4>2
      <4>4. LastPut(i)
        BY <3>4, <4>2, <4>3 DEF LastPut
      <4> QED
        BY <1>1, <3>1, <3>4, <4>4
    <3> QED
      BY <3>3, <3>4
  <2> QED
    BY <2>3, <2>4
<1>16. Root \notin stray' /\ stray \subseteq stray'
  <2>1. Root \notin stray
    BY DEF Inv, RootOK
  <2>2. ASSUME LastPut(i) PROVE i # Root
    <3>1. ref[i] = 1 /\ mem[i].valid /\ mem[i].nlink = 0
      BY <2>2 DEF LastPut
    <3>2. disk[i].nlink = 0
      BY <1>9, <1>10, <3>1
    <3> QED
      BY <3>2, RootCounts
  <2> QED
    BY <1>1, <2>1, <2>2
<1>17. (\A j \in Inum : Counted(j)' /\ Orphans(j)') /\ Entries' /\ OneName' /\ RootOK' /\ FreeBare'
  BY <1>1, <1>4, <1>16, SameDisk
<1> QED
  BY <1>4, <1>5, <1>8, <1>11, <1>12, <1>13, <1>14, <1>15, <1>17, LoudStep

\* What a process finds that makes an inode.
LEMMA MakerIs ==
  ASSUME Inv, NEW p \in Procs, At(p, "c_init"), Lockable(loc[p].ip)
  PROVE  /\ loc[p].ip \in Inum /\ loc[p].dp \in Inum /\ loc[p].ip # loc[p].dp /\ loc[p].at = None /\ cwd[p] # None
         /\ Alive(loc[p].ip) /\ lock[loc[p].ip] = None /\ ref[loc[p].ip] >= 1 /\ Holds(p, loc[p].ip)
         /\ Copy(loc[p].ip) = [valid |-> TRUE, type |-> TypeOf(loc[p].call.kind), nlink |-> 0]
         /\ disk[loc[p].ip] = [type |-> TypeOf(loc[p].call.kind), nlink |-> 0]
         /\ lock[loc[p].dp] = p /\ Alive(loc[p].dp) /\ IsDir(loc[p].dp) /\ HasDots(loc[p].dp) /\ Holds(p, loc[p].dp)
         /\ ents[loc[p].dp][Last(p)] = None /\ Last(p) \in Names /\ loc[p].call \in Calls /\ Len(loc[p].rest) = 1
         /\ Bare(loc[p].ip) /\ ref[loc[p].dp] >= 1
         /\ Copy(loc[p].dp) = [valid |-> TRUE, type |-> "dir", nlink |-> disk[loc[p].dp].nlink]
         /\ mem[loc[p].dp] = Copy(loc[p].dp)
<1> DEFINE i == loc[p].ip
           d == loc[p].dp
<1>1. /\ loc[p].pc = "c_init" /\ loc[p] \in Local /\ ShapeOf(loc[p], cwd[p], None) /\ AllTypes /\ put[p] = "test"
      /\ LivingOf(loc[p], cwd[p], fd[p], <<>>) /\ DirsOf(loc[p], cwd[p])
  BY AtIs
<1>2. Making(p) /\ Fresh(p) /\ Locks(p) /\ RefSum
  BY DEF Inv
<1>3. /\ i # None /\ d # None /\ loc[p].at = None /\ Len(loc[p].rest) = 1 /\ loc[p].call \in Calls /\ cwd[p] # None
  BY <1>1 DEF ShapeOf, DpPlaces, AtPlaces, IpPlaces
<1>4. i \in Inum /\ d \in Inum /\ Holds(p, i) /\ Holds(p, d)
  BY <1>1, <1>3 DEF Local, Opt, Holds
<1>5. i # d
  BY <1>1, <1>2 DEF Fresh
<1>6. Alive(i) /\ Alive(d) /\ IsDir(d) /\ HasDots(d)
  BY <1>1, <1>3 DEF LivingOf, DirsOf
<1>7. disk[i].nlink = 0 /\ disk[i].type = TypeOf(loc[p].call.kind) /\ Bare(i) /\ ents[d][Last(p)] = None
  BY <1>1, <1>2 DEF Making
<1>8. disk[i] = [type |-> TypeOf(loc[p].call.kind), nlink |-> 0]
  BY <1>1, <1>4, <1>7 DEF AllTypes, Dinode
<1>9. /\ lock[i] = None /\ ref[i] >= 1
      /\ Copy(i) = [valid |-> TRUE, type |-> disk[i].type, nlink |-> disk[i].nlink]
  BY <1>4, LockIs
<1>10. lock[d] = p
  BY <1>1, <1>2, <1>4 DEF Locks, HasLock
<1>11. Last(p) \in Names
  <2>1. Last(p) \in Names \cup Dots
    BY <1>1, <1>3 DEF Last, Local
  <2>2. Last(p) \notin Dots
    BY <1>4, <1>6, <1>7, NoInode DEF HasDots, Dots
  <2> QED
    BY <2>1, <2>2
<1>12. ref[d] >= 1 /\ mem[d].valid
  BY <1>4, <1>10, LockHeld, NoInode
<1>13. ref[d] > 0
  BY <1>1, <1>4, <1>12 DEF AllTypes
<1>14. Copied(d)
  BY <1>4 DEF Inv
<1>15. /\ Copy(d) = [valid |-> TRUE, type |-> disk[d].type, nlink |-> disk[d].nlink]
  BY <1>1, <1>4, <1>10, <1>13, <1>14, CopyIs
<1>16. mem[d] = Copy(d)
  BY <1>12 DEF Copy
<1> QED
  BY <1>3, <1>4, <1>5, <1>6, <1>7, <1>8, <1>9, <1>10, <1>11, <1>12, <1>15, <1>16 DEF IsDir

\* CreateFail keeps the invariant.
LEMMA CreateFailInv == ASSUME Inv, NEW p \in Procs, CreateFail(p) PROVE Inv'
<1> DEFINE i == loc[p].ip
           d == loc[p].dp
           l == [loc[p] EXCEPT !.pc = "bad", !.ip = None]
           y == TypeOf(loc[p].call.kind)
<1>1. /\ At(p, "c_init") /\ Lockable(i)
      /\ mem' = [mem EXCEPT ![i] = [Copy(i) EXCEPT !.nlink = 0]]
      /\ disk' = [disk EXCEPT ![i] = [type |-> Copy(i).type, nlink |-> 0]]
      /\ todo' = [todo EXCEPT ![p] = <<i>>] /\ loc' = [loc EXCEPT ![p] = l]
      /\ UNCHANGED <<ents, ref, lock, cwd, fd, put, lost, stray>>
  BY DEF CreateFail, Put, Move
<1>2. /\ loc[p].pc = "c_init" /\ todo[p] = <<>> /\ put[p] = "test" /\ loc[p] \in Local /\ AllTypes
      /\ ShapeOf(loc[p], cwd[p], None) /\ LivingOf(loc[p], cwd[p], fd[p], <<>>) /\ DirsOf(loc[p], cwd[p])
      /\ cwd[p] \in Opt(Inum) /\ fd[p] \in Opt(Inum) /\ <<>> \in Todo /\ Next1(p) = None
      /\ \A j \in Inum : <<j>> \in Todo
  BY <1>1, AtIs
<1>3. /\ i \in Inum /\ d \in Inum /\ i # d /\ loc[p].at = None /\ cwd[p] # None
      /\ Alive(i) /\ lock[i] = None /\ ref[i] >= 1 /\ Holds(p, i)
      /\ Copy(i) = [valid |-> TRUE, type |-> y, nlink |-> 0] /\ disk[i] = [type |-> y, nlink |-> 0]
      /\ lock[d] = p /\ Alive(d) /\ IsDir(d) /\ HasDots(d)
      /\ loc[p].call \in Calls
  BY <1>1, MakerIs
<1>4. disk' = disk /\ mem' = [mem EXCEPT ![i] = Copy(i)]
  <2>1. disk \in [Inum -> Dinode]
    BY <1>2 DEF AllTypes
  <2>2. [type |-> Copy(i).type, nlink |-> 0] = disk[i] /\ [Copy(i) EXCEPT !.nlink = 0] = Copy(i)
    <3> DEFINE c == Copy(i)
    <3>1. c = [valid |-> TRUE, type |-> y, nlink |-> 0] /\ disk[i] = [type |-> y, nlink |-> 0]
      BY <1>3
    <3>3. c \in Copies /\ c.nlink = 0
      <4>1. c \in Copies
        BY <1>2, <1>3, LoadedIs
      <4>2. c.nlink = 0
        <5> HIDE DEF c, y
        <5> QED
          BY <3>1
      <4> QED
        BY <4>1, <4>2
    <3> HIDE DEF c, y
    <3>2. [c EXCEPT !.nlink = 0] = c
      BY <3>3 DEF Copies
    <3> QED
      BY <3>1, <3>2 DEF c
  <2> QED
    BY <1>1, <1>3, <2>1, <2>2
<1>5. Becomes(p, l, cwd[p], fd[p], <<i>>)
  BY <1>1, MoveBecomes
<1>6. /\ l \in Local /\ l.pc = "bad" /\ l.at = None /\ l.dp = d /\ l.ip = None /\ l.call = loc[p].call
  <2>1. None \in Opt(Inum) /\ "bad" \in Places
    BY DEF Opt, Places
  <2>2. l \in Local
    BY <1>2, <2>1 DEF Local
  <2> QED
    BY <1>2, <1>3, <2>2 DEF Local
<1>7. /\ loc'[p] = l /\ cwd'[p] = cwd[p] /\ fd'[p] = fd[p] /\ todo'[p] = <<i>>
      /\ Next1(p)' = i /\ Next2(p)' = None /\ Frame(p)
  BY <1>2, <1>3, <1>5, <1>6, BecomesIs, NthOf
<1>8. HeldLike(p, l, cwd[p], fd[p], <<i>>)
  <2>1. \A j \in Inum : LocBy(l, j) + Same(i, j) = LocBy(loc[p], j)
    BY <1>3, <1>6, NoInode DEF LocBy, Same
  <2> QED
    BY <1>2, <2>1, MoveHeld
<1>9. ~Linking(l) /\ ~Linking(loc[p]) /\ put'[p] = "test" /\ Others(p, put, put')
  BY <1>1, <1>2, <1>6 DEF Linking, Others, Changed
<1>10. i = loc[p].ip /\ d = loc[p].dp
  OBVIOUS
<1> HIDE DEF l, i, d, y
<1>11. Tables /\ DiskTypes
  <2>1. mem' \in [Inum -> Copies]
    BY <1>2, <1>3, <1>4, LoadedIs DEF Loaded
  <2> QED
    BY <1>1, <1>2, <1>4, <2>1 DEF AllTypes, Tables, DiskTypes
<1>12. AllTypes' /\ RefSum' /\ LostFew'
  <2>1. \A j \in Inum : ref'[j] = ref[j] + HeldBy(l, cwd[p], fd[p], <<i>>, j) - HeldBy(loc[p], cwd[p], fd[p], todo[p], j)
    BY <1>1, <1>8, LikeRefs
  <2>2. l.pc \notin {"g_scan", "g_next"} /\ <<i>> \in Todo
    BY <1>2, <1>3, <1>6
  <2> QED
    BY <1>1, <1>2, <1>5, <1>6, <1>11, <2>1, <2>2, LoudTypes
<1>13. ASSUME NEW q \in Procs, q # p PROVE Spares(p, q)
  <2>1. loc[q].pc = "c_init" => /\ loc'[p].at # loc[q].ip /\ loc'[p].dp # loc[q].ip
                                /\ loc'[p].ip # loc[q].ip /\ cwd'[p] # loc[q].ip
    BY <1>1, <1>6, <1>7, <1>10, <1>13, FreshOf, NoInode
  <2> QED
    BY <1>1, <1>3, <1>4, <1>7, <1>10, <1>13, <2>1, SparesDisk
<1>14. Shape(p)' /\ Living(p)' /\ Dirs(p)' /\ Making(p)' /\ Erasing(p)' /\ Fresh(p)' /\ Truncs(p)'
  <2>1. Shape(p)'
    BY <1>2, <1>3, <1>6, <1>7, <1>9, NoInode DEF Shape, Linking, AtPlaces, DpPlaces, IpPlaces
  <2>2. Living(p)'
    BY <1>2, <1>3, <1>4, <1>6, <1>7, <1>9 DEF LivingOf, Living, Alive
  <2>3. Dirs(p)'
    BY <1>1, <1>2, <1>3, <1>4, <1>6, <1>7, <1>9 DEF DirsOf, Dirs, IsDir, HasDots, Linking
  <2>4. Making(p)' /\ Erasing(p)' /\ Fresh(p)' /\ Truncs(p)'
    BY <1>6, <1>7, <1>9 DEF Making, Erasing, Fresh, Truncs
  <2> QED
    BY <2>1, <2>2, <2>3, <2>4
<1>15. Locks(p)'
  <2>1. \A j \in Inum : HasLock(p, j)' <=> HasLock(p, j)
    BY <1>2, <1>6, <1>7, <1>9, <1>10 DEF HasLock
  <2> QED
    BY <1>1, <2>1 DEF Inv, Locks
<1>16. ASSUME NEW j \in Inum PROVE Copied(j)' /\ Kept(j)'
  <2>1. Copied(j) /\ Kept(j)
    BY DEF Inv
  <2>2. mem'[j] = mem[j] \/ (lock[j] = None /\ Alive(j) /\ mem'[j] = Copy(j))
    BY <1>2, <1>3, <1>4 DEF AllTypes
  <2>3. Copied(j)'
    BY <1>1, <1>2, <1>4, <1>7, <1>9, <2>2, CopiedSame
  <2>4. CASE j = i
    <3>1. mem'[j].valid /\ ref'[j] > 0
      BY <1>1, <1>2, <1>3, <1>4, <2>4 DEF AllTypes
    <3> QED
      BY <2>3, <3>1 DEF Kept
  <2>5. CASE j # i
    <3>1. \A q \in Procs : loc[q].pc = "c_init" /\ loc[q].ip = j => loc'[q] = loc[q]
      BY <1>7, <1>10, <2>5, Untouched
    <3>2. mem'[j] = mem[j]
      BY <1>2, <1>4, <2>5 DEF AllTypes
    <3> QED
      BY <1>1, <1>4, <2>1, <2>3, <3>1, <3>2 DEF Kept, Alive
  <2> QED
    BY <2>4, <2>5
<1>17. (\A j \in Inum : Counted(j)' /\ Orphans(j)') /\ Entries' /\ OneName' /\ RootOK' /\ FreeBare'
  <2>1. Root \notin stray' /\ stray \subseteq stray'
    BY <1>1 DEF Inv, RootOK
  <2>2. LinkIp(loc'[p]) = LinkIp(loc[p]) /\ DecIp(loc'[p]) = DecIp(loc[p])
    BY <1>2, <1>6, <1>7, <1>9 DEF LinkIp, DecIp
  <2> QED
    BY <1>1, <1>4, <1>7, <2>1, <2>2, SameDisk
<1> QED
  BY <1>7, <1>9, <1>12, <1>13, <1>14, <1>15, <1>16, <1>17, LoudStep

\* PutTrunc keeps the invariant.
LEMMA PutTruncInv == ASSUME Inv, NEW p \in Procs, PutTrunc(p) PROVE Inv'
<1> DEFINE i == Head(todo[p])
<1>1. /\ todo[p] # <<>> /\ put[p] = "trunc"
      /\ ents' = [ents EXCEPT ![i] = [n \in DOMAIN ents[i] |-> None]]
      /\ disk' = [disk EXCEPT ![i] = [type |-> "free", nlink |-> mem[i].nlink]]
      /\ mem' = [mem EXCEPT ![i].type = "free"] /\ put' = [put EXCEPT ![p] = "release"]
      /\ stray' = stray \ {i}
      /\ UNCHANGED <<ref, lock, cwd, fd, loc, todo, lost>>
  BY DEF PutTrunc, PutStart
<1>2. /\ i = Next1(p) /\ i \in Inum /\ todo[p] \in Todo /\ todo' = [todo EXCEPT ![p] = todo[p]]
      /\ loc[p].pc \notin {"c_init", "u_child"} /\ lock[i] = p
  BY <1>1, PutNext, Released
<1>3. /\ AllTypes /\ RefSum /\ Shape(p) /\ Living(p) /\ Dirs(p) /\ Making(p) /\ Erasing(p) /\ Fresh(p) /\ Locks(p)
      /\ Truncs(p) /\ Copied(i) /\ Counted(i) /\ Orphans(i)
      /\ lock \in [Inum -> Procs \cup {None}] /\ put \in [Procs -> {"test", "trunc", "release", "drop"}]
      /\ mem \in [Inum -> Copies] /\ disk \in [Inum -> Dinode] /\ stray \subseteq Inum
      /\ ents \in [Inum -> [Names \cup Dots -> Inum \cup {None}]]
  BY <1>2 DEF Inv, AllTypes, Copies
<1>4. /\ Becomes(p, loc[p], cwd[p], fd[p], todo[p]) /\ Frame(p) /\ loc[p] \in Local /\ cwd[p] \in Opt(Inum)
      /\ fd[p] \in Opt(Inum) /\ Next1(p)' = Next1(p) /\ Next2(p)' = Next2(p)
      /\ LinkIp(loc'[p]) = LinkIp(loc[p]) /\ DecIp(loc'[p]) = DecIp(loc[p])
  BY <1>1, <1>2, PutFrame DEF Next1, Next2
<1> HIDE DEF i
<1>5. put'[p] = "release" /\ Others(p, put, put')
  BY <1>1, <1>3 DEF Others, Changed
<1>6. ref[i] = 1 /\ disk[i].nlink = 0 /\ Alive(i) /\ mem[i].valid
  BY <1>1, <1>2, <1>3, LockHeld, NoInode DEF Truncs, Living
<1>7. mem[i].nlink = 0 /\ mem[i] \in Copies
  BY <1>1, <1>2, <1>3, <1>6 DEF Copied
<1>8. /\ i # Root /\ (\A d \in Inum : \A n \in Names : ents[d][n] # i)
  BY <1>2, <1>3, <1>6, OwesNothing
<1>9. \A q \in Procs : /\ loc[q].at # i /\ loc[q].dp # i /\ loc[q].ip # i /\ cwd[q] # i /\ fd[q] # i /\ Next2(q) # i
                       /\ q # p => Next1(q) # i /\ ~Holds(q, i)
  BY <1>2, <1>3, <1>6, Sole
\* The state of i afterwards, and of the others.
<1>10. /\ disk'[i] = [type |-> "free", nlink |-> 0] /\ (\A n \in Names \cup Dots : ents'[i][n] = None)
       /\ mem'[i].type = "free" /\ mem'[i].valid
  <2>1. \A n \in Names \cup Dots : ents'[i][n] = None
    BY <1>1, <1>2, <1>3
  <2>2. disk'[i] = [type |-> "free", nlink |-> 0]
    BY <1>1, <1>2, <1>3, <1>7
  <2>3. mem'[i].type = "free" /\ mem'[i].valid
    BY <1>1, <1>2, <1>3, <1>6, <1>7 DEF Copies
  <2> QED
    BY <2>1, <2>2, <2>3
<1>11. \A j \in Inum : j # i => disk'[j] = disk[j] /\ ents'[j] = ents[j] /\ mem'[j] = mem[j]
  BY <1>1, <1>2, <1>3
<1>12. disk'[i].type = "free" /\ disk'[i].nlink = 0
  BY <1>10
<1>13. Tables /\ DiskTypes
  <2>1. mem' \in [Inum -> Copies]
    <3>1. mem \in [Inum -> Copies] /\ mem[i] \in Copies
      BY <1>2, <1>3 DEF AllTypes, Copies
    <3>2. [mem[i] EXCEPT !.type = "free"] \in Copies
      BY <3>1 DEF Copies
    <3>3. mem' = [mem EXCEPT ![i] = [mem[i] EXCEPT !.type = "free"]]
      BY <1>1, <1>3, <3>1
    <3> QED
      BY <3>1, <3>2, <3>3
  <2>2. disk' \in [Inum -> Dinode]
    BY <1>1, <1>2, <1>3, <1>7 DEF Dinode, Types, Copies
  <2>3. ents' \in [Inum -> [Names \cup Dots -> Inum \cup {None}]]
    BY <1>1, <1>2, <1>3
  <2>4. put' \in [Procs -> {"test", "trunc", "release", "drop"}]
    BY <1>1, <1>3
  <2>5. ref' \in [Inum -> Nat] /\ lock' \in [Inum -> Procs \cup {None}]
    BY <1>1, <1>3 DEF AllTypes
  <2>6. stray' \subseteq Inum
    BY <1>1, <1>3
  <2> QED
    BY <2>1, <2>2, <2>3, <2>4, <2>5, <2>6 DEF Tables, DiskTypes
<1>14. AllTypes' /\ RefSum' /\ LostFew'
  <2>1. \A j \in Inum : ref'[j] = ref[j] + HeldBy(loc[p], cwd[p], fd[p], todo[p], j) - HeldBy(loc[p], cwd[p], fd[p], todo[p], j)
    BY <1>1, LikeRefs DEF HeldLike
  <2> QED
    BY <1>1, <1>2, <1>4, <1>13, <2>1, LoudTypes
<1>15. ASSUME NEW q \in Procs, q # p PROVE Spares(p, q)
  <2>1. \A j \in Inum : Holds(q, j) => j # i
    BY <1>9, <1>15
  <2>2. \A j \in Inum : Holds(q, j) /\ Alive(j) => disk'[j].type = disk[j].type /\ (HasDots(j) => HasDots(j)')
    BY <1>11, <2>1 DEF HasDots
  <2>3. loc[q].pc = "c_init" => /\ loc'[p].at # loc[q].ip /\ loc'[p].dp # loc[q].ip
                                /\ loc'[p].ip # loc[q].ip /\ cwd'[p] # loc[q].ip /\ loc[q].ip \in Inum
    BY <1>1, <1>15, FreshOf
  <2>4. loc[q].pc = "c_init" => disk'[loc[q].ip] = disk[loc[q].ip] /\ ents'[loc[q].ip] = ents[loc[q].ip]
    BY <1>9, <1>11, <2>3
  <2>5. \A j \in Inum : lock[j] = q => ents'[j] = ents[j]
    BY <1>2, <1>11, <1>15
  <2>6. put[q] \in {"trunc", "release"} => Next1(q) \in Inum /\ Next1(q) # i
    BY <1>9, <1>15, Released
  <2>7. put[q] = "release" /\ disk'[Next1(q)].type # "free" => \E r \in Procs : loc'[r].pc = "c_init" /\ loc'[r].ip = Next1(q)
    <3>1. Truncs(q)
      BY DEF Inv
    <3> QED
      BY <1>1, <1>11, <2>6, <3>1 DEF Truncs, Alive
  <2>8. put[q] = "trunc" => ref'[Next1(q)] = ref[Next1(q)] /\ disk'[Next1(q)].nlink = disk[Next1(q)].nlink
    BY <1>1, <1>11, <2>6
  <2> QED
    BY <1>1, <2>2, <2>3, <2>4, <2>5, <2>7, <2>8 DEF Spares
<1>16. Shape(p)' /\ Living(p)' /\ Dirs(p)' /\ Making(p)' /\ Erasing(p)' /\ Fresh(p)'
  <2>1. Shape(p)'
    BY <1>1, <1>2, <1>3, <1>4, <1>5, NoInode DEF Shape, Linking
  <2>2. /\ loc[p].at # i /\ loc[p].dp # i /\ loc[p].ip # i /\ cwd[p] # i /\ fd[p] # i /\ Next2(p) # i
    BY <1>9
  <2>3. /\ loc[p].at # None => loc[p].at \in Inum
        /\ loc[p].dp # None => loc[p].dp \in Inum
        /\ loc[p].ip # None => loc[p].ip \in Inum
        /\ cwd[p] # None => cwd[p] \in Inum
        /\ fd[p] # None => fd[p] \in Inum
        /\ Next2(p) # None => Next2(p) \in Inum
    BY <1>3, OptHolds
  <2>4. Living(p)'
    BY <1>1, <1>3, <1>4, <1>5, <1>11, <2>2, <2>3 DEF Living, Alive
  <2>5. Dirs(p)'
    <3>1. /\ loc[p].pc = "g_scan" => loc[p].at # None
          /\ loc[p].pc = "chdir2" => loc[p].ip # None
          /\ Linking(loc[p]) => loc[p].ip # None
      BY <1>3 DEF Shape, AtPlaces, IpPlaces
    <3> QED
      BY <1>1, <1>3, <1>11, <2>2, <2>3, <3>1 DEF Dirs, IsDir, HasDots, Linking
  <2>6. Making(p)' /\ Fresh(p)'
    BY <1>1, <1>2 DEF Making, Fresh
  <2>7. Erasing(p)'
    <3>1. loc[p].pc = "u_dec" => loc[p].ip # None
      BY <1>3 DEF Shape, IpPlaces
    <3> QED
      BY <1>1, <1>2, <1>3, <1>11, <2>2, <2>3, <3>1 DEF Erasing, IsDir
  <2> QED
    BY <2>1, <2>4, <2>5, <2>6, <2>7
<1>17. Locks(p)'
  <2>1. \A j \in Inum : HasLock(p, j)' <=> HasLock(p, j)
    BY <1>1, <1>4, <1>5 DEF HasLock
  <2> QED
    BY <1>1, <1>3, <2>1 DEF Locks
<1>18. Truncs(p)'
  BY <1>2, <1>4, <1>5, <1>12 DEF Truncs, Alive
<1>19. ASSUME NEW j \in Inum PROVE Copied(j)' /\ Kept(j)'
  <2>1. Copied(j) /\ Kept(j)
    BY DEF Inv
  <2>2. CASE j = i
    <3>1. Copied(j)'
      <4>1. lock'[j] = p /\ put'[p] = "release" /\ Nth(todo'[p], 1) = j /\ p # None
        BY <1>1, <1>2, <1>5, <2>2, NoInode DEF Next1
      <4>2. mem'[j].type = "free" /\ mem'[j].valid
        BY <1>10, <2>2
      <4> QED
        BY <4>1, <4>2 DEF Copied, Next1
    <3>2. Kept(j)'
      BY <1>12, <2>2 DEF Kept, Alive
    <3> QED
      BY <3>1, <3>2
  <2>3. CASE j # i
    <3>1. lock[j] = p => put[p] # "release" \/ Next1(p) # j
      BY <1>1
    <3>2. Copied(j)'
      BY <1>1, <1>4, <1>5, <1>11, <2>3, <3>1, CopiedSame
    <3>3. Kept(j)'
      BY <1>1, <1>11, <2>1, <2>3 DEF Kept, Alive
    <3> QED
      BY <3>2, <3>3
  <2> QED
    BY <2>2, <2>3
\* A directory has no entry for i, and the entries that i had were stray.
<1>20. Entries' /\ OneName' /\ RootOK' /\ FreeBare'
  <2>1. Entries'
    <3>1. SUFFICES ASSUME NEW d \in Inum, NEW n \in Names, ents'[d][n] # None
                   PROVE  /\ disk'[d].type = "dir" /\ HasDots(d)'
                          /\ ents'[d][n] # Root /\ disk'[ents'[d][n]].type # "free"
                          /\ disk'[ents'[d][n]].type = "dir" => d = Root /\ ents'[ents'[d][n]]["."] = ents'[d][n]
                                                                /\ ents'[ents'[d][n]][".."] = Root
      BY DEF Entries, IsDir, Alive, HasDots
    <3>2. d # i
      BY <1>10, <3>1
    <3>3. ents'[d] = ents[d] /\ disk'[d] = disk[d]
      BY <1>11, <3>2
    <3>4. ents[d][n] # None /\ ents[d][n] # i /\ ents[d][n] \in Inum
      BY <1>3, <1>8, <3>1, <3>3
    <3>5. ents'[ents[d][n]] = ents[ents[d][n]] /\ disk'[ents[d][n]] = disk[ents[d][n]]
      BY <1>11, <3>4
    <3> QED
      BY <3>3, <3>4, <3>5 DEF Inv, Entries, IsDir, Alive, HasDots
  <2>2. OneName'
    <3>1. SUFFICES ASSUME NEW d \in Inum, NEW e \in Inum, NEW m \in Names, NEW n \in Names,
                          ents'[d][m] # None, ents'[d][m] = ents'[e][n], disk'[ents'[d][m]].type = "dir"
                   PROVE  d = e /\ m = n
      BY DEF OneName, IsDir
    <3>2. d # i /\ e # i
      BY <1>10, <3>1
    <3>3. ents'[d] = ents[d] /\ ents'[e] = ents[e]
      BY <1>11, <3>2
    <3>4. ents[d][m] # i /\ ents[d][m] \in Inum
      BY <1>3, <1>8, <3>1, <3>3
    <3>5. disk[ents[d][m]].type = "dir"
      BY <1>11, <3>1, <3>3, <3>4
    <3> QED
      BY <3>1, <3>3, <3>5 DEF Inv, OneName, IsDir
  <2>3. RootOK'
    BY <1>1, <1>8, <1>11, NoInode DEF Inv, RootOK, IsDir, HasDots
  <2>4. FreeBare'
    BY <1>10, <1>11 DEF Inv, FreeBare, Alive, Bare
  <2> QED
    BY <2>1, <2>2, <2>3, <2>4
<1>21. ASSUME NEW j \in Inum PROVE Counted(j)' /\ Orphans(j)'
  <2>1. Counted(j) /\ Orphans(j)
    BY DEF Inv
  <2>2. CASE j = i
    BY <1>12, <2>2 DEF Counted, Orphans, Alive, IsDir
  <2>3. CASE j # i
    <3>1. Orphans(j)'
      BY <1>1, <1>8, <1>11, <2>1, <2>3 DEF Orphans, IsDir
    <3> DEFINE a0 == Count(Entry, NamesIn(ents), j)
               a1 == Count(Entry, NamesIn(ents'), j)
               n == a1 - a0
               k == 0
    <3>2. a1 <= a0
      <4>1. \A e \in Entry : NamesIn(ents')[e] = j => NamesIn(ents)[e] = j
        <5>1. SUFFICES ASSUME NEW e \in Entry, NamesIn(ents')[e] = j PROVE NamesIn(ents)[e] = j
          OBVIOUS
        <5>2. e[1] \in Inum /\ e[2] \in Names /\ NamesIn(ents')[e] = ents'[e[1]][e[2]]
              /\ NamesIn(ents)[e] = ents[e[1]][e[2]]
          BY DEF Entry, NamesIn
        <5>3. e[1] # i
          BY <1>10, <5>1, <5>2, NoInode
        <5> QED
          BY <1>11, <5>1, <5>2, <5>3
      <4> QED
        BY <4>1, LinkSets, CountLess
    <3>3. j \notin stray' => a1 = a0
      <4>1. SUFFICES ASSUME j \notin stray' PROVE a1 = a0
        OBVIOUS
      <4>2. \A m \in Names : ents[i][m] # j
        <5>1. \A m \in Names : ents[i][m] # None => IsDir(i)
          BY <1>2 DEF Inv, Entries
        <5>2. j # None
          BY NoInode
        <5> QED
          BY <1>1, <1>3, <1>6, <2>3, <4>1, <5>1, <5>2 DEF Orphans
      <4>3. \A e \in Entry : NamesIn(ents)[e] = j => NamesIn(ents')[e] = j
        <5>1. SUFFICES ASSUME NEW e \in Entry, NamesIn(ents)[e] = j PROVE NamesIn(ents')[e] = j
          OBVIOUS
        <5>2. e[1] \in Inum /\ e[2] \in Names /\ NamesIn(ents')[e] = ents'[e[1]][e[2]]
              /\ NamesIn(ents)[e] = ents[e[1]][e[2]]
          BY DEF Entry, NamesIn
        <5>3. e[1] # i
          BY <4>2, <5>1, <5>2
        <5> QED
          BY <1>11, <5>1, <5>2, <5>3
      <4>4. a0 <= a1
        BY <4>3, LinkSets, CountLess
      <4>5. a0 \in Nat /\ a1 \in Nat
        BY OwedIs
      <4> HIDE DEF a0, a1
      <4> QED
        BY <3>2, <4>4, <4>5
    <3>4. Count(Inum, KidsIn(disk', ents'), j) = Count(Inum, KidsIn(disk, ents), j)
      <4>1. ASSUME NEW c \in Inum
            PROVE  disk[c].type = "dir" /\ HasName(ents, c) <=> disk'[c].type = "dir" /\ HasName(ents', c)
        <5>1. CASE c = i
          BY <1>8, <1>12, <5>1 DEF HasName
        <5>2. CASE c # i /\ disk[c].type = "dir"
          <6>1. disk'[c].type = "dir"
            BY <1>11, <5>2
          <6>2. ASSUME NEW e \in Inum, NEW m \in Names, ents[e][m] = c PROVE HasName(ents', c)
            <7>1. e = Root
              BY <5>2, <6>2, NoInode DEF Inv, Entries, IsDir
            <7>2. ents'[e] = ents[e]
              BY <1>8, <1>11, <7>1
            <7> QED
              BY <6>2, <7>2 DEF HasName
          <6>3. ASSUME NEW e \in Inum, NEW m \in Names, ents'[e][m] = c PROVE HasName(ents, c)
            <7>1. e # i
              BY <1>10, <6>3, NoInode
            <7>2. ents'[e] = ents[e]
              BY <1>11, <7>1
            <7> QED
              BY <6>3, <7>2 DEF HasName
          <6> QED
            BY <5>2, <6>1, <6>2, <6>3 DEF HasName
        <5>3. CASE c # i /\ disk[c].type # "dir"
          BY <1>11, <5>3
        <5> QED
          BY <5>1, <5>2, <5>3
      <4> QED
        BY <4>1, KidsSame
    <3>5. Owed(disk', ents', loc', j) = Owed(disk, ents, loc, j) + n
      <4>1. a0 \in Nat /\ a1 \in Nat /\ Count(Inum, KidsIn(disk, ents), j) \in Nat
        BY OwedIs
      <4>2. n \in Int /\ k \in Int /\ a1 = a0 + n
        <5> HIDE DEF a0, a1
        <5> QED
          BY <4>1
      <4>3. Count(Inum, KidsIn(disk', ents'), j) = Count(Inum, KidsIn(disk, ents), j) + k
        BY <3>4, <4>1
      <4> DEFINE o == Owed(disk, ents, loc, j)
                 x == Same(LinkIp(loc[p]), j)
                 y == Same(DecIp(loc[p]), j)
      <4> HIDE DEF n, k
      <4>4. Owed(disk', ents', loc', j)
              = o + ((n + k) + ((Same(LinkIp(loc'[p]), j) - Same(LinkIp(loc[p]), j))
                                + (Same(DecIp(loc'[p]), j) - Same(DecIp(loc[p]), j))))
        BY <1>4, <4>2, <4>3, OwedMove
      <4>5. Owed(disk', ents', loc', j) = o + ((n + k) + ((x - x) + (y - y)))
        BY <1>4, <4>4
      <4>6. x \in Int /\ y \in Int /\ o \in Int /\ k = 0
        BY SameNat, OwedIs DEF k
      <4> HIDE DEF x, y, o
      <4>7. o + ((n + k) + ((x - x) + (y - y))) = o + n
        BY <4>2, <4>6
      <4> QED
        BY <4>5, <4>7 DEF o
    <3>6. Counted(j)'
      <4>1. a0 \in Nat /\ a1 \in Nat /\ Owed(disk, ents, loc, j) \in Nat
        BY OwedIs
      <4>2. disk'[j] = disk[j] /\ disk[j].nlink \in Nat
        BY <1>3, <1>11, <2>3 DEF Dinode
      <4>3. j \notin stray' => j \notin stray
        BY <1>1, <2>3
      <4> DEFINE o == Owed(disk, ents, loc, j)
                 o1 == Owed(disk', ents', loc', j)
      <4>4. o1 = o + (a1 - a0) /\ o \in Nat
        BY <3>5, <4>1
      <4>5. Alive(j) => disk[j].nlink >= o /\ (j \notin stray => disk[j].nlink = o)
        BY <2>1 DEF Counted
      <4> HIDE DEF o, o1, a0, a1
      <4>6. Alive(j) => disk[j].nlink >= o1 /\ (j \notin stray' => disk[j].nlink = o1)
        BY <3>2, <3>3, <4>1, <4>2, <4>3, <4>4, <4>5
      <4> QED
        BY <4>2, <4>6 DEF Counted, Alive, o1
    <3> QED
      BY <3>1, <3>6
  <2> QED
    BY <2>2, <2>3
<1> QED
  BY <1>4, <1>5, <1>14, <1>15, <1>16, <1>17, <1>18, <1>19, <1>20, <1>21, LoudStep

\* Nobody counts on an inode that is free.
LEMMA FreeOwes ==
  ASSUME Inv, NEW i \in Inum, ~Alive(i)
  PROVE  /\ i # Root /\ (\A d \in Inum : \A n \in Names : ents[d][n] # i) /\ Owed(disk, ents, loc, i) = 0
         /\ \A q \in Procs : /\ loc[q].at # i /\ loc[q].dp # i /\ loc[q].ip # i /\ cwd[q] # i /\ fd[q] # i
                             /\ Next2(q) # i /\ (put[q] \in {"test", "trunc"} => Next1(q) # i)
<1>1. i # Root /\ i # None
  BY RootCounts, NoInode
<1>2. \A d \in Inum : \A n \in Names : ents[d][n] # i
  BY <1>1 DEF Inv, Entries
<1>3. \A q \in Procs : /\ loc[q].at # i /\ loc[q].dp # i /\ loc[q].ip # i /\ cwd[q] # i /\ fd[q] # i
                       /\ Next2(q) # i /\ (put[q] \in {"test", "trunc"} => Next1(q) # i)
  <2>1. SUFFICES ASSUME NEW q \in Procs
                 PROVE  /\ loc[q].at # i /\ loc[q].dp # i /\ loc[q].ip # i /\ cwd[q] # i /\ fd[q] # i
                        /\ Next2(q) # i /\ (put[q] \in {"test", "trunc"} => Next1(q) # i)
    OBVIOUS
  <2>2. Living(q)
    BY DEF Inv
  <2> QED
    BY <1>1, <2>2 DEF Living
<1>4. Count(Entry, NamesIn(ents), i) = 0
  <2>1. \A e \in Entry : NamesIn(ents)[e] # i
    <3>1. SUFFICES ASSUME NEW e \in Entry PROVE NamesIn(ents)[e] # i
      OBVIOUS
    <3>2. e[1] \in Inum /\ e[2] \in Names /\ NamesIn(ents)[e] = ents[e[1]][e[2]]
      BY DEF Entry, NamesIn
    <3> QED
      BY <1>2, <3>2
  <2>2. Count(Entry, NamesIn(ents), i) = 0 <=> \A e \in Entry : NamesIn(ents)[e] # i
    BY LinkSets, CountNone
  <2> QED
    BY <2>1, <2>2
<1>5. Count(Inum, KidsIn(disk, ents), i) = 0
  <2>1. \A j \in Inum : KidsIn(disk, ents)[j] # i
    BY <1>1, KidIs
  <2>2. Count(Inum, KidsIn(disk, ents), i) = 0 <=> \A j \in Inum : KidsIn(disk, ents)[j] # i
    BY LinkSets, CountNone
  <2> QED
    BY <2>1, <2>2
<1>6. Count(Procs, LinkersIn(loc), i) = 0 /\ Count(Procs, DecsIn(loc), i) = 0
  <2>1. \A q \in Procs : LinkersIn(loc)[q] # i /\ DecsIn(loc)[q] # i
    BY <1>1, <1>3 DEF LinkersIn, DecsIn
  <2>2. /\ Count(Procs, LinkersIn(loc), i) = 0 <=> \A q \in Procs : LinkersIn(loc)[q] # i
        /\ Count(Procs, DecsIn(loc), i) = 0 <=> \A q \in Procs : DecsIn(loc)[q] # i
    BY LinkSets, CountNone
  <2> QED
    BY <2>1, <2>2
<1>7. Owed(disk, ents, loc, i)
        = (Count(Entry, NamesIn(ents), i) + (Count(Inum, KidsIn(disk, ents), i) + (IF i = Root THEN 1 ELSE 0)))
          + (Count(Procs, LinkersIn(loc), i) + Count(Procs, DecsIn(loc), i))
  BY OwedIs
<1> QED
  BY <1>1, <1>2, <1>3, <1>4, <1>5, <1>6, <1>7

\* A step that changes no name and no subdirectory.
LEMMA OwedSame ==
  ASSUME NEW p \in Procs, Frame(p), LinkIp(loc'[p]) = LinkIp(loc[p]), DecIp(loc'[p]) = DecIp(loc[p]),
         \A e \in Inum : \A m \in Names : ents'[e][m] = ents[e][m],
         \A j \in Inum : disk[j].type = "dir" /\ HasName(ents, j) <=> disk'[j].type = "dir" /\ HasName(ents', j),
         NEW i
  PROVE  Owed(disk', ents', loc', i) = Owed(disk, ents, loc, i)
<1>1. /\ Count(Entry, NamesIn(ents'), i) = Count(Entry, NamesIn(ents), i)
      /\ Count(Inum, KidsIn(disk', ents'), i) = Count(Inum, KidsIn(disk, ents), i)
  BY NamesSame, KidsSame
<1> DEFINE n == 0
           o == Owed(disk, ents, loc, i)
           x == Same(LinkIp(loc[p]), i)
           y == Same(DecIp(loc[p]), i)
<1>2. n \in Int /\ Count(Entry, NamesIn(ents'), i) = Count(Entry, NamesIn(ents), i) + n
      /\ Count(Inum, KidsIn(disk', ents'), i) = Count(Inum, KidsIn(disk, ents), i) + n
  BY <1>1, OwedIs
<1> HIDE DEF n
<1>3. Owed(disk', ents', loc', i)
        = o + ((n + n) + ((Same(LinkIp(loc'[p]), i) - Same(LinkIp(loc[p]), i))
                          + (Same(DecIp(loc'[p]), i) - Same(DecIp(loc[p]), i))))
  BY <1>2, OwedMove
<1>4. Owed(disk', ents', loc', i) = o + ((n + n) + ((x - x) + (y - y)))
  BY <1>3
<1>5. o \in Int /\ x \in Int /\ y \in Int /\ n = 0
  BY OwedIs, SameNat DEF n
<1> HIDE DEF o, x, y
<1>6. o + ((n + n) + ((x - x) + (y - y))) = o
  BY <1>5
<1> QED
  BY <1>4, <1>6 DEF o

\* CreateAlloc keeps the invariant.
LEMMA CreateAllocInv == ASSUME Inv, NEW p \in Procs, CreateAlloc(p) PROVE Inv'
<1> DEFINE d == loc[p].dp
           y == TypeOf(loc[p].call.kind)
           m == Loaded(d)
<1>0. PICK i \in Inum :
         /\ disk[i].type = "free" /\ disk' = [disk EXCEPT ![i] = [type |-> y, nlink |-> 0]]
         /\ Get(i, m) /\ lock' = [lock EXCEPT ![d] = p]
         /\ loc' = [loc EXCEPT ![p] = [loc[p] EXCEPT !.pc = "c_init", !.ip = i]]
  BY DEF CreateAlloc, Move
<1> DEFINE l == [loc[p] EXCEPT !.pc = "c_init", !.ip = i]
<1>1. /\ At(p, "create") /\ Lockable(d) /\ ents[d][Last(p)] = None
      /\ UNCHANGED <<ents, cwd, fd, todo, put, lost, stray>>
  BY DEF CreateAlloc
<1>2. /\ loc[p].pc = "create" /\ todo[p] = <<>> /\ put[p] = "test" /\ loc[p] \in Local /\ AllTypes
      /\ ShapeOf(loc[p], cwd[p], None) /\ LivingOf(loc[p], cwd[p], fd[p], <<>>) /\ DirsOf(loc[p], cwd[p])
      /\ cwd[p] \in Opt(Inum) /\ fd[p] \in Opt(Inum) /\ <<>> \in Todo /\ Next1(p) = None
  BY <1>1, AtIs
<1>3. /\ d \in Inum /\ Alive(d) /\ IsDir(d) /\ HasDots(d) /\ Start(p, m)
      /\ loc[p].at = None /\ loc[p].call \in Calls /\ lock[d] = None /\ ref[d] >= 1 /\ cwd[p] # None
      /\ Copy(d) = [valid |-> TRUE, type |-> "dir", nlink |-> disk[d].nlink]
  BY <1>1, ParentIs
<1>4. loc[p].ip = None /\ ~Linking(loc[p]) /\ Len(loc[p].rest) = 1
  BY <1>2 DEF ShapeOf, IpPlaces, Linking
<1>5. /\ ~Alive(i) /\ i # d /\ i # None /\ i # Root
      /\ (\A e \in Inum : \A n \in Names : ents[e][n] # i) /\ Owed(disk, ents, loc, i) = 0
      /\ \A q \in Procs : /\ loc[q].at # i /\ loc[q].dp # i /\ loc[q].ip # i /\ cwd[q] # i /\ fd[q] # i
                          /\ Next2(q) # i /\ (put[q] \in {"test", "trunc"} => Next1(q) # i)
  <2>1. ~Alive(i) /\ i # None
    BY <1>0, NoInode DEF Alive
  <2> QED
    BY <1>3, <2>1, FreeOwes
<1>6. y \in {"dir", "dev", "file"} /\ y \in Types /\ y # "free"
  BY DEF TypeOf, Types
<1>7. Becomes(p, l, cwd[p], fd[p], <<>>)
  BY <1>0, <1>1, MoveBecomes
<1>8. /\ l \in Local /\ l.pc = "c_init" /\ l.at = None /\ l.dp = d /\ l.ip = i
      /\ l.call = loc[p].call /\ l.rest = loc[p].rest
  <2>1. i \in Opt(Inum) /\ "c_init" \in Places
    BY DEF Opt, Places
  <2>2. l \in Local
    BY <1>2, <2>1 DEF Local
  <2> QED
    BY <1>2, <1>3, <2>2 DEF Local
<1>9. /\ loc'[p] = l /\ cwd'[p] = cwd[p] /\ fd'[p] = fd[p] /\ todo'[p] = <<>>
      /\ Next1(p)' = None /\ Next2(p)' = None /\ Frame(p)
  BY <1>2, <1>7, <1>8, BecomesIs, NthOf
<1>10. ~Linking(l) /\ put'[p] = "test" /\ ents' = ents /\ Others(p, put, put')
  BY <1>1, <1>2, <1>8 DEF Linking, Others, Changed
<1>11. d = loc[p].dp /\ y = TypeOf(loc[p].call.kind) /\ ents[d][loc[p].rest[Len(loc[p].rest)]] = None
  BY <1>1 DEF Last
<1>12. \A j \in Inum : LocBy(l, j) = LocBy(loc[p], j) + Same(i, j)
  BY <1>3, <1>4, <1>8, <1>11, NoInode DEF LocBy, Same
<1>13. HeldMore(p, l, cwd[p], fd[p], <<>>, i)
  BY <1>2, <1>12, MoveHeld
<1>14. /\ m \in [Inum -> Copies] /\ m[d] = Copy(d) /\ (\A j \in Inum : j # d => m[j] = mem[j])
  BY <1>2, <1>3, LoadedIs
<1> HIDE DEF l, d, y, m
<1>15. /\ ref' = [ref EXCEPT ![i] = @ + 1] /\ mem' = Got(m, i) /\ ref \in [Inum -> Nat]
       /\ mem \in [Inum -> Copies] /\ lock \in [Inum -> Procs \cup {None}] /\ disk \in [Inum -> Dinode]
  BY <1>0, <1>2 DEF Get, AllTypes, Copies
<1>16. ref' \in [Inum -> Nat] /\ (\A j \in Inum : ref'[j] = ref[j] + Same(i, j))
  BY <1>15 DEF Same
<1>17. /\ disk'[i] = [type |-> y, nlink |-> 0] /\ disk' \in [Inum -> Dinode]
       /\ \A j \in Inum : j # i => disk'[j] = disk[j]
  BY <1>0, <1>6, <1>15 DEF Dinode
<1>18. disk'[i].type = y /\ disk'[i].nlink = 0
  BY <1>17
<1>19. /\ mem' \in [Inum -> Copies] /\ mem'[d] = Copy(d)
       /\ (ref[i] = 0 => mem'[i].valid = FALSE) /\ (ref[i] # 0 => mem'[i] = mem[i])
       /\ \A j \in Inum : j # i /\ j # d => mem'[j] = mem[j]
  <2>1. CASE ref[i] = 0
    <3>1. mem' = [m EXCEPT ![i].valid = FALSE]
      BY <1>15, <2>1 DEF Got
    <3> QED
      BY <1>3, <1>5, <1>14, <2>1, <3>1 DEF Copies
  <2>2. CASE ref[i] # 0
    <3>1. mem' = m
      BY <1>15, <2>2 DEF Got
    <3> QED
      BY <1>3, <1>5, <1>14, <2>2, <3>1
  <2> QED
    BY <2>1, <2>2
<1>20. Tables /\ DiskTypes
  <2>1. lock' \in [Inum -> Procs \cup {None}]
    BY <1>0, <1>15
  <2> QED
    BY <1>1, <1>2, <1>16, <1>17, <1>19, <2>1 DEF Tables, DiskTypes, AllTypes
<1>21. AllTypes' /\ RefSum' /\ LostFew'
  <2>1. \A j \in Inum : ref'[j] = ref[j] + HeldBy(l, cwd[p], fd[p], <<>>, j) - HeldBy(loc[p], cwd[p], fd[p], todo[p], j)
    BY <1>13, <1>16, GetRefs
  <2>2. l.pc \notin {"g_scan", "g_next"} /\ <<>> \in Todo
    BY <1>2, <1>8
  <2> QED
    BY <1>1, <1>2, <1>7, <1>8, <1>20, <2>1, <2>2, LoudTypes
<1>22. ASSUME NEW q \in Procs, q # p PROVE Spares(p, q)
  <2>1. \A j \in Inum : Holds(q, j) /\ Alive(j) => disk'[j].type = disk[j].type /\ (HasDots(j) => HasDots(j)')
    BY <1>5, <1>10, <1>17 DEF HasDots
  <2>2. loc[q].pc = "c_init" => /\ loc'[p].at # loc[q].ip /\ loc'[p].dp # loc[q].ip
                                /\ loc'[p].ip # loc[q].ip /\ cwd'[p] # loc[q].ip /\ loc[q].ip \in Inum
    BY <1>5, <1>8, <1>9, <1>11, <1>22, FreshOf, NoInode
  <2>3. loc[q].pc = "c_init" => disk'[loc[q].ip] = disk[loc[q].ip] /\ ents'[loc[q].ip] = ents[loc[q].ip]
    BY <1>5, <1>10, <1>17, <2>2
  <2>4. \A j \in Inum : lock'[j] = q <=> lock[j] = q
    BY <1>0, <1>3, <1>15, <1>22, NoInode
  <2>5. put[q] \in {"trunc", "release"} => Next1(q) \in Inum
    BY Released
  <2>6. put[q] = "trunc" => ref'[Next1(q)] = ref[Next1(q)] /\ disk'[Next1(q)].nlink = disk[Next1(q)].nlink
    BY <1>5, <1>15, <1>17, <2>5
  <2>7. put[q] = "release" /\ disk'[Next1(q)].type # "free" => \E r \in Procs : loc'[r].pc = "c_init" /\ loc'[r].ip = Next1(q)
    <3>1. CASE Next1(q) = i
      BY <1>8, <1>9, <3>1
    <3>2. CASE Next1(q) # i
      <4>1. SUFFICES ASSUME put[q] = "release", disk[Next1(q)].type # "free"
                     PROVE  \E r \in Procs : loc'[r].pc = "c_init" /\ loc'[r].ip = Next1(q)
        BY <1>17, <2>5, <3>2
      <4>2. PICK r \in Procs : loc[r].pc = "c_init" /\ loc[r].ip = Next1(q)
        BY <4>1 DEF Inv, Truncs, Alive
      <4>3. r # p
        BY <1>2, <4>2
      <4>4. loc'[r] = loc[r]
        BY <1>9, <4>3, Untouched
      <4> QED
        BY <4>2, <4>4
    <3> QED
      BY <3>1, <3>2
  <2> QED
    BY <1>10, <2>1, <2>2, <2>3, <2>4, <2>6, <2>7 DEF Spares
<1>23. Shape(p)' /\ Living(p)' /\ Dirs(p)' /\ Making(p)' /\ Erasing(p)' /\ Fresh(p)' /\ Truncs(p)'
  <2>1. Shape(p)'
    BY <1>2, <1>3, <1>4, <1>5, <1>8, <1>9, <1>10, <1>11, NoInode DEF ShapeOf, Shape, Linking, AtPlaces, DpPlaces, IpPlaces
  <2>2. cwd[p] \in Inum /\ cwd[p] # i /\ (fd[p] # None => fd[p] \in Inum /\ fd[p] # i)
    BY <1>2, <1>3, <1>5 DEF Opt
  <2>3. Living(p)'
    BY <1>2, <1>3, <1>5, <1>6, <1>8, <1>9, <1>10, <1>17, <1>18, <2>2 DEF LivingOf, Living, Alive
  <2>4. Dirs(p)'
    BY <1>2, <1>3, <1>5, <1>8, <1>9, <1>10, <1>17, <2>2 DEF DirsOf, Dirs, IsDir, HasDots, Linking
  <2>5. Making(p)'
    <3>1. Bare(i)
      BY <1>5 DEF Inv, FreeBare
    <3> QED
      BY <1>8, <1>9, <1>10, <1>11, <1>18, <3>1 DEF Making, Bare, Last
  <2>6. Fresh(p)'
    <3>1. SUFFICES ASSUME NEW q \in Procs
                   PROVE  loc'[q].at # i /\ loc'[q].dp # i /\ cwd'[q] # i /\ (q # p => loc'[q].ip # i)
      BY <1>8, <1>9 DEF Fresh
    <3>2. CASE q = p
      BY <1>5, <1>8, <1>9, <2>2, <3>2
    <3>3. CASE q # p
      BY <1>5, <1>9, <3>3, Untouched
    <3> QED
      BY <3>2, <3>3
  <2>7. Erasing(p)' /\ Truncs(p)'
    BY <1>8, <1>9, <1>10 DEF Erasing, Truncs
  <2> QED
    BY <2>1, <2>3, <2>4, <2>5, <2>6, <2>7
<1>24. Locks(p)'
  <2>1. \A j \in Inum : ~HasLock(p, j)
    BY <1>2 DEF HasLock
  <2>2. \A j \in Inum : HasLock(p, j)' <=> j = d
    BY <1>8, <1>9, <1>10 DEF HasLock
  <2>3. Locks(p)
    BY DEF Inv
  <2> QED
    BY <1>0, <1>3, <1>15, <2>1, <2>2, <2>3 DEF Locks
<1>25. ASSUME NEW j \in Inum PROVE Copied(j)' /\ Kept(j)'
  <2>1. Copied(j) /\ Kept(j)
    BY DEF Inv
  <2>2. CASE j = i
    <3>1. Kept(j)'
      <4>1. ref'[i] > 0
        BY <1>15
      <4>2. loc'[p].pc = "c_init" /\ loc'[p].ip = i
        BY <1>8, <1>9
      <4> QED
        BY <2>2, <4>1, <4>2 DEF Kept
    <3>2. lock'[i] = lock[i]
      BY <1>0, <1>3, <1>5, <1>15
    <3>3. CASE ref[i] = 0
      <4>1. lock[i] = None
        BY <3>3, LockHeld
      <4>2. mem'[i].valid = FALSE
        BY <1>19, <3>3
      <4> QED
        BY <2>2, <3>1, <3>2, <4>1, <4>2 DEF Copied
    <3>4. CASE ref[i] # 0
      <4>1. mem'[i] = mem[i] /\ ref[i] > 0
        BY <1>15, <1>19, <3>4
      <4>2. CASE lock[i] # None /\ put[lock[i]] = "release" /\ Next1(lock[i]) = i
        <5>1. PICK q \in Procs : q = lock[i]
          BY <4>2, LockHeld
        <5>2. q # p
          BY <1>2, <4>2, <5>1
        <5>3. put'[q] = put[q] /\ todo'[q] = todo[q]
          BY <1>1
        <5>4. mem[i].type = "free" /\ mem[i].valid
          <6>1. mem[i].valid
            BY <2>1, <2>2, <4>2 DEF Copied
          <6> QED
            BY <1>0, <2>1, <2>2, <4>1, <6>1 DEF Copied
        <5>5. put[q] = "release" /\ Nth(todo[q], 1) = i
          BY <4>2, <5>1 DEF Next1
        <5>6. lock'[i] = q /\ q # None
          BY <3>2, <4>2, <5>1
        <5> QED
          BY <2>2, <3>1, <4>1, <5>3, <5>4, <5>5, <5>6 DEF Copied, Next1
      <4>3. CASE ~(lock[i] # None /\ put[lock[i]] = "release" /\ Next1(lock[i]) = i)
        <5>1. mem[i].valid = FALSE
          BY <1>0, <1>15, <2>1, <2>2, <4>1, <4>3 DEF Copied, Copies
        <5>2. lock[i] = None
          BY <2>1, <2>2, <5>1 DEF Copied
        <5> QED
          BY <2>2, <3>1, <3>2, <4>1, <5>1, <5>2 DEF Copied
      <4> QED
        BY <4>2, <4>3
    <3> QED
      BY <3>3, <3>4
  <2>3. CASE j # i
    <3>1. mem'[j].valid \/ mem'[j] = mem[j]
      BY <1>3, <1>19, <2>3
    <3>2. ref'[j] = ref[j]
      BY <1>15, <2>3
    <3>3. \A q \in Procs : loc[q].pc = "c_init" => loc'[q] = loc[q]
      BY <1>2, <1>9, Untouched
    <3>4. Kept(j)'
      BY <1>1, <1>17, <2>1, <2>3, <3>1, <3>2, <3>3 DEF Kept, Alive
    <3>5. CASE j = d
      <4>1. mem'[d].valid /\ mem'[d].type = "dir" /\ mem'[d].nlink = disk'[d].nlink /\ disk'[d].type = "dir"
        BY <1>3, <1>17, <1>19, <2>3, <3>5 DEF IsDir
      <4> QED
        BY <3>4, <3>5, <4>1 DEF Copied
    <3>6. CASE j # d
      <4>1. mem'[j] = mem[j] /\ disk'[j] = disk[j] /\ lock'[j] = lock[j]
        BY <1>0, <1>15, <1>17, <1>19, <2>3, <3>6
      <4>2. Copied(j)'
        BY <1>2, <1>9, <1>10, <3>2, <4>1, CopiedSame
      <4> QED
        BY <3>4, <4>2
    <3> QED
      BY <3>5, <3>6
  <2> QED
    BY <2>2, <2>3
<1>26. ASSUME NEW j \in Inum PROVE Counted(j)' /\ Orphans(j)'
  <2>1. Counted(j) /\ Orphans(j)
    BY DEF Inv
  <2>2. Owed(disk', ents', loc', j) = Owed(disk, ents, loc, j)
    <3>1. LinkIp(loc'[p]) = LinkIp(loc[p]) /\ DecIp(loc'[p]) = DecIp(loc[p])
      BY <1>2, <1>4, <1>8, <1>9, <1>10 DEF LinkIp, DecIp
    <3>2. ASSUME NEW k \in Inum
          PROVE  disk[k].type = "dir" /\ HasName(ents, k) <=> disk'[k].type = "dir" /\ HasName(ents', k)
      <4>1. CASE k = i
        <5>1. ~HasName(ents, i)
          BY <1>5 DEF HasName
        <5> QED
          BY <1>10, <4>1, <5>1
      <4>2. CASE k # i
        BY <1>10, <1>17, <4>2
      <4> QED
        BY <4>1, <4>2
    <3> QED
      BY <1>9, <1>10, <3>1, <3>2, OwedSame
  <2>3. CASE j = i
    <3>1. Counted(j)'
      BY <1>5, <1>18, <2>2, <2>3 DEF Counted
    <3>2. Bare(i)
      BY <1>5 DEF Inv, FreeBare
    <3> QED
      BY <1>10, <2>3, <3>1, <3>2 DEF Orphans, Bare
  <2>4. CASE j # i
    BY <1>1, <1>17, <2>1, <2>2, <2>4 DEF Counted, Orphans, Alive, IsDir
  <2> QED
    BY <2>3, <2>4
<1>27. Entries' /\ OneName' /\ RootOK' /\ FreeBare'
  <2>1. Entries'
    <3>1. SUFFICES ASSUME NEW e \in Inum, NEW n \in Names, ents[e][n] # None
                   PROVE  /\ disk'[e].type = "dir" /\ HasDots(e)
                          /\ ents[e][n] # Root /\ disk'[ents[e][n]].type # "free"
                          /\ disk'[ents[e][n]].type = "dir" => e = Root /\ HasDots(ents[e][n])
      BY <1>10 DEF Entries, IsDir, Alive, HasDots
    <3>2. /\ IsDir(e) /\ HasDots(e) /\ ents[e][n] # Root /\ Alive(ents[e][n])
          /\ IsDir(ents[e][n]) => e = Root /\ HasDots(ents[e][n])
      BY <3>1 DEF Inv, Entries
    <3>3. e # i /\ ents[e][n] # i /\ ents[e][n] \in Inum
      <4>1. e # i
        BY <1>5, <3>2 DEF IsDir, Alive
      <4>2. ents[e][n] \in Inum
        BY <3>1, NameCounts
      <4> QED
        BY <1>5, <4>1, <4>2
    <3> QED
      BY <1>17, <3>2, <3>3 DEF IsDir, Alive
  <2>2. OneName'
    <3>1. SUFFICES ASSUME NEW e \in Inum, NEW f \in Inum, NEW k \in Names, NEW n \in Names,
                          ents[e][k] # None, ents[e][k] = ents[f][n], disk'[ents[e][k]].type = "dir"
                   PROVE  e = f /\ k = n
      BY <1>10 DEF OneName, IsDir
    <3>2. ents[e][k] \in Inum /\ ents[e][k] # i
      BY <1>5, <3>1, NameCounts
    <3>3. disk[ents[e][k]].type = "dir"
      BY <1>17, <3>1, <3>2
    <3> QED
      BY <3>1, <3>3 DEF Inv, OneName, IsDir
  <2>3. RootOK'
    BY <1>1, <1>5, <1>17, NoInode DEF Inv, RootOK, IsDir, HasDots
  <2>4. FreeBare'
    BY <1>6, <1>10, <1>17, <1>18 DEF Inv, FreeBare, Alive, Bare
  <2> QED
    BY <2>1, <2>2, <2>3, <2>4
<1> QED
  BY <1>9, <1>10, <1>21, <1>22, <1>23, <1>24, <1>25, <1>26, <1>27, LoudStep

-----------------------------------------------------------------------------
(* Steps that change a link count.                                          *)

\* A step that changes no name and no subdirectory, but who links or unlinks.
LEMMA OwedLinks ==
  ASSUME NEW p \in Procs, Frame(p), ents' = ents, \A j \in Inum : disk'[j].type = disk[j].type, NEW i
  PROVE  Owed(disk', ents', loc', i)
           = Owed(disk, ents, loc, i) + ((Same(LinkIp(loc'[p]), i) - Same(LinkIp(loc[p]), i))
                                         + (Same(DecIp(loc'[p]), i) - Same(DecIp(loc[p]), i)))
<1>1. /\ Count(Entry, NamesIn(ents'), i) = Count(Entry, NamesIn(ents), i)
      /\ Count(Inum, KidsIn(disk', ents'), i) = Count(Inum, KidsIn(disk, ents), i)
  <2>1. \A j \in Inum : disk[j].type = "dir" /\ HasName(ents, j) <=> disk'[j].type = "dir" /\ HasName(ents', j)
    OBVIOUS
  <2> QED
    BY <2>1, KidsSame
<1> DEFINE n == 0
           o == Owed(disk, ents, loc, i)
           x0 == Same(LinkIp(loc[p]), i)
           x1 == Same(LinkIp(loc'[p]), i)
           y0 == Same(DecIp(loc[p]), i)
           y1 == Same(DecIp(loc'[p]), i)
<1>2. n \in Int /\ Count(Entry, NamesIn(ents'), i) = Count(Entry, NamesIn(ents), i) + n
      /\ Count(Inum, KidsIn(disk', ents'), i) = Count(Inum, KidsIn(disk, ents), i) + n
  BY <1>1, OwedIs
<1> HIDE DEF n
<1>3. Owed(disk', ents', loc', i) = o + ((n + n) + ((x1 - x0) + (y1 - y0)))
  BY <1>2, OwedMove
<1>4. o \in Int /\ x0 \in Int /\ x1 \in Int /\ y0 \in Int /\ y1 \in Int /\ n = 0
  BY OwedIs, SameNat DEF n
<1> HIDE DEF o, x0, x1, y0, y1
<1>5. o + ((n + n) + ((x1 - x0) + (y1 - y0))) = o + ((x1 - x0) + (y1 - y0))
  BY <1>4
<1> QED
  BY <1>3, <1>5 DEF o, x0, x1, y0, y1

\* Only the link count of i changes, by as much as is owed to it.
LEMMA NlinkDisk ==
  ASSUME Inv, NEW p \in Procs, Frame(p), NEW i \in Inum, ents' = ents, stray' = stray,
         \A j \in Inum : disk'[j].type = disk[j].type, \A j \in Inum \ {i} : disk'[j] = disk[j],
         disk'[i].nlink \in Nat, disk[i].nlink \in Nat,
         Owed(disk', ents', loc', i) - Owed(disk, ents, loc, i) = disk'[i].nlink - disk[i].nlink,
         \A j \in Inum \ {i} : Owed(disk', ents', loc', j) = Owed(disk, ents, loc, j),
         IsDir(i) => \A n \in Names : ents[i][n] = None
  PROVE  /\ \A j \in Inum : Counted(j)' /\ Orphans(j)'
         /\ Entries' /\ OneName' /\ RootOK' /\ FreeBare'
<1>1. ASSUME NEW j \in Inum PROVE Counted(j)' /\ Orphans(j)'
  <2>1. Counted(j) /\ Orphans(j)
    BY DEF Inv
  <2>2. CASE j = i
    <3> DEFINE o == Owed(disk, ents, loc, i)
               o1 == Owed(disk', ents', loc', i)
               x == disk[i].nlink
               x1 == disk'[i].nlink
    <3>1. o \in Int /\ o1 \in Int /\ x \in Int /\ x1 \in Int /\ o1 - o = x1 - x
      BY OwedIs
    <3>2. Alive(i) => x >= o /\ (i \notin stray => x = o)
      BY <2>1, <2>2 DEF Counted
    <3> HIDE DEF o, o1, x, x1
    <3>3. Alive(i) => x1 >= o1 /\ (i \notin stray => x1 = o1)
      BY <3>1, <3>2
    <3>4. Counted(j)'
      BY <2>2, <3>3 DEF Counted, Alive, x1, o1
    <3>5. Orphans(j)'
      BY <2>2 DEF Orphans, IsDir
    <3> QED
      BY <3>4, <3>5
  <2>3. CASE j # i
    BY <2>1, <2>3 DEF Counted, Orphans, Alive, IsDir
  <2> QED
    BY <2>2, <2>3
<1>2. Entries'
  <2>1. \A d \in Inum : \A n \in Names : ents[d][n] # None => ents[d][n] \in Inum
    BY NameCounts
  <2> QED
    BY <2>1 DEF Inv, Entries, IsDir, Alive, HasDots
<1>3. OneName'
  <2>1. \A d \in Inum : \A n \in Names : ents[d][n] # None => ents[d][n] \in Inum
    BY NameCounts
  <2> QED
    BY <2>1 DEF Inv, OneName, IsDir
<1>4. RootOK' /\ FreeBare'
  BY NoInode DEF Inv, RootOK, FreeBare, IsDir, Alive, HasDots, Bare
<1> QED
  BY <1>1, <1>2, <1>3, <1>4

\* A change of nlink spares the others.
LEMMA SparesNlink ==
  ASSUME Inv, NEW p \in Procs, Frame(p), NEW i \in Inum, i = loc[p].ip, loc[p].pc # "c_init", ents' = ents,
         \A j \in Inum : disk'[j].type = disk[j].type, \A j \in Inum \ {i} : disk'[j] = disk[j],
         NEW q \in Procs, q # p, \A j \in Inum : lock'[j] = q <=> lock[j] = q,
         loc[q].pc = "c_init" => /\ loc'[p].at # loc[q].ip /\ loc'[p].dp # loc[q].ip
                                 /\ loc'[p].ip # loc[q].ip /\ cwd'[p] # loc[q].ip,
         put[q] = "trunc" => ref'[Next1(q)] = ref[Next1(q)]
  PROVE  Spares(p, q)
<1>1. \A j \in Inum : Holds(q, j) /\ Alive(j) => disk'[j].type = disk[j].type /\ (HasDots(j) => HasDots(j)')
  BY DEF HasDots
<1>2. loc[q].pc = "c_init" => disk'[loc[q].ip] = disk[loc[q].ip] /\ ents'[loc[q].ip] = ents[loc[q].ip]
  BY FreshOf
<1>3. put[q] \in {"trunc", "release"} => Next1(q) \in Inum
  BY Released
<1>4. put[q] = "trunc" => disk'[Next1(q)].nlink = disk[Next1(q)].nlink
  <2>1. put[q] = "trunc" => Next1(q) # i
    <3>1. SUFFICES ASSUME put[q] = "trunc", Next1(q) = i PROVE FALSE
      OBVIOUS
    <3>2. ref[i] = 1
      BY <3>1 DEF Inv, Truncs
    <3> QED
      BY <3>1, <3>2, Sole DEF Inv
  <2> QED
    BY <1>3, <2>1
<1>5. put[q] = "release" /\ disk'[Next1(q)].type # "free" => \E r \in Procs : loc'[r].pc = "c_init" /\ loc'[r].ip = Next1(q)
  <2>1. SUFFICES ASSUME put[q] = "release", disk[Next1(q)].type # "free"
                 PROVE  \E r \in Procs : loc'[r].pc = "c_init" /\ loc'[r].ip = Next1(q)
    BY <1>3
  <2>2. PICK r \in Procs : loc[r].pc = "c_init" /\ loc[r].ip = Next1(q)
    BY <2>1 DEF Inv, Truncs, Alive
  <2>3. loc'[r] = loc[r]
    BY <2>2, Untouched
  <2> QED
    BY <2>2, <2>3
<1> QED
  BY <1>1, <1>2, <1>4, <1>5 DEF Spares

\* The table and the disk after a change of nlink.
LEMMA LinkedIs ==
  ASSUME AllTypes, NEW i \in Inum, NEW k \in Int, disk[i].nlink + k \in Nat, Alive(i),
         Copy(i) = [valid |-> TRUE, type |-> disk[i].type, nlink |-> disk[i].nlink],
         Updated(i, Linked(i, k))
  PROVE  /\ Linked(i, k) \in [Inum -> Copies] /\ (\A j \in Inum : j # i => Linked(i, k)[j] = mem[j])
         /\ Linked(i, k)[i].valid /\ Linked(i, k)[i].type # "free"
         /\ Linked(i, k)[i].type = disk'[i].type /\ Linked(i, k)[i].nlink = disk'[i].nlink
         /\ disk' \in [Inum -> Dinode] /\ (\A j \in Inum : disk'[j].type = disk[j].type)
         /\ (\A j \in Inum \ {i} : disk'[j] = disk[j]) /\ disk'[i].nlink = disk[i].nlink + k
<1> DEFINE m == Linked(i, k)
           x == disk[i].nlink + k
           y == disk[i].type
<1>1. mem \in [Inum -> Copies] /\ disk \in [Inum -> Dinode] /\ y \in Types /\ y # "free"
  BY DEF AllTypes, Copies, Dinode, Alive
<1>2. /\ m \in [Inum -> Copies] /\ m[i].valid /\ m[i].type = y /\ m[i].nlink = x
      /\ \A j \in Inum : j # i => m[j] = mem[j]
  <2> DEFINE c == Copy(i)
             z == disk[i].nlink
             r == [c EXCEPT !.nlink = c.nlink + k]
  <2>1. c \in Copies
    BY LoadedIs
  <2>2. c.valid /\ c.type = y /\ c.nlink = z /\ x = z + k
    OBVIOUS
  <2>3. m = [mem EXCEPT ![i] = r]
    BY DEF Linked
  <2>4. x \in Nat
    OBVIOUS
  <2> HIDE DEF c, x, y, z, m
  <2>5. r \in Copies /\ r.valid /\ r.type = y /\ r.nlink = x
    BY <2>1, <2>2, <2>4 DEF Copies
  <2> HIDE DEF r
  <2> QED
    BY <1>1, <2>3, <2>5
<1>3. disk' = [disk EXCEPT ![i] = [type |-> m[i].type, nlink |-> m[i].nlink]]
  BY DEF Updated
<1> HIDE DEF m, y, x
<1>6. disk' = [disk EXCEPT ![i] = [type |-> y, nlink |-> x]]
  BY <1>2, <1>3
<1>7. disk' \in [Inum -> Dinode] /\ disk'[i].type = y /\ disk'[i].nlink = x /\ \A j \in Inum : j # i => disk'[j] = disk[j]
  <2>1. [type |-> y, nlink |-> x] \in Dinode
    BY <1>1 DEF Dinode, x
  <2> QED
    BY <1>1, <1>6, <2>1
<1> QED
  BY <1>1, <1>2, <1>7 DEF m, x, y

\* A link is taken back: unlink() at its end, or link() that has failed.
LEMMA TakeBack ==
  ASSUME Inv, NEW p \in Procs, NEW x, At(p, x), x \in {"u_dec", "link_undo"}, NEW i, i = loc[p].ip,
         x = "u_dec" => lock' = [lock EXCEPT ![i] = None], x = "link_undo" => Lockable(i) /\ lock' = lock,
         Nlink(i, -1), todo' = [todo EXCEPT ![p] = <<i>>], loc' = [loc EXCEPT ![p] = Idle],
         UNCHANGED <<ents, ref, cwd, fd, put, lost, stray>>
  PROVE  Inv'
<1>1. /\ loc[p].pc = x /\ todo[p] = <<>> /\ put[p] = "test" /\ loc[p] \in Local /\ AllTypes
      /\ ShapeOf(loc[p], cwd[p], None) /\ LivingOf(loc[p], cwd[p], fd[p], <<>>) /\ DirsOf(loc[p], cwd[p])
      /\ cwd[p] \in Opt(Inum) /\ fd[p] \in Opt(Inum) /\ Next1(p) = None
      /\ \A j \in Inum : <<j>> \in Todo
  BY AtIs
<1>2. /\ Locks(p) /\ Erasing(p) /\ RefSum /\ lock \in [Inum -> Procs \cup {None}] /\ ref \in [Inum -> Nat]
      /\ disk \in [Inum -> Dinode]
  BY DEF Inv, AllTypes
<1>3. i \in Inum /\ i # None /\ loc[p].at = None /\ loc[p].dp = None /\ cwd[p] # None /\ Alive(i) /\ Holds(p, i)
  <2>1. i # None /\ loc[p].at = None /\ loc[p].dp = None /\ cwd[p] # None
    BY <1>1 DEF ShapeOf, AtPlaces, DpPlaces, IpPlaces
  <2> QED
    BY <1>1, <2>1 DEF Local, Opt, LivingOf, Holds
<1>4. ref[i] >= 1 /\ ref[i] > 0 /\ Copied(i) /\ Counted(i)
  BY <1>1, <1>2, <1>3, HeldPos DEF Inv
<1>5. lock[i] = (IF x = "u_dec" THEN p ELSE None) /\ \A j \in Inum : lock[j] = p => x = "u_dec" /\ j = i
  <2>1. \A j \in Inum : HasLock(p, j) <=> x = "u_dec" /\ j = i
    BY <1>1 DEF HasLock
  <2> QED
    BY <1>2, <1>3, <2>1 DEF Locks, Lockable
<1>6. Copy(i) = [valid |-> TRUE, type |-> disk[i].type, nlink |-> disk[i].nlink]
  <2>1. lock[i] = None \/ put[lock[i]] # "release"
    BY <1>1, <1>5
  <2> QED
    BY <1>1, <1>3, <1>4, <2>1, CopyIs
<1>7. disk[i].nlink \in Nat /\ disk[i].nlink # 0
  <2>1. disk[i].nlink \in Nat
    BY <1>2, <1>3 DEF Dinode
  <2>2. Linking(loc[p]) \/ loc[p].pc = "u_dec"
    BY <1>1 DEF Linking
  <2> QED
    BY <1>1, <1>3, <1>4, <2>1, <2>2, OwesNothing
<1> DEFINE k == -1
<1>8. k \in Int /\ disk[i].nlink + k \in Nat /\ disk[i].nlink + k = disk[i].nlink - 1 /\ mem' = Linked(i, k) /\ Updated(i, Linked(i, k))
  BY <1>7 DEF Nlink
<1> HIDE DEF k
<1>9. /\ mem' \in [Inum -> Copies] /\ (\A j \in Inum : j # i => mem'[j] = mem[j])
      /\ mem'[i].valid /\ mem'[i].type # "free"
      /\ mem'[i].type = disk'[i].type /\ mem'[i].nlink = disk'[i].nlink
      /\ disk' \in [Inum -> Dinode] /\ (\A j \in Inum : disk'[j].type = disk[j].type)
      /\ (\A j \in Inum \ {i} : disk'[j] = disk[j]) /\ disk'[i].nlink = disk[i].nlink - 1
  <2>1. /\ Linked(i, k) \in [Inum -> Copies] /\ (\A j \in Inum : j # i => Linked(i, k)[j] = mem[j])
        /\ Linked(i, k)[i].valid /\ Linked(i, k)[i].type # "free"
        /\ Linked(i, k)[i].type = disk'[i].type /\ Linked(i, k)[i].nlink = disk'[i].nlink
        /\ disk' \in [Inum -> Dinode] /\ (\A j \in Inum : disk'[j].type = disk[j].type)
        /\ (\A j \in Inum \ {i} : disk'[j] = disk[j]) /\ disk'[i].nlink = disk[i].nlink + k
    BY <1>1, <1>3, <1>6, <1>8, LinkedIs
  <2> QED
    BY <1>8, <2>1
<1>10. Becomes(p, Idle, cwd[p], fd[p], <<i>>)
  BY MoveBecomes
<1>11. /\ loc'[p] = Idle /\ cwd'[p] = cwd[p] /\ fd'[p] = fd[p] /\ todo'[p] = <<i>>
       /\ Next1(p)' = i /\ Next2(p)' = None /\ Frame(p) /\ put'[p] = "test" /\ Others(p, put, put')
  <2>1. Others(p, put, put')
    BY DEF Others, Changed
  <2> QED
    BY <1>1, <1>3, <1>10, <2>1, BecomesIs, NthOf, IdleIs
<1>12. ~Linking(Idle) /\ Idle.pc \notin LockPlaces
  BY IdleIs DEF Linking, LockPlaces
<1>13. Tables /\ DiskTypes
  <2>1. lock' \in [Inum -> Procs \cup {None}]
    BY <1>2, <1>3
  <2> QED
    BY <1>1, <1>9, <2>1 DEF Tables, DiskTypes, AllTypes
<1>14. AllTypes' /\ RefSum' /\ LostFew'
  <2>1. \A j \in Inum : LocBy(Idle, j) + Same(i, j) = LocBy(loc[p], j)
    BY <1>3, IdleIs, NoInode DEF LocBy, Same
  <2>2. HeldLike(p, Idle, cwd[p], fd[p], <<i>>)
    BY <1>1, <2>1, MoveHeld
  <2>3. \A j \in Inum : ref'[j] = ref[j] + HeldBy(Idle, cwd[p], fd[p], <<i>>, j) - HeldBy(loc[p], cwd[p], fd[p], todo[p], j)
    BY <2>2, LikeRefs
  <2> QED
    BY <1>1, <1>3, <1>10, <1>13, <2>3, IdleIs, LoudTypes
<1>15. ASSUME NEW q \in Procs, q # p PROVE Spares(p, q)
  <2>1. \A j \in Inum : lock'[j] = q <=> lock[j] = q
    BY <1>2, <1>3, <1>5, <1>15, NoInode
  <2>2. loc[q].pc = "c_init" => /\ loc'[p].at # loc[q].ip /\ loc'[p].dp # loc[q].ip
                                /\ loc'[p].ip # loc[q].ip /\ cwd'[p] # loc[q].ip
    BY <1>11, <1>15, IdleIs, FreshOf, NoInode
  <2>3. loc[p].pc # "c_init"
    BY <1>1
  <2> QED
    BY <1>3, <1>9, <1>11, <1>15, <2>1, <2>2, <2>3, SparesNlink
<1>16. Shape(p)' /\ Living(p)' /\ Dirs(p)' /\ Making(p)' /\ Erasing(p)' /\ Fresh(p)' /\ Truncs(p)' /\ Locks(p)'
  <2>1. Shape(p)'
    BY <1>1, <1>3, <1>11, <1>12, IdleIs DEF Shape, AtPlaces, DpPlaces, IpPlaces
  <2>2. (cwd[p] # None => cwd[p] \in Inum) /\ (fd[p] # None => fd[p] \in Inum)
    BY <1>1 DEF Opt
  <2>3. Living(p)'
    BY <1>1, <1>3, <1>9, <1>11, <2>2, IdleIs DEF LivingOf, Living, Alive
  <2>4. Dirs(p)'
    BY <1>1, <1>9, <1>11, <1>12, <2>2, IdleIs DEF DirsOf, Dirs, IsDir, HasDots
  <2>5. Making(p)' /\ Erasing(p)' /\ Fresh(p)' /\ Truncs(p)'
    BY <1>11, IdleIs DEF Making, Erasing, Fresh, Truncs
  <2>6. Locks(p)'
    <3>1. \A j \in Inum : ~HasLock(p, j)'
      BY <1>11, <1>12, IdleIs DEF HasLock, LockPlaces
    <3>2. \A j \in Inum : lock'[j] # p
      BY <1>1, <1>2, <1>3, <1>5, NoInode
    <3> QED
      BY <3>1, <3>2 DEF Locks
  <2> QED
    BY <2>1, <2>3, <2>4, <2>5, <2>6
<1>17. ASSUME NEW j \in Inum PROVE Copied(j)' /\ Kept(j)'
  <2>1. Copied(j) /\ Kept(j)
    BY DEF Inv
  <2>2. CASE j = i
    <3>1. Copied(j)'
      BY <1>9, <2>2 DEF Copied
    <3>2. Kept(j)'
      BY <1>4, <1>9, <2>2 DEF Kept
    <3> QED
      BY <3>1, <3>2
  <2>3. CASE j # i
    <3>1. mem'[j] = mem[j] /\ disk'[j] = disk[j] /\ lock'[j] = lock[j]
      BY <1>2, <1>9, <2>3
    <3>2. \A q \in Procs : loc[q].pc = "c_init" => loc'[q] = loc[q]
      BY <1>1, <1>11, Untouched
    <3>3. Copied(j)'
      BY <1>1, <1>11, <3>1, CopiedSame
    <3> QED
      BY <2>1, <3>1, <3>2, <3>3 DEF Kept, Alive
  <2> QED
    BY <2>2, <2>3
<1>18. (\A j \in Inum : Counted(j)' /\ Orphans(j)') /\ Entries' /\ OneName' /\ RootOK' /\ FreeBare'
  <2>1. \A j \in Inum : /\ Same(LinkIp(loc'[p]), j) = 0 /\ Same(DecIp(loc'[p]), j) = 0
                        /\ Same(LinkIp(loc[p]), j) = (IF x = "u_dec" THEN 0 ELSE Same(i, j))
                        /\ Same(DecIp(loc[p]), j) = (IF x = "u_dec" THEN Same(i, j) ELSE 0)
    <3>1. LinkIp(loc'[p]) = None /\ DecIp(loc'[p]) = None
      BY <1>11, <1>12, IdleIs DEF LinkIp, DecIp
    <3>2. x = "u_dec" => LinkIp(loc[p]) = None /\ DecIp(loc[p]) = i
      BY <1>1 DEF LinkIp, DecIp, Linking
    <3>3. x = "link_undo" => LinkIp(loc[p]) = i /\ DecIp(loc[p]) = None
      BY <1>1 DEF LinkIp, DecIp, Linking
    <3> QED
      BY <3>1, <3>2, <3>3, SameNone
  <2>2. \A j \in Inum : Owed(disk', ents', loc', j) = Owed(disk, ents, loc, j) - Same(i, j)
    <3>1. SUFFICES ASSUME NEW j \in Inum PROVE Owed(disk', ents', loc', j) = Owed(disk, ents, loc, j) - Same(i, j)
      OBVIOUS
    <3> DEFINE o == Owed(disk, ents, loc, j)
               s == Same(i, j)
               x0 == Same(LinkIp(loc[p]), j)
               x1 == Same(LinkIp(loc'[p]), j)
               y0 == Same(DecIp(loc[p]), j)
               y1 == Same(DecIp(loc'[p]), j)
    <3>2. Owed(disk', ents', loc', j) = o + ((x1 - x0) + (y1 - y0))
      BY <1>9, <1>11, OwedLinks
    <3>3. x1 = 0 /\ y1 = 0 /\ ((x0 = 0 /\ y0 = s) \/ (x0 = s /\ y0 = 0))
      BY <2>1
    <3>4. o \in Int /\ s \in Int
      BY OwedIs, SameNat
    <3> HIDE DEF o, s, x0, x1, y0, y1
    <3>5. o + ((x1 - x0) + (y1 - y0)) = o - s
      BY <3>3, <3>4
    <3> QED
      BY <3>2, <3>5 DEF o, s
  <2>3. Owed(disk', ents', loc', i) - Owed(disk, ents, loc, i) = disk'[i].nlink - disk[i].nlink
    <3> DEFINE o == Owed(disk, ents, loc, i)
               o1 == Owed(disk', ents', loc', i)
               z == disk[i].nlink
               z1 == disk'[i].nlink
    <3>1. o1 = o - Same(i, i) /\ Same(i, i) = 1
      BY <1>3, <2>2, SameNone
    <3>2. o \in Int
      BY OwedIs
    <3>3. z1 = z - 1
      BY <1>9
    <3>4. z \in Int
      BY <1>7
    <3> HIDE DEF o, o1, z, z1
    <3>5. o1 - o = z1 - z
      BY <3>1, <3>2, <3>3, <3>4
    <3> QED
      BY <3>5 DEF o, o1, z, z1
  <2>4. \A j \in Inum \ {i} : Owed(disk', ents', loc', j) = Owed(disk, ents, loc, j)
    <3>1. SUFFICES ASSUME NEW j \in Inum, j # i PROVE Owed(disk', ents', loc', j) = Owed(disk, ents, loc, j)
      OBVIOUS
    <3> DEFINE o == Owed(disk, ents, loc, j)
               o1 == Owed(disk', ents', loc', j)
    <3>2. o1 = o - Same(i, j)
      BY <2>2
    <3>3. Same(i, j) = 0
      BY <3>1 DEF Same
    <3>4. o \in Int
      BY OwedIs
    <3> HIDE DEF o, o1
    <3>5. o1 = o
      BY <3>2, <3>3, <3>4
    <3> QED
      BY <3>5 DEF o, o1
  <2>5. IsDir(i) => \A n \in Names : ents[i][n] = None
    BY <1>1, <1>2, <1>3 DEF Erasing, DirsOf, Linking
  <2>6. disk'[i].nlink \in Nat
    BY <1>7, <1>9
  <2> QED
    BY <1>3, <1>7, <1>9, <1>11, <2>3, <2>4, <2>5, <2>6, NlinkDisk
<1> QED
  BY <1>11, <1>14, <1>15, <1>16, <1>17, <1>18, LoudStep

\* UnlinkDec keeps the invariant.
LEMMA UnlinkDecInv == ASSUME Inv, NEW p \in Procs, UnlinkDec(p) PROVE Inv'
<1> DEFINE i == loc[p].ip
           x == "u_dec"
<1>1. /\ At(p, x) /\ lock' = [lock EXCEPT ![i] = None] /\ Nlink(i, -1) /\ todo' = [todo EXCEPT ![p] = <<i>>]
      /\ loc' = [loc EXCEPT ![p] = Idle] /\ UNCHANGED <<ents, ref, cwd, fd, put, lost, stray>>
  BY DEF UnlinkDec, Done, Move, Put
<1>2. x \in {"u_dec", "link_undo"} /\ x # "link_undo" /\ i = loc[p].ip
  OBVIOUS
<1> HIDE DEF i, x
<1> QED
  BY <1>1, <1>2, TakeBack

\* LinkUndo keeps the invariant.
LEMMA LinkUndoInv == ASSUME Inv, NEW p \in Procs, LinkUndo(p) PROVE Inv'
<1> DEFINE i == loc[p].ip
           x == "link_undo"
<1>1. /\ At(p, x) /\ Lockable(i) /\ lock' = lock /\ Nlink(i, -1) /\ todo' = [todo EXCEPT ![p] = <<i>>]
      /\ loc' = [loc EXCEPT ![p] = Idle] /\ UNCHANGED <<ents, ref, cwd, fd, put, lost, stray>>
  BY DEF LinkUndo, Done, Move, Put
<1>2. x \in {"u_dec", "link_undo"} /\ x # "u_dec" /\ i = loc[p].ip
  OBVIOUS
<1> HIDE DEF i, x
<1> QED
  BY <1>1, <1>2, TakeBack

\* LinkInc keeps the invariant.
LEMMA LinkIncInv == ASSUME Inv, NEW p \in Procs, LinkInc(p) PROVE Inv'
<1> DEFINE i == loc[p].ip
           g == First(p, loc[p].call.new)
           l == Walking(p, loc[p], loc[p].call.new, "link_dir")
           m == Linked(i, 1)
<1>1. /\ At(p, "link_inc") /\ Lockable(i) /\ Copy(i).type # "dir" /\ Updated(i, m) /\ Get(g, m)
      /\ loc' = [loc EXCEPT ![p] = l] /\ UNCHANGED <<ents, lock, cwd, fd, todo, put, lost, stray>>
  BY DEF LinkInc, Move
<1>2. /\ loc[p].pc = "link_inc" /\ todo[p] = <<>> /\ put[p] = "test" /\ loc[p] \in Local /\ AllTypes
      /\ ShapeOf(loc[p], cwd[p], None) /\ LivingOf(loc[p], cwd[p], fd[p], <<>>) /\ DirsOf(loc[p], cwd[p])
      /\ cwd[p] \in Opt(Inum) /\ fd[p] \in Opt(Inum) /\ <<>> \in Todo /\ Next1(p) = None
  BY <1>1, AtIs
<1>3. /\ i \in Inum /\ ~Linking(loc[p]) /\ loc[p].at = None /\ loc[p].dp = None
      /\ cwd[p] \in Inum /\ loc[p].call \in Calls /\ Holds(p, i) /\ i # None
  <2>1. i \in Inum /\ ~Linking(loc[p])
    BY <1>1, HandIs
  <2> QED
    BY <1>2, <2>1, NoInode DEF ShapeOf, AtPlaces, DpPlaces, Holds, Opt
<1>4. /\ loc[p].call.new.abs \in BOOLEAN /\ loc[p].call.new.elems \in Seq(Names \cup Dots)
  BY <1>3, DirectoryAssumption DEF Path
<1>5. /\ l.pc = "walk" /\ l.at = g /\ l.dp = None /\ l.ip = i /\ l.goal = "link_dir"
      /\ l.call = loc[p].call /\ l.rest = loc[p].call.new.elems /\ l \in Local
  <2>1. g \in Inum
    BY <1>3, NoInode DEF First
  <2>2. l = [loc[p] EXCEPT !.pc = "walk", !.at = g, !.rest = loc[p].call.new.elems, !.goal = "link_dir"]
    BY DEF Walking, First
  <2>3. g \in Opt(Inum) /\ "walk" \in Places /\ "link_dir" \in Goals
    BY <2>1 DEF Opt, Places, Goals
  <2> HIDE DEF g, l
  <2> QED
    BY <1>2, <1>3, <1>4, <2>2, <2>3 DEF Local
<1>6. /\ lock[i] = None /\ ref[i] >= 1 /\ Alive(i) /\ disk[i].type # "dir"
      /\ Copy(i) = [valid |-> TRUE, type |-> disk[i].type, nlink |-> disk[i].nlink]
  BY <1>1, <1>3, LockIs
<1>7. g \in Inum /\ Alive(g) /\ HasDots(g) /\ Reach(p, g) /\ (g = Root \/ g = cwd[p])
  <2>1. IsDir(cwd[p]) /\ HasDots(cwd[p])
    BY <1>2, <1>3, NoInode DEF DirsOf
  <2>2. IsDir(Root) /\ HasDots(Root)
    BY DEF Inv, RootOK
  <2>3. g = Root \/ g = cwd[p]
    BY DEF First
  <2> QED
    BY <1>3, <2>1, <2>2, <2>3, NoInode DEF IsDir, Alive, Reach, Holds
<1>8. Becomes(p, l, cwd[p], fd[p], <<>>)
  BY <1>1, MoveBecomes
<1>9. Linking(l) /\ l.pc # "u_dec" /\ l.pc \notin LockPlaces
  BY <1>5 DEF Linking, LockPlaces
<1>10. /\ ref' = [ref EXCEPT ![g] = @ + 1] /\ mem' = Got(m, g) /\ ref \in [Inum -> Nat]
       /\ mem \in [Inum -> Copies] /\ lock \in [Inum -> Procs \cup {None}] /\ disk \in [Inum -> Dinode]
  BY <1>1, <1>2 DEF Get, AllTypes, Copies
<1> HIDE DEF l, g
<1>11. /\ loc'[p] = l /\ cwd'[p] = cwd[p] /\ fd'[p] = fd[p] /\ todo'[p] = <<>>
       /\ Next1(p)' = None /\ Next2(p)' = None /\ Frame(p)
  BY <1>2, <1>5, <1>8, BecomesIs, NthOf
<1>12. put'[p] = "test" /\ Others(p, put, put')
  BY <1>1, <1>2 DEF Others, Changed
<1>13. HeldMore(p, l, cwd[p], fd[p], <<>>, g)
  <2>1. \A j \in Inum : LocBy(l, j) = LocBy(loc[p], j) + Same(g, j)
    BY <1>3, <1>5, NoInode DEF LocBy, Same
  <2> QED
    BY <1>2, <2>1, MoveHeld
<1>14. ref' \in [Inum -> Nat] /\ (\A j \in Inum : ref'[j] = ref[j] + Same(g, j))
  BY <1>7, <1>10 DEF Same
<1>15. disk[i].nlink \in Nat
  BY <1>3, <1>10 DEF Dinode
<1>16. /\ disk' \in [Inum -> Dinode] /\ (\A j \in Inum : disk'[j].type = disk[j].type)
       /\ (\A j \in Inum \ {i} : disk'[j] = disk[j]) /\ disk'[i].nlink = disk[i].nlink + 1
       /\ m \in [Inum -> Copies] /\ (\A j \in Inum : j # i => m[j] = mem[j])
       /\ m[i].valid /\ m[i].type # "free" /\ m[i].type = disk'[i].type /\ m[i].nlink = disk'[i].nlink
  <2> DEFINE k == 1
  <2>1. k \in Int /\ disk[i].nlink + k \in Nat /\ Updated(i, Linked(i, k))
    BY <1>1, <1>15
  <2> HIDE DEF k
  <2>2. /\ Linked(i, k) \in [Inum -> Copies] /\ (\A j \in Inum : j # i => Linked(i, k)[j] = mem[j])
        /\ Linked(i, k)[i].valid /\ Linked(i, k)[i].type # "free"
        /\ Linked(i, k)[i].type = disk'[i].type /\ Linked(i, k)[i].nlink = disk'[i].nlink
        /\ disk' \in [Inum -> Dinode] /\ (\A j \in Inum : disk'[j].type = disk[j].type)
        /\ (\A j \in Inum \ {i} : disk'[j] = disk[j]) /\ disk'[i].nlink = disk[i].nlink + k
    BY <1>2, <1>3, <1>6, <2>1, LinkedIs
  <2> QED
    BY <2>2 DEF k
<1> HIDE DEF m
<1>17. /\ mem' \in [Inum -> Copies] /\ mem'[i] = m[i]
       /\ (ref[g] = 0 => mem'[g].valid = FALSE) /\ (ref[g] # 0 /\ g # i => mem'[g] = mem[g])
       /\ \A j \in Inum : j # i /\ j # g => mem'[j] = mem[j]
  <2>1. CASE ref[g] = 0
    <3>1. mem' = [m EXCEPT ![g].valid = FALSE]
      BY <1>10, <2>1 DEF Got
    <3>2. g # i
      BY <1>6, <2>1
    <3>3. m \in [Inum -> Copies]
      BY <1>16
    <3>4. mem' \in [Inum -> Copies] /\ mem'[g].valid = FALSE /\ (\A j \in Inum : j # g => mem'[j] = m[j])
      BY <1>7, <3>1, <3>3 DEF Copies
    <3> QED
      BY <1>3, <1>7, <1>16, <2>1, <3>2, <3>4
  <2>2. CASE ref[g] # 0
    <3>1. mem' = m
      BY <1>10, <2>2 DEF Got
    <3> QED
      BY <1>3, <1>7, <1>16, <2>2, <3>1
  <2> QED
    BY <2>1, <2>2
<1>18. Tables /\ DiskTypes
  BY <1>1, <1>2, <1>10, <1>14, <1>16, <1>17 DEF Tables, DiskTypes, AllTypes
<1>19. AllTypes' /\ RefSum' /\ LostFew'
  <2>1. \A j \in Inum : ref'[j] = ref[j] + HeldBy(l, cwd[p], fd[p], <<>>, j) - HeldBy(loc[p], cwd[p], fd[p], todo[p], j)
    BY <1>13, <1>14, GetRefs
  <2> QED
    BY <1>1, <1>2, <1>5, <1>8, <1>18, <2>1, LoudTypes
<1>20. ASSUME NEW q \in Procs, q # p PROVE Spares(p, q)
  <2>1. loc[q].pc = "c_init" => /\ loc'[p].at # loc[q].ip /\ loc'[p].dp # loc[q].ip
                                /\ loc'[p].ip # loc[q].ip /\ cwd'[p] # loc[q].ip
    <3>1. SUFFICES ASSUME loc[q].pc = "c_init"
                   PROVE  g # loc[q].ip /\ None # loc[q].ip /\ i # loc[q].ip /\ cwd[p] # loc[q].ip
      BY <1>5, <1>11
    <3>2. /\ loc[p].ip # loc[q].ip /\ cwd[p] # loc[q].ip /\ loc[q].ip \in Inum
      BY <1>20, <3>1, FreshOf
    <3>3. Root # loc[q].ip
      BY <3>1, ReachNotMade, NoInode
    <3> QED
      BY <1>7, <3>2, <3>3, NoInode
  <2>2. put[q] = "trunc" => ref'[Next1(q)] = ref[Next1(q)]
    <3>1. SUFFICES ASSUME put[q] = "trunc" PROVE ref'[Next1(q)] = ref[Next1(q)]
      OBVIOUS
    <3>2. Next1(q) \in Inum /\ g # Next1(q)
      BY <1>7, <1>20, <3>1, Released, ReachNotTruncated
    <3> QED
      BY <1>10, <3>2
  <2>3. loc[p].pc # "c_init" /\ i = loc[p].ip
    BY <1>2
  <2>4. lock' = lock /\ ents' = ents
    BY <1>1
  <2> QED
    BY <1>3, <1>11, <1>16, <1>20, <2>1, <2>2, <2>3, <2>4, SparesNlink
<1>21. Shape(p)' /\ Living(p)' /\ Dirs(p)'
  <2>1. Shape(p)'
    BY <1>1, <1>2, <1>3, <1>5, <1>7, <1>9, <1>11, <1>12, NoInode DEF Shape, AtPlaces, DpPlaces, IpPlaces
  <2>2. fd[p] # None => fd[p] \in Inum
    BY <1>2 DEF Opt
  <2>3. Living(p)'
    BY <1>2, <1>3, <1>5, <1>6, <1>7, <1>11, <1>12, <1>16, <2>2 DEF LivingOf, Living, Alive
  <2>4. Dirs(p)'
    BY <1>1, <1>2, <1>3, <1>5, <1>6, <1>7, <1>11, <1>16 DEF DirsOf, Dirs, IsDir, HasDots
  <2> QED
    BY <2>1, <2>3, <2>4
<1>22. Shape(p)' /\ Living(p)' /\ Dirs(p)' /\ Making(p)' /\ Erasing(p)' /\ Fresh(p)' /\ Truncs(p)' /\ Locks(p)'
  <2>1. Making(p)' /\ Erasing(p)' /\ Fresh(p)' /\ Truncs(p)'
    BY <1>5, <1>11, <1>12 DEF Making, Erasing, Fresh, Truncs
  <2>2. Locks(p)'
    <3>1. \A j \in Inum : ~HasLock(p, j)' /\ ~HasLock(p, j)
      BY <1>2, <1>5, <1>11, <1>12 DEF HasLock
    <3>2. Locks(p) /\ lock' = lock
      BY <1>1 DEF Inv
    <3> QED
      BY <3>1, <3>2 DEF Locks
  <2> QED
    BY <1>21, <2>1, <2>2
<1>23. ASSUME NEW j \in Inum PROVE Copied(j)' /\ Kept(j)'
  <2>1. Copied(j) /\ Kept(j)
    BY DEF Inv
  <2>2. CASE j = i
    <3>1. mem'[i].valid /\ mem'[i].type # "free" /\ mem'[i].type = disk'[i].type /\ mem'[i].nlink = disk'[i].nlink
      BY <1>16, <1>17
    <3>2. ref'[i] > 0
      BY <1>3, <1>6, <1>10, <1>14, SameNat
    <3> QED
      BY <2>2, <3>1, <3>2 DEF Copied, Kept
  <2>3. CASE j # i /\ j = g /\ ref[g] = 0
    <3>1. mem'[g].valid = FALSE
      BY <1>17, <2>3
    <3>2. lock[g] = None /\ ~Holds(p, g)
      BY <1>2, <1>7, <2>3, LockHeld, HeldPos DEF Inv
    <3>3. disk[g].nlink >= 1
      BY <1>7, <3>2, ReachLives
    <3>4. disk'[g].nlink # 0
      BY <1>7, <1>10, <1>16, <2>3, <3>3 DEF Dinode
    <3> QED
      BY <1>1, <2>3, <3>1, <3>2, <3>4 DEF Copied, Kept
  <2>4. CASE j # i /\ (j = g => ref[g] # 0)
    <3>1. mem'[j] = mem[j] /\ disk'[j] = disk[j] /\ lock'[j] = lock[j]
      BY <1>1, <1>16, <1>17, <2>4
    <3>2. (ref'[j] > 0 => ref[j] > 0) /\ (ref[j] > 0 => ref'[j] > 0)
      BY <1>7, <1>10, <2>4
    <3>3. \A q \in Procs : loc[q].pc = "c_init" => loc'[q] = loc[q]
      BY <1>2, <1>11, Untouched
    <3>4. put[p] # "release"
      BY <1>2
    <3>5. Copied(j)'
      BY <1>11, <1>12, <3>1, <3>2, <3>4, CopiedSame
    <3>6. stray' = stray
      BY <1>1
    <3> QED
      BY <2>1, <3>1, <3>2, <3>3, <3>5, <3>6 DEF Kept, Alive
  <2> QED
    BY <2>2, <2>3, <2>4
<1>24. (\A j \in Inum : Counted(j)' /\ Orphans(j)') /\ Entries' /\ OneName' /\ RootOK' /\ FreeBare'
  <2>1. \A j \in Inum : /\ Same(LinkIp(loc'[p]), j) = Same(i, j) /\ Same(DecIp(loc'[p]), j) = 0
                        /\ Same(LinkIp(loc[p]), j) = 0 /\ Same(DecIp(loc[p]), j) = 0
    <3>1. LinkIp(loc'[p]) = i /\ DecIp(loc'[p]) = None
      BY <1>5, <1>9, <1>11 DEF LinkIp, DecIp
    <3>2. LinkIp(loc[p]) = None /\ DecIp(loc[p]) = None
      BY <1>2, <1>3 DEF LinkIp, DecIp
    <3> QED
      BY <3>1, <3>2, SameNone
  <2>2. \A j \in Inum : Owed(disk', ents', loc', j) = Owed(disk, ents, loc, j) + Same(i, j)
    <3>1. SUFFICES ASSUME NEW j \in Inum PROVE Owed(disk', ents', loc', j) = Owed(disk, ents, loc, j) + Same(i, j)
      OBVIOUS
    <3> DEFINE o == Owed(disk, ents, loc, j)
               s == Same(i, j)
               x0 == Same(LinkIp(loc[p]), j)
               x1 == Same(LinkIp(loc'[p]), j)
               y0 == Same(DecIp(loc[p]), j)
               y1 == Same(DecIp(loc'[p]), j)
    <3>2. Owed(disk', ents', loc', j) = o + ((x1 - x0) + (y1 - y0))
      BY <1>1, <1>11, <1>16, OwedLinks
    <3>3. x1 = s /\ y1 = 0 /\ x0 = 0 /\ y0 = 0
      BY <2>1
    <3>4. o \in Int /\ s \in Int
      BY OwedIs, SameNat
    <3> HIDE DEF o, s, x0, x1, y0, y1
    <3>5. o + ((x1 - x0) + (y1 - y0)) = o + s
      BY <3>3, <3>4
    <3> QED
      BY <3>2, <3>5 DEF o, s
  <2>3. Owed(disk', ents', loc', i) - Owed(disk, ents, loc, i) = disk'[i].nlink - disk[i].nlink
    <3> DEFINE o == Owed(disk, ents, loc, i)
               o1 == Owed(disk', ents', loc', i)
               z == disk[i].nlink
               z1 == disk'[i].nlink
    <3>1. o1 = o + Same(i, i) /\ Same(i, i) = 1
      BY <1>3, <2>2, SameNone
    <3>2. o \in Int
      BY OwedIs
    <3>3. z1 = z + 1
      BY <1>16
    <3>4. z \in Int
      BY <1>15
    <3> HIDE DEF o, o1, z, z1
    <3>5. o1 - o = z1 - z
      BY <3>1, <3>2, <3>3, <3>4
    <3> QED
      BY <3>5 DEF o, o1, z, z1
  <2>4. \A j \in Inum \ {i} : Owed(disk', ents', loc', j) = Owed(disk, ents, loc, j)
    <3>1. SUFFICES ASSUME NEW j \in Inum, j # i PROVE Owed(disk', ents', loc', j) = Owed(disk, ents, loc, j)
      OBVIOUS
    <3> DEFINE o == Owed(disk, ents, loc, j)
               o1 == Owed(disk', ents', loc', j)
    <3>2. o1 = o + Same(i, j)
      BY <2>2
    <3>3. Same(i, j) = 0
      BY <3>1 DEF Same
    <3>4. o \in Int
      BY OwedIs
    <3> HIDE DEF o, o1
    <3>5. o1 = o
      BY <3>2, <3>3, <3>4
    <3> QED
      BY <3>5 DEF o, o1
  <2>5. ~IsDir(i)
    BY <1>6 DEF IsDir
  <2>6. disk'[i].nlink \in Nat
    BY <1>15, <1>16
  <2> QED
    BY <1>1, <1>3, <1>11, <1>15, <1>16, <2>3, <2>4, <2>5, <2>6, NlinkDisk
<1> QED
  BY <1>11, <1>12, <1>19, <1>20, <1>22, <1>23, <1>24, LoudStep

\* One entry is written.
Written(d, n, v) == ents' = [ents EXCEPT ![d][n] = v]

\* The entries after dirlink() or unlink().
LEMMA EntIs ==
  ASSUME AllTypes, NEW d \in Inum, NEW n \in Names, NEW v \in Inum \cup {None}, Written(d, n, v)
  PROVE  /\ ents'[d][n] = v /\ ents' \in [Inum -> [Names \cup Dots -> Inum \cup {None}]]
         /\ \A e \in Inum : \A m \in Names \cup Dots : e # d \/ m # n => ents'[e][m] = ents[e][m]
         /\ \A e \in Inum : \A m \in Names : <<e, m>> # <<d, n>> => ents'[e][m] = ents[e][m]
         /\ \A e \in Inum : e # d => ents'[e] = ents[e]
         /\ \A e \in Inum : HasDots(e)' <=> HasDots(e)
<1>1. ents \in [Inum -> [Names \cup Dots -> Inum \cup {None}]]
  BY DEF AllTypes
<1>2. n \notin Dots /\ "." \in Dots /\ ".." \in Dots
  BY DirectoryAssumption DEF Dots
<1>3. ents'[d] = [ents[d] EXCEPT ![n] = v] /\ (\A e \in Inum : e # d => ents'[e] = ents[e])
      /\ ents[d] \in [Names \cup Dots -> Inum \cup {None}]
  BY <1>1 DEF Written
<1>4. /\ ents'[d][n] = v /\ \A m \in Names \cup Dots : m # n => ents'[d][m] = ents[d][m]
  BY <1>3
<1>5. ents' \in [Inum -> [Names \cup Dots -> Inum \cup {None}]]
  BY <1>1 DEF Written
<1>6. \A e \in Inum : \A m \in Names \cup Dots : e # d \/ m # n => ents'[e][m] = ents[e][m]
  BY <1>3, <1>4
<1>7. \A e \in Inum : HasDots(e)' <=> HasDots(e)
  BY <1>2, <1>6 DEF HasDots
<1> QED
  BY <1>3, <1>4, <1>5, <1>6, <1>7

\* LinkWrite keeps the invariant.
LEMMA LinkWriteInv == ASSUME Inv, NEW p \in Procs, LinkWrite(p) PROVE Inv'
<1> DEFINE d == loc[p].dp
           i == loc[p].ip
           n == Last(p)
<1>1. /\ At(p, "link_dir") /\ Lockable(d) /\ ents[d][n] = None /\ ents' = [ents EXCEPT ![d][n] = i]
      /\ mem' = Loaded(d) /\ todo' = [todo EXCEPT ![p] = <<d, i>>] /\ loc' = [loc EXCEPT ![p] = Idle]
      /\ Strays(d, {i}) /\ UNCHANGED <<disk, ref, lock, cwd, fd, put, lost>>
  BY DEF LinkWrite, Done, Move, Put
<1>2. /\ loc[p].pc = "link_dir" /\ todo[p] = <<>> /\ put[p] = "test" /\ loc[p] \in Local /\ AllTypes
      /\ ShapeOf(loc[p], cwd[p], None) /\ LivingOf(loc[p], cwd[p], fd[p], <<>>) /\ DirsOf(loc[p], cwd[p])
      /\ cwd[p] \in Opt(Inum) /\ fd[p] \in Opt(Inum) /\ Next1(p) = None
  BY <1>1, AtIs
<1>3. /\ d \in Inum /\ Alive(d) /\ IsDir(d) /\ HasDots(d) /\ loc[p].at = None /\ n \in Names \cup Dots
      /\ lock[d] = None /\ ref[d] >= 1 /\ cwd[p] # None
      /\ Copy(d) = [valid |-> TRUE, type |-> "dir", nlink |-> disk[d].nlink]
  BY <1>1, ParentIs
<1>4. n \in Names
  BY <1>1, <1>3, NoInode DEF HasDots, Dots
<1>5. Linking(loc[p]) /\ i \in Inum /\ i # None /\ Alive(i) /\ ~IsDir(i) /\ i # d /\ i # Root
  <2>1. Linking(loc[p])
    BY <1>2 DEF Linking
  <2>2. i # None
    BY <1>2, <2>1 DEF ShapeOf
  <2>3. IsDir(Root)
    BY DEF Inv, RootOK
  <2> QED
    BY <1>2, <1>3, <2>1, <2>2, <2>3 DEF Local, Opt, LivingOf, DirsOf
<1>6. i = loc[p].ip /\ d = loc[p].dp /\ <<d, i>> \in Todo
  BY <1>3, <1>5 DEF Todo
<1> HIDE DEF d, i, n
<1>7. /\ ents'[d][n] = i /\ ents' \in [Inum -> [Names \cup Dots -> Inum \cup {None}]]
      /\ \A e \in Inum : \A m \in Names \cup Dots : e # d \/ m # n => ents'[e][m] = ents[e][m]
      /\ \A e \in Inum : \A m \in Names : <<e, m>> # <<d, n>> => ents'[e][m] = ents[e][m]
      /\ \A e \in Inum : e # d => ents'[e] = ents[e]
      /\ \A e \in Inum : HasDots(e)' <=> HasDots(e)
  <2>1. i \in Inum \cup {None}
    BY <1>5
  <2>2. AllTypes /\ d \in Inum /\ n \in Names /\ Written(d, n, i)
    BY <1>1, <1>2, <1>3, <1>4 DEF Written
  <2> QED
    BY <2>1, <2>2, EntIs
<1>8. Becomes(p, Idle, cwd[p], fd[p], <<d, i>>)
  BY <1>1, MoveBecomes
<1>9. /\ loc'[p] = Idle /\ cwd'[p] = cwd[p] /\ fd'[p] = fd[p] /\ todo'[p] = <<d, i>>
      /\ Next1(p)' = d /\ Next2(p)' = i /\ Frame(p) /\ put'[p] = "test" /\ Others(p, put, put') /\ disk' = disk
  <2>1. Others(p, put, put')
    BY <1>1 DEF Others, Changed
  <2> QED
    BY <1>1, <1>2, <1>6, <1>8, <2>1, BecomesIs, NthOf, IdleIs
<1>10. ~Linking(Idle) /\ Idle.pc \notin LockPlaces
  BY IdleIs DEF Linking, LockPlaces
<1>11. /\ mem' \in [Inum -> Copies] /\ mem'[d] = Copy(d) /\ (\A j \in Inum : j # d => mem'[j] = mem[j])
  BY <1>1, <1>2, <1>3, LoadedIs
<1>12. stray' = (IF disk[d].nlink = 0 THEN stray \cup {i} ELSE stray)
  BY <1>1, <1>3 DEF Strays
<1>13. stray \subseteq stray' /\ stray' \subseteq Inum /\ Root \notin stray' /\ (disk[d].nlink = 0 => i \in stray')
  BY <1>2, <1>5, <1>12 DEF Inv, RootOK, AllTypes
<1>14. Tables /\ DiskTypes
  BY <1>1, <1>2, <1>7, <1>11, <1>13 DEF Tables, DiskTypes, AllTypes, Copies
<1>15. AllTypes' /\ RefSum' /\ LostFew'
  <2>1. HeldLike(p, Idle, cwd[p], fd[p], <<d, i>>)
    <3>1. SUFFICES ASSUME NEW j \in Inum
                   PROVE  HeldBy(Idle, cwd[p], fd[p], <<d, i>>, j) = HeldBy(loc[p], cwd[p], fd[p], todo[p], j)
      BY DEF HeldLike
    <3> DEFINE x == Same(d, j)
               y == Same(i, j)
               c == Same(cwd[p], j) + Same(fd[p], j)
    <3>2. LocBy(Idle, j) = 0 /\ LocBy(loc[p], j) = (0 + x) + y
      BY <1>3, <1>6, IdleIs, SameNone DEF LocBy
    <3>3. TodoBy(<<d, i>>, j) = x + y /\ TodoBy(todo[p], j) = 0 + 0
      BY <1>2, NthOf, SameNone DEF TodoBy
    <3>4. /\ HeldBy(Idle, cwd[p], fd[p], <<d, i>>, j) = (0 + c) + (x + y)
          /\ HeldBy(loc[p], cwd[p], fd[p], todo[p], j) = (((0 + x) + y) + c) + (0 + 0)
      BY <3>2, <3>3 DEF HeldBy
    <3>5. x \in Int /\ y \in Int
      BY SameNat
    <3>6. c \in Int
      <4>1. Same(cwd[p], j) \in Int /\ Same(fd[p], j) \in Int
        BY SameNat
      <4> QED
        BY <4>1
    <3> HIDE DEF x, y, c
    <3>7. (0 + c) + (x + y) = (((0 + x) + y) + c) + (0 + 0)
      BY <3>5, <3>6
    <3> QED
      BY <3>4, <3>7
  <2>2. \A j \in Inum : ref'[j] = ref[j] + HeldBy(Idle, cwd[p], fd[p], <<d, i>>, j) - HeldBy(loc[p], cwd[p], fd[p], todo[p], j)
    BY <1>1, <2>1, LikeRefs
  <2> QED
    BY <1>1, <1>2, <1>6, <1>8, <1>14, <2>2, IdleIs, LoudTypes
<1>16. ASSUME NEW q \in Procs, q # p PROVE Spares(p, q)
  <2>1. loc[q].pc = "c_init" => /\ loc'[p].at # loc[q].ip /\ loc'[p].dp # loc[q].ip
                                /\ loc'[p].ip # loc[q].ip /\ cwd'[p] # loc[q].ip
                                /\ d # loc[q].ip /\ loc[q].ip \in Inum
    BY <1>6, <1>9, <1>16, IdleIs, FreshOf, NoInode
  <2>2. \A j \in Inum : lock[j] = q => j # d
    BY <1>3, NoInode
  <2>3. put[q] = "release" /\ disk'[Next1(q)].type # "free" =>
          \E r \in Procs : loc'[r].pc = "c_init" /\ loc'[r].ip = Next1(q)
    <3>1. SUFFICES ASSUME put[q] = "release", disk'[Next1(q)].type # "free"
                   PROVE  \E r \in Procs : loc'[r].pc = "c_init" /\ loc'[r].ip = Next1(q)
      OBVIOUS
    <3>2. PICK r \in Procs : loc[r].pc = "c_init" /\ loc[r].ip = Next1(q)
      BY <1>9, <3>1 DEF Inv, Truncs, Alive
    <3>3. loc'[r] = loc[r]
      BY <1>2, <1>9, <3>2, Untouched
    <3> QED
      BY <3>2, <3>3
  <2> QED
    BY <1>1, <1>7, <1>9, <2>1, <2>2, <2>3 DEF Spares
<1>17. Shape(p)' /\ Living(p)' /\ Dirs(p)' /\ Making(p)' /\ Erasing(p)' /\ Fresh(p)' /\ Truncs(p)' /\ Locks(p)'
  <2>1. Shape(p)'
    BY <1>2, <1>3, <1>9, <1>10, IdleIs DEF Shape, AtPlaces, DpPlaces, IpPlaces
  <2>2. (cwd[p] # None => cwd[p] \in Inum) /\ (fd[p] # None => fd[p] \in Inum)
    BY <1>2 DEF Opt
  <2>3. Living(p)'
    BY <1>2, <1>3, <1>5, <1>9, <2>2, IdleIs DEF LivingOf, Living, Alive
  <2>4. Dirs(p)'
    BY <1>2, <1>7, <1>9, <1>10, <2>2, IdleIs DEF DirsOf, Dirs, IsDir
  <2>5. Making(p)' /\ Erasing(p)' /\ Fresh(p)' /\ Truncs(p)'
    BY <1>9, IdleIs DEF Making, Erasing, Fresh, Truncs
  <2>6. Locks(p)'
    <3>1. \A j \in Inum : ~HasLock(p, j)' /\ ~HasLock(p, j)
      BY <1>2, <1>9, IdleIs DEF HasLock
    <3>2. Locks(p) /\ lock' = lock
      BY <1>1 DEF Inv
    <3> QED
      BY <3>1, <3>2 DEF Locks
  <2> QED
    BY <2>1, <2>3, <2>4, <2>5, <2>6
<1>18. ASSUME NEW j \in Inum PROVE Copied(j)' /\ Kept(j)'
  <2>1. Kept(j)
    BY DEF Inv
  <2>2. Copied(j)'
    <3>1. mem'[j] = mem[j] \/ (lock[j] = None /\ Alive(j) /\ mem'[j] = Copy(j))
      BY <1>3, <1>11
    <3>2. disk'[j] = disk[j] /\ lock'[j] = lock[j] /\ ref'[j] = ref[j] /\ put[p] # "release"
      BY <1>1, <1>2
    <3> QED
      BY <1>9, <3>1, <3>2, CopiedSame
  <2>3. \A q \in Procs : loc[q].pc = "c_init" => loc'[q] = loc[q]
    BY <1>2, <1>9, Untouched
  <2>4. mem[j].valid => mem'[j].valid
    BY <1>3, <1>11
  <2>5. Kept(j)'
    BY <1>1, <1>13, <2>1, <2>3, <2>4 DEF Kept, Alive
  <2> QED
    BY <2>2, <2>5
<1>19. \A j \in Inum : Owed(disk', ents', loc', j) = Owed(disk, ents, loc, j)
  <2>1. SUFFICES ASSUME NEW j \in Inum PROVE Owed(disk', ents', loc', j) = Owed(disk, ents, loc, j)
    OBVIOUS
  <2> DEFINE s == Same(i, j)
             o == Owed(disk, ents, loc, j)
             k == 0
  <2>2. Count(Entry, NamesIn(ents'), j) = Count(Entry, NamesIn(ents), j) + s
    <3>1. Count(Entry, NamesIn(ents'), j) = Count(Entry, NamesIn(ents), j) - Same(ents[d][n], j) + Same(ents'[d][n], j)
      BY <1>3, <1>4, <1>7, NamesMove
    <3>2. Same(ents[d][n], j) = 0 /\ Same(ents'[d][n], j) = s
      BY <1>1, <1>7, SameNone
    <3> DEFINE z == Count(Entry, NamesIn(ents), j)
    <3>3. z \in Int /\ s \in Int
      BY OwedIs, SameNat
    <3> HIDE DEF s, z
    <3> QED
      BY <3>1, <3>2, <3>3 DEF z
  <2>3. Count(Inum, KidsIn(disk', ents'), j) = Count(Inum, KidsIn(disk, ents), j) + k
    <3>1. ASSUME NEW h \in Inum
          PROVE  disk[h].type = "dir" /\ HasName(ents, h) <=> disk'[h].type = "dir" /\ HasName(ents', h)
      <4>1. CASE disk[h].type # "dir"
        BY <1>9, <4>1
      <4>2. CASE disk[h].type = "dir"
        <5>1. h # i /\ h # None
          BY <1>5, <4>2, NoInode DEF IsDir
        <5>2. HasName(ents, h) => HasName(ents', h)
          BY <1>1, <1>7, <5>1 DEF HasName
        <5>3. HasName(ents', h) => HasName(ents, h)
          BY <1>7, <5>1 DEF HasName
        <5> QED
          BY <1>9, <5>2, <5>3
      <4> QED
        BY <4>1, <4>2
    <3>2. Count(Inum, KidsIn(disk', ents'), j) = Count(Inum, KidsIn(disk, ents), j)
      BY <3>1, KidsSame
    <3> QED
      BY <3>2, OwedIs
  <2>4. /\ Same(LinkIp(loc'[p]), j) = 0 /\ Same(LinkIp(loc[p]), j) = s
        /\ Same(DecIp(loc'[p]), j) = 0 /\ Same(DecIp(loc[p]), j) = 0
    BY <1>2, <1>5, <1>6, <1>9, <1>10, IdleIs, SameNone DEF LinkIp, DecIp
  <2>5. s \in Int /\ o \in Int /\ k \in Int /\ k = 0
    BY OwedIs, SameNat
  <2> HIDE DEF s, o, k
  <2>6. Owed(disk', ents', loc', j)
          = Owed(disk, ents, loc, j) + ((s + k) + ((Same(LinkIp(loc'[p]), j) - Same(LinkIp(loc[p]), j))
                                                    + (Same(DecIp(loc'[p]), j) - Same(DecIp(loc[p]), j))))
    BY <1>9, <2>2, <2>3, <2>5, OwedMove
  <2>7. Owed(disk', ents', loc', j) = o + ((s + k) + ((0 - s) + (0 - 0)))
    BY <2>4, <2>6 DEF o
  <2>8. o + ((s + k) + ((0 - s) + (0 - 0))) = o
    BY <2>5
  <2> QED
    BY <2>7, <2>8 DEF o
<1>20. ASSUME NEW j \in Inum PROVE Counted(j)' /\ Orphans(j)'
  <2>1. Counted(j) /\ Orphans(j)
    BY DEF Inv
  <2>2. Counted(j)'
    BY <1>9, <1>13, <1>19, <2>1 DEF Counted, Alive
  <2>3. Orphans(j)'
    BY <1>7, <1>9, <1>13, <2>1 DEF Orphans, IsDir
  <2> QED
    BY <2>2, <2>3
<1>21. Entries' /\ OneName' /\ RootOK' /\ FreeBare'
  <2>1. Entries'
    <3>1. SUFFICES ASSUME NEW e \in Inum, NEW m \in Names, ents'[e][m] # None
                   PROVE  /\ IsDir(e) /\ HasDots(e)
                          /\ ents'[e][m] # Root /\ Alive(ents'[e][m])
                          /\ IsDir(ents'[e][m]) => /\ e = Root /\ ents'[ents'[e][m]]["."] = ents'[e][m]
                                                   /\ ents'[ents'[e][m]][".."] = Root
      BY <1>7, <1>9 DEF Entries, IsDir, Alive, HasDots
    <3>2. CASE e = d /\ m = n
      BY <1>3, <1>5, <1>7, <3>2
    <3>3. CASE e # d \/ m # n
      <4>1. ents'[e][m] = ents[e][m]
        BY <1>7, <3>3
      <4>2. ents[e][m] \in Inum
        BY <3>1, <4>1, NameCounts
      <4>3. /\ IsDir(e) /\ HasDots(e) /\ ents[e][m] # Root /\ Alive(ents[e][m])
            /\ IsDir(ents[e][m]) => e = Root /\ HasDots(ents[e][m])
        BY <3>1, <4>1 DEF Inv, Entries
      <4>4. ents[ents[e][m]]["."] = ents'[ents[e][m]]["."] /\ ents[ents[e][m]][".."] = ents'[ents[e][m]][".."]
        BY <1>4, <1>7, <4>2, DirectoryAssumption DEF Dots
      <4> QED
        BY <4>1, <4>3, <4>4 DEF HasDots
    <3> QED
      BY <3>2, <3>3
  <2>2. OneName'
    <3>1. SUFFICES ASSUME NEW e \in Inum, NEW f \in Inum, NEW h \in Names, NEW m \in Names,
                          ents'[e][h] # None, ents'[e][h] = ents'[f][m], disk[ents'[e][h]].type = "dir"
                   PROVE  e = f /\ h = m
      BY <1>9 DEF OneName, IsDir
    <3>2. (e # d \/ h # n) /\ (f # d \/ m # n)
      BY <1>5, <1>7, <3>1 DEF IsDir
    <3>3. ents'[e][h] = ents[e][h] /\ ents'[f][m] = ents[f][m]
      BY <1>7, <3>2
    <3>4. ents[e][h] # None /\ ents[e][h] = ents[f][m] /\ IsDir(ents[e][h])
      BY <3>1, <3>3 DEF IsDir
    <3> QED
      BY <3>4 DEF Inv, OneName
  <2>3. RootOK'
    BY <1>7, <1>9, <1>13, NoInode DEF Inv, RootOK, IsDir
  <2>4. FreeBare'
    BY <1>3, <1>7, <1>9 DEF Inv, FreeBare, Alive, Bare
  <2> QED
    BY <2>1, <2>2, <2>3, <2>4
<1> QED
  BY <1>9, <1>15, <1>16, <1>17, <1>18, <1>20, <1>21, LoudStep

\* unlink() has locked the directory, and can lock what the entry names.
LEMMA EraserIs ==
  ASSUME Inv, NEW p \in Procs, At(p, "u_child"), Lockable(loc[p].ip)
  PROVE  /\ loc[p].ip \in Inum /\ loc[p].dp \in Inum /\ loc[p].ip # loc[p].dp /\ loc[p].at = None /\ cwd[p] # None
         /\ Alive(loc[p].ip) /\ lock[loc[p].ip] = None /\ ref[loc[p].ip] >= 1 /\ loc[p].ip # Root
         /\ Copy(loc[p].ip).type = disk[loc[p].ip].type /\ Copy(loc[p].ip).nlink = disk[loc[p].ip].nlink
         /\ lock[loc[p].dp] = p /\ Alive(loc[p].dp) /\ IsDir(loc[p].dp) /\ HasDots(loc[p].dp) /\ ref[loc[p].dp] >= 1
         /\ ents[loc[p].dp][Last(p)] = loc[p].ip /\ Last(p) \in Names
         /\ IsDir(loc[p].ip) => loc[p].dp = Root /\ HasDots(loc[p].ip)
         /\ Copy(loc[p].dp).nlink = disk[loc[p].dp].nlink /\ Copy(loc[p].dp) = mem[loc[p].dp]
         /\ mem[loc[p].dp].valid /\ mem[loc[p].dp].type = disk[loc[p].dp].type
<1> DEFINE i == loc[p].ip
           d == loc[p].dp
<1>1. /\ loc[p].pc = "u_child" /\ todo[p] = <<>> /\ put[p] = "test" /\ loc[p] \in Local /\ AllTypes
      /\ ShapeOf(loc[p], cwd[p], None) /\ LivingOf(loc[p], cwd[p], fd[p], <<>>) /\ DirsOf(loc[p], cwd[p])
  BY AtIs
<1>2. i \in Inum /\ d \in Inum /\ loc[p].at = None /\ cwd[p] # None /\ i # None /\ d # None
  <2>1. i # None /\ d # None /\ loc[p].at = None /\ cwd[p] # None
    BY <1>1 DEF ShapeOf, IpPlaces, DpPlaces, AtPlaces
  <2> QED
    BY <1>1, <2>1 DEF Local, Opt
<1>3. Holds(p, i) /\ Holds(p, d)
  BY DEF Holds
<1>4. /\ lock[i] = None /\ ref[i] >= 1 /\ Alive(i) /\ Copy(i).type = disk[i].type /\ Copy(i).nlink = disk[i].nlink
  BY <1>2, <1>3, LockIs
<1>5. HasLock(p, d) /\ Locks(p) /\ RefSum /\ Copied(d) /\ Erasing(p)
  BY <1>1, <1>2 DEF HasLock, Inv
<1>6. lock[d] = p /\ ref[d] >= 1
  BY <1>1, <1>2, <1>3, <1>5, HeldPos DEF Locks
<1>7. Alive(d) /\ IsDir(d) /\ HasDots(d)
  BY <1>1, <1>2 DEF LivingOf, DirsOf
<1>8. ents[d][Last(p)] = i /\ Last(p) \in Names
  BY <1>1, <1>5 DEF Erasing
<1>9. i # Root /\ (IsDir(i) => d = Root /\ HasDots(i))
  BY <1>2, <1>8 DEF Inv, Entries
<1>10. mem[d].valid
  BY <1>5, <1>6, NoInode DEF Copied
<1>11. ~(put[lock[d]] = "release")
  BY <1>1, <1>6
<1>13. Copy(d) = mem[d]
  BY <1>10 DEF Copy
<1>12. mem[d].type = disk[d].type /\ mem[d].nlink = disk[d].nlink
  <2>1. ref[d] > 0 /\ (lock[d] = None \/ put[lock[d]] # "release")
    BY <1>1, <1>2, <1>6, <1>11 DEF AllTypes
  <2>2. Copy(d).type = disk[d].type /\ Copy(d).nlink = disk[d].nlink
    BY <1>1, <1>2, <1>5, <2>1, CopyIs
  <2> QED
    BY <1>13, <2>2
<1>14. i # d
  BY <1>4, <1>6, NoInode
<1> QED
  BY <1>2, <1>4, <1>6, <1>7, <1>8, <1>9, <1>10, <1>12, <1>13, <1>14

\* A directory with a name is a link of the root.
LEMMA KidCounts ==
  ASSUME Inv, NEW d \in Inum, NEW n \in Names, ents[d][n] # None, IsDir(ents[d][n])
  PROVE  disk[Root].nlink >= 2
<1> DEFINE i == ents[d][n]
<1>1. i \in Inum
  BY NameCounts
<1>2. KidsIn(disk, ents)[i] = Root
  BY <1>1, KidIs DEF HasName, IsDir
<1>3. Count(Inum, KidsIn(disk, ents), Root) >= 1
  BY <1>1, <1>2, LinkSets, CountPos
<1>4. Alive(Root) /\ Counted(Root) /\ Root \notin stray /\ disk[Root].nlink \in Nat
  BY RootCounts, NoInode DEF Inv, RootOK, AllTypes, Dinode
<1>5. disk[Root].nlink = Owed(disk, ents, loc, Root)
  BY <1>4 DEF Counted
<1> DEFINE x == Count(Entry, NamesIn(ents), Root)
           y == Count(Inum, KidsIn(disk, ents), Root)
           z == Count(Procs, LinkersIn(loc), Root)
           w == Count(Procs, DecsIn(loc), Root)
<1>6. x \in Nat /\ y \in Nat /\ z \in Nat /\ w \in Nat /\ Owed(disk, ents, loc, Root) = (x + (y + 1)) + (z + w)
  BY OwedIs
<1> HIDE DEF x, y, z, w, i
<1>7. y >= 1
  BY <1>3 DEF y
<1> QED
  BY <1>5, <1>6, <1>7

\* UnlinkErase keeps the invariant.
LEMMA UnlinkEraseInv == ASSUME Inv, NEW p \in Procs, UnlinkErase(p) PROVE Inv'
<1> DEFINE d == loc[p].dp
           i == loc[p].ip
           n == Last(p)
           k == IF Copy(i).type = "dir" THEN 1 ELSE 0
           links == Copy(d).nlink - k
           l == [loc[p] EXCEPT !.pc = "u_dec", !.dp = None]
<1>1. /\ At(p, "u_child") /\ Lockable(i) /\ ~NonEmpty(i) /\ Copy(i).nlink > 0 /\ Written(d, n, None)
      /\ mem' = [Loaded(i) EXCEPT ![d].nlink = links] /\ disk' = [disk EXCEPT ![d].nlink = links]
      /\ lock' = [lock EXCEPT ![d] = None, ![i] = p] /\ todo' = [todo EXCEPT ![p] = <<d>>]
      /\ loc' = [loc EXCEPT ![p] = l] /\ UNCHANGED <<ref, cwd, fd, put, lost, stray>>
  BY DEF UnlinkErase, Move, Put, Written
<1>2. /\ loc[p].pc = "u_child" /\ todo[p] = <<>> /\ put[p] = "test" /\ loc[p] \in Local /\ AllTypes
      /\ ShapeOf(loc[p], cwd[p], None) /\ LivingOf(loc[p], cwd[p], fd[p], <<>>) /\ DirsOf(loc[p], cwd[p])
      /\ cwd[p] \in Opt(Inum) /\ fd[p] \in Opt(Inum) /\ Next1(p) = None /\ \A j \in Inum : <<j>> \in Todo
  BY <1>1, AtIs
<1>3. /\ i \in Inum /\ d \in Inum /\ i # d /\ loc[p].at = None /\ cwd[p] # None
      /\ Alive(i) /\ lock[i] = None /\ ref[i] >= 1 /\ i # Root
      /\ Copy(i).type = disk[i].type /\ Copy(i).nlink = disk[i].nlink
      /\ lock[d] = p /\ Alive(d) /\ IsDir(d) /\ HasDots(d) /\ ref[d] >= 1
      /\ ents[d][n] = i /\ n \in Names
      /\ IsDir(i) => d = Root /\ HasDots(i)
      /\ Copy(d).nlink = disk[d].nlink /\ Copy(d) = mem[d] /\ mem[d].valid /\ mem[d].type = disk[d].type
  BY <1>1, EraserIs
<1>4. i = loc[p].ip /\ d = loc[p].dp /\ ~Linking(loc[p]) /\ i # None /\ d # None
  BY <1>2, <1>3, NoInode DEF Linking
<1>5. /\ disk \in [Inum -> Dinode] /\ lock \in [Inum -> Procs \cup {None}] /\ mem \in [Inum -> Copies]
      /\ ref \in [Inum -> Nat] /\ disk[d].nlink \in Nat /\ stray \subseteq Inum
  BY <1>2, <1>3 DEF AllTypes, Copies, Dinode
<1>6. k \in 0..1 /\ (k = 1 <=> IsDir(i)) /\ links = disk[d].nlink - k
  BY <1>3 DEF IsDir
<1>7. links \in Nat /\ (IsDir(i) => links >= 1 /\ d = Root) /\ (~IsDir(i) => links = disk[d].nlink)
  <2>1. IsDir(i) => disk[Root].nlink >= 2 /\ d = Root
    BY <1>3, <1>4, KidCounts
  <2> HIDE DEF i, d, k, links
  <2> QED
    BY <1>5, <1>6, <2>1
<1>8. IsDir(i) => \A m \in Names : ents[i][m] = None
  BY <1>1, <1>3 DEF NonEmpty, IsDir
<1>9. /\ l \in Local /\ l.pc = "u_dec" /\ l.at = None /\ l.dp = None /\ l.ip = i
      /\ l.call = loc[p].call /\ l.rest = loc[p].rest
  <2>1. None \in Opt(Inum) /\ "u_dec" \in Places
    BY DEF Opt, Places
  <2>2. l \in Local
    BY <1>2, <2>1 DEF Local
  <2> QED
    BY <1>2, <1>3, <2>2 DEF Local
<1>10. Becomes(p, l, cwd[p], fd[p], <<d>>)
  BY <1>1, MoveBecomes
<1>11. /\ Loaded(i) \in [Inum -> Copies] /\ Loaded(i)[i] = Copy(i) /\ (\A j \in Inum : j # i => Loaded(i)[j] = mem[j])
       /\ Copy(i) \in Copies /\ Copy(i).valid = TRUE
  BY <1>2, <1>3, LoadedIs
<1> HIDE DEF l, links, k, d, i, n
<1>12. /\ ents'[d][n] = None /\ ents' \in [Inum -> [Names \cup Dots -> Inum \cup {None}]]
       /\ \A e \in Inum : \A m \in Names \cup Dots : e # d \/ m # n => ents'[e][m] = ents[e][m]
       /\ \A e \in Inum : \A m \in Names : <<e, m>> # <<d, n>> => ents'[e][m] = ents[e][m]
       /\ \A e \in Inum : e # d => ents'[e] = ents[e]
       /\ \A e \in Inum : HasDots(e)' <=> HasDots(e)
  <2> DEFINE v == None
  <2>1. AllTypes /\ d \in Inum /\ n \in Names /\ Written(d, n, v) /\ v \in Inum \cup {None}
    BY <1>1, <1>2, <1>3
  <2> HIDE DEF v
  <2>2. /\ ents'[d][n] = v /\ ents' \in [Inum -> [Names \cup Dots -> Inum \cup {None}]]
        /\ \A e \in Inum : \A m \in Names \cup Dots : e # d \/ m # n => ents'[e][m] = ents[e][m]
        /\ \A e \in Inum : \A m \in Names : <<e, m>> # <<d, n>> => ents'[e][m] = ents[e][m]
        /\ \A e \in Inum : e # d => ents'[e] = ents[e]
        /\ \A e \in Inum : HasDots(e)' <=> HasDots(e)
    BY <2>1, EntIs
  <2> QED
    BY <2>2 DEF v
<1>13. /\ disk' \in [Inum -> Dinode] /\ disk'[d].nlink = links /\ (\A j \in Inum : disk'[j].type = disk[j].type)
       /\ \A j \in Inum : j # d => disk'[j] = disk[j]
  BY <1>1, <1>3, <1>5, <1>7 DEF Dinode
<1>14. /\ mem' \in [Inum -> Copies] /\ mem'[d].valid /\ mem'[d].type = disk[d].type /\ mem'[d].nlink = links
       /\ mem'[i] = Copy(i) /\ (\A j \in Inum : j # d /\ j # i => mem'[j] = mem[j])
  <2> DEFINE m == Loaded(i)
  <2>1. m \in [Inum -> Copies] /\ m[i] = Copy(i) /\ (\A j \in Inum : j # i => m[j] = mem[j]) /\ m[d] = mem[d]
    BY <1>3, <1>11
  <2>2. mem' = [m EXCEPT ![d].nlink = links]
    BY <1>1
  <2> HIDE DEF m
  <2>3. /\ mem' \in [Inum -> Copies] /\ mem'[d].valid = m[d].valid /\ mem'[d].type = m[d].type /\ mem'[d].nlink = links
        /\ \A j \in Inum : j # d => mem'[j] = m[j]
    BY <1>3, <1>7, <2>1, <2>2 DEF Copies
  <2> QED
    BY <1>3, <2>1, <2>3
<1>15. lock' \in [Inum -> Procs \cup {None}] /\ lock'[i] = p /\ lock'[d] = None /\ \A j \in Inum : j # d /\ j # i => lock'[j] = lock[j]
  BY <1>1, <1>3, <1>5
<1>16. /\ loc'[p] = l /\ cwd'[p] = cwd[p] /\ fd'[p] = fd[p] /\ todo'[p] = <<d>>
       /\ Next1(p)' = d /\ Next2(p)' = None /\ Frame(p) /\ put'[p] = "test" /\ Others(p, put, put') /\ stray' = stray
  <2>1. Others(p, put, put')
    BY <1>1 DEF Others, Changed
  <2>2. <<d>> \in Todo
    BY <1>2, <1>3
  <2> QED
    BY <1>1, <1>2, <1>9, <1>10, <2>1, <2>2, BecomesIs, NthOf
<1>17. ~Linking(l)
  BY <1>9 DEF Linking
<1>18. Tables /\ DiskTypes
  BY <1>1, <1>2, <1>5, <1>12, <1>13, <1>14, <1>15 DEF Tables, DiskTypes, AllTypes
<1>19. AllTypes' /\ RefSum' /\ LostFew'
  <2>1. \A j \in Inum : LocBy(l, j) + Same(d, j) = LocBy(loc[p], j)
    BY <1>3, <1>4, <1>9, NoInode DEF LocBy, Same
  <2>2. HeldLike(p, l, cwd[p], fd[p], <<d>>)
    BY <1>2, <2>1, MoveHeld
  <2>3. \A j \in Inum : ref'[j] = ref[j] + HeldBy(l, cwd[p], fd[p], <<d>>, j) - HeldBy(loc[p], cwd[p], fd[p], todo[p], j)
    BY <1>1, <2>2, LikeRefs
  <2> QED
    BY <1>1, <1>2, <1>3, <1>9, <1>10, <1>18, <2>3, LoudTypes
<1>20. ASSUME NEW q \in Procs, q # p PROVE Spares(p, q)
  <2>1. loc[q].pc = "c_init" => /\ loc'[p].at # loc[q].ip /\ loc'[p].dp # loc[q].ip
                                /\ loc'[p].ip # loc[q].ip /\ cwd'[p] # loc[q].ip
                                /\ d # loc[q].ip /\ loc[q].ip \in Inum
    BY <1>4, <1>9, <1>16, <1>20, FreshOf, NoInode
  <2>2. \A j \in Inum : (lock[j] = q => j # d) /\ (lock'[j] = q <=> lock[j] = q)
    BY <1>3, <1>15, <1>20, NoInode
  <2>3. put[q] = "release" /\ disk'[Next1(q)].type # "free" =>
          \E r \in Procs : loc'[r].pc = "c_init" /\ loc'[r].ip = Next1(q)
    <3>1. SUFFICES ASSUME put[q] = "release", disk'[Next1(q)].type # "free"
                   PROVE  \E r \in Procs : loc'[r].pc = "c_init" /\ loc'[r].ip = Next1(q)
      OBVIOUS
    <3>2. Next1(q) \in Inum
      BY <3>1, Released
    <3>3. disk[Next1(q)].type # "free"
      BY <1>13, <3>1, <3>2
    <3>4. PICK r \in Procs : loc[r].pc = "c_init" /\ loc[r].ip = Next1(q)
      BY <3>1, <3>3 DEF Inv, Truncs, Alive
    <3>5. loc'[r] = loc[r]
      BY <1>2, <1>16, <3>4, Untouched
    <3> QED
      BY <3>4, <3>5
  <2>4. put[q] = "trunc" => ref'[Next1(q)] = ref[Next1(q)] /\ disk'[Next1(q)].nlink = disk[Next1(q)].nlink
    <3>1. put[q] = "trunc" => Next1(q) \in Inum /\ lock[Next1(q)] = q
      BY Released
    <3> QED
      BY <1>1, <1>13, <2>2, <3>1
  <2> QED
    BY <1>12, <1>13, <2>1, <2>2, <2>3, <2>4 DEF Spares
<1>21. Shape(p)' /\ Living(p)' /\ Dirs(p)' /\ Making(p)' /\ Erasing(p)' /\ Fresh(p)' /\ Truncs(p)' /\ Locks(p)'
  <2>1. Shape(p)'
    BY <1>2, <1>3, <1>4, <1>9, <1>16, <1>17 DEF Shape, ShapeOf, AtPlaces, DpPlaces, IpPlaces
  <2>2. (cwd[p] # None => cwd[p] \in Inum) /\ (fd[p] # None => fd[p] \in Inum)
    BY <1>2 DEF Opt
  <2>3. Living(p)'
    BY <1>2, <1>3, <1>9, <1>13, <1>16, <2>2 DEF LivingOf, Living, Alive
  <2>4. Dirs(p)'
    BY <1>2, <1>3, <1>9, <1>12, <1>13, <1>16, <1>17, <2>2 DEF DirsOf, Dirs, IsDir
  <2>5. Making(p)' /\ Fresh(p)' /\ Truncs(p)'
    BY <1>9, <1>16 DEF Making, Fresh, Truncs
  <2>6. Erasing(p)'
    BY <1>3, <1>8, <1>9, <1>12, <1>13, <1>16 DEF Erasing, IsDir
  <2>7. Locks(p)'
    <3>1. Locks(p)
      BY DEF Inv
    <3>2. \A j \in Inum : HasLock(p, j) <=> j = d
      BY <1>2, <1>3, <1>4 DEF HasLock
    <3>3. \A j \in Inum : HasLock(p, j)' <=> j = i
      BY <1>9, <1>16 DEF HasLock
    <3> QED
      BY <1>3, <1>15, <3>1, <3>2, <3>3, NoInode DEF Locks
  <2> QED
    BY <2>1, <2>3, <2>4, <2>5, <2>6, <2>7
<1>22. ASSUME NEW j \in Inum PROVE Copied(j)' /\ Kept(j)'
  <2>1. Copied(j) /\ Kept(j)
    BY DEF Inv
  <2>2. CASE j = d
    <3>1. mem'[d].type # "free" /\ mem'[d].type = disk'[d].type /\ mem'[d].nlink = disk'[d].nlink /\ mem'[d].valid
      BY <1>3, <1>13, <1>14 DEF Alive
    <3>2. ref'[d] > 0
      BY <1>1, <1>3, <1>5
    <3> QED
      BY <2>2, <3>1, <3>2 DEF Copied, Kept
  <2>3. CASE j = i
    <3>1. mem'[i].type # "free" /\ mem'[i].type = disk'[i].type /\ mem'[i].nlink = disk'[i].nlink /\ mem'[i].valid
      BY <1>3, <1>11, <1>13, <1>14 DEF Alive
    <3>2. ref'[i] > 0
      BY <1>1, <1>3, <1>5
    <3> QED
      BY <2>3, <3>1, <3>2 DEF Copied, Kept
  <2>4. CASE j # d /\ j # i
    <3>1. mem'[j] = mem[j] /\ disk'[j] = disk[j] /\ lock'[j] = lock[j] /\ ref'[j] = ref[j]
      BY <1>1, <1>13, <1>14, <1>15, <2>4
    <3>2. \A q \in Procs : loc[q].pc = "c_init" => loc'[q] = loc[q]
      BY <1>2, <1>16, Untouched
    <3>3. put[p] # "release"
      BY <1>2
    <3>4. Copied(j)'
      BY <1>16, <3>1, <3>3, CopiedSame
    <3> QED
      BY <1>16, <2>1, <3>1, <3>2, <3>4 DEF Kept, Alive
  <2> QED
    BY <2>2, <2>3, <2>4
<1>23. IsDir(i) => ~HasName(ents', i)
  <2>1. SUFFICES ASSUME IsDir(i), NEW e \in Inum, NEW m \in Names, ents'[e][m] = i PROVE FALSE
    BY DEF HasName
  <2>2. e # d \/ m # n
    BY <1>4, <1>12, <2>1
  <2>3. ents[e][m] = i
    BY <1>12, <2>1, <2>2
  <2> QED
    BY <1>3, <1>4, <2>1, <2>2, <2>3 DEF Inv, OneName

<1>24. ASSUME NEW j \in Inum
       PROVE  Owed(disk', ents', loc', j) = Owed(disk, ents, loc, j) - (IF IsDir(i) /\ j = Root THEN 1 ELSE 0)
  <2> DEFINE s == Same(i, j)
             t == IF IsDir(i) /\ j = Root THEN 1 ELSE 0
             o == Owed(disk, ents, loc, j)
             x == -s
             y == -t
  <2>1. Count(Entry, NamesIn(ents'), j) = Count(Entry, NamesIn(ents), j) + x
    <3>1. Count(Entry, NamesIn(ents'), j) = Count(Entry, NamesIn(ents), j) - Same(ents[d][n], j) + Same(ents'[d][n], j)
      BY <1>3, <1>12, NamesMove
    <3>2. Same(ents[d][n], j) = s /\ Same(ents'[d][n], j) = 0
      BY <1>3, <1>12, SameNone
    <3> DEFINE z == Count(Entry, NamesIn(ents), j)
    <3>3. z \in Int /\ s \in Int
      BY OwedIs, SameNat
    <3> HIDE DEF s, z
    <3> QED
      BY <3>1, <3>2, <3>3 DEF z
  <2>2. Count(Inum, KidsIn(disk', ents'), j) = Count(Inum, KidsIn(disk, ents), j) + y
    <3> DEFINE z == Count(Inum, KidsIn(disk, ents), j)
               z1 == Count(Inum, KidsIn(disk', ents'), j)
    <3>1. z \in Int
      BY OwedIs
    <3>2. \A h \in Inum \ {i} : HasName(ents', h) <=> HasName(ents, h)
      <4>1. SUFFICES ASSUME NEW h \in Inum, h # i PROVE HasName(ents', h) <=> HasName(ents, h)
        OBVIOUS
      <4>2. h # None
        BY NoInode
      <4>3. HasName(ents', h) => HasName(ents, h)
        BY <1>12, <4>2 DEF HasName
      <4>4. HasName(ents, h) => HasName(ents', h)
        BY <1>3, <1>12, <4>1 DEF HasName
      <4> QED
        BY <4>3, <4>4
    <3>3. CASE IsDir(i)
      <4>1. \A h \in Inum \ {i} : disk[h].type = "dir" /\ HasName(ents, h) <=> disk'[h].type = "dir" /\ HasName(ents', h)
        BY <1>13, <3>2
      <4>2. z1 = z - Same(KidsIn(disk, ents)[i], j) + Same(KidsIn(disk', ents')[i], j)
        BY <1>3, <4>1, KidsMove
      <4>3. KidsIn(disk, ents)[i] = Root
        BY <1>3, <3>3, KidIs DEF HasName, IsDir
      <4>4. KidsIn(disk', ents')[i] = None
        BY <1>3, <1>23, <3>3, KidIs
      <4>5. Same(KidsIn(disk, ents)[i], j) = t /\ Same(KidsIn(disk', ents')[i], j) = 0
        BY <3>3, <4>3, <4>4, SameNone DEF Same
      <4> HIDE DEF z, z1, t
      <4>6. t \in Int
        BY DEF t
      <4>7. z1 = z + (-t)
        BY <3>1, <4>2, <4>5, <4>6
      <4> QED
        BY <4>7 DEF z, z1
    <3>4. CASE ~IsDir(i)
      <4>1. \A h \in Inum : disk[h].type = "dir" /\ HasName(ents, h) <=> disk'[h].type = "dir" /\ HasName(ents', h)
        BY <1>13, <3>2, <3>4 DEF IsDir
      <4>2. z1 = z
        BY <4>1, KidsSame
      <4> QED
        BY <3>1, <3>4, <4>2
    <3> QED
      BY <3>3, <3>4
  <2>3. /\ Same(LinkIp(loc'[p]), j) = 0 /\ Same(LinkIp(loc[p]), j) = 0
        /\ Same(DecIp(loc'[p]), j) = s /\ Same(DecIp(loc[p]), j) = 0
    BY <1>2, <1>4, <1>9, <1>16, <1>17, SameNone DEF LinkIp, DecIp
  <2>4. s \in Int /\ o \in Int /\ t \in Int
    BY OwedIs, SameNat
  <2> HIDE DEF s, t, o
  <2>5. x \in Int /\ y \in Int
    BY <2>4
  <2> HIDE DEF x, y
  <2>6. Owed(disk', ents', loc', j)
          = Owed(disk, ents, loc, j) + ((x + y) + ((Same(LinkIp(loc'[p]), j) - Same(LinkIp(loc[p]), j))
                                                    + (Same(DecIp(loc'[p]), j) - Same(DecIp(loc[p]), j))))
    BY <1>16, <2>1, <2>2, <2>5, OwedMove
  <2>7. Owed(disk', ents', loc', j) = o + ((x + y) + ((0 - 0) + (s - 0)))
    BY <2>3, <2>6 DEF o
  <2>8. o + ((x + y) + ((0 - 0) + (s - 0))) = o - t
    BY <2>4 DEF x, y
  <2> QED
    BY <2>7, <2>8 DEF o, t
<1>25. ASSUME NEW j \in Inum PROVE Counted(j)' /\ Orphans(j)'
  <2>1. Counted(j) /\ Orphans(j)
    BY DEF Inv
  <2> DEFINE o == Owed(disk, ents, loc, j)
             o1 == Owed(disk', ents', loc', j)
  <2>2. CASE IsDir(i) /\ j = Root
    <3>1. o1 = o - 1 /\ o \in Int
      BY <1>24, <2>2, OwedIs
    <3>2. disk'[j].nlink = disk[j].nlink - 1 /\ disk[j].nlink \in Int /\ disk'[j].nlink # 0
      BY <1>5, <1>6, <1>7, <1>13, <2>2
    <3> DEFINE z == disk[j].nlink
               z1 == disk'[j].nlink
    <3>3. Alive(j) => z >= o /\ (j \notin stray => z = o)
      BY <2>1 DEF Counted
    <3> HIDE DEF o, o1, z, z1
    <3>4. z1 = z - 1 /\ z \in Int
      BY <3>2 DEF z, z1
    <3>5. Alive(j) => z1 >= o1 /\ (j \notin stray => z1 = o1)
      BY <3>1, <3>3, <3>4
    <3>6. Counted(j)'
      BY <1>13, <1>16, <3>5 DEF Counted, Alive, o1, z1
    <3>7. Orphans(j)'
      BY <3>2 DEF Orphans
    <3> QED
      BY <3>6, <3>7
  <2>3. CASE ~(IsDir(i) /\ j = Root)
    <3>1. o1 = o - 0 /\ o \in Int
      BY <1>24, <2>3, OwedIs
    <3>2. disk'[j].nlink = disk[j].nlink
      BY <1>7, <1>13, <2>3
    <3> HIDE DEF o, o1
    <3>3. o1 = o
      BY <3>1
    <3>4. Counted(j)'
      BY <1>13, <1>16, <2>1, <3>2, <3>3 DEF Counted, Alive, o, o1
    <3>5. Orphans(j)'
      BY <1>12, <1>13, <1>16, <2>1, <3>2 DEF Orphans, IsDir
    <3> QED
      BY <3>4, <3>5
  <2> QED
    BY <2>2, <2>3
<1>26. Entries' /\ OneName' /\ RootOK' /\ FreeBare'
  <2>1. ASSUME NEW e \in Inum, NEW m \in Names, ents'[e][m] # None
        PROVE  (e # d \/ m # n) /\ ents'[e][m] = ents[e][m] /\ ents[e][m] \in Inum
    <3>1. (e # d \/ m # n) /\ ents'[e][m] = ents[e][m]
      BY <1>12, <2>1
    <3> QED
      BY <2>1, <3>1, NameCounts
  <2>2. Entries'
    <3>1. SUFFICES ASSUME NEW e \in Inum, NEW m \in Names, ents'[e][m] # None
                   PROVE  /\ disk'[e].type = "dir" /\ ents'[e]["."] = e /\ ents'[e][".."] = Root
                          /\ ents'[e][m] # Root /\ disk'[ents'[e][m]].type # "free"
                          /\ disk'[ents'[e][m]].type = "dir" => /\ e = Root /\ ents'[ents'[e][m]]["."] = ents'[e][m]
                                                               /\ ents'[ents'[e][m]][".."] = Root
      BY DEF Entries, IsDir, Alive, HasDots
    <3>2. ents'[e][m] = ents[e][m] /\ ents[e][m] \in Inum
      BY <2>1, <3>1
    <3>3. /\ IsDir(e) /\ HasDots(e) /\ ents[e][m] # Root /\ Alive(ents[e][m])
          /\ IsDir(ents[e][m]) => e = Root /\ HasDots(ents[e][m])
      BY <3>1, <3>2 DEF Inv, Entries
    <3>4. \A h \in Inum : ents[h]["."] = ents'[h]["."] /\ ents[h][".."] = ents'[h][".."]
      BY <1>3, <1>12, DirectoryAssumption DEF Dots
    <3> QED
      BY <1>13, <3>2, <3>3, <3>4 DEF HasDots, IsDir, Alive
  <2>3. OneName'
    <3>1. SUFFICES ASSUME NEW e \in Inum, NEW f \in Inum, NEW h \in Names, NEW m \in Names,
                          ents'[e][h] # None, ents'[e][h] = ents'[f][m], disk'[ents'[e][h]].type = "dir"
                   PROVE  e = f /\ h = m
      BY DEF OneName, IsDir
    <3>2. ents'[e][h] = ents[e][h] /\ ents'[f][m] = ents[f][m] /\ ents[e][h] \in Inum
      BY <2>1, <3>1
    <3>3. ents[e][h] # None /\ ents[e][h] = ents[f][m] /\ IsDir(ents[e][h])
      BY <1>13, <3>1, <3>2 DEF IsDir
    <3> QED
      BY <3>3 DEF Inv, OneName
  <2>4. RootOK'
    BY <1>12, <1>13, <1>16, NoInode DEF Inv, RootOK, IsDir
  <2>5. FreeBare'
    BY <1>3, <1>12, <1>13 DEF Inv, FreeBare, Alive, Bare
  <2> QED
    BY <2>2, <2>3, <2>4, <2>5
<1> QED
  BY <1>16, <1>19, <1>20, <1>21, <1>22, <1>25, <1>26, LoudStep

\* The entries of an inode that has just been made, and its name.
MadeRow(d, i, n, kind) == ents' = [IF kind = "mkdir" THEN Dotted(i, d) ELSE ents EXCEPT ![d][n] = i]

\* The entries after create().
LEMMA MadeIs ==
  ASSUME AllTypes, NEW d \in Inum, NEW i \in Inum, i # d, NEW n \in Names, NEW t, MadeRow(d, i, n, t)
  PROVE  /\ ents'[d][n] = i /\ ents' \in [Inum -> [Names \cup Dots -> Inum \cup {None}]]
         /\ \A e \in Inum : \A m \in Names : <<e, m>> # <<d, n>> => ents'[e][m] = ents[e][m]
         /\ \A e \in Inum : e # d /\ e # i => ents'[e] = ents[e]
         /\ \A e \in Inum : e # i => ents'[e]["."] = ents[e]["."] /\ ents'[e][".."] = ents[e][".."]
         /\ t = "mkdir" => ents'[i]["."] = i /\ ents'[i][".."] = d
         /\ t # "mkdir" => ents'[i] = ents[i]
<1> DEFINE T == [Inum -> [Names \cup Dots -> Inum \cup {None}]]
           D == IF t = "mkdir" THEN Dotted(i, d) ELSE ents
<1>1. ents \in T
  BY DEF AllTypes
<1>2. n \notin Dots /\ "." \in Dots /\ ".." \in Dots /\ "." \notin Names /\ ".." \notin Names
  BY DirectoryAssumption DEF Dots
<1>3. /\ D \in T /\ (\A e \in Inum : e # i => D[e] = ents[e]) /\ (\A m \in Names : D[i][m] = ents[i][m])
      /\ (t = "mkdir" => D[i]["."] = i /\ D[i][".."] = d) /\ (t # "mkdir" => D[i] = ents[i])
  <2>1. CASE t = "mkdir"
    <3> DEFINE E == [ents EXCEPT ![i]["."] = i]
    <3>1. D = [E EXCEPT ![i][".."] = d]
      BY <2>1 DEF Dotted
    <3>2. /\ E \in T /\ (\A e \in Inum : e # i => E[e] = ents[e]) /\ E[i] = [ents[i] EXCEPT !["."] = i]
      BY <1>1, <1>2
    <3>3. E[i]["."] = i /\ \A m \in Names : E[i][m] = ents[i][m]
      BY <1>1, <1>2, <3>2
    <3> HIDE DEF D, E
    <3>4. /\ D \in T /\ (\A e \in Inum : e # i => D[e] = E[e]) /\ D[i] = [E[i] EXCEPT ![".."] = d]
      BY <1>1, <1>2, <3>1, <3>2
    <3>5. D[i][".."] = d /\ D[i]["."] = E[i]["."] /\ \A m \in Names : D[i][m] = E[i][m]
      BY <1>1, <1>2, <3>2, <3>4
    <3> QED
      BY <2>1, <3>2, <3>3, <3>4, <3>5
  <2>2. CASE t # "mkdir"
    BY <1>1, <2>2
  <2> QED
    BY <2>1, <2>2
<1>4. ents' = [D EXCEPT ![d][n] = i]
  BY DEF MadeRow
<1> HIDE DEF D
<1>5. ents'[d] = [D[d] EXCEPT ![n] = i] /\ (\A e \in Inum : e # d => ents'[e] = D[e]) /\ ents' \in T
  BY <1>1, <1>3, <1>4
<1>6. ents'[d][n] = i /\ (\A m \in Names \cup Dots : m # n => ents'[d][m] = D[d][m])
  BY <1>3, <1>5
<1>7. \A e \in Inum : \A m \in Names : <<e, m>> # <<d, n>> => ents'[e][m] = ents[e][m]
  BY <1>3, <1>5, <1>6
<1>8. \A e \in Inum : e # i => ents'[e]["."] = ents[e]["."] /\ ents'[e][".."] = ents[e][".."]
  BY <1>2, <1>3, <1>5, <1>6
<1> QED
  BY <1>3, <1>5, <1>6, <1>7, <1>8

\* CreateInit keeps the invariant.
LEMMA CreateInitInv == ASSUME Inv, NEW p \in Procs, CreateInit(p) PROVE Inv'
<1> DEFINE d == loc[p].dp
           i == loc[p].ip
           n == Last(p)
           t == loc[p].call.kind
           y == t = "mkdir"
           pd == [Copy(d) EXCEPT !.nlink = IF y THEN @ + 1 ELSE @]
           ci == [Copy(i) EXCEPT !.nlink = 1]
           l == [loc[p] EXCEPT !.pc = "c_return", !.dp = None]
           k == IF y THEN 1 ELSE 0
<1>1. /\ At(p, "c_init") /\ Lockable(i) /\ MadeRow(d, i, n, t)
      /\ mem' = [mem EXCEPT ![i] = ci, ![d] = pd]
      /\ disk' = [disk EXCEPT ![i] = [type |-> Copy(i).type, nlink |-> 1], ![d] = [type |-> pd.type, nlink |-> pd.nlink]]
      /\ lock' = [lock EXCEPT ![d] = None, ![i] = p] /\ todo' = [todo EXCEPT ![p] = <<d>>]
      /\ loc' = [loc EXCEPT ![p] = l] /\ Strays(d, {d, i}) /\ UNCHANGED <<ref, cwd, fd, put, lost>>
  BY DEF CreateInit, Move, Put, MadeRow
<1>2. /\ loc[p].pc = "c_init" /\ todo[p] = <<>> /\ put[p] = "test" /\ loc[p] \in Local /\ AllTypes
      /\ ShapeOf(loc[p], cwd[p], None) /\ LivingOf(loc[p], cwd[p], fd[p], <<>>) /\ DirsOf(loc[p], cwd[p])
      /\ cwd[p] \in Opt(Inum) /\ fd[p] \in Opt(Inum) /\ Next1(p) = None /\ \A j \in Inum : <<j>> \in Todo
  BY <1>1, AtIs
<1>3. /\ i \in Inum /\ d \in Inum /\ i # d /\ loc[p].at = None /\ cwd[p] # None
      /\ Alive(i) /\ lock[i] = None /\ ref[i] >= 1
      /\ Copy(i) = [valid |-> TRUE, type |-> TypeOf(loc[p].call.kind), nlink |-> 0]
      /\ disk[i] = [type |-> TypeOf(loc[p].call.kind), nlink |-> 0]
      /\ lock[d] = p /\ Alive(d) /\ IsDir(d) /\ HasDots(d) /\ ref[d] >= 1
      /\ ents[d][n] = None /\ n \in Names /\ loc[p].call \in Calls
      /\ Bare(i) /\ Copy(d) = [valid |-> TRUE, type |-> "dir", nlink |-> disk[d].nlink]
  BY <1>1, MakerIs
<1>4. i = loc[p].ip /\ d = loc[p].dp /\ ~Linking(loc[p]) /\ i # None /\ d # None /\ (y => d = Root)
  BY <1>2, <1>3, NoInode DEF Linking, ShapeOf
<1>5. /\ disk \in [Inum -> Dinode] /\ lock \in [Inum -> Procs \cup {None}] /\ mem \in [Inum -> Copies]
      /\ ref \in [Inum -> Nat] /\ disk[d].nlink \in Nat /\ stray \subseteq Inum
  BY <1>2, <1>3 DEF AllTypes, Copies, Dinode
<1>6. /\ disk[i].nlink = 0 /\ disk[i].type \in Types /\ disk[i].type # "free" /\ (IsDir(i) <=> y)
      /\ Copy(i).type = disk[i].type /\ Copy(i).valid = TRUE
  BY <1>3 DEF TypeOf, Types, IsDir
<1>7. /\ pd \in Copies /\ pd.valid = TRUE /\ pd.type = "dir" /\ pd.nlink = disk[d].nlink + k
      /\ ci \in Copies /\ ci.valid = TRUE /\ ci.type = disk[i].type /\ ci.nlink = 1 /\ k \in 0..1
  <2>1. Copy(d) \in Copies /\ Copy(i) \in Copies
    BY <1>2, <1>3, LoadedIs
  <2>2. /\ ci \in Copies /\ ci.valid = TRUE /\ ci.type = disk[i].type /\ ci.nlink = 1
    BY <1>6, <2>1 DEF Copies
  <2>3. Copy(d).valid = TRUE /\ Copy(d).type = "dir" /\ Copy(d).nlink = disk[d].nlink
    BY <1>3
  <2> DEFINE c == Copy(d)
  <2> HIDE DEF c
  <2>4. CASE y
    <3>1. pd = [c EXCEPT !.nlink = @ + 1]
      BY <2>4 DEF c
    <3>2. c \in Copies /\ c.valid = TRUE /\ c.type = "dir" /\ c.nlink = disk[d].nlink
      BY <2>1, <2>3 DEF c
    <3> HIDE DEF pd
    <3>3. pd \in Copies /\ pd.valid = TRUE /\ pd.type = "dir" /\ pd.nlink = disk[d].nlink + 1
      BY <1>5, <3>1, <3>2 DEF Copies
    <3> QED
      BY <2>2, <2>4, <3>3
  <2>5. CASE ~y
    <3>1. pd = [c EXCEPT !.nlink = @]
      BY <2>5 DEF c
    <3>2. c \in Copies /\ c.valid = TRUE /\ c.type = "dir" /\ c.nlink = disk[d].nlink
      BY <2>1, <2>3 DEF c
    <3> HIDE DEF pd
    <3>3. pd \in Copies /\ pd.valid = TRUE /\ pd.type = "dir" /\ pd.nlink = disk[d].nlink
      BY <1>5, <3>1, <3>2 DEF Copies
    <3> QED
      BY <1>5, <2>2, <2>5, <3>3
  <2> QED
    BY <2>4, <2>5
<1>8. /\ l \in Local /\ l.pc = "c_return" /\ l.at = None /\ l.dp = None /\ l.ip = i
      /\ l.call = loc[p].call /\ l.rest = loc[p].rest
  <2>1. None \in Opt(Inum) /\ "c_return" \in Places
    BY DEF Opt, Places
  <2>2. l \in Local
    BY <1>2, <2>1 DEF Local
  <2> QED
    BY <1>2, <1>3, <2>2 DEF Local
<1>9. Becomes(p, l, cwd[p], fd[p], <<d>>)
  BY <1>1, MoveBecomes
<1>10. (y <=> t = "mkdir") /\ (k = IF y THEN 1 ELSE 0)
  OBVIOUS
<1> HIDE DEF l, pd, ci, k, y, t, d, i, n
<1>11. /\ ents'[d][n] = i /\ ents' \in [Inum -> [Names \cup Dots -> Inum \cup {None}]]
       /\ \A e \in Inum : \A m \in Names : <<e, m>> # <<d, n>> => ents'[e][m] = ents[e][m]
       /\ \A e \in Inum : e # d /\ e # i => ents'[e] = ents[e]
       /\ \A e \in Inum : e # i => ents'[e]["."] = ents[e]["."] /\ ents'[e][".."] = ents[e][".."]
       /\ y => ents'[i]["."] = i /\ ents'[i][".."] = d
       /\ ~y => ents'[i] = ents[i]
  <2>1. AllTypes /\ d \in Inum /\ i \in Inum /\ i # d /\ n \in Names /\ MadeRow(d, i, n, t)
    BY <1>1, <1>2, <1>3
  <2>2. ents'[d][n] = i
    BY <2>1, MadeIs
  <2>6. ents' \in [Inum -> [Names \cup Dots -> Inum \cup {None}]]
    BY <2>1, MadeIs
  <2>3. \A e \in Inum : \A m \in Names : <<e, m>> # <<d, n>> => ents'[e][m] = ents[e][m]
    BY <2>1, MadeIs
  <2>4. /\ \A e \in Inum : e # d /\ e # i => ents'[e] = ents[e]
        /\ \A e \in Inum : e # i => ents'[e]["."] = ents[e]["."] /\ ents'[e][".."] = ents[e][".."]
    BY <2>1, MadeIs
  <2>5. /\ t = "mkdir" => ents'[i]["."] = i /\ ents'[i][".."] = d
        /\ t # "mkdir" => ents'[i] = ents[i]
    BY <2>1, MadeIs
  <2> QED
    BY <1>10, <2>2, <2>3, <2>4, <2>5, <2>6
<1>12. /\ disk' \in [Inum -> Dinode] /\ disk'[d].nlink = disk[d].nlink + k /\ disk'[i].nlink = 1
       /\ (\A j \in Inum : disk'[j].type = disk[j].type)
       /\ \A j \in Inum : j # d /\ j # i => disk'[j] = disk[j]
  <2> DEFINE di == [type |-> Copy(i).type, nlink |-> 1]
             dd == [type |-> pd.type, nlink |-> pd.nlink]
  <2>1. di \in Dinode /\ di.type = disk[i].type /\ di.nlink = 1
    BY <1>6 DEF Dinode
  <2>2. dd \in Dinode /\ dd.type = disk[d].type /\ dd.nlink = disk[d].nlink + k
    BY <1>3, <1>5, <1>7 DEF Dinode, Copies, IsDir, Types
  <2>3. disk' = [disk EXCEPT ![i] = di, ![d] = dd]
    BY <1>1
  <2> HIDE DEF di, dd
  <2>4. disk' \in [Inum -> Dinode] /\ disk'[i] = di /\ disk'[d] = dd /\ \A j \in Inum : j # d /\ j # i => disk'[j] = disk[j]
    BY <1>3, <1>5, <2>1, <2>2, <2>3
  <2> QED
    BY <2>1, <2>2, <2>4
<1>13. /\ mem' \in [Inum -> Copies] /\ mem'[d] = pd /\ mem'[i] = ci
       /\ (\A j \in Inum : j # d /\ j # i => mem'[j] = mem[j])
  BY <1>1, <1>3, <1>5, <1>7
<1>14. lock' \in [Inum -> Procs \cup {None}] /\ lock'[i] = p /\ lock'[d] = None /\ \A j \in Inum : j # d /\ j # i => lock'[j] = lock[j]
  BY <1>1, <1>3, <1>5
<1>15. /\ loc'[p] = l /\ cwd'[p] = cwd[p] /\ fd'[p] = fd[p] /\ todo'[p] = <<d>>
       /\ Next1(p)' = d /\ Next2(p)' = None /\ Frame(p) /\ put'[p] = "test" /\ Others(p, put, put')
  <2>1. Others(p, put, put')
    BY <1>1 DEF Others, Changed
  <2>2. <<d>> \in Todo
    BY <1>2, <1>3
  <2> QED
    BY <1>1, <1>2, <1>8, <1>9, <2>1, <2>2, BecomesIs, NthOf
<1>16. ~Linking(l)
  BY <1>8 DEF Linking
<1>17. i # Root /\ (\A e \in Inum : \A m \in Names : ents[e][m] # i) /\ Owed(disk, ents, loc, i) = 0 /\ d # None
  <2>1. Counted(i)
    BY <1>3 DEF Inv
  <2> QED
    BY <1>2, <1>3, <1>4, <1>6, <2>1, OwesNothing
<1>18. stray \subseteq stray' /\ stray' \subseteq Inum /\ Root \notin stray' /\ (disk[d].nlink = 0 => i \in stray' /\ d \in stray')
  <2>1. stray' = (IF disk[d].nlink = 0 THEN stray \cup {d, i} ELSE stray)
    BY <1>1, <1>3 DEF Strays
  <2>2. d = Root => disk[d].nlink # 0
    BY <1>5, RootCounts
  <2> QED
    BY <1>3, <1>5, <1>17, <2>1, <2>2 DEF Inv, RootOK
<1>19. Tables /\ DiskTypes
  BY <1>1, <1>2, <1>5, <1>11, <1>12, <1>13, <1>14, <1>18 DEF Tables, DiskTypes, AllTypes
<1>20. AllTypes' /\ RefSum' /\ LostFew'
  <2>1. \A j \in Inum : LocBy(l, j) + Same(d, j) = LocBy(loc[p], j)
    BY <1>3, <1>4, <1>8, NoInode DEF LocBy, Same
  <2>2. HeldLike(p, l, cwd[p], fd[p], <<d>>)
    BY <1>2, <2>1, MoveHeld
  <2>3. \A j \in Inum : ref'[j] = ref[j] + HeldBy(l, cwd[p], fd[p], <<d>>, j) - HeldBy(loc[p], cwd[p], fd[p], todo[p], j)
    BY <1>1, <2>2, LikeRefs
  <2> QED
    BY <1>1, <1>2, <1>3, <1>8, <1>9, <1>19, <2>3, LoudTypes
<1>21. \A j \in Inum : HasDots(j) => ents'[j]["."] = j /\ ents'[j][".."] = Root
  <2>1. SUFFICES ASSUME NEW j \in Inum, HasDots(j) PROVE ents'[j]["."] = j /\ ents'[j][".."] = Root
    OBVIOUS
  <2>2. j # i
    BY <1>3, <2>1, NoInode DEF HasDots, Bare, Dots
  <2> QED
    BY <1>11, <2>1, <2>2 DEF HasDots
<1>22. ASSUME NEW q \in Procs, q # p PROVE Spares(p, q)
  <2>1. loc[q].pc = "c_init" => /\ loc'[p].at # loc[q].ip /\ loc'[p].dp # loc[q].ip
                                /\ loc'[p].ip # loc[q].ip /\ cwd'[p] # loc[q].ip
                                /\ d # loc[q].ip /\ i # loc[q].ip /\ loc[q].ip \in Inum
    BY <1>4, <1>8, <1>15, <1>22, FreshOf, NoInode
  <2>2. \A j \in Inum : (lock[j] = q => j # d /\ j # i) /\ (lock'[j] = q <=> lock[j] = q)
    BY <1>3, <1>14, <1>22, NoInode
  <2>3. put[q] = "release" /\ disk'[Next1(q)].type # "free" =>
          \E r \in Procs : loc'[r].pc = "c_init" /\ loc'[r].ip = Next1(q)
    <3>1. SUFFICES ASSUME put[q] = "release", disk'[Next1(q)].type # "free"
                   PROVE  \E r \in Procs : loc'[r].pc = "c_init" /\ loc'[r].ip = Next1(q)
      OBVIOUS
    <3>2. Next1(q) \in Inum /\ lock[Next1(q)] = q
      BY <3>1, Released
    <3>3. disk[Next1(q)].type # "free" /\ Next1(q) # i
      BY <1>12, <2>2, <3>1, <3>2
    <3>4. PICK r \in Procs : loc[r].pc = "c_init" /\ loc[r].ip = Next1(q)
      BY <3>1, <3>3 DEF Inv, Truncs, Alive
    <3>5. r # p
      BY <1>4, <3>3, <3>4
    <3>6. loc'[r] = loc[r]
      BY <1>15, <3>4, <3>5, Untouched
    <3> QED
      BY <3>4, <3>6
  <2>4. put[q] = "trunc" => ref'[Next1(q)] = ref[Next1(q)] /\ disk'[Next1(q)].nlink = disk[Next1(q)].nlink
    <3>1. put[q] = "trunc" => Next1(q) \in Inum /\ lock[Next1(q)] = q
      BY Released
    <3> QED
      BY <1>1, <1>12, <2>2, <3>1
  <2> QED
    BY <1>11, <1>12, <1>21, <2>1, <2>2, <2>3, <2>4 DEF Spares, HasDots
<1>23. Shape(p)' /\ Living(p)' /\ Dirs(p)' /\ Making(p)' /\ Erasing(p)' /\ Fresh(p)' /\ Truncs(p)' /\ Locks(p)'
  <2>1. Shape(p)'
    BY <1>2, <1>3, <1>4, <1>8, <1>15, <1>16 DEF Shape, ShapeOf, AtPlaces, DpPlaces, IpPlaces
  <2>2. (cwd[p] # None => cwd[p] \in Inum) /\ (fd[p] # None => fd[p] \in Inum)
    BY <1>2 DEF Opt
  <2>3. Living(p)'
    BY <1>2, <1>3, <1>8, <1>12, <1>15, <2>2 DEF LivingOf, Living, Alive
  <2>4. disk'[i].type = "dir" => ents'[i]["."] = i /\ ents'[i][".."] = Root
    BY <1>3, <1>4, <1>6, <1>11, <1>12 DEF IsDir
  <2>5. disk'[cwd[p]].type = "dir" /\ ents'[cwd[p]]["."] = cwd[p] /\ ents'[cwd[p]][".."] = Root
    BY <1>2, <1>3, <1>12, <1>21, <2>2 DEF DirsOf, IsDir
  <2>6. Dirs(p)'
    BY <1>3, <1>4, <1>8, <1>15, <1>16, <2>4, <2>5 DEF Dirs, IsDir, HasDots
  <2>7. Making(p)' /\ Erasing(p)' /\ Fresh(p)' /\ Truncs(p)'
    BY <1>8, <1>15 DEF Making, Erasing, Fresh, Truncs
  <2>8. Locks(p)'
    <3>1. Locks(p)
      BY DEF Inv
    <3>2. \A j \in Inum : HasLock(p, j)' <=> j = i
      BY <1>8, <1>15 DEF HasLock
    <3>3. \A j \in Inum : HasLock(p, j) <=> j = d
      BY <1>2, <1>3, <1>4 DEF HasLock
    <3> QED
      BY <1>3, <1>14, <3>1, <3>2, <3>3, NoInode DEF Locks
  <2> QED
    BY <2>1, <2>3, <2>6, <2>7, <2>8
<1>24. ASSUME NEW j \in Inum PROVE Copied(j)' /\ Kept(j)'
  <2>1. Copied(j) /\ Kept(j)
    BY DEF Inv
  <2>2. CASE j = d
    <3>1. mem'[d].type # "free" /\ mem'[d].type = disk'[d].type /\ mem'[d].nlink = disk'[d].nlink /\ mem'[d].valid
      BY <1>3, <1>7, <1>12, <1>13 DEF IsDir
    <3>2. ref'[d] > 0
      BY <1>1, <1>3, <1>5
    <3> QED
      BY <2>2, <3>1, <3>2 DEF Copied, Kept
  <2>3. CASE j = i
    <3>1. mem'[i].type # "free" /\ mem'[i].type = disk'[i].type /\ mem'[i].nlink = disk'[i].nlink /\ mem'[i].valid
      BY <1>3, <1>6, <1>7, <1>12, <1>13
    <3>2. ref'[i] > 0
      BY <1>1, <1>3, <1>5
    <3> QED
      BY <2>3, <3>1, <3>2 DEF Copied, Kept
  <2>4. CASE j # d /\ j # i
    <3>1. mem'[j] = mem[j] /\ disk'[j] = disk[j] /\ lock'[j] = lock[j] /\ ref'[j] = ref[j]
      BY <1>1, <1>12, <1>13, <1>14, <2>4
    <3>2. \A q \in Procs : loc[q].pc = "c_init" /\ loc[q].ip = j => loc'[q] = loc[q]
      BY <1>4, <1>15, <2>4, Untouched
    <3>3. put[p] # "release"
      BY <1>2
    <3>4. Copied(j)'
      BY <1>15, <3>1, <3>3, CopiedSame
    <3> QED
      BY <1>18, <2>1, <3>1, <3>2, <3>4 DEF Kept, Alive
  <2> QED
    BY <2>2, <2>3, <2>4

<1>25. ASSUME NEW j \in Inum
       PROVE  Owed(disk', ents', loc', j) = Owed(disk, ents, loc, j) + (Same(i, j) + (IF y /\ j = Root THEN 1 ELSE 0))
  <2> DEFINE s == Same(i, j)
             sub == IF y /\ j = Root THEN 1 ELSE 0
             o == Owed(disk, ents, loc, j)
  <2>1. Count(Entry, NamesIn(ents'), j) = Count(Entry, NamesIn(ents), j) + s
    <3>1. Count(Entry, NamesIn(ents'), j) = Count(Entry, NamesIn(ents), j) - Same(ents[d][n], j) + Same(ents'[d][n], j)
      BY <1>3, <1>11, NamesMove
    <3>2. Same(ents[d][n], j) = 0 /\ Same(ents'[d][n], j) = s
      BY <1>3, <1>11, SameNone
    <3> DEFINE z == Count(Entry, NamesIn(ents), j)
    <3>3. z \in Int /\ s \in Int
      BY OwedIs, SameNat
    <3> HIDE DEF s, z
    <3> QED
      BY <3>1, <3>2, <3>3 DEF z
  <2>2. Count(Inum, KidsIn(disk', ents'), j) = Count(Inum, KidsIn(disk, ents), j) + sub
    <3> DEFINE z == Count(Inum, KidsIn(disk, ents), j)
               z1 == Count(Inum, KidsIn(disk', ents'), j)
    <3>1. z \in Int
      BY OwedIs
    <3>2. \A h \in Inum \ {i} : HasName(ents', h) <=> HasName(ents, h)
      <4>1. SUFFICES ASSUME NEW h \in Inum, h # i PROVE HasName(ents', h) <=> HasName(ents, h)
        OBVIOUS
      <4>2. h # None
        BY NoInode
      <4>3. HasName(ents', h) => HasName(ents, h)
        BY <1>11, <4>1 DEF HasName
      <4>4. HasName(ents, h) => HasName(ents', h)
        BY <1>3, <1>11, <4>2 DEF HasName
      <4> QED
        BY <4>3, <4>4
    <3>3. HasName(ents', i) /\ ~HasName(ents, i)
      BY <1>3, <1>11, <1>17 DEF HasName
    <3>4. CASE y
      <4>1. \A h \in Inum \ {i} : disk[h].type = "dir" /\ HasName(ents, h) <=> disk'[h].type = "dir" /\ HasName(ents', h)
        BY <1>12, <3>2
      <4>2. z1 = z - Same(KidsIn(disk, ents)[i], j) + Same(KidsIn(disk', ents')[i], j)
        BY <1>3, <4>1, KidsMove
      <4>3. KidsIn(disk, ents)[i] = None
        BY <1>3, <3>3, KidIs
      <4>4. KidsIn(disk', ents')[i] = Root
        BY <1>3, <1>6, <1>12, <3>3, <3>4, KidIs DEF IsDir
      <4>5. Same(KidsIn(disk, ents)[i], j) = 0 /\ Same(KidsIn(disk', ents')[i], j) = sub
        BY <3>4, <4>3, <4>4, SameNone DEF Same
      <4> HIDE DEF z, z1, sub
      <4>6. sub \in Int
        BY DEF sub
      <4>7. z1 = z + sub
        BY <3>1, <4>2, <4>5, <4>6
      <4> QED
        BY <4>7 DEF z, z1
    <3>5. CASE ~y
      <4>1. \A h \in Inum : disk[h].type = "dir" /\ HasName(ents, h) <=> disk'[h].type = "dir" /\ HasName(ents', h)
        BY <1>6, <1>12, <3>2, <3>5 DEF IsDir
      <4>2. z1 = z
        BY <4>1, KidsSame
      <4> QED
        BY <3>1, <3>5, <4>2
    <3> QED
      BY <3>4, <3>5
  <2>3. /\ Same(LinkIp(loc'[p]), j) = 0 /\ Same(LinkIp(loc[p]), j) = 0
        /\ Same(DecIp(loc'[p]), j) = 0 /\ Same(DecIp(loc[p]), j) = 0
    BY <1>2, <1>4, <1>8, <1>15, <1>16, SameNone DEF LinkIp, DecIp
  <2>4. s \in Int /\ o \in Int /\ sub \in Int
    BY OwedIs, SameNat
  <2> HIDE DEF s, sub, o
  <2>6. Owed(disk', ents', loc', j)
          = Owed(disk, ents, loc, j) + ((s + sub) + ((Same(LinkIp(loc'[p]), j) - Same(LinkIp(loc[p]), j))
                                                    + (Same(DecIp(loc'[p]), j) - Same(DecIp(loc[p]), j))))
    BY <1>15, <2>1, <2>2, <2>4, OwedMove
  <2>7. Owed(disk', ents', loc', j) = o + ((s + sub) + ((0 - 0) + (0 - 0)))
    BY <2>3, <2>6 DEF o
  <2>8. o + ((s + sub) + ((0 - 0) + (0 - 0))) = o + (s + sub)
    BY <2>4
  <2> QED
    BY <2>7, <2>8 DEF o, s, sub
<1>26. ASSUME NEW j \in Inum PROVE Counted(j)' /\ Orphans(j)'
  <2>1. Counted(j) /\ Orphans(j)
    BY DEF Inv
  <2> DEFINE o == Owed(disk, ents, loc, j)
             o1 == Owed(disk', ents', loc', j)
  <2>2. CASE j = i
    <3>1. o1 = o + (1 + 0) /\ o = 0
      BY <1>17, <1>25, <2>2, SameNone
    <3>2. disk'[j].nlink = 1
      BY <1>12, <2>2
    <3> HIDE DEF o, o1
    <3>3. o1 = 1
      BY <3>1
    <3>4. Counted(j)'
      BY <3>2, <3>3 DEF Counted, o1
    <3>5. Orphans(j)'
      BY <3>2 DEF Orphans
    <3> QED
      BY <3>4, <3>5
  <2>3. CASE y /\ j = Root
    <3>1. o1 = o + (0 + 1) /\ o \in Int
      BY <1>17, <1>25, <2>3, OwedIs DEF Same
    <3>2. disk'[j].nlink = disk[j].nlink + 1 /\ disk[j].nlink \in Nat
      BY <1>4, <1>5, <1>10, <1>12, <2>3
    <3> DEFINE z == disk[j].nlink
               z1 == disk'[j].nlink
    <3>3. Alive(j) => z >= o /\ (j \notin stray => z = o)
      BY <2>1 DEF Counted
    <3> HIDE DEF o, o1, z, z1
    <3>4. z1 = z + 1 /\ z \in Nat
      BY <3>2 DEF z, z1
    <3>5. Alive(j) => z1 >= o1 /\ (j \notin stray => z1 = o1)
      BY <3>1, <3>3, <3>4
    <3>6. Counted(j)'
      BY <1>12, <1>18, <3>5 DEF Counted, Alive, o1, z1
    <3>7. disk'[j].nlink # 0
      BY <3>2
    <3> QED
      BY <3>6, <3>7 DEF Orphans
  <2>4. CASE j # i /\ ~(y /\ j = Root)
    <3>1. o1 = o + (0 + 0) /\ o \in Int
      BY <1>25, <2>4, OwedIs DEF Same
    <3>2. disk'[j].nlink = disk[j].nlink
      BY <1>4, <1>5, <1>10, <1>12, <2>4
    <3> HIDE DEF o, o1
    <3>3. o1 = o
      BY <3>1
    <3>4. Counted(j)'
      BY <1>12, <1>18, <2>1, <3>2, <3>3 DEF Counted, Alive, o, o1
    <3>5. Orphans(j)'
      BY <1>11, <1>12, <1>18, <2>1, <3>2 DEF Orphans, IsDir
    <3> QED
      BY <3>4, <3>5
  <2> QED
    BY <2>2, <2>3, <2>4
<1>27. Entries' /\ OneName' /\ RootOK' /\ FreeBare'
  <2>1. ASSUME NEW e \in Inum, NEW m \in Names, ents'[e][m] # None, e # d \/ m # n
        PROVE  ents'[e][m] = ents[e][m] /\ ents[e][m] \in Inum /\ ents[e][m] # i
    <3>1. ents'[e][m] = ents[e][m]
      BY <1>11, <2>1
    <3> QED
      BY <1>17, <2>1, <3>1, NameCounts
  <2>2. Entries'
    <3>1. SUFFICES ASSUME NEW e \in Inum, NEW m \in Names, ents'[e][m] # None
                   PROVE  /\ disk'[e].type = "dir" /\ ents'[e]["."] = e /\ ents'[e][".."] = Root
                          /\ ents'[e][m] # Root /\ disk'[ents'[e][m]].type # "free"
                          /\ disk'[ents'[e][m]].type = "dir" => /\ e = Root /\ ents'[ents'[e][m]]["."] = ents'[e][m]
                                                               /\ ents'[ents'[e][m]][".."] = Root
      BY DEF Entries, IsDir, Alive, HasDots
    <3>2. CASE e = d /\ m = n
      <4>1. disk'[d].type = "dir" /\ ents'[d]["."] = d /\ ents'[d][".."] = Root
        BY <1>3, <1>12, <1>21 DEF IsDir
      <4>2. disk'[i].type = disk[i].type
        BY <1>3, <1>12
      <4> QED
        BY <1>4, <1>6, <1>11, <1>17, <3>2, <4>1, <4>2 DEF IsDir
    <3>3. CASE e # d \/ m # n
      <4>1. ents'[e][m] = ents[e][m] /\ ents[e][m] \in Inum
        BY <2>1, <3>1, <3>3
      <4>2. /\ IsDir(e) /\ HasDots(e) /\ ents[e][m] # Root /\ Alive(ents[e][m])
            /\ IsDir(ents[e][m]) => e = Root /\ HasDots(ents[e][m])
        BY <3>1, <4>1 DEF Inv, Entries
      <4> QED
        BY <1>12, <1>21, <4>1, <4>2 DEF IsDir, Alive
    <3> QED
      BY <3>2, <3>3
  <2>3. OneName'
    <3>1. SUFFICES ASSUME NEW e \in Inum, NEW f \in Inum, NEW h \in Names, NEW m \in Names,
                          ents'[e][h] # None, ents'[e][h] = ents'[f][m], disk'[ents'[e][h]].type = "dir"
                   PROVE  e = f /\ h = m
      BY DEF OneName, IsDir
    <3>2. CASE (e # d \/ h # n) /\ (f # d \/ m # n)
      <4>1. ents'[e][h] = ents[e][h] /\ ents'[f][m] = ents[f][m] /\ ents[e][h] \in Inum
        BY <2>1, <3>1, <3>2
      <4>2. ents[e][h] # None /\ ents[e][h] = ents[f][m] /\ IsDir(ents[e][h])
        BY <1>12, <3>1, <4>1 DEF IsDir
      <4> QED
        BY <4>2 DEF Inv, OneName
    <3>3. CASE e = d /\ h = n
      BY <1>11, <2>1, <3>1, <3>3
    <3>4. CASE f = d /\ m = n
      BY <1>11, <2>1, <3>1, <3>4
    <3> QED
      BY <3>2, <3>3, <3>4
  <2>4. RootOK'
    <3>1. IsDir(Root) /\ HasDots(Root)
      BY DEF Inv, RootOK
    <3> QED
      BY <1>12, <1>18, <1>21, <3>1, NoInode DEF RootOK, IsDir, HasDots
  <2>5. FreeBare'
    <3>1. SUFFICES ASSUME NEW j \in Inum, disk'[j].type = "free" PROVE \A m \in Names \cup Dots : ents'[j][m] = None
      BY DEF FreeBare, Alive, Bare
    <3>2. ~Alive(j) /\ j # d /\ j # i
      BY <1>3, <1>12, <3>1 DEF Alive
    <3> QED
      BY <1>11, <3>2 DEF Inv, FreeBare, Bare
  <2> QED
    BY <2>2, <2>3, <2>4, <2>5
<1> QED
  BY <1>15, <1>20, <1>22, <1>23, <1>24, <1>26, <1>27, LoudStep

-----------------------------------------------------------------------------
(* The invariant holds from the start, and every step keeps it.             *)

\* What does not occur is not counted.
LEMMA CountZero ==
  ASSUME NEW S, IsFiniteSet(S), NEW f, NEW v, \A s \in S : f[s] # v
  PROVE  Count(S, f, v) = 0
BY CountNone

\* It holds of a new file system.
LEMMA InitInv == ASSUME Init PROVE Inv
<1>1. /\ disk = [i \in Inum |-> IF i = Root THEN [type |-> "dir", nlink |-> 1] ELSE [type |-> "free", nlink |-> 0]]
      /\ ents = [i \in Inum |-> [n \in Names \cup Dots |-> IF i = Root /\ n \in Dots THEN Root ELSE None]]
      /\ ref = [i \in Inum |-> IF i = Root THEN Cardinality(Procs) ELSE 0]
      /\ mem = [i \in Inum |-> [valid |-> FALSE, type |-> "free", nlink |-> 0]]
      /\ lock = [i \in Inum |-> None] /\ cwd = [p \in Procs |-> Root] /\ fd = [p \in Procs |-> None]
      /\ loc = [p \in Procs |-> Idle] /\ todo = [p \in Procs |-> <<>>] /\ put = [p \in Procs |-> "test"]
      /\ lost = 0 /\ stray = {}
  BY DEF Init
<1>2. Root \in Inum /\ None \notin Inum /\ Root # None /\ None = 0
  BY NoInode DEF None
<1>3. \A i \in Inum : /\ disk[i].type = (IF i = Root THEN "dir" ELSE "free")
                      /\ disk[i].nlink = (IF i = Root THEN 1 ELSE 0)
                      /\ \A n \in Names \cup Dots : ents[i][n] = IF i = Root /\ n \in Dots THEN Root ELSE None
                      /\ mem[i].valid = FALSE /\ lock[i] = None
                      /\ ref[i] = (IF i = Root THEN Cardinality(Procs) ELSE 0)
  BY <1>1
<1>4. \A p \in Procs : loc[p] = Idle /\ cwd[p] = Root /\ fd[p] = None /\ todo[p] = <<>> /\ put[p] = "test"
                       /\ Next1(p) = None /\ Next2(p) = None
  BY <1>1, NthOf DEF Next1, Next2
<1>5. Idle \in Local /\ Idle.pc = "idle" /\ Idle.at = None /\ Idle.dp = None /\ Idle.ip = None /\ ~Linking(Idle)
  BY IdleIs DEF Linking
<1>6. \A n \in Names : n \notin Dots
  BY DirectoryAssumption
<1>7. "." \in Dots /\ ".." \in Dots
  BY DEF Dots
<1>8. \A i \in Inum : \A n \in Names : ents[i][n] = None
  BY <1>3, <1>6
<1>9. IsDir(Root) /\ HasDots(Root) /\ Alive(Root) /\ \A i \in Inum : i # Root => ~Alive(i) /\ ~IsDir(i)
  BY <1>2, <1>3, <1>7 DEF IsDir, HasDots, Alive
<1>10. IsFiniteSet(Procs) /\ Cardinality(Procs) \in Nat
  BY DirectoryAssumption, FS_CardinalityType
<1>11. AllTypes
  <2>1. disk \in [Inum -> Dinode]
    <3>1. [type |-> "dir", nlink |-> 1] \in Dinode /\ [type |-> "free", nlink |-> 0] \in Dinode
      BY DEF Dinode, Types
    <3> QED
      BY <1>1, <3>1
  <2>2. ents \in [Inum -> [Names \cup Dots -> Inum \cup {None}]]
    BY <1>1, <1>2
  <2>3. ref \in [Inum -> Nat]
    BY <1>1, <1>10
  <2>4. mem \in [Inum -> [valid : BOOLEAN, type : {"free", "dir", "file", "dev"}, nlink : Nat]]
    BY <1>1
  <2>5. /\ lock \in [Inum -> Procs \cup {None}] /\ cwd \in [Procs -> Inum \cup {None}] /\ fd \in [Procs -> Inum \cup {None}]
        /\ put \in [Procs -> {"test", "trunc", "release", "drop"}] /\ lost \in Nat /\ stray \subseteq Inum
    BY <1>1, <1>2
  <2>6. loc \in [Procs -> Local]
    BY <1>1, <1>5
  <2>7. todo \in [Procs -> Todo]
    BY <1>1 DEF Todo
  <2> QED
    BY <2>1, <2>2, <2>3, <2>4, <2>5, <2>6, <2>7 DEF AllTypes
<1>12. ASSUME NEW p \in Procs
       PROVE  Shape(p) /\ Living(p) /\ Dirs(p) /\ Making(p) /\ Erasing(p) /\ Fresh(p) /\ Locks(p) /\ Truncs(p)
  <2>1. /\ loc[p] = Idle /\ cwd[p] = Root /\ fd[p] = None /\ put[p] = "test" /\ Next1(p) = None /\ Next2(p) = None
    BY <1>4
  <2>2. Shape(p)
    BY <1>2, <1>5, <2>1 DEF Shape, AtPlaces, DpPlaces, IpPlaces
  <2>3. Living(p) /\ Dirs(p)
    BY <1>2, <1>5, <1>9, <2>1 DEF Living, Dirs
  <2>4. Making(p) /\ Erasing(p) /\ Fresh(p) /\ Truncs(p)
    BY <1>5, <2>1 DEF Making, Erasing, Fresh, Truncs
  <2>5. Locks(p)
    BY <1>3, <1>5, <2>1, NoInode DEF Locks, HasLock
  <2> QED
    BY <2>2, <2>3, <2>4, <2>5
<1>13. RefSum
  <2>1. SUFFICES ASSUME NEW i \in Inum
                 PROVE  ref[i] = HeldOf(loc, cwd, fd, todo, i) + (IF i = Root THEN lost ELSE 0)
    BY DEF RefSum
  <2>2. i # None
    BY <1>2
  <2>3. Count(Procs \X Fields, InLoc(loc), i) = 0
    <3>1. ASSUME NEW s \in Procs \X Fields PROVE InLoc(loc)[s] # i
      <4>1. InLoc(loc)[s] = loc[s[1]][s[2]] /\ s[1] \in Procs /\ s[2] \in Fields
        BY DEF InLoc
      <4> QED
        BY <1>4, <1>5, <2>2, <4>1 DEF Fields
    <3> QED
      BY <3>1, ProcSets, CountZero
  <2>4. Count(Procs, fd, i) = 0
    BY <1>4, <2>2, ProcSets, CountZero
  <2>5. Count(Procs \X {1, 2}, InTodo(todo), i) = 0
    <3>1. ASSUME NEW s \in Procs \X {1, 2} PROVE InTodo(todo)[s] # i
      <4>1. InTodo(todo)[s] = Nth(todo[s[1]], s[2]) /\ s[1] \in Procs /\ s[2] \in {1, 2}
        BY DEF InTodo
      <4>2. todo[s[1]] = <<>>
        BY <1>4, <4>1
      <4> QED
        BY <2>2, <4>1, <4>2, NthOf
    <3> QED
      BY <3>1, ProcSets, CountZero
  <2>6. Count(Procs, cwd, i) = ref[i]
    <3>1. CASE i = Root
      <4>1. {s \in Procs : cwd[s] = i} = Procs
        BY <1>4, <3>1
      <4> QED
        BY <1>3, <3>1, <4>1 DEF Count
    <3>2. CASE i # Root
      <4>1. \A s \in Procs : cwd[s] # i
        BY <1>4, <3>2
      <4>2. Count(Procs, cwd, i) = 0
        BY <4>1, ProcSets, CountZero
      <4> QED
        BY <1>3, <3>2, <4>2
    <3> QED
      BY <3>1, <3>2
  <2> DEFINE r == ref[i]
  <2>7. r \in Nat
    BY <1>3, <1>10
  <2>8. HeldOf(loc, cwd, fd, todo, i) = (0 + (r + 0)) + 0 /\ (IF i = Root THEN lost ELSE 0) = 0
    BY <1>1, <2>3, <2>4, <2>5, <2>6 DEF HeldOf
  <2> HIDE DEF r
  <2>9. HeldOf(loc, cwd, fd, todo, i) + (IF i = Root THEN lost ELSE 0) = r
    BY <2>7, <2>8
  <2> QED
    BY <2>9 DEF r
<1>14. ASSUME NEW i \in Inum PROVE Copied(i) /\ Counted(i) /\ Orphans(i) /\ Kept(i)
  <2>1. Copied(i)
    BY <1>3 DEF Copied
  <2>2. Counted(i)
    <3>1. CASE i = Root
      <4>1. Count(Entry, NamesIn(ents), i) = 0
        <5>1. ASSUME NEW s \in Entry PROVE NamesIn(ents)[s] # i
          <6>1. NamesIn(ents)[s] = ents[s[1]][s[2]] /\ s[1] \in Inum /\ s[2] \in Names
            BY DEF NamesIn, Entry
          <6> QED
            BY <1>2, <1>8, <6>1
        <5> QED
          BY <5>1, LinkSets, CountZero
      <4>2. Count(Inum, KidsIn(disk, ents), i) = 0
        <5>1. ASSUME NEW j \in Inum PROVE KidsIn(disk, ents)[j] # i
          <6>1. ~HasName(ents, j)
            BY <1>2, <1>8 DEF HasName
          <6> QED
            BY <1>2, <6>1, KidIs
        <5> QED
          BY <5>1, LinkSets, CountZero
      <4>3. Count(Procs, LinkersIn(loc), i) = 0 /\ Count(Procs, DecsIn(loc), i) = 0
        <5>1. \A s \in Procs : LinkersIn(loc)[s] # i /\ DecsIn(loc)[s] # i
          BY <1>2, <1>4, <1>5 DEF LinkersIn, DecsIn
        <5> QED
          BY <5>1, LinkSets, CountZero
      <4>4. Owed(disk, ents, loc, i) = (0 + (0 + 1)) + (0 + 0)
        BY <3>1, <4>1, <4>2, <4>3, OwedIs
      <4>5. Owed(disk, ents, loc, i) = 1
        BY <4>4
      <4> QED
        BY <1>3, <3>1, <4>5 DEF Counted
    <3>2. CASE i # Root
      BY <1>9, <3>2 DEF Counted
    <3> QED
      BY <3>1, <3>2
  <2>3. Orphans(i)
    BY <1>8 DEF Orphans
  <2>4. Kept(i)
    BY <1>3 DEF Kept, Alive
  <2> QED
    BY <2>1, <2>2, <2>3, <2>4
<1>15. Entries /\ OneName
  BY <1>8 DEF Entries, OneName
<1>16. RootOK
  BY <1>1, <1>9 DEF RootOK
<1>17. FreeBare
  BY <1>3, <1>9 DEF FreeBare, Bare
<1>18. LostFew
  <2>1. Climbing = {}
    BY <1>4, <1>5 DEF Climbing
  <2>2. Cardinality(Climbing) = 0
    BY <2>1, FS_EmptySet
  <2> QED
    BY <1>1, <1>10, <2>2, DirectoryAssumption DEF LostFew
<1> QED
  BY <1>11, <1>12, <1>13, <1>14, <1>15, <1>16, <1>17, <1>18 DEF Inv

\* It holds after no step,
LEMMA StutterInv == ASSUME Inv, UNCHANGED vars PROVE Inv'
<1>1. UNCHANGED <<disk, ents, ref, mem, lock, cwd, fd, loc, todo, put, lost, stray>>
  BY DEF vars, fs
<1>2. AllTypes'
  BY <1>1 DEF Inv, AllTypes
<1>3. ASSUME NEW p \in Procs
      PROVE  Shape(p)' /\ Living(p)' /\ Dirs(p)' /\ Making(p)' /\ Erasing(p)' /\ Fresh(p)' /\ Locks(p)' /\ Truncs(p)'
  <2>1. Shape(p) /\ Living(p) /\ Dirs(p) /\ Making(p) /\ Erasing(p) /\ Fresh(p) /\ Locks(p) /\ Truncs(p)
    BY DEF Inv
  <2>2. Shape(p)'
    BY <1>1, <2>1 DEF Shape, Next1
  <2>3. Living(p)' /\ Dirs(p)'
    BY <1>1, <2>1 DEF Living, Dirs, Next1, Next2, Alive, IsDir, HasDots
  <2>4. Making(p)' /\ Erasing(p)' /\ Fresh(p)'
    BY <1>1, <2>1 DEF Making, Erasing, Fresh, Bare, Last, IsDir
  <2>5. Locks(p)' /\ Truncs(p)'
    BY <1>1, <2>1 DEF Locks, HasLock, Truncs, Next1, Alive
  <2> QED
    BY <2>2, <2>3, <2>4, <2>5
<1>4. RefSum'
  BY <1>1 DEF Inv, RefSum
<1>5. ASSUME NEW i \in Inum PROVE Copied(i)' /\ Counted(i)' /\ Orphans(i)' /\ Kept(i)'
  <2>1. Copied(i) /\ Counted(i) /\ Orphans(i) /\ Kept(i)
    BY DEF Inv
  <2>2. Copied(i)'
    BY <1>1, <2>1 DEF Copied, Next1
  <2>3. Counted(i)' /\ Orphans(i)' /\ Kept(i)'
    BY <1>1, <2>1 DEF Counted, Orphans, Kept, Alive, IsDir
  <2> QED
    BY <2>2, <2>3
<1>6. Entries' /\ OneName' /\ RootOK' /\ FreeBare'
  <2>1. Entries'
    BY <1>1 DEF Inv, Entries, IsDir, HasDots, Alive
  <2>2. OneName'
    BY <1>1 DEF Inv, OneName, IsDir
  <2>3. RootOK' /\ FreeBare'
    BY <1>1 DEF Inv, RootOK, FreeBare, IsDir, HasDots, Alive, Bare
  <2> QED
    BY <2>1, <2>2, <2>3
<1>7. LostFew'
  BY <1>1 DEF Inv, LostFew, Climbing
<1> QED
  BY <1>2, <1>3, <1>4, <1>5, <1>6, <1>7 DEF Inv

\* and after every step.
LEMMA NextInv == ASSUME FlatCalls, Inv, Next PROVE Inv'
<1>1. PICK p \in Procs :
        \/ \E k \in Calls : Begin(p, k)
        \/ Namex(p) \/ Iput(p)
        \/ Open(p) \/ Close(p)
        \/ Create(p) \/ Bad(p)
        \/ Unlink(p) \/ Link(p)
        \/ Chdir(p) \/ Getcwd(p)
  BY DEF Next
<1>2. CASE \E k \in Calls : Begin(p, k)
  BY <1>2, BeginInv
<1>3. CASE Namex(p)
  BY <1>3, WalkEndInv, WalkMissInv, WalkStopInv, WalkDownInv DEF Namex
<1>4. CASE Iput(p)
  BY <1>4, PutDropInv, PutTakeInv, PutTruncInv, PutReleaseInv, PutLastInv DEF Iput
<1>5. CASE Open(p)
  BY <1>5, OpenInv
<1>6. CASE Close(p)
  BY <1>6, CloseInv
<1>7. CASE Create(p)
  BY <1>7, CreateLookupInv, CreateAllocInv, EmptyHandInv, CreateInitInv, CreateFailInv, CreateReturnInv,
     CreateFoundInv DEF Create
<1>8. CASE Bad(p)
  BY <1>8, BadInv
<1>9. CASE Unlink(p)
  BY <1>9, UnlinkLookupInv, EmptyHandInv, UnlinkRefuseInv, UnlinkEraseInv, UnlinkDecInv DEF Unlink
<1>10. CASE Link(p)
  BY <1>10, LinkIncInv, EmptyHandInv, LinkWriteInv, LinkBadInv, LinkUndoInv DEF Link
<1>11. CASE Chdir(p)
  BY <1>11, EmptyHandInv, ChdirPutInv, ChdirSetInv DEF Chdir
<1>12. CASE Getcwd(p)
  BY <1>12, GetcwdStartInv, GetcwdScanInv, GetcwdNextInv DEF Getcwd
<1> QED
  BY <1>1, <1>2, <1>3, <1>4, <1>5, <1>6, <1>7, <1>8, <1>9, <1>10, <1>11, <1>12

\* The invariant is inductive.
LEMMA SpecInv == ASSUME FlatCalls PROVE Spec => []Inv
<1>1. Inv /\ [Next]_vars => Inv'
  BY NextInv, StutterInv
<1> QED
  BY <1>1, InitInv, PTL DEF Spec

-----------------------------------------------------------------------------
(* What the invariant says to those who use the table and the names.        *)

\* What a process is about to lock is what it works on.
LEMMA WantsIs ==
  ASSUME Inv, NEW p \in Procs, Wants(p) # None
  PROVE  /\ todo[p] = <<>> /\ put[p] = "test" /\ At(p, loc[p].pc)
         /\ Wants(p) \in Inum /\ Holds(p, Wants(p)) /\ Alive(Wants(p))
         /\ loc[p].pc \notin {"bad", "c_return", "u_dec"}
         /\ loc[p].pc \in {"create", "unlink", "link_dir"} => Wants(p) = loc[p].dp
         /\ loc[p].pc = "g_scan" => Wants(p) = loc[p].at
         /\ loc[p].pc \in {"c_init", "u_child"} => Wants(p) = loc[p].ip
<1>1. todo[p] = <<>> /\ At(p, loc[p].pc)
  BY DEF Wants, At
<1>2. put[p] = "test" /\ loc[p] \in Local
  BY <1>1, AtIs
<1>3. \/ loc[p].pc \in {"walk", "g_scan"} /\ Wants(p) = loc[p].at
      \/ loc[p].pc \in {"create", "unlink", "link_dir"} /\ Wants(p) = loc[p].dp
      \/ /\ loc[p].pc \in {"open", "c_found", "c_init", "u_child", "link_inc", "link_undo", "chdir"}
         /\ Wants(p) = loc[p].ip
  BY <1>1 DEF Wants
<1>4. Wants(p) \in {loc[p].at, loc[p].dp, loc[p].ip}
  BY <1>3
<1>5. Wants(p) \in Inum /\ Holds(p, Wants(p))
  BY <1>2, <1>4 DEF Local, Opt, Holds
<1>6. Living(p)
  BY DEF Inv
<1>7. Alive(Wants(p))
  BY <1>4, <1>6 DEF Living
<1> QED
  BY <1>1, <1>2, <1>3, <1>5, <1>7

\* No panic is reached.
LEMMA InvNoPanic == ASSUME Inv PROVE NoPanic
<1>1. ASSUME NEW p \in Procs, Wants(p) # None
      PROVE  /\ ref[Wants(p)] >= 1
             /\ lock[Wants(p)] = None => Lockable(Wants(p))
             /\ lock[Wants(p)] = None /\ loc[p].pc = "u_child" => Copy(Wants(p)).nlink >= 1
             /\ lock[Wants(p)] = None /\ loc[p].pc \in {"create", "unlink", "link_dir", "g_scan"}
                  => Copy(Wants(p)).type = "dir"
  <2> DEFINE i == Wants(p)
  <2>1. i \in Inum /\ Holds(p, i) /\ Alive(i) /\ At(p, loc[p].pc) /\ AllTypes /\ RefSum
    BY <1>1, WantsIs DEF Inv
  <2>2. ref[i] >= 1
    BY <2>1, HeldPos
  <2>3. ASSUME lock[i] = None PROVE Lockable(i) /\ Copy(i).type = disk[i].type /\ Copy(i).nlink = disk[i].nlink
    <3>1. Lockable(i)
      BY <2>1, <2>3 DEF Lockable, Alive
    <3> QED
      BY <2>1, <3>1, LockIs
  <2>4. ASSUME lock[i] = None, loc[p].pc = "u_child" PROVE Copy(i).nlink >= 1
    <3>1. i = loc[p].ip /\ At(p, "u_child")
      BY <1>1, <2>1, <2>4, WantsIs
    <3>2. ents[loc[p].dp][Last(p)] = i /\ Last(p) \in Names /\ loc[p].dp \in Inum
      BY <2>3, <2>4, <3>1, EraserIs
    <3>3. ents[loc[p].dp][Last(p)] # None
      BY <2>1, <3>2, NoInode
    <3>4. disk[ents[loc[p].dp][Last(p)]].nlink >= 1
      BY <3>2, <3>3, NameCounts
    <3> QED
      BY <2>3, <2>4, <3>2, <3>4
  <2>5. ASSUME lock[i] = None, loc[p].pc \in {"create", "unlink", "link_dir", "g_scan"}
        PROVE  Copy(i).type = "dir"
    <3>1. Dirs(p) /\ i # None
      BY <1>1 DEF Inv
    <3>2. IsDir(i)
      BY <1>1, <2>5, <3>1, WantsIs DEF Dirs
    <3> QED
      BY <2>3, <2>5, <3>2 DEF IsDir
  <2> QED
    BY <2>2, <2>3, <2>4, <2>5
<1>2. ASSUME NEW p \in Procs, PutStart(p, "test"), LastPut(Head(todo[p]))
      PROVE  lock[Head(todo[p])] = None
  <2> DEFINE i == Next1(p)
  <2>1. Head(todo[p]) = i /\ i \in Inum /\ put[p] = "test"
    BY <1>2, PutNext DEF PutStart
  <2>2. ref[i] = 1
    BY <1>2, <2>1 DEF LastPut
  <2>3. SUFFICES ASSUME lock[i] # None PROVE FALSE
    BY <2>1
  <2> DEFINE q == lock[i]
  <2>4. q \in Procs /\ HasLock(q, i) /\ Holds(q, i)
    BY <2>1, <2>3, LockHeld
  <2>5. AllTypes /\ RefSum
    BY DEF Inv
  <2>6. loc[q].dp # i /\ loc[q].ip # i /\ (q # p => ~Holds(q, i))
    BY <2>1, <2>2, <2>4, <2>5, Sole
  <2>7. q = p
    BY <2>4, <2>6
  <2> QED
    BY <2>1, <2>4, <2>6, <2>7 DEF HasLock
<1> QED
  BY <1>1, <1>2 DEF NoPanic

\* Who waits while it has a lock is making or unlinking an entry of the directory
\* that it has locked.
LEMMA WaiterIs ==
  ASSUME Inv, NEW q \in Procs, Wants(q) # None, NEW i \in Inum, lock[i] = q
  PROVE  loc[q].pc \in {"c_init", "u_child"} /\ loc[q].dp = i /\ Wants(q) = loc[q].ip /\ IsDir(i)
<1>1. put[q] = "test" /\ loc[q].pc \notin {"bad", "c_return", "u_dec"}
  BY WantsIs
<1>2. HasLock(q, i)
  BY DEF Inv, Locks
<1>3. loc[q].pc \in {"c_init", "u_child"} /\ loc[q].dp = i
  BY <1>1, <1>2 DEF HasLock
<1>4. i # None /\ Dirs(q)
  BY NoInode DEF Inv
<1> QED
  BY <1>3, <1>4, WantsIs DEF Dirs

\* If what it waits for is a directory that another such process has locked, then the
\* entry is one of the root.
LEMMA WaitsBelow ==
  ASSUME Inv, NEW q \in Procs, Wants(q) # None, NEW i \in Inum, lock[i] = q,
         NEW r \in Procs, Wants(r) # None, lock[Wants(q)] = r
  PROVE  i = Root /\ Wants(q) # Root
<1>1. loc[q].pc \in {"c_init", "u_child"} /\ loc[q].dp = i /\ Wants(q) = loc[q].ip
  BY WaiterIs
<1>2. Wants(q) \in Inum
  BY WantsIs
<1>3. loc[r].dp = Wants(q) /\ IsDir(Wants(q))
  BY <1>2, WaiterIs
<1>4. Fresh(q) /\ Erasing(q)
  BY DEF Inv
<1>5. loc[q].pc = "u_child"
  BY <1>1, <1>3, <1>4 DEF Fresh
<1>6. ents[i][Last(q)] = Wants(q) /\ Last(q) \in Names
  BY <1>1, <1>4, <1>5 DEF Erasing
<1>7. ents[i][Last(q)] # None
  BY <1>2, <1>6, NoInode
<1>8. Entries
  BY DEF Inv
<1>9. ents[i][Last(q)] # Root /\ (IsDir(ents[i][Last(q)]) => i = Root)
  BY <1>6, <1>7, <1>8 DEF Entries
<1> QED
  BY <1>3, <1>6, <1>9

\* A circle of waiting processes would need two parents below the root.
LEMMA InvNoDeadlock == ASSUME Inv PROVE NoDeadlock
<1>1. SUFFICES ASSUME NEW S \in SUBSET Procs, NEW p \in S,
                      \A q \in S : Wants(q) # None /\ lock[Wants(q)] \in S
               PROVE  FALSE
  BY DEF NoDeadlock
<1> DEFINE q == lock[Wants(p)]
           r == lock[Wants(q)]
           s == lock[Wants(r)]
<1>2. p \in Procs /\ q \in S /\ q \in Procs
  BY <1>1
<1>3. r \in S /\ r \in Procs
  BY <1>1, <1>2
<1>4. s \in S /\ s \in Procs
  BY <1>1, <1>3
<1>5. Wants(p) # None /\ Wants(q) # None /\ Wants(r) # None /\ Wants(s) # None
  BY <1>1, <1>2, <1>3, <1>4
<1>6. Wants(p) \in Inum /\ Wants(q) \in Inum /\ Wants(r) \in Inum
  BY <1>2, <1>3, <1>5, WantsIs
<1>7. Wants(q) # Root
  BY <1>2, <1>3, <1>5, <1>6, WaitsBelow
<1>8. Wants(q) = Root
  BY <1>3, <1>4, <1>5, <1>6, WaitsBelow
<1> QED
  BY <1>7, <1>8

\* The types of the variables.
LEMMA InvTypes == ASSUME Inv PROVE TypeOK
<1>1. AllTypes /\ LostFew
  BY DEF Inv
<1>2. Cardinality(Climbing) \in Nat /\ Cardinality(Procs) \in Nat /\ MaxLost \in Nat
  <2>1. Climbing \subseteq Procs
    BY DEF Climbing
  <2>2. IsFiniteSet(Climbing) /\ IsFiniteSet(Procs)
    BY <2>1, DirectoryAssumption, FS_Subset
  <2> QED
    BY <2>2, DirectoryAssumption, FS_CardinalityType
<1>3. lost \in Nat
  BY <1>1 DEF AllTypes
<1> DEFINE n == Cardinality(Climbing)
           k == MaxLost + Cardinality(Procs)
<1>4. n \in Nat /\ k \in Nat /\ lost + n <= k
  BY <1>1, <1>2 DEF LostFew
<1> HIDE DEF n, k
<1>5. lost \in 0..k
  BY <1>3, <1>4
<1> QED
  BY <1>1, <1>5 DEF AllTypes, TypeOK, Types, k

\* References and copies.
LEMMA InvRefs == ASSUME Inv PROVE RefsExact
<1>1. RefExact
  BY HeldIs DEF Inv, RefSum, RefExact
<1>2. CopyExact
  BY DEF Inv, Copied, CopyExact
<1>3. OpenAllocated
  BY DEF Inv, Living, Alive, OpenAllocated
<1> QED
  BY <1>1, <1>2, <1>3 DEF RefsExact

\* Named, the property's set of names, in terms of Count.
LEMMA NamedIs ==
  ASSUME NEW i
  PROVE  IsFiniteSet(Named(i)) /\ Cardinality(Named(i)) = Count(Entry, NamesIn(ents), i)
<1>1. \A e \in Entry : NamesIn(ents)[e] = ents[e[1]][e[2]]
  BY DEF NamesIn, Entry
<1>2. Named(i) = {e \in Entry : NamesIn(ents)[e] = i}
  BY <1>1 DEF Named, Entry
<1>3. IsFiniteSet({e \in Entry : NamesIn(ents)[e] = i})
  BY LinkSets, FS_Subset
<1> QED
  BY <1>2, <1>3 DEF Count

\* Names are counted.
LEMMA InvLinksCover == ASSUME Inv PROVE LinksCover
<1>1. SUFFICES ASSUME NEW i \in Inum, NEW e \in Named(i)
               PROVE  disk[i].type # "free" /\ disk[i].nlink >= Cardinality(Named(i))
  BY DEF LinksCover
<1>2. e[1] \in Inum /\ e[2] \in Names /\ ents[e[1]][e[2]] = i
  BY DEF Named
<1>3. Alive(i)
  BY <1>2, NameCounts, NoInode
<1>4. AllTypes /\ Counted(i)
  BY DEF Inv
<1>5. disk[i].nlink \in Nat /\ disk[i].nlink >= Owed(disk, ents, loc, i)
  BY <1>3, <1>4 DEF Counted, AllTypes, Dinode
<1>6. Owed(disk, ents, loc, i) \in Nat /\ Owed(disk, ents, loc, i) >= Count(Entry, NamesIn(ents), i)
  <2> DEFINE u == IF i = Root THEN 1 ELSE 0
             x == Count(Entry, NamesIn(ents), i)
             y == Count(Inum, KidsIn(disk, ents), i)
             z == Count(Procs, LinkersIn(loc), i)
             w == Count(Procs, DecsIn(loc), i)
             o == Owed(disk, ents, loc, i)
  <2>1. o = (x + (y + u)) + (z + w) /\ u \in Nat /\ x \in Nat /\ y \in Nat /\ z \in Nat /\ w \in Nat
    BY OwedIs
  <2> HIDE DEF u, x, y, z, w, o
  <2>2. o \in Nat /\ o >= x
    BY <2>1
  <2> QED
    BY <2>2 DEF o, x
<1>7. Count(Entry, NamesIn(ents), i) \in Nat /\ Cardinality(Named(i)) = Count(Entry, NamesIn(ents), i)
  BY NamedIs, LinkSets, CountNat
<1> DEFINE x == Count(Entry, NamesIn(ents), i)
           o == Owed(disk, ents, loc, i)
<1>8. x \in Nat /\ o \in Nat /\ o >= x /\ disk[i].nlink >= o /\ disk[i].nlink \in Nat
  BY <1>5, <1>6, <1>7
<1> HIDE DEF x, o
<1>9. disk[i].nlink >= x
  BY <1>8
<1> QED
  BY <1>3, <1>7, <1>9 DEF x, Alive

\* A directory has one name.
LEMMA InvTreeShape == ASSUME Inv PROVE TreeShape
<1>1. SUFFICES ASSUME NEW i \in Inum, disk[i].type = "dir"
               PROVE  Cardinality(Named(i)) <= 1 /\ \A e \in Named(i) : ents[i][".."] = e[1]
  BY DEF TreeShape
<1>2. \A e \in Named(i) : e \in Inum \X Names /\ e[1] \in Inum /\ e[2] \in Names /\ ents[e[1]][e[2]] = i
  BY DEF Named
<1>3. Entries /\ OneName /\ i # None /\ IsDir(i)
  BY <1>1, NoInode DEF Inv, IsDir
<1>4. \A e \in Named(i) : e[1] = Root /\ ents[i][".."] = Root
  BY <1>2, <1>3 DEF Entries, HasDots
<1>5. \A e, f \in Named(i) : e = f
  <2>1. SUFFICES ASSUME NEW e \in Named(i), NEW f \in Named(i) PROVE e = f
    OBVIOUS
  <2>2. /\ e[1] \in Inum /\ e[2] \in Names /\ f[1] \in Inum /\ f[2] \in Names
        /\ ents[e[1]][e[2]] = i /\ ents[f[1]][f[2]] = i
    BY <1>2
  <2>3. e[1] = f[1] /\ e[2] = f[2]
    BY <1>3, <2>2 DEF OneName
  <2> QED
    BY <1>2, <2>3
<1>6. Cardinality(Named(i)) <= 1
  <2>1. CASE Named(i) = {}
    BY <2>1, FS_EmptySet
  <2>2. CASE Named(i) # {}
    <3>1. PICK e \in Named(i) : TRUE
      BY <2>2
    <3>2. Named(i) = {e}
      BY <1>5, <3>1
    <3>3. Cardinality(Named(i)) = 1
      BY <3>2, FS_Singleton
    <3> QED
      BY <3>3
  <2> QED
    BY <2>1, <2>2
<1> QED
  BY <1>4, <1>6

\* The subdirectories are the directories with a name.
LEMMA SubdirsAre ==
  ASSUME Inv, NEW i \in Inum
  PROVE  Cardinality(Subdirs(i)) = Count(Inum, KidsIn(disk, ents), i)
<1>1. ASSUME NEW j \in Inum PROVE j \in Subdirs(i) <=> KidsIn(disk, ents)[j] = i
  <2>1. Entries /\ i # None /\ j # None
    BY NoInode DEF Inv
  <2>2. KidsIn(disk, ents)[j] = i <=> IsDir(j) /\ HasName(ents, j) /\ i = Root
    BY <2>1, KidIs DEF IsDir
  <2>3. \A e \in Inum : \A n \in Names : ents[e][n] = j /\ IsDir(j) => e = Root
    BY <2>1 DEF Entries
  <2>4. IsDir(j) => (HasName(ents, j) /\ i = Root <=> \E n \in Names : ents[i][n] = j)
    BY <2>3 DEF HasName
  <2> QED
    BY <2>2, <2>4 DEF Subdirs, IsDir
<1>2. Subdirs(i) = {j \in Inum : KidsIn(disk, ents)[j] = i}
  BY <1>1 DEF Subdirs
<1> QED
  BY <1>2 DEF Count

\* Between calls nobody is about to write or take back a link.
LEMMA InvLinksExact == ASSUME Inv PROVE LinksExact
<1>1. SUFFICES ASSUME Quiescent, NEW i \in Inum \ stray, Alive(i)
               PROVE  disk[i].nlink = Links(i) /\ (disk[i].nlink = 0 => ref[i] > 0)
  BY DEF LinksExact, Exact, Alive
<1>2. Counted(i) /\ Kept(i) /\ i # None
  BY NoInode DEF Inv
<1>3. \A p \in Procs : loc[p].pc \in {"idle", "chdir2"}
  BY <1>1 DEF Quiescent
<1>4. Count(Procs, LinkersIn(loc), i) = 0 /\ Count(Procs, DecsIn(loc), i) = 0
  <2>1. \A p \in Procs : LinkersIn(loc)[p] # i /\ DecsIn(loc)[p] # i
    BY <1>2, <1>3 DEF LinkersIn, DecsIn, Linking
  <2> QED
    BY <2>1, LinkSets, CountZero
<1> DEFINE u == IF i = Root THEN 1 ELSE 0
           x == Count(Entry, NamesIn(ents), i)
           y == Count(Inum, KidsIn(disk, ents), i)
<1>5. disk[i].nlink = (x + (y + u)) + (0 + 0)
  BY <1>1, <1>2, <1>4, OwedIs DEF Counted
<1>6. Links(i) = x + y + u
  BY NamedIs, SubdirsAre DEF Links
<1>7. x \in Nat /\ y \in Nat /\ u \in Nat
  BY OwedIs
<1> HIDE DEF u, x, y
<1>8. disk[i].nlink = Links(i)
  BY <1>5, <1>6, <1>7
<1>9. disk[i].nlink = 0 => ref[i] > 0
  BY <1>1, <1>2 DEF Kept
<1> QED
  BY <1>8, <1>9

-----------------------------------------------------------------------------
(* The theorems.                                                            *)

\* The variables have their types, and the references that getcwd() loses stay
\* within the bound of the model.
THEOREM DirectoryTypes == ASSUME FlatCalls PROVE Spec => []TypeOK
<1>1. Inv => TypeOK
  BY InvTypes
<1> QED
  BY <1>1, SpecInv, PTL

\* ilock(), iput(), unlink() and dirlookup() never reach their panics, and no
\* processes wait for each other's inode locks in a circle, however many
\* processes make the calls and in whatever order.
THEOREM DirectoryNeverStuck == ASSUME FlatCalls PROVE Spec => []NeverStuck
<1>1. Inv => NeverStuck
  BY InvNoPanic, InvNoDeadlock DEF NeverStuck
<1> QED
  BY <1>1, SpecInv, PTL

\* ip->ref is the number of holders (and of the references to the root that
\* getcwd() has lost), an unlocked copy is what is on the disk, and what is open
\* or a current directory stays allocated.
THEOREM DirectoryRefsExact == ASSUME FlatCalls PROVE Spec => []RefsExact
<1>1. Inv => RefsExact
  BY InvRefs
<1> QED
  BY <1>1, SpecInv, PTL

\* An entry names an allocated inode that counts it, the directories are a tree
\* whose entries ".." lead back, and between calls nlink is exactly the number of
\* links, but for the inodes that the code has lost.
THEOREM DirectoryNamesExact == ASSUME FlatCalls PROVE Spec => []NamesExact
<1>1. Inv => NamesExact
  BY InvLinksCover, InvTreeShape, InvLinksExact DEF NamesExact
<1> QED
  BY <1>1, SpecInv, PTL
=============================================================================
