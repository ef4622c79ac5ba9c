---------------------------- MODULE FilesProofs ----------------------------
(***************************************************************************)
(* Lemmas about Files, for any number of processes, files, descriptors and  *)
(* blocks, any geometry of the inodes and any text.  The effect of each     *)
(* action is stated once (the lemmas in ...Keeps), with the invariant       *)
(* FilesInv: OpenInv for the disk as the calls see it, HomeOK for what of   *)
(* it is durable.  From it follow the counts, the blocks and the holes of   *)
(* FilesSafe and the step of ByteFiles of FilesBytes.                       *)
(***************************************************************************)
EXTENDS Files, FiniteSetTheorems, TLAPS

\* A set of numbers has a least one: the initial segments 0..q are well founded.
LEMMA Least ==
  ASSUME NEW S \in SUBSET Nat, S # {}
  PROVE  \E q \in S : \A r \in S : q <= r
<1> DEFINE T == {0..q : q \in S}
<1>1. T # {} /\ T \subseteq FiniteSubsetsOf(Nat)
  <2>1. \A q \in S : IsFiniteSet(0..q) /\ 0..q \in SUBSET Nat
    BY FS_Interval
  <2> QED
    BY <2>1 DEF FiniteSubsetsOf
<1>2. IsWellFoundedOn(StrictSubsetOrdering(Nat), FiniteSubsetsOf(Nat))
  BY FS_StrictSubsetOrderingWellFounded
<1> HIDE DEF T
<1>3. PICK I \in T : \A J \in T : <<J, I>> \notin StrictSubsetOrdering(Nat)
  BY <1>1, <1>2, WFMin
<1>4. PICK q \in S : I = 0..q
  BY DEF T
<1>5. ASSUME NEW r \in S PROVE q <= r
  <2> SUFFICES ASSUME r < q PROVE FALSE
    OBVIOUS
  <2>1. 0..r \in T
    BY DEF T
  <2>2. 0..r \subseteq 0..q /\ 0..r # 0..q /\ 0..r \in SUBSET Nat /\ 0..q \in SUBSET Nat
    OBVIOUS
  <2>3. <<0..r, I>> \in StrictSubsetOrdering(Nat)
    BY <1>4, <2>2 DEF StrictSubsetOrdering
  <2> QED
    BY <1>3, <2>1, <2>3
<1> QED
  BY <1>5

-----------------------------------------------------------------------------
(* The blocks of the file layer.                                            *)

MaxBytes == MAXFILE * BSIZE
Address == 0..NBlocks
Inode == [type : {"free", "file"}, nlink : {0, 1}, size : 0..MaxBytes, addrs : [0..NDIRECT -> Address]]
DiskType == [bitmap : SUBSET Blocks, data : [Blocks -> [0..BSIZE - 1 -> Nat]], ino : [Inodes -> Inode]]

\* The places of inode i that hold an address: those of its bytes, and the last
\* one for the indirect block.
Place == 0..MAXFILE
Ref(D, i, k) == IF k < MAXFILE THEN Slot(D, i, k) ELSE D.ino[i].addrs[NDIRECT]

\* The bitmap has the addresses in all places, and no address is in two.
Tidy(D) ==
  /\ D \in DiskType
  /\ \A i \in Inodes : D.ino[i].addrs[NDIRECT] # 0 =>
       \A n \in 0..NINDIRECT - 1 : D.data[D.ino[i].addrs[NDIRECT]][n] \in Address
  /\ \A i, j \in Inodes, k, l \in Place :
       Ref(D, i, k) = Ref(D, j, l) /\ Ref(D, i, k) # 0 => i = j /\ k = l
  /\ \A i \in Inodes, k \in Place : Ref(D, i, k) # 0 => Ref(D, i, k) \in D.bitmap
  /\ \A b \in D.bitmap : \E i \in Inodes, k \in Place : Ref(D, i, k) = b

Sizes ==
  /\ NFILE \in Nat \ {0} /\ NOFILE \in Nat \ {0} /\ NBlocks \in Nat \ {0} /\ BSIZE \in Nat \ {0}
  /\ NDIRECT \in Nat \ {0} /\ NINDIRECT \in Nat \ {0} /\ MaxChunk \in Nat \ {0}
  /\ NINDIRECT <= BSIZE /\ MAXFILE = NDIRECT + NINDIRECT /\ MAXFILE \in Nat \ {0}
  /\ MaxBytes \in Nat /\ Width \in Nat /\ Width > 2 * MaxBytes
  /\ Blocks = 1..NBlocks

LEMMA FileSizes == ASSUME FilesAssumption PROVE Sizes
<1>1. \A n \in {NFILE, NOFILE, NBlocks, BSIZE, NDIRECT, NINDIRECT, MaxChunk} : n \in Nat \ {0}
  BY DEF FilesAssumption
<1>2. MaxBytes \in Nat
  BY <1>1 DEF MaxBytes, MAXFILE
<1>3. 2 * MAXFILE * BSIZE = 2 * MaxBytes
  BY <1>1 DEF MaxBytes, MAXFILE
<1> QED
  BY <1>1, <1>2, <1>3 DEF FilesAssumption, MAXFILE, Blocks, Sizes

\* What the places hold.
LEMMA RefIs ==
  ASSUME FilesAssumption, NEW D, NEW i
  PROVE  /\ \A k \in 0..NDIRECT - 1 : Ref(D, i, k) = D.ino[i].addrs[k]
         /\ \A k \in NDIRECT..MAXFILE - 1 : Ref(D, i, k) =
              IF D.ino[i].addrs[NDIRECT] = 0 THEN 0
              ELSE D.data[D.ino[i].addrs[NDIRECT]][k - NDIRECT]
         /\ Ref(D, i, MAXFILE) = D.ino[i].addrs[NDIRECT]
         /\ \A k \in 0..MAXFILE - 1 : Ref(D, i, k) = Slot(D, i, k)
         /\ Place = 0..NDIRECT - 1 \cup NDIRECT..MAXFILE - 1 \cup {MAXFILE}
<1>sizes. Sizes
  BY FileSizes
<1> USE <1>sizes DEF Sizes
<1>1. \A k \in 0..NDIRECT - 1 : k < NDIRECT /\ k < MAXFILE
  OBVIOUS
<1>2. \A k \in NDIRECT..MAXFILE - 1 : ~(k < NDIRECT) /\ k < MAXFILE
  OBVIOUS
<1>3. \A k \in 0..MAXFILE - 1 : k < MAXFILE
  OBVIOUS
<1>4. ~(MAXFILE < MAXFILE)
  OBVIOUS
<1>5. Place = 0..NDIRECT - 1 \cup NDIRECT..MAXFILE - 1 \cup {MAXFILE}
  BY DEF Place
<1> QED
  BY <1>1, <1>2, <1>3, <1>4, <1>5 DEF Ref, Slot

LEMMA DiskTypes ==
  ASSUME NEW D \in DiskType
  PROVE  /\ D.bitmap \subseteq Blocks
         /\ \A b \in Blocks : D.data[b] \in [0..BSIZE - 1 -> Nat]
         /\ \A i \in Inodes : /\ D.ino[i] \in Inode /\ D.ino[i].addrs \in [0..NDIRECT -> Address]
                              /\ D.ino[i].size \in 0..MaxBytes
                              /\ \A k \in 0..NDIRECT : D.ino[i].addrs[k] \in Address
BY DEF DiskType, Inode

LEMMA RefType ==
  ASSUME FilesAssumption, NEW D, Tidy(D), NEW i \in Inodes, NEW k \in Place
  PROVE  Ref(D, i, k) \in Address /\ (Ref(D, i, k) # 0 => Ref(D, i, k) \in Blocks)
<1>1. Ref(D, i, k) \in Address
  <2>1. D \in DiskType
    BY DEF Tidy
  <2>2. CASE k \in 0..NDIRECT - 1
    <3>1. k \in 0..NDIRECT
      BY <2>2, FileSizes DEF Sizes
    <3> QED
      BY <2>1, <2>2, <3>1, RefIs, DiskTypes
  <2>3. CASE k \in NDIRECT..MAXFILE - 1
    <3>1. k - NDIRECT \in 0..NINDIRECT - 1
      BY <2>3, FileSizes DEF Sizes
    <3>2. 0 \in Address
      BY FileSizes DEF Address, Sizes
    <3> QED
      BY <2>3, <3>1, <3>2, RefIs DEF Tidy
  <2>4. CASE k = MAXFILE
    <3>1. NDIRECT \in 0..NDIRECT
      BY FileSizes DEF Sizes
    <3> QED
      BY <2>1, <2>4, <3>1, RefIs, DiskTypes
  <2> QED
    BY <2>2, <2>3, <2>4, RefIs
<1> QED
  BY <1>1, FileSizes DEF Address, Sizes

\* A disk with another part.
LEMMA DiskWith ==
  ASSUME NEW D, D = [bitmap |-> D.bitmap, data |-> D.data, ino |-> D.ino], NEW u
  PROVE  /\ [D EXCEPT !.bitmap = u] = [bitmap |-> u, data |-> D.data, ino |-> D.ino]
         /\ [D EXCEPT !.data = u] = [bitmap |-> D.bitmap, data |-> u, ino |-> D.ino]
         /\ [D EXCEPT !.ino = u] = [bitmap |-> D.bitmap, data |-> D.data, ino |-> u]
<1> DEFINE x == D.bitmap
           y == D.data
           z == D.ino
           R == [bitmap |-> x, data |-> y, ino |-> z]
<1>1. /\ [R EXCEPT !.bitmap = u] = [bitmap |-> u, data |-> y, ino |-> z]
      /\ [R EXCEPT !.data = u] = [bitmap |-> x, data |-> u, ino |-> z]
      /\ [R EXCEPT !.ino = u] = [bitmap |-> x, data |-> y, ino |-> u]
  <2> HIDE DEF x, y, z
  <2> QED
    OBVIOUS
<1>2. D = R
  OBVIOUS
<1> HIDE DEF R
<1>3. /\ [D EXCEPT !.bitmap = u] = [bitmap |-> u, data |-> y, ino |-> z]
      /\ [D EXCEPT !.data = u] = [bitmap |-> x, data |-> u, ino |-> z]
      /\ [D EXCEPT !.ino = u] = [bitmap |-> x, data |-> y, ino |-> u]
  BY <1>1, <1>2
<1> QED
  BY <1>3

\* E is D with more blocks: what was in a place is still there, and so are the bytes.
Grows(D, E) ==
  /\ \A j \in Inodes : E.ino[j].size = D.ino[j].size /\ E.ino[j].nlink = D.ino[j].nlink
  /\ \A j \in Inodes, l \in Place : Ref(D, j, l) # 0 => Ref(E, j, l) = Ref(D, j, l)
  /\ \A j \in Inodes, l \in 0..MAXFILE - 1 : Ref(D, j, l) # 0 => E.data[Ref(D, j, l)] = D.data[Ref(D, j, l)]

\* E is D with the free block b in the empty place k of inode i.
Filled(D, E, i, k, b) ==
  /\ E \in DiskType /\ b \in Blocks \ D.bitmap /\ Ref(D, i, k) = 0
  /\ E.bitmap = D.bitmap \cup {b}
  /\ \A j \in Inodes : E.ino[j].size = D.ino[j].size /\ E.ino[j].nlink = D.ino[j].nlink
  /\ \A j \in Inodes, l \in Place : Ref(E, j, l) = IF j = i /\ l = k THEN b ELSE Ref(D, j, l)
  /\ \A j \in Inodes, l \in 0..MAXFILE - 1 : Ref(D, j, l) # 0 => E.data[Ref(D, j, l)] = D.data[Ref(D, j, l)]

LEMMA FilledKeeps ==
  ASSUME FilesAssumption, NEW D, Tidy(D), NEW E, NEW i \in Inodes, NEW k \in Place, NEW b, Filled(D, E, i, k, b)
  PROVE  Tidy(E) /\ Grows(D, E)
<1>sizes. Sizes
  BY FileSizes
<1>1. b \in Blocks /\ b \notin D.bitmap /\ b # 0 /\ b \in Address
  BY FileSizes DEF Filled, Address, Sizes
<1>2. \A j \in Inodes, l \in Place : Ref(E, j, l) = IF j = i /\ l = k THEN b ELSE Ref(D, j, l)
  BY DEF Filled
<1>3. \A j \in Inodes, l \in Place : Ref(E, j, l) \in Address
  BY <1>1, <1>2, RefType
<1>4. ASSUME NEW j \in Inodes, E.ino[j].addrs[NDIRECT] # 0, NEW n \in 0..NINDIRECT - 1
      PROVE  E.data[E.ino[j].addrs[NDIRECT]][n] \in Address
  <2>1. NDIRECT + n \in NDIRECT..MAXFILE - 1 /\ NDIRECT + n - NDIRECT = n /\ NDIRECT + n \in Place
    BY <1>sizes DEF Place, Sizes
  <2>2. Ref(E, j, NDIRECT + n) = E.data[E.ino[j].addrs[NDIRECT]][n]
    <3>1. \A l \in NDIRECT..MAXFILE - 1 : Ref(E, j, l) = E.data[E.ino[j].addrs[NDIRECT]][l - NDIRECT]
      BY <1>4, RefIs
    <3> DEFINE l == NDIRECT + n
    <3>2. l \in NDIRECT..MAXFILE - 1 /\ l - NDIRECT = n
      BY <2>1, FileSizes DEF Sizes
    <3> HIDE DEF l
    <3>3. Ref(E, j, l) = E.data[E.ino[j].addrs[NDIRECT]][n]
      BY <3>1, <3>2
    <3> QED
      BY <3>3 DEF l
  <2> QED
    BY <1>3, <2>1, <2>2
<1>5. ASSUME NEW j \in Inodes, NEW m \in Inodes, NEW l \in Place, NEW n \in Place,
             Ref(E, j, l) = Ref(E, m, n), Ref(E, j, l) # 0
      PROVE  j = m /\ l = n
  <2>1. ASSUME NEW x \in Inodes, NEW y \in Place PROVE Ref(D, x, y) # b
    BY <1>1 DEF Tidy
  <2>2. CASE (j = i /\ l = k) \/ (m = i /\ n = k)
    BY <1>2, <1>5, <2>1, <2>2
  <2>3. CASE ~(j = i /\ l = k) /\ ~(m = i /\ n = k)
    <3>1. Ref(D, j, l) = Ref(D, m, n) /\ Ref(D, j, l) # 0
      BY <1>2, <1>5, <2>3
    <3> QED
      BY <3>1 DEF Tidy
  <2> QED
    BY <2>2, <2>3
<1>6. \A j \in Inodes, l \in Place : Ref(E, j, l) # 0 => Ref(E, j, l) \in E.bitmap
  BY <1>2 DEF Tidy, Filled
<1>7. ASSUME NEW c \in E.bitmap PROVE \E j \in Inodes, l \in Place : Ref(E, j, l) = c
  <2>1. CASE c = b
    BY <1>2, <2>1
  <2>2. CASE c # b
    <3>1. c \in D.bitmap
      BY <2>2 DEF Filled
    <3>2. PICK j \in Inodes, l \in Place : Ref(D, j, l) = c
      BY <3>1 DEF Tidy
    <3>3. c # 0
      BY <3>1, DiskTypes, FileSizes DEF Tidy, Sizes
    <3>4. ~(j = i /\ l = k)
      BY <3>2, <3>3 DEF Filled
    <3>5. Ref(E, j, l) = c
      BY <1>2, <3>2, <3>4
    <3> QED
      BY <3>5
  <2> QED
    BY <2>1, <2>2
<1>8. \A j \in Inodes, l \in Place : Ref(D, j, l) # 0 => Ref(E, j, l) = Ref(D, j, l)
  BY <1>2 DEF Filled
<1>9. E \in DiskType
  BY DEF Filled
<1>10. Tidy(E)
  BY <1>4, <1>5, <1>6, <1>7, <1>9 DEF Tidy
<1> QED
  BY <1>8, <1>10 DEF Grows, Filled

LEMMA GrowsTrans ==
  ASSUME FilesAssumption, NEW C, NEW D, NEW E, Grows(C, D), Grows(D, E)
  PROVE  Grows(C, E)
<1>1. \A l \in 0..MAXFILE - 1 : l \in Place
  BY FileSizes DEF Place, Sizes
<1> QED
  BY <1>1 DEF Grows

LEMMA GrowsSelf == ASSUME NEW D PROVE Grows(D, D)
BY DEF Grows

\* E is D as far as the indirect blocks of the inodes other than i go.
Apart(D, E, i) == \A j \in Inodes : j # i =>
  /\ E.ino[j].addrs[NDIRECT] = D.ino[j].addrs[NDIRECT]
  /\ D.ino[j].addrs[NDIRECT] # 0 => E.data[D.ino[j].addrs[NDIRECT]] = D.data[D.ino[j].addrs[NDIRECT]]

LEMMA ApartTrans ==
  ASSUME NEW C, NEW D, NEW E, NEW i, Apart(C, D, i), Apart(D, E, i)
  PROVE  Apart(C, E, i)
BY DEF Apart

\* The least element of a set of natural numbers.
LEMMA MinIn ==
  ASSUME NEW S \in SUBSET Nat, S # {}
  PROVE  Min(S) \in S
BY Least DEF Min

\* A free block for place k of inode i, once its address is written there.
LEMMA BallocIs ==
  ASSUME FilesAssumption, NEW D, Tidy(D)
  PROVE  LET r == Balloc(D) IN
         \/ r.addr = 0 /\ r.disk = D /\ r = [disk |-> D, addr |-> 0]
         \/ /\ r.addr \in Blocks \ D.bitmap /\ r.addr # 0
            /\ r = [disk |-> r.disk, addr |-> r.addr]
            /\ r.disk \in DiskType /\ r.disk.ino = D.ino /\ r.disk.bitmap = D.bitmap \cup {r.addr}
            /\ r.disk.data[r.addr] = [x \in 0..BSIZE - 1 |-> 0]
            /\ \A c \in Blocks : c # r.addr => r.disk.data[c] = D.data[c]
<1>1. CASE Blocks \subseteq D.bitmap
  <2>1. Balloc(D) = [disk |-> D, addr |-> 0]
    BY <1>1 DEF Balloc
  <2> QED
    BY <2>1
<1>2. CASE ~(Blocks \subseteq D.bitmap)
  <2> DEFINE b == Min(Blocks \ D.bitmap)
             E == [D EXCEPT !.bitmap = @ \cup {b}, !.data[b] = [k \in DOMAIN @ |-> 0]]
  <2>1. Balloc(D) = [disk |-> E, addr |-> b]
    BY <1>2 DEF Balloc
  <2>2. b \in Blocks \ D.bitmap /\ b # 0
    <3>1. Blocks \ D.bitmap \in SUBSET Nat /\ 0 \notin Blocks /\ Blocks \ D.bitmap # {}
      BY <1>2, FileSizes DEF Sizes
    <3> QED
      BY <3>1, MinIn
  <2> HIDE DEF b
  <2>3. D \in DiskType /\ DOMAIN D.data[b] = 0..BSIZE - 1
    BY <2>2, DiskTypes DEF Tidy
  <2>4. /\ E.ino = D.ino /\ E.bitmap = D.bitmap \cup {b}
        /\ E.data = [D.data EXCEPT ![b] = [x \in 0..BSIZE - 1 |-> 0]]
        /\ E = [bitmap |-> E.bitmap, data |-> E.data, ino |-> E.ino]
    <3> DEFINE F == [D EXCEPT !.bitmap = D.bitmap \cup {b}]
               w == [D.data EXCEPT ![b] = [k \in DOMAIN D.data[b] |-> 0]]
    <3>1. D = [bitmap |-> D.bitmap, data |-> D.data, ino |-> D.ino]
      BY <2>3 DEF DiskType
    <3>2. F = [bitmap |-> D.bitmap \cup {b}, data |-> D.data, ino |-> D.ino]
      BY <3>1, DiskWith
    <3>3. E = [F EXCEPT !.data = [F.data EXCEPT ![b] = [k \in DOMAIN F.data[b] |-> 0]]]
      OBVIOUS
    <3> HIDE DEF E, F
    <3>4. F.data = D.data /\ F.bitmap = D.bitmap \cup {b} /\ F.ino = D.ino
      BY <3>2
    <3>5. F = [bitmap |-> F.bitmap, data |-> F.data, ino |-> F.ino]
      BY <3>2, <3>4
    <3>6. [F EXCEPT !.data = w] = [bitmap |-> F.bitmap, data |-> w, ino |-> F.ino]
      BY <3>5, DiskWith
    <3> HIDE DEF w
    <3>7. E = [bitmap |-> F.bitmap, data |-> w, ino |-> F.ino]
      BY <3>3, <3>4, <3>6 DEF w
    <3>8. w = [D.data EXCEPT ![b] = [x \in 0..BSIZE - 1 |-> 0]]
      BY <2>3 DEF w
    <3> QED
      BY <3>4, <3>7, <3>8
  <2>5. E.data \in [Blocks -> [0..BSIZE - 1 -> Nat]] /\ E.bitmap \in SUBSET Blocks
    BY <2>2, <2>3, <2>4 DEF DiskType
  <2> HIDE DEF E
  <2>6. E \in DiskType
    BY <2>3, <2>4, <2>5 DEF DiskType
  <2>7. /\ E.data[b] = [x \in 0..BSIZE - 1 |-> 0]
        /\ \A c \in Blocks : c # b => E.data[c] = D.data[c]
    BY <2>2, <2>3, <2>4 DEF DiskType
  <2>8. Balloc(D).disk = E /\ Balloc(D).addr = b
    BY <2>1
  <2> QED
    BY <2>1, <2>2, <2>4, <2>6, <2>7, <2>8
<1> QED
  BY <1>1, <1>2

LEMMA SameFunction ==
  ASSUME NEW S, NEW T, NEW f \in [S -> T], NEW g \in [S -> T], \A x \in S : f[x] = g[x]
  PROVE  f = g
OBVIOUS

\* One address written, and the bytes of one block.
LEMMA SetAddr ==
  ASSUME NEW D \in DiskType, NEW i \in Inodes, NEW n \in 0..NDIRECT, NEW a \in Address
  PROVE  LET E == [D EXCEPT !.ino[i].addrs[n] = a] IN
         /\ E \in DiskType /\ E.bitmap = D.bitmap /\ E.data = D.data
         /\ \A j \in Inodes : E.ino[j].size = D.ino[j].size /\ E.ino[j].nlink = D.ino[j].nlink
         /\ \A j \in Inodes, m \in 0..NDIRECT :
              E.ino[j].addrs[m] = IF j = i /\ m = n THEN a ELSE D.ino[j].addrs[m]
<1> DEFINE E == [D EXCEPT !.ino[i].addrs[n] = a]
           r == [D.ino[i] EXCEPT !.addrs = [D.ino[i].addrs EXCEPT ![n] = a]]
           v == [D.ino EXCEPT ![i] = r]
<1>1. D = [bitmap |-> D.bitmap, data |-> D.data, ino |-> D.ino]
  BY DEF DiskType
<1>2. E = [D EXCEPT !.ino = v]
  OBVIOUS
<1> HIDE DEF E, v
<1>3. E = [bitmap |-> D.bitmap, data |-> D.data, ino |-> v]
  BY <1>1, <1>2, DiskWith
<1>4. D.ino[i] \in Inode
  BY DiskTypes
<1>5. r = [type |-> D.ino[i].type, nlink |-> D.ino[i].nlink, size |-> D.ino[i].size,
           addrs |-> [D.ino[i].addrs EXCEPT ![n] = a]]
  BY <1>4 DEF Inode
<1> HIDE DEF r
<1>6. [D.ino[i].addrs EXCEPT ![n] = a] \in [0..NDIRECT -> Address]
  BY <1>4 DEF Inode
<1>7. r \in Inode /\ r.nlink = D.ino[i].nlink /\ r.size = D.ino[i].size
      /\ r.addrs = [D.ino[i].addrs EXCEPT ![n] = a]
  BY <1>4, <1>5, <1>6 DEF Inode
<1>8. v \in [Inodes -> Inode] /\ v[i] = r /\ \A j \in Inodes : j # i => v[j] = D.ino[j]
  BY <1>7 DEF v, DiskType
<1>9. E \in DiskType /\ E.ino = v /\ E.bitmap = D.bitmap /\ E.data = D.data
  BY <1>3, <1>8 DEF DiskType
<1>10. \A j \in Inodes, m \in 0..NDIRECT :
              v[j].addrs[m] = IF j = i /\ m = n THEN a ELSE D.ino[j].addrs[m]
  <2>1. D.ino[i].addrs \in [0..NDIRECT -> Address]
    BY <1>4 DEF Inode
  <2> QED
    BY <1>7, <1>8, <2>1
<1>11. \A j \in Inodes : v[j].size = D.ino[j].size /\ v[j].nlink = D.ino[j].nlink
  BY <1>7, <1>8
<1> QED
  BY <1>9, <1>10, <1>11 DEF E

LEMMA SetBlock ==
  ASSUME NEW D \in DiskType, NEW b \in Blocks, NEW w \in [0..BSIZE - 1 -> Nat]
  PROVE  LET E == [D EXCEPT !.data[b] = w] IN
         /\ E \in DiskType /\ E.bitmap = D.bitmap /\ E.ino = D.ino
         /\ E.data[b] = w /\ \A c \in Blocks : c # b => E.data[c] = D.data[c]
<1> DEFINE E == [D EXCEPT !.data[b] = w]
           v == [D.data EXCEPT ![b] = w]
<1>1. D = [bitmap |-> D.bitmap, data |-> D.data, ino |-> D.ino]
  BY DEF DiskType
<1>2. E = [D EXCEPT !.data = v]
  OBVIOUS
<1> HIDE DEF E, v
<1>3. E = [bitmap |-> D.bitmap, data |-> v, ino |-> D.ino]
  BY <1>1, <1>2, DiskWith
<1>4. v \in [Blocks -> [0..BSIZE - 1 -> Nat]] /\ v[b] = w /\ \A c \in Blocks : c # b => v[c] = D.data[c]
  BY DEF v, DiskType
<1>5. E \in DiskType /\ E.ino = D.ino /\ E.bitmap = D.bitmap /\ E.data = v
  BY <1>3, <1>4 DEF DiskType
<1> QED
  BY <1>4, <1>5 DEF E

\* An inode with another field, and a disk with another inode.
LEMMA InodeWith ==
  ASSUME NEW q, q = [type |-> q.type, nlink |-> q.nlink, size |-> q.size, addrs |-> q.addrs], NEW u
  PROVE  /\ [q EXCEPT !.type = u] = [type |-> u, nlink |-> q.nlink, size |-> q.size, addrs |-> q.addrs]
        /\ [q EXCEPT !.nlink = u] = [type |-> q.type, nlink |-> u, size |-> q.size, addrs |-> q.addrs]
        /\ [q EXCEPT !.size = u] = [type |-> q.type, nlink |-> q.nlink, size |-> u, addrs |-> q.addrs]
        /\ [q EXCEPT !.addrs = u] = [type |-> q.type, nlink |-> q.nlink, size |-> q.size, addrs |-> u]
<1> DEFINE
      t == q.type
      l == q.nlink
      s == q.size
      a == q.addrs
      R == [type |-> t, nlink |-> l, size |-> s, addrs |-> a]
<1>1. /\ [R EXCEPT !.type = u] = [type |-> u, nlink |-> l, size |-> s, addrs |-> a]
      /\ [R EXCEPT !.nlink = u] = [type |-> t, nlink |-> u, size |-> s, addrs |-> a]
      /\ [R EXCEPT !.size = u] = [type |-> t, nlink |-> l, size |-> u, addrs |-> a]
      /\ [R EXCEPT !.addrs = u] = [type |-> t, nlink |-> l, size |-> s, addrs |-> u]
  <2> HIDE DEF t, l, s, a
  <2> QED
    OBVIOUS
<1>2. q = R
  OBVIOUS
<1> HIDE DEF R
<1>3. /\ [q EXCEPT !.type = u] = [type |-> u, nlink |-> l, size |-> s, addrs |-> a]
      /\ [q EXCEPT !.nlink = u] = [type |-> t, nlink |-> u, size |-> s, addrs |-> a]
      /\ [q EXCEPT !.size = u] = [type |-> t, nlink |-> l, size |-> u, addrs |-> a]
      /\ [q EXCEPT !.addrs = u] = [type |-> t, nlink |-> l, size |-> s, addrs |-> u]
  BY <1>1, <1>2
<1> QED
  BY <1>3

LEMMA PutInode ==
  ASSUME NEW D \in DiskType, NEW i \in Inodes, NEW q \in Inode
  PROVE  LET E == [D EXCEPT !.ino[i] = q] IN
         /\ E \in DiskType /\ E.bitmap = D.bitmap /\ E.data = D.data
         /\ E.ino[i] = q /\ \A j \in Inodes : j # i => E.ino[j] = D.ino[j]
<1> DEFINE E == [D EXCEPT !.ino[i] = q]
           v == [D.ino EXCEPT ![i] = q]
<1>1. D = [bitmap |-> D.bitmap, data |-> D.data, ino |-> D.ino]
  BY DEF DiskType
<1>2. E = [D EXCEPT !.ino = v]
  OBVIOUS
<1> HIDE DEF E, v
<1>3. E = [bitmap |-> D.bitmap, data |-> D.data, ino |-> v]
  BY <1>1, <1>2, DiskWith
<1>4. v \in [Inodes -> Inode] /\ v[i] = q /\ \A j \in Inodes : j # i => v[j] = D.ino[j]
  BY DEF v, DiskType
<1>5. E \in DiskType /\ E.ino = v /\ E.bitmap = D.bitmap /\ E.data = D.data
  BY <1>3, <1>4 DEF DiskType
<1> QED
  BY <1>4, <1>5 DEF E

LEMMA SetType ==
  ASSUME NEW D \in DiskType, NEW i \in Inodes, NEW u \in {"free", "file"}
  PROVE  LET E == [D EXCEPT !.ino[i].type = u] IN
         /\ E \in DiskType /\ E.bitmap = D.bitmap /\ E.data = D.data
         /\ E.ino[i].type = u /\ E.ino[i].nlink = D.ino[i].nlink /\ E.ino[i].size = D.ino[i].size /\ E.ino[i].addrs = D.ino[i].addrs
         /\ \A j \in Inodes : j # i => E.ino[j] = D.ino[j]
<1> DEFINE d == D.ino[i]
           q == [d EXCEPT !.type = u]
<1>1. d \in Inode
  BY DiskTypes
<1>2. d = [type |-> d.type, nlink |-> d.nlink, size |-> d.size, addrs |-> d.addrs]
  BY <1>1 DEF Inode
<1>3. [D EXCEPT !.ino[i].type = u] = [D EXCEPT !.ino[i] = q]
  OBVIOUS
<1> HIDE DEF d
<1>4. q = [type |-> u, nlink |-> d.nlink, size |-> d.size, addrs |-> d.addrs]
  BY <1>2, InodeWith
<1> HIDE DEF q
<1>5. q \in Inode /\ q.type = u /\ q.nlink = d.nlink /\ q.size = d.size /\ q.addrs = d.addrs
  BY <1>1, <1>4 DEF Inode
<1> QED
  BY <1>3, <1>5, PutInode DEF d

LEMMA SetNlink ==
  ASSUME NEW D \in DiskType, NEW i \in Inodes, NEW u \in {0, 1}
  PROVE  LET E == [D EXCEPT !.ino[i].nlink = u] IN
         /\ E \in DiskType /\ E.bitmap = D.bitmap /\ E.data = D.data
         /\ E.ino[i].type = D.ino[i].type /\ E.ino[i].nlink = u /\ E.ino[i].size = D.ino[i].size /\ E.ino[i].addrs = D.ino[i].addrs
         /\ \A j \in Inodes : j # i => E.ino[j] = D.ino[j]
<1> DEFINE d == D.ino[i]
           q == [d EXCEPT !.nlink = u]
<1>1. d \in Inode
  BY DiskTypes
<1>2. d = [type |-> d.type, nlink |-> d.nlink, size |-> d.size, addrs |-> d.addrs]
  BY <1>1 DEF Inode
<1>3. [D EXCEPT !.ino[i].nlink = u] = [D EXCEPT !.ino[i] = q]
  OBVIOUS
<1> HIDE DEF d
<1>4. q = [type |-> d.type, nlink |-> u, size |-> d.size, addrs |-> d.addrs]
  BY <1>2, InodeWith
<1> HIDE DEF q
<1>5. q \in Inode /\ q.type = d.type /\ q.nlink = u /\ q.size = d.size /\ q.addrs = d.addrs
  BY <1>1, <1>4 DEF Inode
<1> QED
  BY <1>3, <1>5, PutInode DEF d

LEMMA SetSize ==
  ASSUME NEW D \in DiskType, NEW i \in Inodes, NEW u \in 0..MaxBytes
  PROVE  LET E == [D EXCEPT !.ino[i].size = u] IN
         /\ E \in DiskType /\ E.bitmap = D.bitmap /\ E.data = D.data
         /\ E.ino[i].type = D.ino[i].type /\ E.ino[i].nlink = D.ino[i].nlink /\ E.ino[i].size = u /\ E.ino[i].addrs = D.ino[i].addrs
         /\ \A j \in Inodes : j # i => E.ino[j] = D.ino[j]
<1> DEFINE d == D.ino[i]
           q == [d EXCEPT !.size = u]
<1>1. d \in Inode
  BY DiskTypes
<1>2. d = [type |-> d.type, nlink |-> d.nlink, size |-> d.size, addrs |-> d.addrs]
  BY <1>1 DEF Inode
<1>3. [D EXCEPT !.ino[i].size = u] = [D EXCEPT !.ino[i] = q]
  OBVIOUS
<1> HIDE DEF d
<1>4. q = [type |-> d.type, nlink |-> d.nlink, size |-> u, addrs |-> d.addrs]
  BY <1>2, InodeWith
<1> HIDE DEF q
<1>5. q \in Inode /\ q.type = d.type /\ q.nlink = d.nlink /\ q.size = u /\ q.addrs = d.addrs
  BY <1>1, <1>4 DEF Inode
<1> QED
  BY <1>3, <1>5, PutInode DEF d

LEMMA SetAddrs ==
  ASSUME NEW D \in DiskType, NEW i \in Inodes, NEW u \in [0..NDIRECT -> Address]
  PROVE  LET E == [D EXCEPT !.ino[i].addrs = u] IN
         /\ E \in DiskType /\ E.bitmap = D.bitmap /\ E.data = D.data
         /\ E.ino[i].type = D.ino[i].type /\ E.ino[i].nlink = D.ino[i].nlink /\ E.ino[i].size = D.ino[i].size /\ E.ino[i].addrs = u
         /\ \A j \in Inodes : j # i => E.ino[j] = D.ino[j]
<1> DEFINE d == D.ino[i]
           q == [d EXCEPT !.addrs = u]
<1>1. d \in Inode
  BY DiskTypes
<1>2. d = [type |-> d.type, nlink |-> d.nlink, size |-> d.size, addrs |-> d.addrs]
  BY <1>1 DEF Inode
<1>3. [D EXCEPT !.ino[i].addrs = u] = [D EXCEPT !.ino[i] = q]
  OBVIOUS
<1> HIDE DEF d
<1>4. q = [type |-> d.type, nlink |-> d.nlink, size |-> d.size, addrs |-> u]
  BY <1>2, InodeWith
<1> HIDE DEF q
<1>5. q \in Inode /\ q.type = d.type /\ q.nlink = d.nlink /\ q.size = d.size /\ q.addrs = u
  BY <1>1, <1>4 DEF Inode
<1> QED
  BY <1>3, <1>5, PutInode DEF d

LEMMA SetBitmap ==
  ASSUME NEW D \in DiskType, NEW u \in SUBSET Blocks
  PROVE  LET E == [D EXCEPT !.bitmap = u] IN
         E \in DiskType /\ E.bitmap = u /\ E.data = D.data /\ E.ino = D.ino
<1> DEFINE E == [D EXCEPT !.bitmap = u]
<1>1. D = [bitmap |-> D.bitmap, data |-> D.data, ino |-> D.ino]
  BY DEF DiskType
<1>2. E = [bitmap |-> u, data |-> D.data, ino |-> D.ino]
  BY <1>1, DiskWith
<1> HIDE DEF E
<1>3. E \in DiskType /\ E.bitmap = u /\ E.data = D.data /\ E.ino = D.ino
  BY <1>2 DEF DiskType
<1> QED
  BY <1>3 DEF E

LEMMA SamePlaces ==
  ASSUME FilesAssumption, NEW D, Tidy(D), NEW E \in DiskType, E.bitmap = D.bitmap, E.data = D.data,
         \A j \in Inodes, m \in 0..NDIRECT : E.ino[j].addrs[m] = D.ino[j].addrs[m]
  PROVE  Tidy(E) /\ \A j \in Inodes, l \in Place : Ref(E, j, l) = Ref(D, j, l)
<1>1. NDIRECT \in 0..NDIRECT /\ \A l \in 0..NDIRECT - 1 : l \in 0..NDIRECT
  BY FileSizes DEF Sizes
<1>2. ASSUME NEW j \in Inodes, NEW l \in Place PROVE Ref(E, j, l) = Ref(D, j, l)
  BY <1>1, RefIs
<1> QED
  BY <1>1, <1>2 DEF Tidy

\* bmap() makes sure that there is a block at one of the addresses of an inode.
LEMMA EnsureAddr ==
  ASSUME FilesAssumption, NEW D, Tidy(D), NEW i \in Inodes, NEW n \in 0..NDIRECT
  PROVE  LET r == Ensure(D, D.ino[i].addrs[n])
             E == [r.disk EXCEPT !.ino[i].addrs[n] = r.addr] IN
         /\ Tidy(E) /\ Grows(D, E) /\ Apart(D, E, i) /\ E.ino[i].addrs[n] = r.addr
         /\ r = [disk |-> r.disk, addr |-> r.addr] /\ r.addr \in Address
<1>sizes. Sizes
  BY FileSizes
<1> DEFINE r == Ensure(D, D.ino[i].addrs[n])
           E == [r.disk EXCEPT !.ino[i].addrs[n] = r.addr]
           k == IF n < NDIRECT THEN n ELSE MAXFILE
<1>1. D \in DiskType /\ D.ino[i].addrs[n] \in Address /\ 0 \in Address
  BY DiskTypes, FileSizes DEF Tidy, Address, Sizes
<1>2. CASE r.disk = D /\ r = [disk |-> D, addr |-> r.addr] /\ r.addr = D.ino[i].addrs[n]
  <2>0. r.addr \in Address /\ E = [D EXCEPT !.ino[i].addrs[n] = r.addr]
    BY <1>1, <1>2
  <2> HIDE DEF r, E
  <2>1. /\ E \in DiskType /\ E.bitmap = D.bitmap /\ E.data = D.data
        /\ \A j \in Inodes : E.ino[j].size = D.ino[j].size /\ E.ino[j].nlink = D.ino[j].nlink
        /\ \A j \in Inodes, m \in 0..NDIRECT : E.ino[j].addrs[m] = D.ino[j].addrs[m]
        /\ E.ino[i].addrs[n] = r.addr
    BY <1>1, <1>2, <2>0, SetAddr
  <2>2. Tidy(E) /\ \A j \in Inodes, l \in Place : Ref(E, j, l) = Ref(D, j, l)
    BY <2>1, SamePlaces
  <2>3. Grows(D, E)
    BY <2>1, <2>2 DEF Grows
  <2>4. NDIRECT \in 0..NDIRECT
    BY FileSizes DEF Sizes
  <2>5. Apart(D, E, i)
    BY <2>1, <2>4 DEF Apart
  <2> QED
    BY <1>2, <2>0, <2>1, <2>2, <2>3, <2>5 DEF r, E
<1>3. CASE D.ino[i].addrs[n] = 0 /\ Balloc(D).addr # 0
  <2>0. r = Balloc(D)
    BY <1>3 DEF Ensure
  <2> HIDE DEF r
  <2> DEFINE b == r.addr
             C == r.disk
  <2>1. /\ b \in Blocks \ D.bitmap /\ b # 0 /\ r = [disk |-> C, addr |-> b]
        /\ C \in DiskType /\ C.ino = D.ino /\ C.bitmap = D.bitmap \cup {b}
        /\ C.data[b] = [x \in 0..BSIZE - 1 |-> 0]
        /\ \A c \in Blocks : c # b => C.data[c] = D.data[c]
    <3>1. /\ Balloc(D).addr \in Blocks \ D.bitmap /\ Balloc(D).addr # 0
          /\ Balloc(D) = [disk |-> Balloc(D).disk, addr |-> Balloc(D).addr]
          /\ Balloc(D).disk \in DiskType /\ Balloc(D).disk.ino = D.ino
          /\ Balloc(D).disk.bitmap = D.bitmap \cup {Balloc(D).addr}
          /\ Balloc(D).disk.data[Balloc(D).addr] = [x \in 0..BSIZE - 1 |-> 0]
          /\ \A c \in Blocks : c # Balloc(D).addr => Balloc(D).disk.data[c] = D.data[c]
      BY <1>3, BallocIs
    <3> QED
      BY <2>0, <3>1
  <2>2. b \in Address
    BY <2>1, FileSizes DEF Address, Sizes
  <2>3. E = [C EXCEPT !.ino[i].addrs[n] = b]
    BY DEF r
  <2> HIDE DEF b, C, E
  <2>4. /\ E \in DiskType /\ E.bitmap = C.bitmap /\ E.data = C.data
        /\ \A j \in Inodes : E.ino[j].size = C.ino[j].size /\ E.ino[j].nlink = C.ino[j].nlink
        /\ \A j \in Inodes, m \in 0..NDIRECT :
             E.ino[j].addrs[m] = IF j = i /\ m = n THEN b ELSE C.ino[j].addrs[m]
    BY <2>1, <2>2, <2>3, SetAddr
  <2>5. ASSUME NEW j \in Inodes, NEW l \in Place, Ref(D, j, l) # 0
        PROVE  Ref(D, j, l) \in Blocks /\ E.data[Ref(D, j, l)] = D.data[Ref(D, j, l)]
    BY <2>1, <2>4, <2>5, RefType DEF Tidy
  <2>6. k \in Place
    BY FileSizes DEF Place, Sizes
  <2>7. NDIRECT \in 0..NDIRECT /\ MAXFILE \in Place /\ \A l \in 0..NDIRECT - 1 : l \in 0..NDIRECT
    BY FileSizes DEF Place, Sizes
  <2>8. ASSUME NEW j \in Inodes, NEW l \in Place
        PROVE  Ref(E, j, l) = IF j = i /\ l = k THEN b ELSE Ref(D, j, l)
    <3>1. CASE l \in 0..NDIRECT - 1
      <4>1. (l = k) <=> (l = n)
        BY <3>1, FileSizes DEF Sizes
      <4> QED
        BY <2>1, <2>4, <2>7, <3>1, <4>1, RefIs
    <3>2. CASE l = MAXFILE
      <4>1. (l = k) <=> (n = NDIRECT)
        BY <3>2, FileSizes DEF Sizes
      <4> QED
        BY <2>1, <2>4, <2>7, <3>2, <4>1, RefIs
    <3>3. CASE l \in NDIRECT..MAXFILE - 1
      <4> DEFINE x == l - NDIRECT
                 a == D.ino[j].addrs[NDIRECT]
                 e == E.ino[j].addrs[NDIRECT]
      <4>1. l # k /\ x \in 0..BSIZE - 1
        BY <3>3, <1>sizes DEF Sizes
      <4>2. /\ Ref(E, j, l) = IF e = 0 THEN 0 ELSE E.data[e][x]
            /\ Ref(D, j, l) = IF a = 0 THEN 0 ELSE D.data[a][x]
            /\ a = Ref(D, j, MAXFILE)
        BY <3>3, RefIs
      <4> HIDE DEF x
      <4>3. CASE j = i /\ n = NDIRECT
        <5>1. e = b /\ a = 0
          BY <1>3, <2>4, <4>3, <2>7
        <5>2. C.data[b] = [y \in 0..BSIZE - 1 |-> 0] /\ E.data = C.data
          BY <2>1, <2>4
        <5>3. C.data[b][x] = 0
          BY <4>1, <5>2
        <5> QED
          BY <4>1, <4>2, <5>1, <5>2, <5>3
      <4>4. CASE ~(j = i /\ n = NDIRECT)
        <5>1. e = a
          BY <2>1, <2>4, <2>7, <4>4
        <5> QED
          BY <2>5, <2>7, <4>1, <4>2, <5>1
      <4> QED
        BY <4>3, <4>4
    <3> QED
      BY <3>1, <3>2, <3>3, RefIs
  <2>9. Ref(D, i, k) = 0
    <3>1. CASE n < NDIRECT
      <4>1. k = n /\ n \in 0..NDIRECT - 1
        BY <3>1, FileSizes DEF Sizes
      <4> QED
        BY <1>3, <4>1, RefIs
    <3>2. CASE ~(n < NDIRECT)
      <4>1. k = MAXFILE /\ n = NDIRECT
        BY <3>2, FileSizes DEF Sizes
      <4> QED
        BY <1>3, <4>1, RefIs
    <3> QED
      BY <3>1, <3>2
  <2>10. \A l \in 0..MAXFILE - 1 : l \in Place
    BY FileSizes DEF Place, Sizes
  <2> HIDE DEF k
  <2>11. Filled(D, E, i, k, b)
    BY <2>1, <2>4, <2>5, <2>8, <2>9, <2>10 DEF Filled
  <2>12. Tidy(E) /\ Grows(D, E)
    BY <2>6, <2>11, FilledKeeps
  <2>13. E.ino[i].addrs[n] = b
    BY <2>4
  <2>14. \A j \in Inodes : j # i => E.ino[j].addrs[NDIRECT] = D.ino[j].addrs[NDIRECT]
    BY <2>1, <2>4, <2>7
  <2>15. ASSUME NEW j \in Inodes, D.ino[j].addrs[NDIRECT] # 0
         PROVE  E.data[D.ino[j].addrs[NDIRECT]] = D.data[D.ino[j].addrs[NDIRECT]]
    <3>1. Ref(D, j, MAXFILE) = D.ino[j].addrs[NDIRECT]
      BY RefIs
    <3> QED
      BY <2>5, <2>7, <2>15, <3>1
  <2>16. Apart(D, E, i)
    BY <2>14, <2>15 DEF Apart
  <2> QED
    BY <2>1, <2>2, <2>12, <2>13, <2>16 DEF b, C, E, r
<1>4. CASE ~(D.ino[i].addrs[n] = 0 /\ Balloc(D).addr # 0)
  <2>1. CASE D.ino[i].addrs[n] # 0
    <3>1. r = [disk |-> D, addr |-> D.ino[i].addrs[n]]
      BY <2>1 DEF Ensure
    <3>2. r.disk = D /\ r.addr = D.ino[i].addrs[n]
      BY ONLY <3>1
    <3> QED
      BY <1>2, <3>1, <3>2
  <2>2. CASE D.ino[i].addrs[n] = 0
    <3>1. r = Balloc(D) /\ Balloc(D).addr = 0
      BY <1>4, <2>2 DEF Ensure
    <3>2. r = [disk |-> D, addr |-> 0]
      BY <3>1, BallocIs
    <3>3. r.disk = D /\ r.addr = 0
      BY ONLY <3>2
    <3> QED
      BY <1>2, <2>2, <3>2, <3>3
  <2> QED
    BY <2>1, <2>2
<1> QED
  BY <1>3, <1>4

\* And at one of the addresses in its indirect block.
LEMMA EnsureSlot ==
  ASSUME FilesAssumption, NEW D, Tidy(D), NEW i \in Inodes, NEW n \in 0..NINDIRECT - 1, D.ino[i].addrs[NDIRECT] # 0
  PROVE  LET a == D.ino[i].addrs[NDIRECT]
             r == Ensure(D, D.data[a][n])
             E == [r.disk EXCEPT !.data[a][n] = r.addr] IN
         /\ Tidy(E) /\ Grows(D, E) /\ Apart(D, E, i) /\ Ref(E, i, NDIRECT + n) = r.addr
         /\ r = [disk |-> r.disk, addr |-> r.addr]
<1>sizes. Sizes
  BY FileSizes
<1> DEFINE a == D.ino[i].addrs[NDIRECT]
           r == Ensure(D, D.data[a][n])
           E == [r.disk EXCEPT !.data[a][n] = r.addr]
           k == NDIRECT + n
<1>1. /\ D \in DiskType /\ D.data[a][n] \in Address
      /\ k \in Place /\ k \in NDIRECT..MAXFILE - 1 /\ k - NDIRECT = n /\ n \in 0..BSIZE - 1
      /\ MAXFILE \in Place /\ k # MAXFILE
      /\ \A l \in 0..MAXFILE - 1 : l \in Place /\ l # MAXFILE
      /\ \A x \in Address : x \in Nat
  BY <1>sizes DEF Tidy, Address, Place, Sizes
<1>2. /\ a = Ref(D, i, MAXFILE) /\ a \in Blocks /\ a \in D.bitmap
      /\ D.data[a] \in [0..BSIZE - 1 -> Nat]
      /\ Ref(D, i, k) = D.data[a][n]
  <2>1. a = Ref(D, i, MAXFILE)
    BY RefIs
  <2>2. Ref(D, i, k) = IF a = 0 THEN 0 ELSE D.data[a][k - NDIRECT]
    BY <1>1, RefIs
  <2>3. a \in Blocks /\ a \in D.bitmap
    BY <1>1, <2>1, RefType DEF Tidy
  <2> QED
    BY <1>1, <2>1, <2>2, <2>3, DiskTypes
<1> HIDE DEF a, k
\* What the address is written into.
<1>3. ASSUME NEW C \in DiskType, NEW b \in Address, C.ino = D.ino, C.data[a] = D.data[a],
             NEW F, F = [C EXCEPT !.data[a][n] = b]
      PROVE  /\ F \in DiskType /\ F.bitmap = C.bitmap /\ F.ino = D.ino
             /\ \A x \in 0..BSIZE - 1 : F.data[a][x] = IF x = n THEN b ELSE D.data[a][x]
             /\ \A c \in Blocks : c # a => F.data[c] = C.data[c]
  <2> DEFINE w == [C.data[a] EXCEPT ![n] = b]
  <2>1. F = [C EXCEPT !.data[a] = w]
    BY <1>3
  <2>2. w \in [0..BSIZE - 1 -> Nat] /\ \A x \in 0..BSIZE - 1 : w[x] = IF x = n THEN b ELSE D.data[a][x]
    BY <1>1, <1>2, <1>3
  <2> HIDE DEF w
  <2>3. /\ F \in DiskType /\ F.bitmap = C.bitmap /\ F.ino = C.ino
        /\ F.data[a] = w /\ \A c \in Blocks : c # a => F.data[c] = C.data[c]
    BY <1>2, <2>1, <2>2, SetBlock
  <2> QED
    BY <1>3, <2>2, <2>3
\* What is in the places then.
<1>4. ASSUME NEW F, F.ino = D.ino, NEW b,
             \A x \in 0..BSIZE - 1 : F.data[a][x] = IF x = n THEN b ELSE D.data[a][x],
             \A c \in D.bitmap : c # a => F.data[c] = D.data[c]
      PROVE  \A j \in Inodes, l \in Place : Ref(F, j, l) = IF j = i /\ l = k THEN b ELSE Ref(D, j, l)
  <2> TAKE j \in Inodes, l \in Place
  <2>1. CASE l \in 0..NDIRECT - 1
    <3>1. l # k
      BY <1>1, <2>1, FileSizes DEF Sizes
    <3>2. Ref(F, j, l) = F.ino[j].addrs[l] /\ Ref(D, j, l) = D.ino[j].addrs[l]
      BY <2>1, RefIs
    <3>3. Ref(F, j, l) = Ref(D, j, l)
      BY <1>4, <3>2
    <3> QED
      BY <3>1, <3>3
  <2>2. CASE l = MAXFILE
    <3>1. Ref(F, j, l) = F.ino[j].addrs[NDIRECT] /\ Ref(D, j, l) = D.ino[j].addrs[NDIRECT]
      BY <2>2, RefIs
    <3> QED
      BY <1>1, <1>4, <2>2, <3>1
  <2>3. CASE l \in NDIRECT..MAXFILE - 1
    <3> DEFINE x == l - NDIRECT
               e == D.ino[j].addrs[NDIRECT]
    <3>1. x \in 0..BSIZE - 1 /\ (x = n <=> l = k)
      <4>1. l - NDIRECT \in 0..NINDIRECT - 1
        BY <2>3, <1>sizes DEF Sizes
      <4>2. l - NDIRECT = k - NDIRECT <=> l = k
        BY <1>1, <2>3, <1>sizes DEF Sizes
      <4> QED
        BY <1>1, <4>1, <4>2, <1>sizes DEF Sizes
    <3>2. /\ Ref(F, j, l) = IF e = 0 THEN 0 ELSE F.data[e][x]
          /\ Ref(D, j, l) = IF e = 0 THEN 0 ELSE D.data[e][x]
          /\ e = Ref(D, j, MAXFILE)
      BY <1>4, <2>3, RefIs
    <3> HIDE DEF x, e
    <3>3. CASE e = 0
      <4>1. j # i
        BY <3>3 DEF e, a
      <4> QED
        BY <3>2, <3>3, <4>1
    <3>4. CASE e # 0 /\ e = a
      <4>1. Ref(D, j, MAXFILE) = Ref(D, i, MAXFILE) /\ Ref(D, j, MAXFILE) # 0
        BY <1>2, <3>2, <3>4
      <4>2. j = i
        BY <1>1, <4>1 DEF Tidy
      <4> QED
        BY <1>4, <3>1, <3>2, <3>4, <4>2
    <3>5. CASE e # 0 /\ e # a
      <4>1. j # i /\ e \in D.bitmap
        BY <1>1, <1>2, <3>2, <3>5 DEF Tidy
      <4> QED
        BY <1>4, <3>2, <3>5, <4>1
    <3> QED
      BY <3>3, <3>4, <3>5
  <2> QED
    BY <2>1, <2>2, <2>3, RefIs
<1>5. CASE r.disk = D /\ r = [disk |-> D, addr |-> r.addr] /\ r.addr = D.data[a][n]
  <2>0. r.addr \in Address /\ E = [D EXCEPT !.data[a][n] = r.addr]
    BY <1>1, <1>5
  <2> HIDE DEF r, E
  <2>1. /\ E \in DiskType /\ E.bitmap = D.bitmap /\ E.ino = D.ino
        /\ \A x \in 0..BSIZE - 1 : E.data[a][x] = D.data[a][x]
        /\ \A c \in Blocks : c # a => E.data[c] = D.data[c]
    BY <1>1, <1>3, <1>5, <2>0
  <2>2. E.data[a] = D.data[a]
    <3>1. E.data[a] \in [0..BSIZE - 1 -> Nat]
      BY <1>2, <2>1, DiskTypes
    <3>2. D.data[a] \in [0..BSIZE - 1 -> Nat] /\ \A x \in 0..BSIZE - 1 : E.data[a][x] = D.data[a][x]
      BY <1>2, <2>1
    <3> DEFINE f == E.data[a]
               g == D.data[a]
               S == 0..BSIZE - 1
    <3>3. f \in [S -> Nat] /\ g \in [S -> Nat] /\ \A x \in S : f[x] = g[x]
      BY <3>1, <3>2
    <3> HIDE DEF f, g, S
    <3>4. f = g
      BY <3>3, SameFunction
    <3> QED
      BY <3>4 DEF f, g
  <2>3. E.data = D.data
    <3>1. E.data \in [Blocks -> [0..BSIZE - 1 -> Nat]] /\ D.data \in [Blocks -> [0..BSIZE - 1 -> Nat]]
      BY <1>1, <2>1 DEF DiskType
    <3>2. \A c \in Blocks : E.data[c] = D.data[c]
      BY <2>1, <2>2
    <3> QED
      BY <3>1, <3>2, SameFunction
  <2>4. Tidy(E) /\ \A j \in Inodes, l \in Place : Ref(E, j, l) = Ref(D, j, l)
    BY <2>1, <2>3, SamePlaces
  <2>5. Grows(D, E)
    BY <2>1, <2>3, <2>4 DEF Grows
  <2>6. Ref(E, i, k) = r.addr
    BY <1>1, <1>2, <1>5, <2>4
  <2>7. Apart(D, E, i)
    BY <2>1, <2>3 DEF Apart
  <2> QED
    BY <1>5, <2>4, <2>5, <2>6, <2>7 DEF r, E, a, k
<1>6. CASE D.data[a][n] = 0 /\ Balloc(D).addr # 0
  <2>0. r = Balloc(D)
    BY <1>6 DEF Ensure
  <2>a. E = [r.disk EXCEPT !.data[a][n] = r.addr]
    OBVIOUS
  <2> HIDE DEF r, E
  <2> DEFINE b == r.addr
             C == r.disk
  <2>1. /\ b \in Blocks \ D.bitmap /\ b # 0 /\ r = [disk |-> C, addr |-> b]
        /\ C \in DiskType /\ C.ino = D.ino /\ C.bitmap = D.bitmap \cup {b}
        /\ \A c \in Blocks : c # b => C.data[c] = D.data[c]
    <3>1. /\ Balloc(D).addr \in Blocks \ D.bitmap /\ Balloc(D).addr # 0
          /\ Balloc(D) = [disk |-> Balloc(D).disk, addr |-> Balloc(D).addr]
          /\ Balloc(D).disk \in DiskType /\ Balloc(D).disk.ino = D.ino
          /\ Balloc(D).disk.bitmap = D.bitmap \cup {Balloc(D).addr}
          /\ \A c \in Blocks : c # Balloc(D).addr => Balloc(D).disk.data[c] = D.data[c]
      BY <1>6, BallocIs
    <3> QED
      BY <2>0, <3>1
  <2>2. b \in Address /\ E = [C EXCEPT !.data[a][n] = b] /\ C.data[a] = D.data[a]
    <3>1. b \in Address
      BY <2>1, FileSizes DEF Address, Sizes
    <3>2. a # b
      BY <1>2, <2>1
    <3> QED
      BY <1>2, <2>1, <2>a, <3>1, <3>2
  <2> HIDE DEF b, C
  <2>3. /\ E \in DiskType /\ E.bitmap = C.bitmap /\ E.ino = D.ino
        /\ \A x \in 0..BSIZE - 1 : E.data[a][x] = IF x = n THEN b ELSE D.data[a][x]
        /\ \A c \in Blocks : c # a => E.data[c] = C.data[c]
    <3>1. C \in DiskType /\ b \in Address /\ C.ino = D.ino /\ C.data[a] = D.data[a]
      BY <2>1, <2>2
    <3>2. E = [C EXCEPT !.data[a][n] = b]
      BY <2>2
    <3>3. \A F : F = [C EXCEPT !.data[a][n] = b] =>
            /\ F \in DiskType /\ F.bitmap = C.bitmap /\ F.ino = D.ino
            /\ \A x \in 0..BSIZE - 1 : F.data[a][x] = IF x = n THEN b ELSE D.data[a][x]
            /\ \A c \in Blocks : c # a => F.data[c] = C.data[c]
      BY <1>3, <3>1
    <3> QED
      BY <3>2, <3>3
  <2>4. \A c \in D.bitmap : c \in Blocks /\ c # b /\ (c # a => E.data[c] = D.data[c])
    BY <1>1, <2>1, <2>3, DiskTypes
  <2>5. \A j \in Inodes, l \in Place : Ref(E, j, l) = IF j = i /\ l = k THEN b ELSE Ref(D, j, l)
    BY <1>4, <2>3, <2>4
  <2>6. ASSUME NEW j \in Inodes, NEW l \in 0..MAXFILE - 1, Ref(D, j, l) # 0
        PROVE  E.data[Ref(D, j, l)] = D.data[Ref(D, j, l)]
    <3>1. Ref(D, j, l) \in D.bitmap /\ Ref(D, j, l) # a
      BY <1>1, <1>2, <2>6 DEF Tidy
    <3> QED
      BY <2>4, <3>1
  <2>7. Ref(D, i, k) = 0
    BY <1>2, <1>6
  <2>8. Filled(D, E, i, k, b)
    BY <2>1, <2>3, <2>5, <2>6, <2>7 DEF Filled
  <2>9. Tidy(E) /\ Grows(D, E) /\ Ref(E, i, k) = b
    BY <1>1, <2>5, <2>8, FilledKeeps
  <2>10. ASSUME NEW j \in Inodes, j # i, D.ino[j].addrs[NDIRECT] # 0
         PROVE  E.data[D.ino[j].addrs[NDIRECT]] = D.data[D.ino[j].addrs[NDIRECT]]
    <3> DEFINE e == Ref(D, j, MAXFILE)
    <3>1. e = D.ino[j].addrs[NDIRECT] /\ e # 0
      BY <2>10, RefIs
    <3>2. e \in D.bitmap /\ e # a
      BY <1>1, <1>2, <2>10, <3>1 DEF Tidy
    <3> QED
      BY <2>4, <3>1, <3>2
  <2>11. Apart(D, E, i)
    BY <2>3, <2>10 DEF Apart
  <2> QED
    BY <2>1, <2>9, <2>11 DEF b, C, E, r, a, k
<1>7. CASE ~(D.data[a][n] = 0 /\ Balloc(D).addr # 0)
  <2>1. CASE D.data[a][n] # 0
    <3>1. r = [disk |-> D, addr |-> D.data[a][n]]
      BY <2>1 DEF Ensure
    <3>2. r.disk = D /\ r.addr = D.data[a][n]
      BY ONLY <3>1
    <3> QED
      BY <1>5, <3>1, <3>2
  <2>2. CASE D.data[a][n] = 0
    <3>1. r = Balloc(D) /\ Balloc(D).addr = 0
      BY <1>7, <2>2 DEF Ensure
    <3>2. r = [disk |-> D, addr |-> 0]
      BY <3>1, BallocIs
    <3>3. r.disk = D /\ r.addr = 0
      BY ONLY <3>2
    <3> QED
      BY <1>5, <2>2, <3>2, <3>3
  <2> QED
    BY <2>1, <2>2
<1> QED
  BY <1>6, <1>7

\* bmap() leaves a tidy disk with more blocks, also when it finds no free one.
LEMMA ResultWith ==
  ASSUME NEW r, r = [disk |-> r.disk, addr |-> r.addr], NEW u
  PROVE  [r EXCEPT !.disk = u] = [disk |-> u, addr |-> r.addr]
<1> DEFINE x == r.disk
           y == r.addr
           R == [disk |-> x, addr |-> y]
<1>1. [R EXCEPT !.disk = u] = [disk |-> u, addr |-> y]
  <2> HIDE DEF x, y
  <2> QED
    OBVIOUS
<1>2. r = R
  OBVIOUS
<1> HIDE DEF R
<1>3. [r EXCEPT !.disk = u] = [disk |-> u, addr |-> y]
  BY <1>1, <1>2
<1> QED
  BY <1>3

LEMMA BmapKeeps ==
  ASSUME FilesAssumption, NEW D, Tidy(D), NEW i \in Inodes, NEW bn \in 0..MAXFILE - 1
  PROVE  LET r == Bmap(D, i, bn) IN
         Tidy(r.disk) /\ Grows(D, r.disk) /\ Apart(D, r.disk, i) /\ (r.addr # 0 => r.addr = Ref(r.disk, i, bn))
<1>1. CASE bn < NDIRECT
  <2> DEFINE r == Ensure(D, D.ino[i].addrs[bn])
             E == [r.disk EXCEPT !.ino[i].addrs[bn] = r.addr]
  <2>1. bn \in 0..NDIRECT /\ bn \in 0..NDIRECT - 1
    BY <1>1, FileSizes DEF Sizes
  <2>2. /\ Tidy(E) /\ Grows(D, E) /\ Apart(D, E, i) /\ E.ino[i].addrs[bn] = r.addr
        /\ r = [disk |-> r.disk, addr |-> r.addr]
    <3>1. LET t == Ensure(D, D.ino[i].addrs[bn])
              F == [t.disk EXCEPT !.ino[i].addrs[bn] = t.addr] IN
          /\ Tidy(F) /\ Grows(D, F) /\ Apart(D, F, i) /\ F.ino[i].addrs[bn] = t.addr
          /\ t = [disk |-> t.disk, addr |-> t.addr] /\ t.addr \in Address
      BY <2>1, EnsureAddr
    <3> QED
      BY <3>1
  <2>3. Bmap(D, i, bn) = [r EXCEPT !.disk = E]
    BY <1>1 DEF Bmap
  <2> HIDE DEF r, E
  <2>4. Bmap(D, i, bn) = [disk |-> E, addr |-> r.addr]
    BY <2>2, <2>3, ResultWith
  <2>5. Bmap(D, i, bn).disk = E /\ Bmap(D, i, bn).addr = r.addr
    BY ONLY <2>4
  <2>6. Ref(E, i, bn) = r.addr
    BY <2>1, <2>2, RefIs
  <2> QED
    BY <2>2, <2>5, <2>6
<1>2. CASE ~(bn < NDIRECT)
  <2> DEFINE r == Ensure(D, D.ino[i].addrs[NDIRECT])
             C == [r.disk EXCEPT !.ino[i].addrs[NDIRECT] = r.addr]
             n == bn - NDIRECT
             s == Ensure(C, C.data[r.addr][n])
             E == [s.disk EXCEPT !.data[r.addr][n] = s.addr]
  <2>1. n \in 0..NINDIRECT - 1 /\ NDIRECT \in 0..NDIRECT /\ NDIRECT + n = bn
        /\ bn \in NDIRECT..MAXFILE - 1
    BY <1>2, FileSizes DEF Sizes
  <2>2. /\ Tidy(C) /\ Grows(D, C) /\ Apart(D, C, i) /\ C.ino[i].addrs[NDIRECT] = r.addr
        /\ r = [disk |-> r.disk, addr |-> r.addr]
    <3>1. LET t == Ensure(D, D.ino[i].addrs[NDIRECT])
              F == [t.disk EXCEPT !.ino[i].addrs[NDIRECT] = t.addr] IN
          /\ Tidy(F) /\ Grows(D, F) /\ Apart(D, F, i) /\ F.ino[i].addrs[NDIRECT] = t.addr
          /\ t = [disk |-> t.disk, addr |-> t.addr] /\ t.addr \in Address
      BY <2>1, EnsureAddr
    <3> QED
      BY <3>1
  <2>3. Bmap(D, i, bn) = IF r.addr = 0 THEN r ELSE [s EXCEPT !.disk = E]
    BY <1>2 DEF Bmap
  <2>4. CASE r.addr = 0
    <3>1. r.disk = D
      <4>1. CASE D.ino[i].addrs[NDIRECT] # 0
        <5>1. r = [disk |-> D, addr |-> D.ino[i].addrs[NDIRECT]]
          BY <4>1 DEF Ensure
        <5>2. r.addr = D.ino[i].addrs[NDIRECT]
          BY ONLY <5>1
        <5> QED
          BY <2>4, <4>1, <5>2
      <4>2. CASE D.ino[i].addrs[NDIRECT] = 0
        <5>1. r = Balloc(D)
          BY <4>2 DEF Ensure
        <5> HIDE DEF r
        <5> QED
          BY <2>4, <5>1, BallocIs
      <4> QED
        BY <4>1, <4>2
    <3> QED
      BY <2>3, <2>4, <3>1, GrowsSelf DEF Apart
  <2>5. CASE r.addr # 0
    <3> HIDE DEF C, n
    <3>1. /\ Tidy(E) /\ Grows(C, E) /\ Apart(C, E, i) /\ Ref(E, i, NDIRECT + n) = s.addr
          /\ s = [disk |-> s.disk, addr |-> s.addr]
      <4> DEFINE a == C.ino[i].addrs[NDIRECT]
      <4>1. a # 0 /\ a = r.addr
        BY <2>2, <2>5
      <4>2. LET t == Ensure(C, C.data[a][n])
                F == [t.disk EXCEPT !.data[a][n] = t.addr] IN
            /\ Tidy(F) /\ Grows(C, F) /\ Apart(C, F, i) /\ Ref(F, i, NDIRECT + n) = t.addr
            /\ t = [disk |-> t.disk, addr |-> t.addr]
        BY <2>1, <2>2, <4>1, EnsureSlot
      <4> HIDE DEF a
      <4> QED
        BY <4>1, <4>2
    <3> HIDE DEF s, E
    <3>2. Bmap(D, i, bn) = [disk |-> E, addr |-> s.addr]
      BY <2>3, <2>5, <3>1, ResultWith
    <3>3. Bmap(D, i, bn).disk = E /\ Bmap(D, i, bn).addr = s.addr
      BY ONLY <3>2
    <3>4. Grows(D, E) /\ Apart(D, E, i)
      BY <2>2, <3>1, GrowsTrans, ApartTrans
    <3> QED
      BY <2>1, <3>1, <3>3, <3>4
  <2> QED
    BY <2>4, <2>5
<1> QED
  BY <1>1, <1>2

\* itrunc() empties the places of one inode, and leaves the others.
LEMMA OwnedIs ==
  ASSUME FilesAssumption, NEW D, NEW i
  PROVE  Owned(D, i) = {Ref(D, i, k) : k \in Place} \ {0}
<1>1. Place = 0..MAXFILE - 1 \cup {MAXFILE}
  BY FileSizes DEF Place, Sizes
<1>2. \A k \in 0..MAXFILE - 1 : Ref(D, i, k) = Slot(D, i, k)
  BY RefIs
<1>3. Ref(D, i, MAXFILE) = D.ino[i].addrs[NDIRECT]
  BY RefIs
<1> QED
  BY <1>1, <1>2, <1>3 DEF Owned

LEMMA ItruncIs ==
  ASSUME FilesAssumption, NEW D \in DiskType, NEW i \in Inodes
  PROVE  LET E == Itrunc(D, i) IN
         /\ E \in DiskType /\ E.bitmap = D.bitmap \ Owned(D, i) /\ E.data = D.data
         /\ E.ino[i].type = D.ino[i].type /\ E.ino[i].nlink = D.ino[i].nlink /\ E.ino[i].size = 0
         /\ E.ino[i].addrs = [n \in 0..NDIRECT |-> 0]
         /\ \A j \in Inodes : j # i => E.ino[j] = D.ino[j]
<1> DEFINE Z == [n \in 0..NDIRECT |-> 0]
           u == D.bitmap \ Owned(D, i)
           A == [D EXCEPT !.bitmap = u]
           B == [A EXCEPT !.ino[i].addrs = Z]
           C == [B EXCEPT !.ino[i].size = 0]
<1>1. Itrunc(D, i) = C
  BY DEF Itrunc, NoInode
<1>2. u \in SUBSET Blocks /\ Z \in [0..NDIRECT -> Address] /\ 0 \in 0..MaxBytes
  BY DiskTypes, FileSizes DEF Address, Sizes
<1> HIDE DEF u, Z
<1>3. A \in DiskType /\ A.bitmap = u /\ A.data = D.data /\ A.ino = D.ino
  BY <1>2, SetBitmap
<1> HIDE DEF A
<1>4. /\ B \in DiskType /\ B.bitmap = A.bitmap /\ B.data = A.data
      /\ B.ino[i].type = A.ino[i].type /\ B.ino[i].nlink = A.ino[i].nlink /\ B.ino[i].addrs = Z
      /\ \A j \in Inodes : j # i => B.ino[j] = A.ino[j]
  BY <1>2, <1>3, SetAddrs
<1> HIDE DEF B
<1>5. /\ C \in DiskType /\ C.bitmap = B.bitmap /\ C.data = B.data
      /\ C.ino[i].type = B.ino[i].type /\ C.ino[i].nlink = B.ino[i].nlink
      /\ C.ino[i].addrs = B.ino[i].addrs /\ C.ino[i].size = 0
      /\ \A j \in Inodes : j # i => C.ino[j] = B.ino[j]
  BY <1>2, <1>4, SetSize
<1> HIDE DEF C
<1> QED
  BY <1>1, <1>3, <1>4, <1>5 DEF u, Z

LEMMA ItruncKeeps ==
  ASSUME FilesAssumption, NEW D, Tidy(D), NEW i \in Inodes
  PROVE  LET E == Itrunc(D, i) IN
         /\ Tidy(E) /\ \A j \in Inodes, l \in Place : Ref(E, j, l) = IF j = i THEN 0 ELSE Ref(D, j, l)
<1> DEFINE E == Itrunc(D, i)
<1>1. /\ D \in DiskType /\ E \in DiskType
      /\ E.bitmap = D.bitmap \ Owned(D, i) /\ E.data = D.data
      /\ E.ino[i].addrs = [n \in 0..NDIRECT |-> 0]
      /\ \A j \in Inodes : j # i => E.ino[j] = D.ino[j]
  BY ItruncIs DEF Tidy
<1> HIDE DEF E
<1>2. NDIRECT \in 0..NDIRECT /\ \A l \in 0..NDIRECT - 1 : l \in 0..NDIRECT
  BY FileSizes DEF Sizes
<1>3. ASSUME NEW j \in Inodes, NEW l \in Place
      PROVE  Ref(E, j, l) = IF j = i THEN 0 ELSE Ref(D, j, l)
  <2>1. CASE j = i
    <3>1. E.ino[j].addrs[NDIRECT] = 0 /\ \A m \in 0..NDIRECT - 1 : E.ino[j].addrs[m] = 0
      BY <1>1, <1>2, <2>1
    <3> QED
      BY <2>1, <3>1, RefIs
  <2>2. CASE j # i
    <3>1. E.ino[j] = D.ino[j] /\ E.data = D.data
      BY <1>1, <2>2
    <3>2. Ref(E, j, l) = Ref(D, j, l)
      BY <3>1, RefIs
    <3> QED
      BY <2>2, <3>2
  <2> QED
    BY <2>1, <2>2
<1>4. \A b : b \in E.bitmap <=> b \in D.bitmap /\ ~ \E k \in Place : Ref(D, i, k) = b
  <2>1. \A b \in D.bitmap : b # 0
    BY <1>1, DiskTypes, FileSizes DEF Sizes
  <2> QED
    BY <1>1, <2>1, OwnedIs
<1>5. ASSUME NEW j \in Inodes, E.ino[j].addrs[NDIRECT] # 0
      PROVE  E.ino[j] = D.ino[j] /\ E.data = D.data
  BY <1>1, <1>2, <1>5
<1>6. \A j \in Inodes : E.ino[j].addrs[NDIRECT] # 0 =>
        \A n \in 0..NINDIRECT - 1 : E.data[E.ino[j].addrs[NDIRECT]][n] \in Address
  BY <1>5 DEF Tidy
<1>7. \A j, m \in Inodes, k, l \in Place :
        Ref(E, j, k) = Ref(E, m, l) /\ Ref(E, j, k) # 0 => j = m /\ k = l
  BY <1>3 DEF Tidy
<1>8. ASSUME NEW j \in Inodes, NEW k \in Place, Ref(E, j, k) # 0 PROVE Ref(E, j, k) \in E.bitmap
  <2>1. j # i /\ Ref(E, j, k) = Ref(D, j, k)
    BY <1>3, <1>8
  <2>2. \A l \in Place : Ref(D, i, l) # Ref(D, j, k)
    BY <1>8, <2>1 DEF Tidy
  <2>3. Ref(D, j, k) \in D.bitmap
    BY <1>8, <2>1 DEF Tidy
  <2> QED
    BY <1>4, <2>1, <2>2, <2>3
<1>9. ASSUME NEW b \in E.bitmap PROVE \E j \in Inodes, k \in Place : Ref(E, j, k) = b
  <2>1. b \in D.bitmap /\ \A l \in Place : Ref(D, i, l) # b
    BY <1>4
  <2>2. PICK j \in Inodes, k \in Place : Ref(D, j, k) = b
    BY <2>1 DEF Tidy
  <2>3. j # i
    BY <2>1, <2>2
  <2>4. Ref(E, j, k) = b
    BY <1>3, <2>2, <2>3
  <2> QED
    BY <2>4
<1> QED
  BY <1>1, <1>3, <1>6, <1>7, <1>8, <1>9 DEF Tidy, E

-----------------------------------------------------------------------------
(* The loop of writei().                                                    *)

Turn(st, i, off, src, good) ==
  IF st.stop \/ st.tot = Len(src) THEN st ELSE WritePiece(st, i, off, src, good)
IsLoop(g, n, i, off, src, good) ==
  g = [j \in 0..n |-> IF j = 0 THEN [disk |-> disk, tot |-> 0, stop |-> FALSE]
                      ELSE Turn(g[j - 1], i, off, src, good)]
Ended(end, i, off, src) ==
  LET old == end.disk.ino[i].size IN
    IF off > disk.ino[i].size \/ off + Len(src) > MAXFILE * BSIZE THEN [disk |-> disk, r |-> -1]
    ELSE [disk |-> [end.disk EXCEPT !.ino[i].size = IF off + end.tot > old THEN off + end.tot ELSE old],
          r |-> end.tot]

LEMMA LoopExists ==
  ASSUME NEW n \in Nat, NEW i, NEW off, NEW src, NEW good
  PROVE  \E g : IsLoop(g, n, i, off, src, good)
<1> DEFINE S == {k \in Nat : ~ \E g : IsLoop(g, k, i, off, src, good)}
           Zero == [disk |-> disk, tot |-> 0, stop |-> FALSE]
           T(st) == Turn(st, i, off, src, good)
<1> SUFFICES ASSUME S # {} PROVE FALSE
  OBVIOUS
<1>1. PICK q \in S : \A r \in S : q <= r
  BY Least
<1>2. q # 0
  <2>1. IsLoop([j \in 0..0 |-> Zero], 0, i, off, src, good)
    BY DEF IsLoop
  <2> QED
    BY <1>1, <2>1
<1>3. q - 1 \in Nat /\ q - 1 \notin S
  BY <1>1, <1>2
<1>4. PICK g : IsLoop(g, q - 1, i, off, src, good)
  BY <1>3
<1> DEFINE h == [j \in 0..q |-> IF j = q THEN T(g[q - 1]) ELSE g[j]]
<1>5. \A j \in 0..q - 1 : h[j] = g[j] /\ g[j] = IF j = 0 THEN Zero ELSE T(g[j - 1])
  <2>1. g = [j \in 0..q - 1 |-> IF j = 0 THEN Zero ELSE T(g[j - 1])]
    BY <1>4 DEF IsLoop
  <2>2. \A j \in 0..q - 1 : g[j] = IF j = 0 THEN Zero ELSE T(g[j - 1])
    <3> HIDE DEF Zero, T
    <3> QED
      BY ONLY <2>1
  <2>3. \A j \in 0..q - 1 : j \in 0..q /\ j # q
    BY <1>1, <1>3
  <2> HIDE DEF Zero, T
  <2>4. \A j \in 0..q - 1 : h[j] = g[j]
    BY <2>3
  <2> QED
    BY <2>2, <2>4
<1>6. \A j \in 0..q : h[j] = IF j = 0 THEN Zero ELSE T(h[j - 1])
  <2> TAKE j \in 0..q
  <2>1. CASE j = q
    <3>1. h[j] = T(g[q - 1]) /\ q - 1 \in 0..q - 1 /\ j # 0
      BY <1>1, <1>2, <2>1
    <3>2. h[j - 1] = g[q - 1]
      BY <1>5, <2>1, <3>1
    <3> HIDE DEF h
    <3> QED
      BY <3>1, <3>2
  <2>2. CASE j # q
    <3>1. j \in 0..q - 1 /\ (j # 0 => j - 1 \in 0..q - 1)
      BY <1>1, <1>3, <2>2
    <3> HIDE DEF h
    <3> QED
      BY <1>5, <3>1
  <2> QED
    BY <2>1, <2>2
<1>7. h = [j \in 0..q |-> h[j]]
  OBVIOUS
<1> HIDE DEF h
<1>8. h = [j \in 0..q |-> IF j = 0 THEN Zero ELSE T(h[j - 1])]
  BY <1>6, <1>7
<1>9. IsLoop(h, q, i, off, src, good)
  BY <1>8 DEF IsLoop
<1> QED
  BY <1>1, <1>9

LEMMA WriteiIs ==
  ASSUME NEW i, NEW off, NEW src, Len(src) \in Nat, NEW good
  PROVE  \E g : /\ IsLoop(g, Len(src), i, off, src, good)
                /\ Writei(i, off, src, good) = Ended(g[Len(src)], i, off, src)
<1> DEFINE L == CHOOSE g : IsLoop(g, Len(src), i, off, src, good)
<1>1. IsLoop(L, Len(src), i, off, src, good)
  BY LoopExists
<1>2. Writei(i, off, src, good) = Ended(L[Len(src)], i, off, src)
  BY DEF Writei, Ended, IsLoop, Turn
<1> QED
  BY <1>1, <1>2

\* Bytes and blocks.
LEMMA Divides ==
  ASSUME NEW P \in Nat \ {0}, NEW a \in Nat
  PROVE  a \div P \in Nat /\ a % P \in 0..P - 1 /\ a = (a \div P) * P + (a % P)
OBVIOUS

LEMMA QuotientIs ==
  ASSUME NEW P \in Nat \ {0}, NEW a \in Nat, NEW q \in Nat, NEW x \in 0..P - 1, a = q * P + x
  PROVE  a \div P = q /\ a % P = x
<1> DEFINE d == a \div P
           m == a % P
<1>1. d \in Nat /\ m \in 0..P - 1 /\ a = d * P + m
  BY Divides
<1> HIDE DEF d, m
<1>2. CASE d > q
  <2>1. d * P >= (q + 1) * P /\ (q + 1) * P = q * P + P
    BY <1>1, <1>2
  <2> QED
    BY <1>1, <2>1
<1>3. CASE d < q
  <2>1. q * P >= (d + 1) * P /\ (d + 1) * P = d * P + P
    BY <1>1, <1>3
  <2> QED
    BY <1>1, <2>1
<1>4. CASE d = q
  <2>1. d * P = q * P
    BY <1>4
  <2>2. d * P \in Int /\ x \in Int /\ m \in Int
    BY <1>1
  <2>3. m = x
    BY <1>1, <2>1, <2>2
  <2> QED
    BY <1>4, <2>3 DEF d, m
<1> QED
  BY <1>1, <1>2, <1>3, <1>4

\* Two bytes of the same block are as far apart as in the file.
LEMMA SameBlock ==
  ASSUME FilesAssumption, NEW a \in Nat, NEW k \in Nat
  PROVE  /\ a \div BSIZE = k \div BSIZE => k - a = (k % BSIZE) - (a % BSIZE)
         /\ k >= a /\ k - a < BSIZE - (a % BSIZE) => a \div BSIZE = k \div BSIZE
<1> DEFINE q == a \div BSIZE
           x == a % BSIZE
           d == k \div BSIZE
           y == k % BSIZE
<1>1. BSIZE \in Nat \ {0}
  BY FileSizes DEF Sizes
<1>2. q \in Nat /\ x \in 0..BSIZE - 1 /\ a = q * BSIZE + x
  BY <1>1, Divides
<1>3. d \in Nat /\ y \in 0..BSIZE - 1 /\ k = d * BSIZE + y
  BY <1>1, Divides
<1> HIDE DEF q, x, d, y
<1>4. ASSUME q = d PROVE k - a = y - x
  <2>1. q * BSIZE = d * BSIZE /\ q * BSIZE \in Int
    BY <1>1, <1>2, <1>4
  <2> QED
    BY <1>1, <1>2, <1>3, <2>1
<1>5. ASSUME k >= a, k - a < BSIZE - x PROVE q = d
  <2>1. k = q * BSIZE + (k - a + x)
    <3>1. q * BSIZE \in Int
      BY <1>1, <1>2
    <3> QED
      BY <1>1, <1>2, <3>1
  <2>2. k - a + x \in 0..BSIZE - 1
    BY <1>1, <1>2, <1>5
  <2>3. k \div BSIZE = q
    <3> DEFINE z == k - a + x
    <3>1. z \in 0..BSIZE - 1 /\ k = q * BSIZE + z
      BY <2>1, <2>2
    <3> HIDE DEF z
    <3> QED
      BY <1>1, <1>2, <3>1, QuotientIs
  <2> QED
    BY <2>3 DEF d
<1> QED
  <2>1. a \div BSIZE = k \div BSIZE => k - a = (k % BSIZE) - (a % BSIZE)
    BY <1>4 DEF q, x, d, y
  <2>2. k >= a /\ k - a < BSIZE - (a % BSIZE) => a \div BSIZE = k \div BSIZE
    BY <1>5 DEF q, x, d
  <2> QED
    BY <2>1, <2>2

LEMMA BlockOfByte ==
  ASSUME FilesAssumption, NEW k \in 0..MaxBytes - 1
  PROVE  k \in Nat /\ k \div BSIZE \in 0..MAXFILE - 1 /\ k % BSIZE \in 0..BSIZE - 1 /\ k \div BSIZE \in Place
<1> DEFINE q == k \div BSIZE
           x == k % BSIZE
<1>1. BSIZE \in Nat \ {0} /\ MAXFILE \in Nat \ {0} /\ MaxBytes \in Nat /\ k \in Nat
  BY FileSizes DEF Sizes
<1>2. q \in Nat /\ x \in 0..BSIZE - 1 /\ k = q * BSIZE + x
  BY <1>1, Divides
<1>3. k < MAXFILE * BSIZE
  BY <1>1 DEF MaxBytes
<1> HIDE DEF q, x
<1>4. q < MAXFILE
  <2> SUFFICES ASSUME q >= MAXFILE PROVE FALSE
    BY <1>1, <1>2
  <2>1. q * BSIZE >= MAXFILE * BSIZE
    BY <1>1, <1>2
  <2>2. q * BSIZE \in Int /\ MAXFILE * BSIZE \in Int
    BY <1>1, <1>2
  <2> QED
    BY <1>1, <1>2, <1>3, <2>1, <2>2
<1>5. q \in 0..MAXFILE - 1 /\ q \in Place
  BY <1>1, <1>2, <1>4 DEF Place
<1> QED
  BY <1>1, <1>2, <1>5 DEF q, x

\* The byte at position k of inode j, and whether it has a block.
Byte(D, j, k) == D.data[Ref(D, j, k \div BSIZE)][k % BSIZE]
Has(D, j, k) == Ref(D, j, k \div BSIZE) # 0

\* The first w bytes of src are at off in inode i, and what else was in a block is
\* unchanged.
Holds(D, i, off, src, w) ==
  /\ Tidy(D) /\ Apart(disk, D, i)
  /\ \A j \in Inodes : D.ino[j].size = disk.ino[j].size /\ D.ino[j].nlink = disk.ino[j].nlink
  /\ \A j \in Inodes, l \in Place : Ref(disk, j, l) # 0 => Ref(D, j, l) = Ref(disk, j, l)
  /\ \A k \in off..off + w - 1 : Has(D, i, k)
  /\ \A j \in Inodes, k \in 0..MaxBytes - 1 :
       Has(disk, j, k) \/ (j = i /\ k \in off..off + w - 1) =>
         Byte(D, j, k) = IF j = i /\ k \in off..off + w - 1 THEN src[k - off + 1] ELSE Byte(disk, j, k)

\* They all count unless a copy has failed.
Written(st, i, off, src, good, w) ==
  /\ st = [disk |-> st.disk, tot |-> st.tot, stop |-> st.stop]
  /\ Holds(st.disk, i, off, src, w)
  /\ st.tot \in 0..Len(src) /\ w \in st.tot..Len(src) /\ st.stop \in BOOLEAN
  /\ ~st.stop => w = st.tot /\ st.tot <= good

\* The bytes of a block that is not an indirect one.
DataWith(D, b, w) == [D EXCEPT !.data[b] = w]
LEMMA SetBytes ==
  ASSUME FilesAssumption, NEW D, Tidy(D), NEW i \in Inodes, NEW n \in 0..MAXFILE - 1,
         NEW b, b = Ref(D, i, n), b # 0, NEW w \in [0..BSIZE - 1 -> Nat]
  PROVE  LET E == DataWith(D, b, w) IN
         /\ Tidy(E) /\ E.ino = D.ino /\ E.data[b] = w
         /\ \A j \in Inodes, l \in Place : Ref(E, j, l) = Ref(D, j, l)
         /\ \A j \in Inodes, l \in Place : Ref(D, j, l) # 0 /\ ~(j = i /\ l = n) =>
              E.data[Ref(D, j, l)] = D.data[Ref(D, j, l)]
<1> DEFINE E == DataWith(D, b, w)
<1>1. n \in Place /\ n # MAXFILE /\ MAXFILE \in Place
  BY FileSizes DEF Place, Sizes
<1>2. D \in DiskType /\ b \in Blocks /\ b # 0
  BY <1>1, RefType DEF Tidy
<1>3. /\ E \in DiskType /\ E.bitmap = D.bitmap /\ E.ino = D.ino /\ E.data[b] = w
      /\ \A c \in Blocks : c # b => E.data[c] = D.data[c]
  BY <1>2, SetBlock DEF DataWith
<1> HIDE DEF E
<1>4. \A j \in Inodes, l \in Place : Ref(D, j, l) # 0 /\ ~(j = i /\ l = n) =>
        /\ Ref(D, j, l) # b /\ E.data[Ref(D, j, l)] = D.data[Ref(D, j, l)]
  BY <1>1, <1>3, RefType DEF Tidy
<1>5. ASSUME NEW j \in Inodes, D.ino[j].addrs[NDIRECT] # 0
      PROVE  E.data[D.ino[j].addrs[NDIRECT]] = D.data[D.ino[j].addrs[NDIRECT]]
  <2>1. D.ino[j].addrs[NDIRECT] = Ref(D, j, MAXFILE)
    BY RefIs
  <2> QED
    BY <1>1, <1>4, <1>5, <2>1
<1>6. ASSUME NEW j \in Inodes, NEW l \in Place PROVE Ref(E, j, l) = Ref(D, j, l)
  BY <1>3, <1>5, RefIs
<1>7. Tidy(E)
  BY <1>3, <1>5, <1>6 DEF Tidy
<1> QED
  BY <1>3, <1>4, <1>6, <1>7 DEF E

LEMMA HoldsMore ==
  ASSUME FilesAssumption, NEW i \in Inodes, NEW D, NEW E, Tidy(E), Grows(D, E), Apart(D, E, i),
         NEW off \in Nat, NEW src, NEW w \in Nat, off + w <= MaxBytes, Holds(D, i, off, src, w)
  PROVE  Holds(E, i, off, src, w)
<1>1. ASSUME NEW j \in Inodes, NEW k \in 0..MaxBytes - 1, Has(D, j, k)
      PROVE  Has(E, j, k) /\ Byte(E, j, k) = Byte(D, j, k)
  BY <1>1, BlockOfByte DEF Has, Byte, Grows
<1>2. ASSUME NEW j \in Inodes, NEW k \in 0..MaxBytes - 1, Has(disk, j, k) PROVE Has(D, j, k)
  BY <1>2, BlockOfByte DEF Has, Holds
<1>3. off..off + w - 1 \subseteq 0..MaxBytes - 1
  BY FileSizes DEF Sizes
<1>4. \A j \in Inodes : E.ino[j].size = disk.ino[j].size /\ E.ino[j].nlink = disk.ino[j].nlink
  BY DEF Grows, Holds
<1>5. \A j \in Inodes, l \in Place : Ref(disk, j, l) # 0 => Ref(E, j, l) = Ref(disk, j, l)
  BY DEF Grows, Holds
<1>6. \A k \in off..off + w - 1 : Has(D, i, k) /\ Has(E, i, k)
  BY <1>1, <1>3 DEF Holds
<1>7. ASSUME NEW j \in Inodes, NEW k \in 0..MaxBytes - 1, Has(disk, j, k) \/ (j = i /\ k \in off..off + w - 1)
      PROVE  Byte(E, j, k) = IF j = i /\ k \in off..off + w - 1 THEN src[k - off + 1] ELSE Byte(disk, j, k)
  <2>1. Has(D, j, k)
    BY <1>2, <1>6, <1>7
  <2>2. Byte(E, j, k) = Byte(D, j, k)
    BY <1>1, <2>1
  <2>3. Byte(D, j, k) = IF j = i /\ k \in off..off + w - 1 THEN src[k - off + 1] ELSE Byte(disk, j, k)
    BY <1>7 DEF Holds
  <2> QED
    BY <2>2, <2>3
<1>8. Apart(disk, E, i)
  BY ApartTrans DEF Holds
<1> QED
  BY <1>4, <1>5, <1>6, <1>7, <1>8 DEF Holds

\* put more bytes in the block of the next one.
Put(D, b, x, src, w, put) ==
  [k \in 0..BSIZE - 1 |-> IF k - x \in 0..put - 1 THEN src[w + k - x + 1] ELSE D.data[b][k]]

LEMMA HoldsPut ==
  ASSUME FilesAssumption, NEW D, NEW i \in Inodes, NEW off \in Nat, NEW src \in Seq(Nat), NEW w \in Nat, NEW put \in Nat,
         w + put <= Len(src), off + w + put <= MaxBytes, off + w < MaxBytes,
         put <= BSIZE - ((off + w) % BSIZE), Holds(D, i, off, src, w),
         NEW b, b = Ref(D, i, (off + w) \div BSIZE), b # 0
  PROVE  Holds(DataWith(D, b, Put(D, b, (off + w) % BSIZE, src, w, put)), i, off, src, w + put)
<1>sizes. Sizes
  BY FileSizes
<1> DEFINE z == off + w
           n == z \div BSIZE
           x == z % BSIZE
           u == Put(D, b, x, src, w, put)
           E == DataWith(D, b, u)
<1>0. z \in 0..MaxBytes - 1 /\ z \in Nat
  BY FileSizes DEF Sizes
<1>1. n \in 0..MAXFILE - 1 /\ x \in 0..BSIZE - 1 /\ n \in Place
  BY <1>0, BlockOfByte
<1>2. Tidy(D) /\ D \in DiskType /\ b = Ref(D, i, n) /\ b \in Blocks
  <2>1. Tidy(D) /\ D \in DiskType
    BY DEF Holds, Tidy
  <2> HIDE DEF n
  <2>2. b = Ref(D, i, n)
    BY DEF n
  <2> QED
    BY <1>1, <2>1, <2>2, RefType
<1>3. put <= BSIZE - x
  OBVIOUS
<1>4. u \in [0..BSIZE - 1 -> Nat]
  <2>1. ASSUME NEW k \in 0..BSIZE - 1, k - x \in 0..put - 1 PROVE src[w + k - x + 1] \in Nat
    <3>1. w + k - x + 1 \in 1..Len(src)
      <4> HIDE DEF x
      <4> QED
        BY <1>1, <2>1, <1>sizes DEF Sizes
    <3> DEFINE q == w + k - x + 1
    <3>2. q \in 1..Len(src)
      BY <3>1
    <3> HIDE DEF q
    <3>3. src[q] \in Nat
      BY <3>2
    <3> QED
      BY <3>3 DEF q
  <2>2. \A k \in 0..BSIZE - 1 : D.data[b][k] \in Nat
    BY <1>2, DiskTypes
  <2> HIDE DEF x
  <2> QED
    BY <2>1, <2>2 DEF Put
<1> HIDE DEF u, x, n
<1>5. /\ Tidy(E) /\ E.ino = D.ino /\ E.data[b] = u
      /\ \A j \in Inodes, l \in Place : Ref(E, j, l) = Ref(D, j, l)
      /\ \A j \in Inodes, l \in Place : Ref(D, j, l) # 0 /\ ~(j = i /\ l = n) => E.data[Ref(D, j, l)] = D.data[Ref(D, j, l)]
  <2>1. i \in Inodes /\ Tidy(D) /\ n \in 0..MAXFILE - 1 /\ b = Ref(D, i, n) /\ b # 0
    BY <1>1, <1>2
  <2> QED
    BY <1>4, <2>1, SetBytes
<1> HIDE DEF E
<1>6. ASSUME NEW k \in 0..MaxBytes - 1, k \div BSIZE = n
      PROVE  k - z = (k % BSIZE) - x
  BY <1>0, <1>6, BlockOfByte, SameBlock DEF n, x
<1>7. ASSUME NEW k \in z..z + put - 1 PROVE k \in 0..MaxBytes - 1 /\ k \div BSIZE = n
  <2>1. k \in Nat /\ k >= z /\ k - z < BSIZE - x /\ k \in 0..MaxBytes - 1
    BY <1>0, <1>1, <1>3, <1>sizes DEF Sizes
  <2> QED
    BY <1>0, <2>1, SameBlock DEF n, x
<1>8. \A k \in off..off + w + put - 1 : k \in off..off + w - 1 \/ k \in z..z + put - 1
  OBVIOUS
<1>9. \A k \in off..off + w - 1 : Has(D, i, k) /\ k \in 0..MaxBytes - 1
  <2>1. \A k \in off..off + w - 1 : k \in 0..MaxBytes - 1
    BY <1>0, <1>sizes DEF Sizes
  <2> QED
    BY <2>1 DEF Holds
<1>10. \A j \in Inodes, k \in 0..MaxBytes - 1 : Has(E, j, k) <=> Has(D, j, k)
  BY <1>5, BlockOfByte DEF Has
<1>11. \A k \in off..off + (w + put) - 1 : Has(E, i, k)
  <2> TAKE k \in off..off + (w + put) - 1
  <2>1. CASE k \in off..off + w - 1
    BY <1>9, <1>10, <2>1
  <2>2. CASE k \in z..z + put - 1
    <3>1. Has(D, i, k) /\ k \in 0..MaxBytes - 1
      BY <1>2, <1>7, <2>2 DEF Has
    <3> QED
      BY <1>10, <3>1
  <2> QED
    BY <1>8, <2>1, <2>2
<1>12. ASSUME NEW j \in Inodes, NEW k \in 0..MaxBytes - 1,
              Has(disk, j, k) \/ (j = i /\ k \in off..off + (w + put) - 1)
       PROVE  Byte(E, j, k) = IF j = i /\ k \in off..off + (w + put) - 1 THEN src[k - off + 1] ELSE Byte(disk, j, k)
  <2>1. CASE j = i /\ k \in z..z + put - 1
    <3>1. k \div BSIZE = n /\ k - z = (k % BSIZE) - x
      BY <1>6, <1>7, <2>1
    <3>2. k % BSIZE \in 0..BSIZE - 1 /\ (k % BSIZE) - x \in 0..put - 1 /\ w + (k % BSIZE) - x + 1 = k - off + 1
      <4> DEFINE y == k % BSIZE
      <4>1. y \in 0..BSIZE - 1 /\ k - z = y - x
        BY <3>1, BlockOfByte
      <4> HIDE DEF y
      <4>2. y - x \in 0..put - 1 /\ w + y - x + 1 = k - off + 1
        BY <1>1, <2>1, <4>1
      <4> QED
        BY <4>1, <4>2 DEF y
    <3>3. Byte(E, j, k) = u[k % BSIZE]
      BY <1>1, <1>2, <1>5, <2>1, <3>1 DEF Byte
    <3>4. u[k % BSIZE] = src[k - off + 1]
      <4> DEFINE y == k % BSIZE
      <4>1. y \in 0..BSIZE - 1 /\ y - x \in 0..put - 1 /\ w + y - x + 1 = k - off + 1
        BY <3>2
      <4> HIDE DEF y
      <4>2. u[y] = src[w + y - x + 1]
        BY <4>1 DEF u, Put
      <4> QED
        BY <4>1, <4>2 DEF y
    <3>5. k \in off..off + (w + put) - 1
      BY <2>1
    <3> QED
      BY <2>1, <3>3, <3>4, <3>5
  <2>2. CASE ~(j = i /\ k \in z..z + put - 1)
    <3>1. j = i /\ k \in off..off + (w + put) - 1 <=> j = i /\ k \in off..off + w - 1
      BY <1>0, <2>2
    <3>2. Has(D, j, k)
      <4>1. CASE Has(disk, j, k)
        BY <4>1, BlockOfByte DEF Has, Holds
      <4>2. CASE j = i /\ k \in off..off + w - 1
        BY <1>9, <4>2
      <4> QED
        BY <1>12, <3>1, <4>1, <4>2
    <3>3. Byte(D, j, k) = IF j = i /\ k \in off..off + w - 1 THEN src[k - off + 1] ELSE Byte(disk, j, k)
      BY <1>12, <3>1 DEF Holds
    <3>4. Byte(E, j, k) = Byte(D, j, k)
      <4>1. CASE j = i /\ k \div BSIZE = n
        <5>1. k - z = (k % BSIZE) - x
          BY <1>6, <4>1
        <5>2. k % BSIZE \in 0..BSIZE - 1 /\ (k % BSIZE) - x \notin 0..put - 1
          <6> DEFINE y == k % BSIZE
          <6>1. y \in 0..BSIZE - 1 /\ k - z = y - x
            BY <5>1, BlockOfByte
          <6> HIDE DEF y
          <6>2. y - x \notin 0..put - 1
            BY <1>0, <1>1, <2>2, <4>1, <6>1
          <6> QED
            BY <6>1, <6>2 DEF y
        <5>3. Byte(E, j, k) = u[k % BSIZE] /\ Byte(D, j, k) = D.data[b][k % BSIZE]
          BY <1>1, <1>2, <1>5, <4>1 DEF Byte
        <5>4. u[k % BSIZE] = D.data[b][k % BSIZE]
          <6> DEFINE y == k % BSIZE
          <6>1. y \in 0..BSIZE - 1 /\ y - x \notin 0..put - 1
            BY <5>2
          <6> HIDE DEF y
          <6>2. u[y] = D.data[b][y]
            BY <6>1 DEF u, Put
          <6> QED
            BY <6>2 DEF y
        <5> QED
          BY <5>3, <5>4
      <4>2. CASE ~(j = i /\ k \div BSIZE = n)
        BY <1>5, <3>2, <4>2, BlockOfByte DEF Byte, Has
      <4> QED
        BY <4>1, <4>2
    <3> QED
      BY <3>1, <3>3, <3>4
  <2> QED
    BY <2>1, <2>2
<1>13. ASSUME NEW j \in Inodes, D.ino[j].addrs[NDIRECT] # 0
       PROVE  E.data[D.ino[j].addrs[NDIRECT]] = D.data[D.ino[j].addrs[NDIRECT]]
  <2>1. Ref(D, j, MAXFILE) = D.ino[j].addrs[NDIRECT] /\ MAXFILE \in Place /\ MAXFILE # n
    BY <1>1, RefIs, <1>sizes DEF Place, Sizes
  <2> QED
    BY <1>5, <1>13, <2>1
<1>14. Apart(disk, E, i)
  <2>1. Apart(D, E, i)
    BY <1>5, <1>13 DEF Apart
  <2> QED
    BY <2>1, ApartTrans DEF Holds
<1>15. Holds(E, i, off, src, w + put)
  BY <1>5, <1>11, <1>12, <1>14 DEF Holds
<1> QED
  BY <1>15 DEF E, u, x

\* One turn of the loop.
StateWith(D, t, b) == [disk |-> D, tot |-> t, stop |-> b]

LEMMA StateFields ==
  ASSUME NEW D, NEW t, NEW b
  PROVE  /\ StateWith(D, t, b).disk = D /\ StateWith(D, t, b).tot = t /\ StateWith(D, t, b).stop = b
         /\ StateWith(D, t, b) = [disk |-> StateWith(D, t, b).disk, tot |-> StateWith(D, t, b).tot,
                                  stop |-> StateWith(D, t, b).stop]
BY DEF StateWith

LEMMA StateStops ==
  ASSUME NEW st, st = [disk |-> st.disk, tot |-> st.tot, stop |-> st.stop], NEW E
  PROVE  [st EXCEPT !.disk = E, !.stop = TRUE] = StateWith(E, st.tot, TRUE)
<1> DEFINE x == st.disk
           y == st.tot
           z == st.stop
           R == [disk |-> x, tot |-> y, stop |-> z]
           yes == TRUE
<1>1. [R EXCEPT !.disk = E, !.stop = yes] = StateWith(E, y, yes)
  <2> DEFINE Q == [R EXCEPT !.disk = E]
  <2>1. [R EXCEPT !.disk = E, !.stop = yes] = [Q EXCEPT !.stop = yes]
    <3> HIDE DEF R, yes
    <3> QED
      OBVIOUS
  <2> HIDE DEF x, y, z, yes
  <2>2. Q = [disk |-> E, tot |-> y, stop |-> z]
    OBVIOUS
  <2> HIDE DEF Q
  <2>3. [[disk |-> E, tot |-> y, stop |-> z] EXCEPT !.stop = yes] = [disk |-> E, tot |-> y, stop |-> yes]
    OBVIOUS
  <2> QED
    BY <2>1, <2>2, <2>3 DEF StateWith
<1>2. st = R
  OBVIOUS
<1> HIDE DEF R
<1>3. [st EXCEPT !.disk = E, !.stop = yes] = StateWith(E, y, yes)
  BY <1>1, <1>2
<1> QED
  BY <1>3

LEMMA PieceKeeps ==
  ASSUME FilesAssumption, NEW st, NEW i \in Inodes, NEW off \in Nat, NEW src \in Seq(Nat), off + Len(src) <= MaxBytes,
         NEW good \in 0..Len(src), NEW w, Written(st, i, off, src, good, w), ~st.stop, st.tot # Len(src)
  PROVE  \E v : Written(WritePiece(st, i, off, src, good), i, off, src, good, v)
<1>sizes. Sizes
  BY FileSizes
<1> DEFINE t == st.tot
           z == off + t
           c == Len(src) - t
           x == z % BSIZE
           n == z \div BSIZE
           m == Piece(z, c)
           r == Bmap(st.disk, i, n)
           put == IF t + m <= good THEN m ELSE good - t
<1>1. Len(src) \in Nat /\ t \in 0..Len(src) /\ t # Len(src) /\ w = t /\ t <= good
  BY DEF Written
<1> HIDE DEF t
<1>2. z \in 0..MaxBytes - 1 /\ z \in Nat /\ c \in Nat \ {0} /\ t + c = Len(src) /\ z < MaxBytes
  BY <1>1, <1>sizes DEF Sizes
<1>3. n \in 0..MAXFILE - 1 /\ x \in 0..BSIZE - 1 /\ n \in Place
  BY <1>2, BlockOfByte
<1>4. m = IF c < BSIZE - x THEN c ELSE BSIZE - x
  BY DEF Piece
<1> HIDE DEF z, c, x, n, m
<1>5. m \in Nat \ {0} /\ m <= c /\ m <= BSIZE - x
  <2>1. BSIZE - x \in Nat \ {0}
    BY <1>3, <1>sizes DEF Sizes
  <2> QED
    BY <1>2, <1>4, <2>1
<1>6. /\ put \in Nat /\ put <= m /\ t + put <= Len(src) /\ put <= BSIZE - x
      /\ put = m => t + m <= good
  <2>1. CASE t + m <= good
    BY <1>1, <1>2, <1>3, <1>5, <2>1, FileSizes DEF Sizes
  <2>2. CASE ~(t + m <= good)
    <3>1. put = good - t /\ good - t \in Nat /\ good - t < m
      BY <1>1, <1>5, <2>2
    <3> QED
      BY <1>1, <1>2, <1>3, <1>5, <3>1, <1>sizes DEF Sizes
  <2> QED
    BY <2>1, <2>2
<1> HIDE DEF put
<1>7. /\ Holds(st.disk, i, off, src, t)
      /\ st = [disk |-> st.disk, tot |-> st.tot, stop |-> st.stop] /\ st.tot = t
  BY <1>1 DEF Written, t
<1>8. Tidy(st.disk)
  BY <1>7 DEF Holds
<1>9. Tidy(r.disk) /\ Grows(st.disk, r.disk) /\ Apart(st.disk, r.disk, i) /\ (r.addr # 0 => r.addr = Ref(r.disk, i, n))
  BY <1>3, <1>8, BmapKeeps
<1> HIDE DEF r
<1>10. off + t <= MaxBytes
  BY <1>1, FileSizes DEF Sizes
<1>11. Holds(r.disk, i, off, src, t)
  BY <1>1, <1>7, <1>9, <1>10, HoldsMore
<1>12. CASE r.addr = 0
  <2> DEFINE yes == TRUE
             s == StateWith(r.disk, t, yes)
  <2>1. WritePiece(st, i, off, src, good) = [st EXCEPT !.disk = r.disk, !.stop = TRUE]
    BY <1>12 DEF WritePiece, r, n, z, t
  <2>2. [st EXCEPT !.disk = r.disk, !.stop = TRUE] = s
    BY <1>7, StateStops
  <2>3. /\ s.disk = r.disk /\ s.tot = t /\ s.stop = yes
        /\ s = [disk |-> s.disk, tot |-> s.tot, stop |-> s.stop]
    <3> HIDE DEF yes
    <3> QED
      BY StateFields
  <2> HIDE DEF s
  <2>4. Written(s, i, off, src, good, t)
    BY <1>1, <1>11, <2>3 DEF Written
  <2> QED
    BY <2>1, <2>2, <2>4
<1>13. CASE r.addr # 0
  <2> DEFINE b == r.addr
             E == DataWith(r.disk, b, Put(r.disk, b, x, src, t, put))
             q == IF put = m THEN t + m ELSE t
             short == put # m
             s == StateWith(E, q, short)
  <2>1. WritePiece(st, i, off, src, good) = s
    BY <1>13 DEF WritePiece, StateWith, DataWith, Put, r, n, z, t, x, c, m, put
  <2>2. Holds(E, i, off, src, t + put)
    <3> DEFINE a == r.addr
    <3>1. a = Ref(r.disk, i, n) /\ a # 0
      BY <1>9, <1>13
    <3> HIDE DEF a
    <3>2. t \in Nat /\ put \in Nat /\ t + put <= Len(src) /\ off + t + put <= MaxBytes /\ off + t < MaxBytes
      BY <1>1, <1>2, <1>6, <1>sizes DEF z, Sizes
    <3>3. a = Ref(r.disk, i, (off + t) \div BSIZE) /\ put <= BSIZE - ((off + t) % BSIZE)
      BY <1>6, <3>1 DEF n, x, z
    <3>4. Holds(DataWith(r.disk, a, Put(r.disk, a, (off + t) % BSIZE, src, t, put)), i, off, src, t + put)
      BY <1>11, <3>1, <3>2, <3>3, HoldsPut
    <3> QED
      BY <3>4 DEF a, x, z
  <2>3. /\ s.disk = E /\ s.tot = q /\ s.stop = short
        /\ s = [disk |-> s.disk, tot |-> s.tot, stop |-> s.stop]
    <3> HIDE DEF E, q, short
    <3> QED
      BY StateFields
  <2>4. /\ q \in 0..Len(src) /\ t + put \in q..Len(src)
        /\ put = m => t + put = q /\ q <= good
    <3>1. CASE put = m
      BY <1>1, <1>6, <3>1
    <3>2. CASE put # m
      BY <1>1, <1>6, <3>2
    <3> QED
      BY <3>1, <3>2
  <2> HIDE DEF s, E, q
  <2>5. s.tot \in 0..Len(src) /\ t + put \in s.tot..Len(src)
        /\ s.stop \in BOOLEAN /\ (~s.stop => t + put = s.tot /\ s.tot <= good)
    BY <2>3, <2>4
  <2>6. Holds(s.disk, i, off, src, t + put)
    BY <2>2, <2>3
  <2>7. Written(s, i, off, src, good, t + put)
    BY <2>3, <2>5, <2>6 DEF Written
  <2> QED
    BY <2>1, <2>7
<1> QED
  BY <1>12, <1>13

\* All of them.
LEMMA LoopKeeps ==
  ASSUME FilesAssumption, Tidy(disk), NEW i \in Inodes, NEW off \in Nat, NEW src \in Seq(Nat), off + Len(src) <= MaxBytes,
         NEW good \in 0..Len(src), NEW g, IsLoop(g, Len(src), i, off, src, good)
  PROVE  \A j \in 0..Len(src) : \E w : Written(g[j], i, off, src, good, w)
<1> DEFINE n == Len(src)
           P(j) == \E w : Written(g[j], i, off, src, good, w)
           Zero == StateWith(disk, 0, FALSE)
           S == {j \in 0..n : ~P(j)}
<1>1. n \in Nat
  OBVIOUS
<1>2. \A j \in 0..n : g[j] = IF j = 0 THEN Zero ELSE Turn(g[j - 1], i, off, src, good)
  <2>1. g = [j \in 0..n |-> IF j = 0 THEN Zero ELSE Turn(g[j - 1], i, off, src, good)]
    BY DEF IsLoop, StateWith
  <2> HIDE DEF Zero, n
  <2> QED
    BY ONLY <2>1
<1>3. P(0)
  <2> DEFINE no == FALSE
             R == StateWith(disk, 0, no)
  <2>0. Zero = R
    OBVIOUS
  <2>1. /\ R.disk = disk /\ R.tot = 0 /\ R.stop = no
        /\ R = [disk |-> R.disk, tot |-> R.tot, stop |-> R.stop]
    <3> HIDE DEF no
    <3> QED
      BY StateFields
  <2> HIDE DEF Zero, R
  <2>2. Holds(disk, i, off, src, 0)
    <3>1. \A k : k \notin off..off + 0 - 1
      OBVIOUS
    <3>2. Apart(disk, disk, i)
      BY DEF Apart
    <3> QED
      BY <3>1, <3>2 DEF Holds
  <2>3. 0 \in 0..Len(src) /\ 0 \in 0..Len(src) /\ 0 <= good
    OBVIOUS
  <2>4. Written(R, i, off, src, good, 0)
    BY <2>1, <2>2, <2>3 DEF Written
  <2>5. g[0] = Zero
    BY <1>1, <1>2
  <2> QED
    BY <2>0, <2>4, <2>5
<1>4. ASSUME NEW j \in 1..n, P(j - 1) PROVE P(j)
  <2>1. PICK w : Written(g[j - 1], i, off, src, good, w)
    BY <1>4
  <2>0. j \in 0..n /\ j # 0
    BY <1>1
  <2>2. g[j] = Turn(g[j - 1], i, off, src, good)
    <3> HIDE DEF Zero, n
    <3> QED
      BY <1>2, <2>0, Zenon
  <2>3. CASE g[j - 1].stop \/ g[j - 1].tot = Len(src)
    <3>1. g[j] = g[j - 1]
      BY <2>2, <2>3 DEF Turn
    <3> QED
      BY <2>1, <3>1
  <2>4. CASE ~(g[j - 1].stop \/ g[j - 1].tot = Len(src))
    <3>1. g[j] = WritePiece(g[j - 1], i, off, src, good)
      BY <2>2, <2>4 DEF Turn
    <3>2. \E v : Written(WritePiece(g[j - 1], i, off, src, good), i, off, src, good, v)
      BY <2>1, <2>4, PieceKeeps
    <3> QED
      BY <3>1, <3>2
  <2> QED
    BY <2>3, <2>4
<1> HIDE DEF P
<1> SUFFICES ASSUME S # {} PROVE FALSE
  BY DEF P
<1>5. PICK q \in S : \A j \in S : q <= j
  <2>1. S \in SUBSET Nat
    BY <1>1
  <2> HIDE DEF S
  <2> QED
    BY <2>1, Least
<1>6. q # 0 /\ q \in 0..n /\ q - 1 \in 0..n
  BY <1>1, <1>3, <1>5
<1>7. q - 1 \notin S
  BY <1>1, <1>5, <1>6
<1>8. P(q - 1) /\ q \in 1..n
  BY <1>1, <1>6, <1>7
<1> QED
  BY <1>4, <1>5, <1>8

\* No file has a hole.
Full(D) == \A i \in Inodes : \A k \in 0..D.ino[i].size - 1 : Has(D, i, k)

LEMMA SizeBytes ==
  ASSUME FilesAssumption, NEW D \in DiskType, NEW i \in Inodes
  PROVE  /\ D.ino[i].size \in Nat /\ D.ino[i].size <= MaxBytes
         /\ \A k \in 0..D.ino[i].size - 1 : k \in 0..MaxBytes - 1 /\ k \div BSIZE \in 0..MAXFILE - 1
                                             /\ k \div BSIZE \in Place /\ k % BSIZE \in 0..BSIZE - 1
<1>1. D.ino[i].size \in 0..MaxBytes /\ MaxBytes \in Nat
  BY DiskTypes, FileSizes DEF Sizes
<1>2. ASSUME NEW k \in 0..D.ino[i].size - 1 PROVE k \in 0..MaxBytes - 1
  BY <1>1
<1> QED
  BY <1>1, <1>2, BlockOfByte

LEMMA FullIs == ASSUME FilesAssumption, disk \in DiskType PROVE NoHoles <=> Full(disk)
<1>1. \A i \in Inodes : \A k \in 0..disk.ino[i].size - 1 :
        Slot(disk, i, k \div BSIZE) = Ref(disk, i, k \div BSIZE)
  BY SizeBytes, RefIs
<1> QED
  BY <1>1 DEF NoHoles, Full, Has

\* writei() writes a first part of its bytes, or fails and writes nothing.
Outcome(r, i, off, src) ==
  \/ r.disk = disk /\ r.r = -1
  \/ /\ Tidy(r.disk) /\ Full(r.disk) /\ Apart(disk, r.disk, i)
     /\ \A j \in Inodes, l \in Place : Ref(disk, j, l) # 0 => Ref(r.disk, j, l) = Ref(disk, j, l)
     /\ r.r \in 0..Len(src) /\ off <= disk.ino[i].size /\ off + Len(src) <= MaxBytes
     /\ \A j \in Inodes : r.disk.ino[j].size =
          IF j = i /\ off + r.r > disk.ino[i].size THEN off + r.r ELSE disk.ino[j].size
     /\ \E w \in r.r..Len(src) : \A j \in Inodes : \A k \in 0..r.disk.ino[j].size - 1 :
          Byte(r.disk, j, k) = IF j = i /\ k \in off..off + w - 1 THEN src[k - off + 1] ELSE Byte(disk, j, k)

LEMMA WriteiKeeps ==
  ASSUME FilesAssumption, Tidy(disk), Full(disk), NEW i \in Inodes, NEW off \in Nat, NEW src \in Seq(Nat),
         NEW good \in 0..Len(src)
  PROVE  Outcome(Writei(i, off, src, good), i, off, src)
<1> DEFINE r == Writei(i, off, src, good)
           old == disk.ino[i].size
<1>1. Len(src) \in Nat /\ old \in Nat /\ old <= MaxBytes /\ MaxBytes \in Nat /\ disk \in DiskType
  BY SizeBytes, FileSizes DEF Tidy, Sizes
<1>2. PICK g : IsLoop(g, Len(src), i, off, src, good) /\ r = Ended(g[Len(src)], i, off, src)
  BY <1>1, WriteiIs
<1> HIDE DEF r
<1>3. CASE off > old \/ off + Len(src) > MaxBytes
  <2>1. r = [disk |-> disk, r |-> -1]
    BY <1>2, <1>3 DEF Ended, MaxBytes
  <2>2. r.disk = disk /\ r.r = -1
    BY ONLY <2>1
  <2> QED
    BY <2>2 DEF r, Outcome
<1>4. CASE ~(off > old \/ off + Len(src) > MaxBytes)
  <2> DEFINE st == g[Len(src)]
             D == st.disk
             t == st.tot
             u == D.ino[i].size
             n == IF off + t > u THEN off + t ELSE u
             E == [D EXCEPT !.ino[i].size = n]
  <2>1. off <= old /\ off + Len(src) <= MaxBytes
    BY <1>1, <1>4
  <2>2. PICK w : Written(st, i, off, src, good, w)
    BY <1>1, <1>2, <2>1, LoopKeeps
  <2>3. r = [disk |-> E, r |-> t]
    BY <1>2, <1>4 DEF Ended, MaxBytes
  <2> HIDE DEF E
  <2>4. r.disk = E /\ r.r = t
    BY ONLY <2>3
  <2> HIDE DEF st
  <2>5. t \in 0..Len(src) /\ w \in t..Len(src) /\ Holds(D, i, off, src, w)
    BY <2>2 DEF Written
  <2> HIDE DEF D, t
  <2>6. D \in DiskType /\ u = old /\ Tidy(D)
    BY <2>5 DEF Holds, Tidy
  <2> HIDE DEF u
  <2>7. n \in 0..MaxBytes /\ n >= old /\ n >= off + t /\ (n = old \/ n = off + t)
    BY <1>1, <2>1, <2>5, <2>6
  <2> HIDE DEF n
  <2>8. /\ E \in DiskType /\ E.bitmap = D.bitmap /\ E.data = D.data
        /\ E.ino[i].nlink = D.ino[i].nlink /\ E.ino[i].size = n /\ E.ino[i].addrs = D.ino[i].addrs
        /\ \A j \in Inodes : j # i => E.ino[j] = D.ino[j]
    BY <2>6, <2>7, SetSize DEF E
  <2>9. \A j \in Inodes, m \in 0..NDIRECT : E.ino[j].addrs[m] = D.ino[j].addrs[m]
    BY <2>8
  <2>10. Tidy(E) /\ \A j \in Inodes, l \in Place : Ref(E, j, l) = Ref(D, j, l)
    BY <2>6, <2>8, <2>9, SamePlaces
  <2>11. \A j \in Inodes : E.ino[j].nlink = disk.ino[j].nlink /\ (j # i => E.ino[j].size = disk.ino[j].size)
    BY <2>5, <2>8 DEF Holds
  <2>12. \A j \in Inodes : E.ino[j].size = IF j = i /\ off + t > old THEN off + t ELSE disk.ino[j].size
    <3>1. n = IF off + t > old THEN off + t ELSE old
      BY <2>6 DEF n
    <3> QED
      BY <2>8, <2>11, <3>1
  <2>13. ASSUME NEW j \in Inodes, NEW k \in 0..E.ino[j].size - 1
         PROVE  Has(disk, j, k) \/ (j = i /\ k \in off..off + t - 1)
    <3>1. CASE k \in 0..disk.ino[j].size - 1
      BY <3>1 DEF Full
    <3>2. CASE k \notin 0..disk.ino[j].size - 1
      <4>1. j = i /\ E.ino[j].size = off + t
        BY <2>12, <3>2
      <4>2. k \in off..off + t - 1
        BY <1>1, <2>1, <2>5, <3>2, <4>1
      <4> QED
        BY <4>1, <4>2
    <3> QED
      BY <3>1, <3>2
  <2>14. \A k : k \in off..off + t - 1 => k \in off..off + w - 1
    BY <2>5
  <2>15. ASSUME NEW j \in Inodes, NEW k \in 0..E.ino[j].size - 1
         PROVE  /\ Has(E, j, k)
                /\ Byte(E, j, k) = IF j = i /\ k \in off..off + w - 1 THEN src[k - off + 1] ELSE Byte(disk, j, k)
    <3>1. k \in 0..MaxBytes - 1 /\ k \div BSIZE \in Place
      BY <2>8, SizeBytes
    <3>2. Has(disk, j, k) \/ (j = i /\ k \in off..off + w - 1)
      BY <2>13, <2>14
    <3>3. Byte(D, j, k) = IF j = i /\ k \in off..off + w - 1 THEN src[k - off + 1] ELSE Byte(disk, j, k)
      BY <2>5, <3>1, <3>2 DEF Holds
    <3>4. Has(D, j, k)
      BY <2>5, <3>1, <3>2 DEF Holds, Has
    <3> QED
      BY <2>8, <2>10, <3>1, <3>3, <3>4 DEF Has, Byte
  <2>16. Full(E)
    BY <2>15 DEF Full
  <2>17. \E v \in t..Len(src) : \A j \in Inodes : \A k \in 0..E.ino[j].size - 1 :
           Byte(E, j, k) = IF j = i /\ k \in off..off + v - 1 THEN src[k - off + 1] ELSE Byte(disk, j, k)
    BY <2>5, <2>15
  <2>18. \A j \in Inodes, l \in Place : Ref(disk, j, l) # 0 => Ref(E, j, l) = Ref(disk, j, l)
    BY <2>5, <2>10 DEF Holds
  <2>19. Apart(disk, E, i)
    <3>1. NDIRECT \in 0..NDIRECT
      BY FileSizes DEF Sizes
    <3>2. Apart(D, E, i)
      BY <2>8, <2>9, <3>1 DEF Apart
    <3> QED
      BY <2>5, <3>2, ApartTrans DEF Holds
  <2>20. Outcome(r, i, off, src)
    BY <2>1, <2>4, <2>5, <2>10, <2>11, <2>12, <2>16, <2>17, <2>18, <2>19 DEF Outcome
  <2> QED
    BY <2>20 DEF r
<1> QED
  BY <1>3, <1>4

-----------------------------------------------------------------------------
(* The invariant of the file layer.                                         *)

Exiting == [pc |-> "exit"]
FileEntry == [ref : Nat, type : {"none", "inode", "pipe"}, ip : Inodes \cup {0}, off : 0..MaxBytes,
              readable : BOOLEAN, writable : BOOLEAN]

\* What a process may be doing.
Doing(l) ==
  /\ l.pc \in {"idle", "dead", "exit", "open", "iput", "write"}
  /\ l.pc = "open" => l.ip \in Inodes /\ l.mode \in Mode
  /\ l.pc = "iput" => l.ip \in Inodes /\ ("next" \in DOMAIN l => l.next \in {Idle, Exiting})
  /\ l.pc = "write" => /\ l.f \in Files /\ l.i \in Nat /\ l.n \in Nat /\ l.i < l.n /\ l.n <= Len(Text)
                       /\ l = [pc |-> "write", f |-> l.f, i |-> l.i, n |-> l.n]

FilesTypes ==
  /\ iref \in [Inodes -> Nat]
  /\ file \in [Files -> FileEntry]
  /\ ofile \in [Procs -> [Fds -> Files \cup {0}]]
  /\ DOMAIN loc = Procs /\ \A p \in Procs : Doing(loc[p])

\* The descriptors on f, the files on i, and the calls that have i.
On(f) == {x \in Procs \X Fds : ofile[x[1]][x[2]] = f}
FilesOf(i) == {f \in Files : file[f].ref > 0 /\ file[f].type = "inode" /\ file[f].ip = i}
CallsOf(i) == {p \in Procs : loc[p].pc \in {"open", "iput"} /\ loc[p].ip = i}
Pipes == {f \in Files : file[f].ref > 0 /\ file[f].type = "pipe"}

\* A process that is gone has no descriptor, a free entry of the table no type, and
\* who writes has the file open.
Links ==
  /\ \A p \in Procs, d \in Fds : loc[p].pc = "dead" => ofile[p][d] = 0
  /\ \A f \in Files : /\ file[f].ref = 0 <=> file[f].type = "none"
                      /\ file[f].type = "inode" => file[f].ip \in Inodes
  /\ \A f, g \in Pipes : f # g => file[f].writable # file[g].writable
  /\ \A p \in Procs : loc[p].pc = "write" =>
       file[loc[p].f].type = "inode" /\ \E d \in Fds : ofile[p][d] = loc[p].f

Referred ==
  /\ \A f \in Files : file[f].ref = Cardinality(On(f))
  /\ \A i \in Inodes : iref[i] = Cardinality(FilesOf(i)) + Cardinality(CallsOf(i))
  /\ pipe = {file[f].writable : f \in Pipes}

OpenInv == Tidy(disk) /\ Full(disk) /\ FilesTypes /\ Links /\ Referred

\* The durable blocks, and the indirect ones among them, which are logged whenever
\* they change: a crash moves no place.
HomeOK ==
  /\ home \in [Blocks -> [0..BSIZE - 1 -> Nat]]
  /\ \A i \in Inodes : disk.ino[i].addrs[NDIRECT] # 0 =>
       home[disk.ino[i].addrs[NDIRECT]] = disk.data[disk.ino[i].addrs[NDIRECT]]

FilesInv == OpenInv /\ HomeOK

\* A set that changes in one element.
LEMMA OneElement ==
  ASSUME NEW A, IsFiniteSet(A), NEW B, NEW x, \A y : y # x => (y \in B <=> y \in A)
  PROVE  /\ IsFiniteSet(B) /\ Cardinality(A) \in Nat /\ Cardinality(B) \in Nat
         /\ (x \in A <=> x \in B) => Cardinality(B) = Cardinality(A)
         /\ x \notin A /\ x \in B => Cardinality(B) = Cardinality(A) + 1
         /\ x \in A /\ x \notin B => Cardinality(B) = Cardinality(A) - 1
<1>1. CASE x \in A <=> x \in B
  <2>1. A = B
    BY <1>1
  <2> QED
    BY <1>1, <2>1, FS_CardinalityType
<1>2. CASE x \notin A /\ x \in B
  <2>1. B = A \cup {x}
    BY <1>2
  <2> QED
    BY <1>2, <2>1, FS_AddElement, FS_CardinalityType
<1>3. CASE x \in A /\ x \notin B
  <2>1. B = A \ {x}
    BY <1>3
  <2> QED
    BY <1>3, <2>1, FS_RemoveElement, FS_CardinalityType
<1> QED
  BY <1>1, <1>2, <1>3

LEMMA FileSets == ASSUME FilesAssumption PROVE
  /\ IsFiniteSet(Procs) /\ IsFiniteSet(Fds) /\ IsFiniteSet(Files) /\ IsFiniteSet(Procs \X Fds)
  /\ Files \subseteq Nat /\ 0 \notin Files /\ Fds \subseteq Nat
<1>1. IsFiniteSet(Procs)
  BY DEF FilesAssumption, IsFiniteSet
<1>2. IsFiniteSet(Fds) /\ IsFiniteSet(Files) /\ Files \subseteq Nat /\ 0 \notin Files /\ Fds \subseteq Nat
  <2>1. NFILE \in Nat /\ 1 \in Int /\ NFILE \in Int /\ 0 \in Int /\ NOFILE - 1 \in Int
    BY FileSizes DEF Sizes
  <2> QED
    BY <2>1, FS_Interval DEF Fds, Files
<1> QED
  BY <1>1, <1>2, FS_Product

LEMMA Finite == ASSUME FilesAssumption PROVE
  /\ \A f : IsFiniteSet(On(f)) /\ Cardinality(On(f)) \in Nat
  /\ \A i : /\ IsFiniteSet(FilesOf(i)) /\ Cardinality(FilesOf(i)) \in Nat
            /\ IsFiniteSet(CallsOf(i)) /\ Cardinality(CallsOf(i)) \in Nat
<1>1. \A f : On(f) \in SUBSET (Procs \X Fds)
  BY DEF On
<1>2. \A i : FilesOf(i) \in SUBSET Files /\ CallsOf(i) \in SUBSET Procs
  BY DEF FilesOf, CallsOf
<1>3. \A f : IsFiniteSet(On(f))
  BY <1>1, FileSets, FS_Subset
<1>4. \A i : IsFiniteSet(FilesOf(i)) /\ IsFiniteSet(CallsOf(i))
  BY <1>2, FileSets, FS_Subset
<1> QED
  BY <1>3, <1>4, FS_CardinalityType

\* One process goes on, one entry of the table changes, one descriptor does.
HasInode(l, i) == l.pc \in {"open", "iput"} /\ l.ip = i
IsFile(e, i) == e.ref > 0 /\ e.type = "inode" /\ e.ip = i

Enters(f, e) == file' = [file EXCEPT ![f] = e]
Fills(p, d, g) == ofile' = [ofile EXCEPT ![p][d] = g]

LEMMA FilesGo ==
  ASSUME FilesAssumption, FilesTypes, NEW f \in Files, NEW e, Enters(f, e), NEW i
  PROVE  /\ Cardinality(FilesOf(i))' \in Nat
         /\ (IsFile(file[f], i) <=> IsFile(e, i)) => Cardinality(FilesOf(i))' = Cardinality(FilesOf(i))
         /\ ~IsFile(file[f], i) /\ IsFile(e, i) => Cardinality(FilesOf(i))' = Cardinality(FilesOf(i)) + 1
         /\ IsFile(file[f], i) /\ ~IsFile(e, i) => Cardinality(FilesOf(i))' = Cardinality(FilesOf(i)) - 1
<1> DEFINE A == FilesOf(i)
           B == FilesOf(i)'
<1>1. IsFiniteSet(A)
  BY Finite
<1>2. \A y : y # f => (y \in B <=> y \in A)
  BY DEF FilesOf, FilesTypes, Enters
<1>3. (f \in A <=> IsFile(file[f], i)) /\ (f \in B <=> IsFile(e, i))
  BY DEF FilesOf, FilesTypes, IsFile, Enters
<1> HIDE DEF A, B
<1>4. /\ Cardinality(B) \in Nat
      /\ (f \in A <=> f \in B) => Cardinality(B) = Cardinality(A)
      /\ f \notin A /\ f \in B => Cardinality(B) = Cardinality(A) + 1
      /\ f \in A /\ f \notin B => Cardinality(B) = Cardinality(A) - 1
  BY <1>1, <1>2, OneElement
<1>5. Cardinality(B) = Cardinality(FilesOf(i))'
  BY DEF B
<1> QED
  BY <1>3, <1>4, <1>5 DEF A

LEMMA OnGo ==
  ASSUME FilesAssumption, FilesTypes, NEW p \in Procs, NEW d \in Fds, NEW g, Fills(p, d, g), NEW f
  PROVE  /\ Cardinality(On(f))' \in Nat
         /\ (ofile[p][d] = f <=> g = f) => Cardinality(On(f))' = Cardinality(On(f))
         /\ ofile[p][d] # f /\ g = f => Cardinality(On(f))' = Cardinality(On(f)) + 1
         /\ ofile[p][d] = f /\ g # f => Cardinality(On(f))' = Cardinality(On(f)) - 1
<1> DEFINE A == On(f)
           B == On(f)'
           x == <<p, d>>
<1>1. IsFiniteSet(A)
  BY Finite
<1>2. \A q \in Procs, c \in Fds : ofile'[q][c] = IF q = p /\ c = d THEN g ELSE ofile[q][c]
  BY DEF FilesTypes, Fills
<1>3. \A y : y # x => (y \in B <=> y \in A)
  <2>1. ASSUME NEW y \in Procs \X Fds, y # x PROVE ofile'[y[1]][y[2]] = ofile[y[1]][y[2]]
    BY <1>2, <2>1
  <2> HIDE DEF x
  <2> QED
    BY <2>1 DEF On
<1>4. (x \in A <=> ofile[p][d] = f) /\ (x \in B <=> g = f)
  BY <1>2 DEF On
<1> HIDE DEF A, B, x
<1>5. /\ Cardinality(B) \in Nat
      /\ (x \in A <=> x \in B) => Cardinality(B) = Cardinality(A)
      /\ x \notin A /\ x \in B => Cardinality(B) = Cardinality(A) + 1
      /\ x \in A /\ x \notin B => Cardinality(B) = Cardinality(A) - 1
  BY <1>1, <1>3, OneElement
<1>6. Cardinality(B) = Cardinality(On(f))'
  BY DEF B
<1> QED
  BY <1>4, <1>5, <1>6 DEF A

LEMMA NoneOn ==
  ASSUME FilesAssumption, Links, Referred, NEW f \in Files
  PROVE  (file[f].ref = 0 <=> On(f) = {}) /\ \A p \in Procs, d \in Fds : ofile[p][d] = f => file[f].ref > 0
<1>1. file[f].ref = Cardinality(On(f)) /\ IsFiniteSet(On(f)) /\ Cardinality(On(f)) \in Nat
  BY Finite DEF Referred
<1>2. file[f].ref = 0 <=> On(f) = {}
  BY <1>1, FS_EmptySet
<1>3. ASSUME NEW p \in Procs, NEW d \in Fds, ofile[p][d] = f PROVE On(f) # {}
  <2>1. <<p, d>> \in On(f)
    BY <1>3 DEF On
  <2> QED
    BY <2>1
<1> QED
  BY <1>1, <1>2, <1>3

\* What else happens to a disk: a type and a count of links, and a file without bytes.
SameBytes(D, E, i) ==
  /\ E.ino[i].size = D.ino[i].size
  /\ \A k \in 0..D.ino[i].size - 1 :
       Byte(E, i, k) = Byte(D, i, k) /\ Ref(E, i, k \div BSIZE) = Ref(D, i, k \div BSIZE)

\* E has the blocks of D, and each file its places of D or none.
Steady(D, E) ==
  E.data = D.data /\ \A j \in Inodes : E.ino[j].addrs \in {D.ino[j].addrs, [n \in 0..NDIRECT |-> 0]}

LEMMA SteadyTrans ==
  ASSUME NEW C, NEW D, NEW E, Steady(C, D), Steady(D, E)
  PROVE  Steady(C, E)
BY DEF Steady

LEMMA SteadyHome ==
  ASSUME FilesAssumption, HomeOK, home' = home, Steady(disk, disk')
  PROVE  HomeOK'
<1>1. NDIRECT \in 0..NDIRECT
  BY FileSizes DEF Sizes
<1>2. ASSUME NEW j \in Inodes, disk'.ino[j].addrs[NDIRECT] # 0
      PROVE  home'[disk'.ino[j].addrs[NDIRECT]] = disk'.data[disk'.ino[j].addrs[NDIRECT]]
  <2>1. disk'.ino[j].addrs = disk.ino[j].addrs
    BY <1>1, <1>2 DEF Steady
  <2> QED
    BY <1>2, <2>1 DEF HomeOK, Steady
<1> QED
  BY <1>2 DEF HomeOK

LEMMA StillHome == ASSUME HomeOK, UNCHANGED <<disk, home>> PROVE HomeOK'
BY DEF HomeOK

LEMMA MetaKeeps ==
  ASSUME FilesAssumption, NEW D, Tidy(D), Full(D), NEW E \in DiskType, E.bitmap = D.bitmap, E.data = D.data,
         \A j \in Inodes : E.ino[j].size = D.ino[j].size /\ E.ino[j].addrs = D.ino[j].addrs
  PROVE  Tidy(E) /\ Full(E) /\ Steady(D, E) /\ \A i \in Inodes : SameBytes(D, E, i)
<1>1. Tidy(E) /\ \A j \in Inodes, l \in Place : Ref(E, j, l) = Ref(D, j, l)
  BY SamePlaces
<1>2. D \in DiskType
  BY DEF Tidy
<1>3. ASSUME NEW i \in Inodes, NEW k \in 0..D.ino[i].size - 1
      PROVE  Has(E, i, k) /\ Byte(E, i, k) = Byte(D, i, k) /\ Ref(E, i, k \div BSIZE) = Ref(D, i, k \div BSIZE)
  BY <1>1, <1>2, SizeBytes DEF Has, Byte, Full
<1>4. Steady(D, E)
  BY DEF Steady
<1> QED
  BY <1>1, <1>3, <1>4 DEF Full, SameBytes

LEMMA EmptyKeeps ==
  ASSUME FilesAssumption, NEW D, Tidy(D), Full(D), NEW i \in Inodes
  PROVE  LET E == Itrunc(D, i) IN
         /\ Tidy(E) /\ Full(E) /\ Steady(D, E) /\ E.ino[i].size = 0 /\ E.ino[i].nlink = D.ino[i].nlink
         /\ \A j \in Inodes : j # i => SameBytes(D, E, j) /\ E.ino[j] = D.ino[j]
<1> DEFINE E == Itrunc(D, i)
<1>1. D \in DiskType
  BY DEF Tidy
<1>2. /\ E \in DiskType /\ E.data = D.data /\ E.ino[i].size = 0 /\ E.ino[i].nlink = D.ino[i].nlink
      /\ E.ino[i].addrs = [n \in 0..NDIRECT |-> 0]
      /\ \A j \in Inodes : j # i => E.ino[j] = D.ino[j]
  BY <1>1, ItruncIs
<1>3. Tidy(E) /\ \A j \in Inodes, l \in Place : Ref(E, j, l) = IF j = i THEN 0 ELSE Ref(D, j, l)
  BY ItruncKeeps
<1> HIDE DEF E
<1>4. ASSUME NEW j \in Inodes, j # i, NEW k \in 0..D.ino[j].size - 1
      PROVE  Has(E, j, k) /\ Byte(E, j, k) = Byte(D, j, k) /\ Ref(E, j, k \div BSIZE) = Ref(D, j, k \div BSIZE)
  BY <1>1, <1>2, <1>3, <1>4, SizeBytes DEF Has, Byte, Full
<1>5. ASSUME NEW j \in Inodes PROVE \A k \in 0..E.ino[j].size - 1 : Has(E, j, k)
  <2>1. CASE j = i
    BY <1>2, <2>1
  <2>2. CASE j # i
    BY <1>2, <1>4, <2>2
  <2> QED
    BY <2>1, <2>2
<1>6. Full(E)
  BY <1>5 DEF Full
<1>7. \A j \in Inodes : j # i => SameBytes(D, E, j)
  BY <1>2, <1>4 DEF SameBytes
<1>8. Steady(D, E)
  BY <1>2 DEF Steady
<1> QED
  BY <1>2, <1>3, <1>6, <1>7, <1>8 DEF E

LEMMA CreateDisk ==
  ASSUME FilesAssumption, Tidy(disk), Full(disk), NEW i \in Inodes,
         disk' = [disk EXCEPT !.ino[i].type = "file", !.ino[i].nlink = 1]
  PROVE  Tidy(disk') /\ Full(disk') /\ Steady(disk, disk') /\ \A j \in Inodes : SameBytes(disk, disk', j)
<1> DEFINE C == [disk EXCEPT !.ino[i].type = "file"]
           E == [C EXCEPT !.ino[i].nlink = 1]
<1>1. disk \in DiskType
  BY DEF Tidy
<1>2. disk' = E
  OBVIOUS
<1>3. /\ C \in DiskType /\ C.bitmap = disk.bitmap /\ C.data = disk.data
      /\ C.ino[i].size = disk.ino[i].size /\ C.ino[i].addrs = disk.ino[i].addrs
      /\ \A j \in Inodes : j # i => C.ino[j] = disk.ino[j]
  BY <1>1, SetType
<1> HIDE DEF C
<1>4. /\ E \in DiskType /\ E.bitmap = C.bitmap /\ E.data = C.data
      /\ E.ino[i].size = C.ino[i].size /\ E.ino[i].addrs = C.ino[i].addrs
      /\ \A j \in Inodes : j # i => E.ino[j] = C.ino[j]
  BY <1>3, SetNlink
<1> HIDE DEF E
<1>5. \A j \in Inodes : E.ino[j].size = disk.ino[j].size /\ E.ino[j].addrs = disk.ino[j].addrs
  BY <1>3, <1>4
<1>6. Tidy(E) /\ Full(E) /\ Steady(disk, E) /\ \A j \in Inodes : SameBytes(disk, E, j)
  BY <1>3, <1>4, <1>5, MetaKeeps
<1> QED
  BY <1>2, <1>6

LEMMA UnlinkDisk ==
  ASSUME FilesAssumption, Tidy(disk), Full(disk), NEW i \in Inodes, disk' = [disk EXCEPT !.ino[i].nlink = 0]
  PROVE  Tidy(disk') /\ Full(disk') /\ Steady(disk, disk') /\ \A j \in Inodes : SameBytes(disk, disk', j)
<1> DEFINE E == [disk EXCEPT !.ino[i].nlink = 0]
<1>1. disk \in DiskType
  BY DEF Tidy
<1>2. disk' = E
  OBVIOUS
<1>3. /\ E \in DiskType /\ E.bitmap = disk.bitmap /\ E.data = disk.data
      /\ E.ino[i].size = disk.ino[i].size /\ E.ino[i].addrs = disk.ino[i].addrs
      /\ \A j \in Inodes : j # i => E.ino[j] = disk.ino[j]
  BY <1>1, SetNlink
<1> HIDE DEF E
<1>4. \A j \in Inodes : E.ino[j].size = disk.ino[j].size /\ E.ino[j].addrs = disk.ino[j].addrs
  BY <1>3
<1>5. Tidy(E) /\ Full(E) /\ Steady(disk, E) /\ \A j \in Inodes : SameBytes(disk, E, j)
  BY <1>3, <1>4, MetaKeeps
<1> QED
  BY <1>2, <1>5

LEMMA FreeDisk ==
  ASSUME FilesAssumption, Tidy(disk), Full(disk), NEW i \in Inodes,
         disk' = [Itrunc(disk, i) EXCEPT !.ino[i].type = "free"]
  PROVE  /\ Tidy(disk') /\ Full(disk') /\ Steady(disk, disk') /\ disk'.ino[i].size = 0
         /\ \A j \in Inodes : j # i => SameBytes(disk, disk', j)
<1> DEFINE C == Itrunc(disk, i)
           E == [C EXCEPT !.ino[i].type = "free"]
<1>1. /\ Tidy(C) /\ Full(C) /\ Steady(disk, C) /\ C.ino[i].size = 0
      /\ \A j \in Inodes : j # i => SameBytes(disk, C, j)
  BY EmptyKeeps
<1>2. disk' = E
  OBVIOUS
<1> HIDE DEF C
<1>3. C \in DiskType
  BY <1>1 DEF Tidy
<1>4. /\ E \in DiskType /\ E.bitmap = C.bitmap /\ E.data = C.data
      /\ E.ino[i].size = C.ino[i].size /\ E.ino[i].addrs = C.ino[i].addrs
      /\ \A j \in Inodes : j # i => E.ino[j] = C.ino[j]
  BY <1>3, SetType
<1> HIDE DEF E
<1>5. \A j \in Inodes : E.ino[j].size = C.ino[j].size /\ E.ino[j].addrs = C.ino[j].addrs
  BY <1>4
<1>6. Tidy(E) /\ Full(E) /\ Steady(disk, E) /\ \A j \in Inodes : SameBytes(C, E, j)
  BY <1>1, <1>4, <1>5, MetaKeeps, SteadyTrans
<1>7. \A j \in Inodes : j # i => SameBytes(disk, E, j)
  <2>1. \A j \in Inodes : j # i => C.ino[j].size = disk.ino[j].size
    BY <1>1 DEF SameBytes
  <2> QED
    BY <1>1, <1>6, <2>1 DEF SameBytes
<1> QED
  BY <1>1, <1>2, <1>4, <1>6, <1>7

\* What FilesExact says.
LEMMA FilesSafe == ASSUME FilesAssumption, FilesInv PROVE RefsExact /\ InodeRefsExact /\ BlocksExact /\ NoHoles
<1> OpenInv
  BY DEF FilesInv
<1>sizes. Sizes
  BY FileSizes
<1>1. RefsExact
  BY DEF OpenInv, Referred, RefsExact, On, Pipes, Cardinality
<1>2. InodeRefsExact
  BY DEF OpenInv, Referred, InodeRefsExact, FilesOf, CallsOf, Cardinality
<1>3. NoHoles
  BY FullIs DEF OpenInv, Tidy
<1>4. ASSUME NEW b \in Blocks
      PROVE  Cardinality({x \in Inodes \X (0..MAXFILE - 1) : Slot(disk, x[1], x[2]) = b})
             + Cardinality({i \in Inodes : disk.ino[i].addrs[NDIRECT] = b}) = IF b \in disk.bitmap THEN 1 ELSE 0
  <2> DEFINE P == {x \in Inodes \X (0..MAXFILE - 1) : Slot(disk, x[1], x[2]) = b}
             I == {i \in Inodes : disk.ino[i].addrs[NDIRECT] = b}
  <2>1. Tidy(disk) /\ b # 0
    BY FileSizes DEF OpenInv, Sizes
  <2>2. /\ \A i \in Inodes, k \in 0..MAXFILE - 1 : Slot(disk, i, k) = Ref(disk, i, k) /\ k \in Place /\ k # MAXFILE
        /\ \A i \in Inodes : disk.ino[i].addrs[NDIRECT] = Ref(disk, i, MAXFILE)
        /\ MAXFILE \in Place
        /\ \A k \in Place : k = MAXFILE \/ k \in 0..MAXFILE - 1
    <3>1. /\ \A k \in 0..MAXFILE - 1 : k \in Place /\ k # MAXFILE
          /\ MAXFILE \in Place /\ \A k \in Place : k = MAXFILE \/ k \in 0..MAXFILE - 1
      BY <1>sizes DEF Place, Sizes
    <3> QED
      BY RefIs, <3>1
  <2>3. CASE b \notin disk.bitmap
    <3>1. P = {} /\ I = {}
      BY <2>1, <2>2, <2>3 DEF Tidy
    <3>2. Cardinality(P) = 0 /\ Cardinality(I) = 0
      BY <3>1, FS_EmptySet
    <3> HIDE DEF P, I
    <3>3. Cardinality(P) + Cardinality(I) = IF b \in disk.bitmap THEN 1 ELSE 0
      BY <2>3, <3>2
    <3> QED
      BY <3>3 DEF P, I
  <2>4. CASE b \in disk.bitmap
    <3>1. PICK i \in Inodes, k \in Place : Ref(disk, i, k) = b
      BY <2>1, <2>4 DEF Tidy
    <3>2. \A j \in Inodes, l \in Place : Ref(disk, j, l) = b => j = i /\ l = k
      BY <2>1, <3>1 DEF Tidy
    <3>3. CASE k = MAXFILE
      <4>1. P = {}
        BY <2>2, <3>2, <3>3
      <4>2. I = {i}
        BY <2>2, <3>1, <3>2, <3>3
      <4>3. Cardinality(P) = 0 /\ Cardinality(I) = 1
        BY <4>1, <4>2, FS_EmptySet, FS_Singleton
      <4> HIDE DEF P, I
      <4>4. Cardinality(P) + Cardinality(I) = IF b \in disk.bitmap THEN 1 ELSE 0
        BY <2>4, <4>3
      <4> QED
        BY <4>4 DEF P, I
    <3>4. CASE k # MAXFILE
      <4>1. P = {<<i, k>>}
        BY <2>2, <3>1, <3>2, <3>4
      <4>2. I = {}
        BY <2>2, <3>2, <3>4
      <4>3. Cardinality(P) = 1 /\ Cardinality(I) = 0
        BY <4>1, <4>2, FS_EmptySet, FS_Singleton
      <4> HIDE DEF P, I
      <4>4. Cardinality(P) + Cardinality(I) = IF b \in disk.bitmap THEN 1 ELSE 0
        BY <2>4, <4>3
      <4> QED
        BY <4>4 DEF P, I
    <3> QED
      BY <3>3, <3>4
  <2> QED
    BY <2>3, <2>4
<1>5. BlocksExact
  BY <1>4 DEF BlocksExact, Cardinality
<1> QED
  BY <1>1, <1>2, <1>3, <1>5

LEMMA DoingIs ==
  /\ Doing(Idle) /\ Doing(Dead) /\ Doing(Exiting)
  /\ \A i \in Inodes : /\ \A m \in Mode : Doing([pc |-> "open", ip |-> i, mode |-> m])
                       /\ Doing([pc |-> "iput", ip |-> i])
                       /\ \A n \in {Idle, Exiting} : Doing([pc |-> "iput", ip |-> i, next |-> n])
  /\ \A f \in Files, i, n \in Nat : i < n /\ n <= Len(Text) => Doing([pc |-> "write", f |-> f, i |-> i, n |-> n])
<1>1. Doing(Idle) /\ Doing(Dead) /\ Doing(Exiting)
  BY DEF Doing, Idle, Dead, Exiting
<1>2. ASSUME NEW i \in Inodes, NEW m \in Mode PROVE Doing([pc |-> "open", ip |-> i, mode |-> m])
  BY DEF Doing
<1>3. ASSUME NEW i \in Inodes PROVE Doing([pc |-> "iput", ip |-> i])
  BY DEF Doing
<1>4. ASSUME NEW i \in Inodes, NEW n \in {Idle, Exiting} PROVE Doing([pc |-> "iput", ip |-> i, next |-> n])
  BY DEF Doing
<1>5. ASSUME NEW f \in Files, NEW i \in Nat, NEW n \in Nat, i < n, n <= Len(Text)
      PROVE  Doing([pc |-> "write", f |-> f, i |-> i, n |-> n])
  BY <1>5 DEF Doing
<1> QED
  BY <1>1, <1>2, <1>3, <1>4, <1>5

LEMMA HasInodeIs ==
  /\ \A j : ~HasInode(Idle, j) /\ ~HasInode(Dead, j) /\ ~HasInode(Exiting, j)
  /\ \A i, j, m : HasInode([pc |-> "open", ip |-> i, mode |-> m], j) <=> i = j
  /\ \A i, j : HasInode([pc |-> "iput", ip |-> i], j) <=> i = j
  /\ \A i, j, n : HasInode([pc |-> "iput", ip |-> i, next |-> n], j) <=> i = j
  /\ \A l, j : l.pc \notin {"open", "iput"} => ~HasInode(l, j)
BY DEF HasInode, Idle, Dead, Exiting

\* Process p goes on to r.
Goes(p, r) == DOMAIN loc' = Procs /\ \A q \in Procs : loc'[q] = IF q = p THEN r ELSE loc[q]

LEMMA GoesTo ==
  ASSUME FilesTypes, NEW p \in Procs, NEW r, Go(p, r)
  PROVE  Goes(p, r)
BY DEF Goes, Go, FilesTypes

LEMMA CallsGoes ==
  ASSUME FilesAssumption, FilesTypes, NEW p \in Procs, NEW r, Goes(p, r), NEW i
  PROVE  /\ Cardinality(CallsOf(i))' \in Nat
         /\ (HasInode(loc[p], i) <=> HasInode(r, i)) => Cardinality(CallsOf(i))' = Cardinality(CallsOf(i))
         /\ ~HasInode(loc[p], i) /\ HasInode(r, i) => Cardinality(CallsOf(i))' = Cardinality(CallsOf(i)) + 1
         /\ HasInode(loc[p], i) /\ ~HasInode(r, i) => Cardinality(CallsOf(i))' = Cardinality(CallsOf(i)) - 1
<1> DEFINE A == CallsOf(i)
           B == CallsOf(i)'
<1>1. IsFiniteSet(A)
  BY Finite
<1>2. \A y : y # p => (y \in B <=> y \in A)
  BY DEF CallsOf, Goes
<1>3. (p \in A <=> HasInode(loc[p], i)) /\ (p \in B <=> HasInode(r, i))
  BY DEF CallsOf, Goes, HasInode
<1> HIDE DEF A, B
<1>4. /\ Cardinality(B) \in Nat
      /\ (p \in A <=> p \in B) => Cardinality(B) = Cardinality(A)
      /\ p \notin A /\ p \in B => Cardinality(B) = Cardinality(A) + 1
      /\ p \in A /\ p \notin B => Cardinality(B) = Cardinality(A) - 1
  BY <1>1, <1>2, OneElement
<1>5. Cardinality(B) = Cardinality(CallsOf(i))'
  BY DEF B
<1> QED
  BY <1>3, <1>4, <1>5 DEF A

\* The count of i goes with the files on it and the calls that have it.
Counted(p, r, f, e) == \A j \in Inodes :
  iref'[j] = iref[j] + (IF IsFile(e, j) THEN 1 ELSE 0) - (IF IsFile(file[f], j) THEN 1 ELSE 0)
             + (IF HasInode(r, j) THEN 1 ELSE 0) - (IF HasInode(loc[p], j) THEN 1 ELSE 0)

\* A step that changes what one process does, and no file.
LEMMA LocStep ==
  ASSUME FilesAssumption, OpenInv, NEW p \in Procs, NEW r, Doing(r), Goes(p, r), UNCHANGED <<file, ofile, pipe>>,
         Tidy(disk'), Full(disk'), DOMAIN iref' = Inodes, iref' = [j \in Inodes |-> iref'[j]],
         \A j \in Inodes :
           iref'[j] = iref[j] + (IF HasInode(r, j) THEN 1 ELSE 0) - (IF HasInode(loc[p], j) THEN 1 ELSE 0),
         r.pc = "dead" => \A d \in Fds : ofile[p][d] = 0,
         r.pc = "write" => file[r.f].type = "inode" /\ \E d \in Fds : ofile[p][d] = r.f
  PROVE  OpenInv'
<1>1. FilesTypes /\ Links /\ Referred
  BY DEF OpenInv
<1>2. \A f : On(f)' = On(f)
  BY DEF On
<1>3. Pipes' = Pipes /\ \A i : FilesOf(i)' = FilesOf(i)
  BY DEF Pipes, FilesOf
<1>4. ASSUME NEW j \in Inodes PROVE iref'[j] = (Cardinality(FilesOf(j)) + Cardinality(CallsOf(j)))' /\ iref'[j] \in Nat
  <2>1. iref[j] = Cardinality(FilesOf(j)) + Cardinality(CallsOf(j))
    BY <1>1 DEF Referred
  <2>2. Cardinality(FilesOf(j))' = Cardinality(FilesOf(j))
    BY <1>3
  <2>3. Cardinality(FilesOf(j)) \in Nat /\ Cardinality(CallsOf(j)) \in Nat
    BY Finite
  <2>4. Cardinality(CallsOf(j))' \in Nat
    BY <1>1, CallsGoes
  <2>5. Cardinality(CallsOf(j))' = Cardinality(CallsOf(j)) + (IF HasInode(r, j) THEN 1 ELSE 0) - (IF HasInode(loc[p], j) THEN 1 ELSE 0)
    BY <1>1, <2>3, CallsGoes
  <2>6. iref'[j] = iref[j] + (IF HasInode(r, j) THEN 1 ELSE 0) - (IF HasInode(loc[p], j) THEN 1 ELSE 0)
    OBVIOUS
  <2> DEFINE a == IF HasInode(r, j) THEN 1 ELSE 0
             b == IF HasInode(loc[p], j) THEN 1 ELSE 0
  <2>7. a \in Int /\ b \in Int
    OBVIOUS
  <2> HIDE DEF a, b
  <2> QED
    BY <2>1, <2>2, <2>3, <2>4, <2>5, <2>6, <2>7 DEF a, b
<1>5. FilesTypes'
  <2>1. iref' \in [Inodes -> Nat]
    BY <1>4
  <2>2. \A q \in Procs : Doing(loc'[q])
    BY <1>1 DEF Goes, FilesTypes
  <2> QED
    BY <1>1, <2>1, <2>2 DEF Goes, FilesTypes, Doing
<1>6. Links'
  BY <1>1, <1>3 DEF Goes, Links
<1>7. Referred'
  <2>1. (\A f \in Files : file[f].ref = Cardinality(On(f)))'
    BY <1>1, <1>2 DEF Referred
  <2>2. (\A i \in Inodes : iref[i] = Cardinality(FilesOf(i)) + Cardinality(CallsOf(i)))'
    BY <1>4
  <2>3. (pipe = {file[f].writable : f \in Pipes})'
    BY <1>1, <1>3 DEF Referred
  <2> QED
    BY <2>1, <2>2, <2>3 DEF Referred
<1>8. (Tidy(disk) /\ Full(disk))'
  BY DEF Tidy, Full
<1> QED
  BY <1>5, <1>6, <1>7, <1>8 DEF OpenInv

LEMMA LookupKeeps ==
  ASSUME FilesAssumption, OpenInv, NEW p \in Procs, NEW i \in Inodes, NEW m \in Modes, Lookup(p, i, m)
  PROVE  OpenInv' /\ UNCHANGED <<disk, home, file>>
<1> DEFINE r == [pc |-> "open", ip |-> i, mode |-> m]
<1>1. /\ loc[p].pc = "idle" /\ iref' = [iref EXCEPT ![i] = @ + 1] /\ Go(p, r)
      /\ UNCHANGED <<disk, home, file, ofile, pipe>>
  BY DEF Lookup, Call, At
<1>2. FilesTypes /\ Tidy(disk) /\ Full(disk) /\ iref \in [Inodes -> Nat]
  BY DEF OpenInv, FilesTypes
<1>3. Doing(r) /\ r.pc = "open" /\ \A j : HasInode(r, j) <=> i = j
  <2>1. m \in Mode
    BY DEF FilesAssumption
  <2> QED
    BY <2>1, DoingIs, HasInodeIs
<1>4. \A j : ~HasInode(loc[p], j)
  BY <1>1, HasInodeIs
<1>5. Goes(p, r)
  BY <1>1, <1>2, GoesTo
<1> HIDE DEF r
<1>6. ASSUME NEW j \in Inodes
      PROVE iref'[j] = iref[j] + (IF HasInode(r, j) THEN 1 ELSE 0) - (IF HasInode(loc[p], j) THEN 1 ELSE 0)
  BY <1>1, <1>2, <1>3, <1>4
<1>7. DOMAIN iref' = Inodes /\ iref' = [j \in Inodes |-> iref'[j]]
  BY <1>1, <1>2
<1>8. Tidy(disk') /\ Full(disk')
  BY <1>1, <1>2
<1> QED
  BY <1>1, <1>3, <1>5, <1>6, <1>7, <1>8, LocStep

LEMMA CreateKeeps ==
  ASSUME FilesAssumption, OpenInv, NEW p \in Procs, NEW i \in Inodes, NEW m \in Modes, Create(p, i, m)
  PROVE  OpenInv' /\ UNCHANGED <<home, file>> /\ Steady(disk, disk') /\ \A j \in Inodes : SameBytes(disk, disk', j)
<1> DEFINE r == [pc |-> "open", ip |-> i, mode |-> m]
<1>1. /\ loc[p].pc = "idle" /\ iref[i] = 0 /\ iref' = [iref EXCEPT ![i] = 1] /\ Go(p, r)
      /\ disk' = [disk EXCEPT !.ino[i].type = "file", !.ino[i].nlink = 1]
      /\ UNCHANGED <<home, file, ofile, pipe>>
  BY DEF Create, Call, At
<1>2. FilesTypes /\ Tidy(disk) /\ Full(disk) /\ iref \in [Inodes -> Nat]
  BY DEF OpenInv, FilesTypes
<1>3. Doing(r) /\ r.pc = "open" /\ \A j : HasInode(r, j) <=> i = j
  <2>1. m \in Mode
    BY DEF FilesAssumption
  <2> QED
    BY <2>1, DoingIs, HasInodeIs
<1>4. \A j : ~HasInode(loc[p], j)
  BY <1>1, HasInodeIs
<1>5. Goes(p, r)
  BY <1>1, <1>2, GoesTo
<1> HIDE DEF r
<1>6. ASSUME NEW j \in Inodes
      PROVE iref'[j] = iref[j] + (IF HasInode(r, j) THEN 1 ELSE 0) - (IF HasInode(loc[p], j) THEN 1 ELSE 0)
  BY <1>1, <1>2, <1>3, <1>4
<1>7. DOMAIN iref' = Inodes /\ iref' = [j \in Inodes |-> iref'[j]]
  BY <1>1, <1>2
<1>8. Tidy(disk') /\ Full(disk') /\ Steady(disk, disk') /\ \A j \in Inodes : SameBytes(disk, disk', j)
  BY <1>1, <1>2, CreateDisk
<1> QED
  BY <1>1, <1>3, <1>5, <1>6, <1>7, <1>8, LocStep

LEMMA UnlinkKeeps ==
  ASSUME FilesAssumption, OpenInv, NEW p \in Procs, NEW i \in Inodes, Unlink(p, i)
  PROVE  OpenInv' /\ UNCHANGED <<home, file>> /\ Steady(disk, disk') /\ \A j \in Inodes : SameBytes(disk, disk', j)
<1> DEFINE r == [pc |-> "iput", ip |-> i]
<1>1. /\ loc[p].pc = "idle" /\ iref' = [iref EXCEPT ![i] = @ + 1] /\ Go(p, r)
      /\ disk' = [disk EXCEPT !.ino[i].nlink = 0]
      /\ UNCHANGED <<home, file, ofile, pipe>>
  BY DEF Unlink, Call, At, PutLater
<1>2. FilesTypes /\ Tidy(disk) /\ Full(disk) /\ iref \in [Inodes -> Nat]
  BY DEF OpenInv, FilesTypes
<1>3. Doing(r) /\ r.pc = "iput" /\ \A j : HasInode(r, j) <=> i = j
  BY DoingIs, HasInodeIs
<1>4. \A j : ~HasInode(loc[p], j)
  BY <1>1, HasInodeIs
<1>5. Goes(p, r)
  BY <1>1, <1>2, GoesTo
<1> HIDE DEF r
<1>6. ASSUME NEW j \in Inodes
      PROVE iref'[j] = iref[j] + (IF HasInode(r, j) THEN 1 ELSE 0) - (IF HasInode(loc[p], j) THEN 1 ELSE 0)
  BY <1>1, <1>2, <1>3, <1>4
<1>7. DOMAIN iref' = Inodes /\ iref' = [j \in Inodes |-> iref'[j]]
  BY <1>1, <1>2
<1>8. Tidy(disk') /\ Full(disk') /\ Steady(disk, disk') /\ \A j \in Inodes : SameBytes(disk, disk', j)
  BY <1>1, <1>2, UnlinkDisk
<1> QED
  BY <1>1, <1>3, <1>5, <1>6, <1>7, <1>8, LocStep

\* The entry that is taken and closed again has no type.
LEMMA OpenNoneKeeps ==
  ASSUME FilesAssumption, OpenInv, NEW p \in Procs, OpenNone(p)
  PROVE  OpenInv' /\ UNCHANGED <<disk, home, file>>
<1> DEFINE i == loc[p].ip
           r == [pc |-> "iput", ip |-> i]
<1>1. FilesTypes /\ Links /\ Tidy(disk) /\ Full(disk) /\ iref \in [Inodes -> Nat]
  BY DEF OpenInv, FilesTypes
<1>2. loc[p].pc = "open" /\ Go(p, r) /\ UNCHANGED <<disk, home, file, ofile, pipe>>
  BY DEF OpenNone, At, PutLater
<1>3. iref' = iref
  <2>1. CASE FreeFiles = {}
    BY <2>1 DEF OpenNone
  <2>2. CASE FreeFiles # {}
    <3>1. FreeFiles \in SUBSET Nat
      BY FileSets DEF FreeFiles
    <3>2. Min(FreeFiles) \in FreeFiles
      BY <2>2, <3>1, MinIn
    <3>3. file[Min(FreeFiles)].type = "none"
      BY <1>1, <3>2 DEF FreeFiles, Links
    <3> QED
      BY <3>3 DEF OpenNone
  <2> QED
    BY <2>1, <2>2
<1>4. i \in Inodes /\ \A j : HasInode(loc[p], j) <=> i = j
  BY <1>1, <1>2 DEF FilesTypes, Doing, HasInode
<1>5. Doing(r) /\ r.pc = "iput" /\ \A j : HasInode(r, j) <=> i = j
  BY <1>4, DoingIs, HasInodeIs
<1>6. Goes(p, r)
  BY <1>1, <1>2, GoesTo
<1> HIDE DEF r, i
<1>7. ASSUME NEW j \in Inodes
      PROVE iref'[j] = iref[j] + (IF HasInode(r, j) THEN 1 ELSE 0) - (IF HasInode(loc[p], j) THEN 1 ELSE 0)
  <2>1. iref'[j] = iref[j] /\ iref[j] \in Nat
    BY <1>1, <1>3
  <2> QED
    BY <1>4, <1>5, <2>1
<1>8. DOMAIN iref' = Inodes /\ iref' = [j \in Inodes |-> iref'[j]]
  BY <1>1, <1>3
<1>9. Tidy(disk') /\ Full(disk')
  BY <1>1, <1>2
<1> QED
  BY <1>2, <1>5, <1>6, <1>7, <1>8, <1>9, LocStep

\* The last reference to a file without a name frees it, and then no file is open on it.
LEMMA IputKeeps ==
  ASSUME FilesAssumption, OpenInv, NEW p \in Procs, Iput(p)
  PROVE  /\ OpenInv' /\ UNCHANGED <<home, file>> /\ Steady(disk, disk')
         /\ \/ UNCHANGED disk
            \/ \E i \in Inodes : /\ disk'.ino[i].size = 0 /\ \A j \in Inodes : j # i => SameBytes(disk, disk', j)
                                 /\ FilesOf(i) = {}
<1> DEFINE i == loc[p].ip
           r == IF "next" \in DOMAIN loc[p] THEN loc[p].next ELSE Idle
<1>1. FilesTypes /\ Links /\ Referred /\ Tidy(disk) /\ Full(disk) /\ iref \in [Inodes -> Nat]
  BY DEF OpenInv, FilesTypes
<1>2. /\ loc[p].pc = "iput" /\ Go(p, r) /\ iref' = [iref EXCEPT ![i] = @ - 1] /\ UNCHANGED <<home, file, ofile, pipe>>
      /\ disk' = IF iref[i] = 1 /\ disk.ino[i].nlink = 0 THEN [Itrunc(disk, i) EXCEPT !.ino[i].type = "free"] ELSE disk
  BY DEF Iput, At
<1>3. i \in Inodes /\ \A j : HasInode(loc[p], j) <=> i = j
  BY <1>1, <1>2 DEF FilesTypes, Doing, HasInode
<1>4. r \in {Idle, Exiting}
  BY <1>1, <1>2 DEF FilesTypes, Doing
<1>5. Doing(r) /\ r.pc \in {"idle", "exit"} /\ \A j : ~HasInode(r, j)
  BY <1>4, DoingIs, HasInodeIs DEF Idle, Exiting
<1>6. Goes(p, r)
  BY <1>1, <1>2, GoesTo
<1> HIDE DEF r, i
<1>7. iref[i] = Cardinality(FilesOf(i)) + Cardinality(CallsOf(i)) /\ Cardinality(CallsOf(i)) # 0
  <2>1. p \in CallsOf(i)
    BY <1>2, <1>3 DEF CallsOf, HasInode
  <2>2. Cardinality(CallsOf(i)) # 0
    BY <2>1, Finite, FS_EmptySet
  <2> QED
    BY <1>1, <1>3, <2>2 DEF Referred
<1>8. ASSUME NEW j \in Inodes
      PROVE iref'[j] = iref[j] + (IF HasInode(r, j) THEN 1 ELSE 0) - (IF HasInode(loc[p], j) THEN 1 ELSE 0)
  BY <1>1, <1>2, <1>3, <1>5
<1>9. DOMAIN iref' = Inodes /\ iref' = [j \in Inodes |-> iref'[j]]
  BY <1>1, <1>2
<1>10. /\ Tidy(disk') /\ Full(disk') /\ Steady(disk, disk')
       /\ \/ UNCHANGED disk
          \/ disk'.ino[i].size = 0 /\ (\A j \in Inodes : j # i => SameBytes(disk, disk', j)) /\ FilesOf(i) = {}
  <2>1. CASE iref[i] = 1 /\ disk.ino[i].nlink = 0
    <3>1. disk' = [Itrunc(disk, i) EXCEPT !.ino[i].type = "free"]
      BY <1>2, <2>1
    <3>2. Cardinality(FilesOf(i)) = 0
      BY <1>7, <2>1, Finite
    <3>3. FilesOf(i) = {}
      BY <3>2, Finite, FS_EmptySet
    <3> QED
      BY <1>1, <1>3, <3>1, <3>3, FreeDisk
  <2>2. CASE ~(iref[i] = 1 /\ disk.ino[i].nlink = 0)
    <3>1. disk' = disk
      BY <1>2, <2>2
    <3> QED
      BY <1>1, <3>1 DEF Steady
  <2> QED
    BY <2>1, <2>2
<1>11. OpenInv'
  BY <1>2, <1>5, <1>6, <1>8, <1>9, <1>10, LocStep
<1> QED
  BY <1>2, <1>3, <1>10, <1>11

LEMMA WriteStartKeeps ==
  ASSUME FilesAssumption, OpenInv, NEW p \in Procs, NEW d \in Fds, NEW n \in Counts, WriteStart(p, d, n)
  PROVE  OpenInv' /\ UNCHANGED <<disk, home, file>>
<1> DEFINE f == ofile[p][d]
<1>1. FilesTypes /\ Tidy(disk) /\ Full(disk) /\ iref \in [Inodes -> Nat]
  BY DEF OpenInv, FilesTypes
<1>2. PICK addr \in 0..Len(Text) - n :
        /\ loc[p].pc = "idle" /\ f # 0 /\ n > 0 /\ file[f].type = "inode"
        /\ Go(p, [pc |-> "write", f |-> f, i |-> addr, n |-> addr + n])
        /\ UNCHANGED <<disk, home, iref, file, ofile, pipe>>
  BY DEF WriteStart, Call, At
<1> DEFINE r == [pc |-> "write", f |-> f, i |-> addr, n |-> addr + n]
<1>3. addr \in Nat /\ addr + n \in Nat /\ addr < addr + n /\ addr + n <= Len(Text) /\ f \in Files
  <2>1. n \in Int /\ n <= Len(Text) /\ Len(Text) \in Nat
    BY DEF FilesAssumption
  <2> QED
    BY <1>1, <1>2, <2>1 DEF FilesTypes
<1>4. Doing(r) /\ r.pc = "write" /\ r.f = f /\ \A j : ~HasInode(r, j) /\ ~HasInode(loc[p], j)
  <2> DEFINE m == addr + n
  <2> HIDE DEF m, f
  <2>1. Doing([pc |-> "write", f |-> f, i |-> addr, n |-> m])
    BY <1>3, DoingIs DEF m
  <2> QED
    BY <1>2, <2>1, HasInodeIs DEF m
<1>5. Goes(p, r)
  BY <1>1, <1>2, GoesTo
<1>6. \E c \in Fds : ofile[p][c] = f
  OBVIOUS
<1> HIDE DEF r, f
<1>7. \A j \in Inodes :
        iref'[j] = iref[j] + (IF HasInode(r, j) THEN 1 ELSE 0) - (IF HasInode(loc[p], j) THEN 1 ELSE 0)
  BY <1>1, <1>2, <1>4
<1>8. DOMAIN iref' = Inodes /\ iref' = [j \in Inodes |-> iref'[j]] /\ Tidy(disk') /\ Full(disk')
  BY <1>1, <1>2
<1> QED
  BY <1>2, <1>4, <1>5, <1>6, <1>7, <1>8, LocStep

\* A step that moves a position.
Moves(f, o) == file' = [file EXCEPT ![f].off = o]
LEMMA OffStep ==
  ASSUME FilesAssumption, OpenInv, NEW p \in Procs, NEW r, Doing(r), Goes(p, r), UNCHANGED <<iref, ofile, pipe>>,
         NEW f \in Files, NEW o \in 0..MaxBytes, Moves(f, o),
         Tidy(disk'), Full(disk'), \A j : HasInode(r, j) <=> HasInode(loc[p], j), r.pc # "dead",
         r.pc = "write" => file[r.f].type = "inode" /\ \E d \in Fds : ofile[p][d] = r.f
  PROVE  /\ OpenInv' /\ \A g \in Files : g # f => file'[g] = file[g]
         /\ file'[f].ref = file[f].ref /\ file'[f].type = file[f].type /\ file'[f].ip = file[f].ip /\ file'[f].off = o
<1>1. FilesTypes /\ Links /\ Referred
  BY DEF OpenInv
<1>2. /\ file[f] \in FileEntry /\ file \in [Files -> FileEntry]
      /\ file'[f] \in FileEntry /\ file'[f].ref = file[f].ref /\ file'[f].type = file[f].type
      /\ file'[f].ip = file[f].ip /\ file'[f].writable = file[f].writable /\ file'[f].off = o
      /\ file' = [g \in Files |-> IF g = f THEN file'[f] ELSE file[g]]
  BY <1>1 DEF FilesTypes, FileEntry, Moves
<1>3. \A g \in Files : /\ file'[g].ref = file[g].ref /\ file'[g].type = file[g].type /\ file'[g] \in FileEntry
                       /\ file'[g].ip = file[g].ip /\ file'[g].writable = file[g].writable
                       /\ (g # f => file'[g] = file[g])
  <2> TAKE g \in Files
  <2>1. CASE g = f
    BY <1>2, <2>1
  <2>2. CASE g # f
    <3>1. file'[g] = file[g]
      BY <1>2, <2>2
    <3> QED
      BY <1>2, <3>1
  <2> QED
    BY <2>1, <2>2
<1>4. (\A g : On(g)' = On(g)) /\ Pipes' = Pipes /\ \A i : FilesOf(i)' = FilesOf(i)
  BY <1>3 DEF On, Pipes, FilesOf
<1>5. ASSUME NEW i PROVE Cardinality(CallsOf(i))' = Cardinality(CallsOf(i))
  <2>1. HasInode(loc[p], i) <=> HasInode(r, i)
    OBVIOUS
  <2> QED
    BY <1>1, <2>1, CallsGoes
<1>6. FilesTypes'
  <2>1. file' \in [Files -> FileEntry]
    BY <1>2, <1>3
  <2>2. \A q \in Procs : Doing(loc'[q])
    BY <1>1 DEF Goes, FilesTypes
  <2> QED
    BY <1>1, <2>1, <2>2 DEF Goes, FilesTypes, Doing
<1>7. Links'
  <2>1. ASSUME NEW q \in Procs PROVE loc'[q].pc = "dead" => loc[q].pc = "dead"
    BY DEF Goes
  <2>2. ASSUME NEW q \in Procs, loc'[q].pc = "write"
        PROVE  file[loc'[q].f].type = "inode" /\ loc'[q].f \in Files /\ \E d \in Fds : ofile[q][d] = loc'[q].f
    <3>1. CASE q = p
      BY <2>2, <3>1 DEF Goes, Doing
    <3>2. CASE q # p
      BY <1>1, <2>2, <3>2 DEF Goes, Links, FilesTypes, Doing
    <3> QED
      BY <3>1, <3>2
  <2>3. (\A f1, f2 \in Pipes : f1 # f2 => file[f1].writable # file[f2].writable)'
    BY <1>1, <1>3, <1>4 DEF Links, Pipes
  <2>4. (\A g \in Files : /\ file[g].ref = 0 <=> file[g].type = "none"
                          /\ file[g].type = "inode" => file[g].ip \in Inodes)'
    BY <1>1, <1>3 DEF Links
  <2> QED
    BY <1>1, <1>3, <2>1, <2>2, <2>3, <2>4 DEF Links
<1>8. Referred'
  <2>1. (\A g \in Files : file[g].ref = Cardinality(On(g)))'
    BY <1>1, <1>3, <1>4 DEF Referred
  <2>2. (\A i \in Inodes : iref[i] = Cardinality(FilesOf(i)) + Cardinality(CallsOf(i)))'
    BY <1>1, <1>4, <1>5 DEF Referred
  <2>3. (pipe = {file[g].writable : g \in Pipes})'
    <3>1. \A g \in Pipes : file'[g].writable = file[g].writable
      BY <1>3 DEF Pipes
    <3> QED
      BY <1>1, <1>4, <3>1 DEF Referred
  <2> QED
    BY <2>1, <2>2, <2>3 DEF Referred
<1>9. (Tidy(disk) /\ Full(disk))'
  BY DEF Tidy, Full
<1> QED
  BY <1>2, <1>3, <1>6, <1>7, <1>8, <1>9 DEF OpenInv

\* readi() ends at the size, whatever the count is modulo Width.
LEMMA ReadiLength ==
  ASSUME FilesAssumption, disk \in DiskType, NEW i \in Inodes, NEW off \in 0..MaxBytes, NEW n \in Int
  PROVE  LET m == Len(Readi(i, off, n % Width)) IN
         m \in Nat /\ (m # 0 => off + m <= disk.ino[i].size) /\ off + m \in 0..MaxBytes
<1> DEFINE u == n % Width
           old == disk.ino[i].size
           z == (off + u) % Width
           m == IF off > old \/ z < off THEN 0 ELSE IF z > old THEN old - off ELSE u
<1>1. Width \in Nat \ {0} /\ MaxBytes \in Nat /\ Width > 2 * MaxBytes /\ old \in Nat /\ old <= MaxBytes
  BY FileSizes, SizeBytes DEF Sizes
<1>2. u \in 0..Width - 1
  BY <1>1
<1> HIDE DEF u, old
<1>3. z \in 0..Width - 1 /\ (off + u < Width => z = off + u) /\ (off + u >= Width => z < off)
  <2> DEFINE s == off + u
             q == s \div Width
  <2>1. s \in Nat /\ s < Width + Width
    BY <1>1, <1>2
  <2>2. q \in Nat /\ z \in 0..Width - 1 /\ s = q * Width + z
    BY <1>1, <2>1, Divides
  <2> HIDE DEF q, s, z
  <2>3. CASE s < Width
    <3>1. q = 0
      <4> SUFFICES ASSUME q >= 1 PROVE FALSE
        BY <2>2
      <4>1. q * Width >= 1 * Width
        BY <1>1, <2>2
      <4> QED
        BY <1>1, <2>2, <2>3, <4>1
    <3>2. z = s
      BY <1>1, <2>2, <3>1
    <3> QED
      BY <1>1, <1>2, <2>2, <2>3, <3>2 DEF s
  <2>4. CASE s >= Width
    <3>1. q >= 1
      <4> SUFFICES ASSUME q = 0 PROVE FALSE
        BY <2>2
      <4>1. s = z
        BY <1>1, <2>2
      <4> QED
        BY <1>1, <2>2, <2>4, <4>1
    <3>2. q * Width >= 1 * Width /\ q * Width \in Int
      BY <1>1, <2>2, <3>1
    <3>3. z <= s - Width
      BY <1>1, <2>1, <2>2, <3>2
    <3>4. s - Width < off
      BY <1>1, <1>2, <2>1 DEF s
    <3> QED
      BY <1>1, <2>1, <2>2, <2>4, <3>3, <3>4 DEF s
  <2>5. s < Width \/ s >= Width
    BY <1>1, <2>1
  <2> QED
    BY <2>3, <2>4, <2>5
<1> HIDE DEF z
<1>4. m \in Nat /\ (m # 0 => off + m <= old) /\ off + m \in 0..MaxBytes
  <2>1. CASE off > old \/ z < off
    BY <1>1, <2>1
  <2>2. CASE ~(off > old \/ z < off) /\ z > old
    BY <1>1, <1>3, <2>2
  <2>3. CASE ~(off > old \/ z < off) /\ ~(z > old)
    BY <1>1, <1>2, <1>3, <2>3
  <2> QED
    BY <2>1, <2>2, <2>3
<1>5. Readi(i, off, n % Width) =
        [k \in 1..m |-> disk.data[Slot(disk, i, (off + k - 1) \div BSIZE)][(off + k - 1) % BSIZE]]
  BY DEF Readi, u, old, z
<1> HIDE DEF m
<1>6. Len(Readi(i, off, n % Width)) = m
  BY <1>4, <1>5
<1> QED
  BY <1>4, <1>6 DEF old

LEMMA ReadKeeps ==
  ASSUME FilesAssumption, OpenInv, NEW p \in Procs, NEW d \in Fds, NEW n \in Counts, Read(p, d, n)
  PROVE  /\ OpenInv' /\ UNCHANGED <<disk, home>>
         /\ \E f \in Files, m \in Nat : /\ file[f].type = "inode" /\ file[f].ref > 0 /\ \A g \in Files : g # f => file'[g] = file[g]
                                        /\ file'[f].ref = file[f].ref /\ file'[f].type = file[f].type
                                        /\ file'[f].ip = file[f].ip /\ file'[f].off = file[f].off + m
                                        /\ m # 0 => file[f].off + m <= disk.ino[file[f].ip].size
<1> DEFINE f == ofile[p][d]
           m == Len(Readi(file[f].ip, file[f].off, n % Width))
           o == file[f].off + m
<1>1. FilesTypes /\ Links /\ Referred /\ Tidy(disk) /\ Full(disk) /\ disk \in DiskType
  BY DEF OpenInv, Tidy
<1>2. /\ loc[p].pc = "idle" /\ f # 0 /\ file[f].type = "inode"
      /\ file' = [file EXCEPT ![f].off = file[f].off + m]
      /\ UNCHANGED <<disk, home, iref, ofile, pipe, loc>>
  BY DEF Read, Call, At
<1>3. f \in Files /\ ofile[p][d] = f
  BY <1>1, <1>2 DEF FilesTypes
<1> HIDE DEF f
<1>4. file[f].ip \in Inodes /\ file[f].off \in 0..MaxBytes /\ n \in Int /\ file[f].ref > 0
  <2>1. file[f].ip \in Inodes /\ file[f].ref # 0 /\ file[f] \in FileEntry
    BY <1>1, <1>2, <1>3 DEF Links, FilesTypes
  <2>2. n \in Int
    BY DEF FilesAssumption
  <2> QED
    BY <2>1, <2>2 DEF FileEntry
<1>5. m \in Nat /\ (m # 0 => file[f].off + m <= disk.ino[file[f].ip].size) /\ o \in 0..MaxBytes
  BY <1>1, <1>4, ReadiLength
<1> HIDE DEF m
<1>6. Moves(f, o)
  BY <1>2 DEF Moves
<1> HIDE DEF o
<1>7. Doing(loc[p]) /\ Goes(p, loc[p])
  BY <1>1, <1>2 DEF FilesTypes, Goes
<1> DEFINE r == loc[p]
<1>8. /\ Tidy(disk') /\ Full(disk') /\ UNCHANGED <<iref, ofile, pipe>>
      /\ Doing(r) /\ Goes(p, r) /\ r.pc # "dead" /\ r.pc # "write" /\ \A j : HasInode(r, j) <=> HasInode(loc[p], j)
  BY <1>1, <1>2, <1>7
<1> HIDE DEF r
<1>9. /\ OpenInv' /\ \A g \in Files : g # f => file'[g] = file[g]
      /\ file'[f].ref = file[f].ref /\ file'[f].type = file[f].type /\ file'[f].ip = file[f].ip /\ file'[f].off = o
  BY <1>3, <1>5, <1>6, <1>8, OffStep
<1>10. OpenInv' /\ UNCHANGED <<disk, home>>
  BY <1>2, <1>9
<1>11. file[f].type = "inode" /\ file'[f].off = file[f].off + m
  BY <1>2, <1>9 DEF o
<1> QED
  BY <1>3, <1>4, <1>5, <1>9, <1>10, <1>11

LEMMA LocWith ==
  ASSUME NEW l, l = [pc |-> "write", f |-> l.f, i |-> l.i, n |-> l.n], NEW a
  PROVE  [l EXCEPT !.i = @ + a] = [pc |-> "write", f |-> l.f, i |-> l.i + a, n |-> l.n]
<1> DEFINE x == l.f
           y == l.i
           z == l.n
           b == y + a
           R == [pc |-> "write", f |-> x, i |-> y, n |-> z]
<1>1. [R EXCEPT !.i = b] = [pc |-> "write", f |-> x, i |-> b, n |-> z]
  <2> HIDE DEF x, y, z, b
  <2> QED
    OBVIOUS
<1>2. l = R /\ [l EXCEPT !.i = @ + a] = [l EXCEPT !.i = b]
  OBVIOUS
<1> HIDE DEF R, b
<1>3. [l EXCEPT !.i = @ + a] = [pc |-> "write", f |-> x, i |-> b, n |-> z]
  BY <1>1, <1>2
<1> QED
  BY <1>3 DEF b

LEMMA TextPart ==
  ASSUME FilesAssumption, NEW i \in Nat, NEW n \in Nat, i + n <= Len(Text)
  PROVE  LET s == SubSeq(Text, i + 1, i + n) IN
         s \in Seq(Nat) /\ Len(s) = n /\ \A k \in 1..n : s[k] = Text[i + k]
<1>1. Text \in Seq(Nat)
  BY DEF FilesAssumption
<1> DEFINE s == SubSeq(Text, i + 1, i + n)
<1>2. Len(s) = n
  BY <1>1
<1>3. \A k \in 1..n : s[k] = Text[i + k]
  BY <1>1
<1>4. s \in Seq(Nat)
  BY <1>1
<1> QED
  BY <1>2, <1>3, <1>4

LEMMA MaxZero == ASSUME NEW a \in Int PROVE Max({a, 0}) = IF a > 0 THEN a ELSE 0
<1> DEFINE x == IF a > 0 THEN a ELSE 0
<1>1. x \in {a, 0} /\ \A y \in {a, 0} : x >= y
  OBVIOUS
<1>2. \A y \in {a, 0} : (\A z \in {a, 0} : y >= z) => y = x
  OBVIOUS
<1> HIDE DEF x
<1>3. Max({a, 0}) = x
  BY <1>1, <1>2 DEF Max
<1> QED
  BY <1>3 DEF x

LEMMA MinPair == ASSUME NEW a \in Int, NEW b \in Int PROVE Min({a, b}) = IF a <= b THEN a ELSE b
<1> DEFINE x == IF a <= b THEN a ELSE b
<1>1. x \in {a, b} /\ \A y \in {a, b} : x <= y
  OBVIOUS
<1>2. \A y \in {a, b} : (\A z \in {a, b} : y <= z) => y = x
  OBVIOUS
<1> HIDE DEF x
<1>3. Min({a, b}) = x
  BY <1>1, <1>2 DEF Min
<1> QED
  BY <1>3 DEF x

\* What writei() has logged, and what is still to be read there after a crash.
KByte(j, k) == home[Ref(disk, j, k \div BSIZE)][k % BSIZE]

HomeAfter(h, E, i, off, t) ==
  /\ h \in [Blocks -> [0..BSIZE - 1 -> Nat]]
  /\ t = -1 => h = home
  /\ \A j \in Inodes : E.ino[j].addrs[NDIRECT] # 0 =>
       h[E.ino[j].addrs[NDIRECT]] = E.data[E.ino[j].addrs[NDIRECT]]
  /\ \A j \in Inodes : \A k \in 0..E.ino[j].size - 1 :
       /\ h[Ref(E, j, k \div BSIZE)][k % BSIZE] \in {Byte(E, j, k), KByte(j, k)}
       /\ j # i => h[Ref(E, j, k \div BSIZE)][k % BSIZE] = KByte(j, k)
       /\ j = i /\ k \in off..off + t - 1 => h[Ref(E, j, k \div BSIZE)][k % BSIZE] = Byte(E, j, k)

LEMMA LoggedIs ==
  ASSUME FilesAssumption, Tidy(disk), Full(disk), HomeOK, NEW i \in Inodes, NEW off \in Nat, NEW src \in Seq(Nat),
         NEW v, Outcome(v, i, off, src), NEW E, E = v.disk, NEW n, n = Len(src), NEW absorbed \in BOOLEAN,
         NEW h, h = Logged(v, i, off, n, absorbed)
  PROVE  HomeAfter(h, E, i, off, v.r)
<1>sizes. Sizes
  BY FileSizes
<1> DEFINE end == off + IF absorbed /\ v.r < n THEN v.r + 1 ELSE v.r
           S == LoggedBy(E, i, off, end)
<1>1. h = [b \in Blocks |-> IF b \in S THEN E.data[b] ELSE home[b]]
  BY DEF Logged
<1>2. n \in Nat /\ disk \in DiskType /\ home \in [Blocks -> [0..BSIZE - 1 -> Nat]] /\ Tidy(E) /\ Full(E)
  <2>1. Tidy(E) /\ Full(E)
    <3>1. CASE v.disk = disk
      BY <3>1
    <3>2. CASE v.disk # disk
      BY <3>2 DEF Outcome
    <3> QED
      BY <3>1, <3>2
  <2> QED
    BY <2>1 DEF Tidy, HomeOK
<1>3. /\ MAXFILE \in Place /\ \A l \in 0..MAXFILE - 1 : l \in Place /\ l # MAXFILE
      /\ \A j : Ref(E, j, MAXFILE) = E.ino[j].addrs[NDIRECT] /\ Ref(disk, j, MAXFILE) = disk.ino[j].addrs[NDIRECT]
  BY RefIs, <1>sizes DEF Place, Sizes
<1>4. E \in DiskType /\ \A j \in Inodes, l \in Place : Ref(E, j, l) # 0 => Ref(E, j, l) \in Blocks
  <2>1. E \in DiskType
    BY <1>2 DEF Tidy
  <2>2. ASSUME NEW j \in Inodes, NEW l \in Place, Ref(E, j, l) # 0 PROVE Ref(E, j, l) \in Blocks
    BY <1>2, <2>2, RefType
  <2> QED
    BY <2>1, <2>2
<1>5. h \in [Blocks -> [0..BSIZE - 1 -> Nat]] /\ \A b \in Blocks : h[b] = IF b \in S THEN E.data[b] ELSE home[b]
  <2>1. E.data \in [Blocks -> [0..BSIZE - 1 -> Nat]]
    BY <1>4 DEF DiskType
  <2> HIDE DEF S
  <2> QED
    BY <1>1, <1>2, <2>1
<1>6. S = (E.bitmap \ disk.bitmap) \cup {E.ino[i].addrs[NDIRECT]} \cup {Slot(E, i, k \div BSIZE) : k \in off..end - 1}
  BY DEF LoggedBy
<1>7. ASSUME v.disk = disk, v.r = -1
      PROVE  h = home
  <2>1. \A k : k \notin off..end - 1
    BY <1>7, <1>2
  <2>2. S = {disk.ino[i].addrs[NDIRECT]}
    BY <1>6, <1>7, <2>1
  <2> HIDE DEF S
  <2>3. \A b \in Blocks : b # 0
    BY <1>sizes DEF Sizes
  <2>4. \A b \in Blocks : h[b] = home[b]
    BY <1>5, <1>7, <2>2, <2>3 DEF HomeOK
  <2> QED
    BY <1>2, <1>5, <2>4, SameFunction
<1>8. CASE v.disk = disk /\ v.r = -1
  <2>1. h = home /\ E = disk /\ \A k : k \notin off..off + v.r - 1
    BY <1>7, <1>8
  <2> QED
    BY <1>2, <2>1 DEF HomeOK, KByte, HomeAfter
<1>9. CASE ~(v.disk = disk /\ v.r = -1)
  <2>1. /\ v.r \in 0..n /\ off + n <= MaxBytes /\ Apart(disk, E, i)
        /\ \A j \in Inodes, l \in Place : Ref(disk, j, l) # 0 => Ref(E, j, l) = Ref(disk, j, l)
        /\ \A j \in Inodes : j # i => E.ino[j].size = disk.ino[j].size
    BY <1>9 DEF Outcome
  <2>2. end \in Nat /\ off + v.r <= end /\ end <= off + n
    BY <1>2, <2>1
  <2> HIDE DEF end
  <2>3. ASSUME NEW k \in off..end - 1
        PROVE  k \div BSIZE \in 0..MAXFILE - 1 /\ Slot(E, i, k \div BSIZE) = Ref(E, i, k \div BSIZE)
    <3>1. k \in 0..MaxBytes - 1
      BY <1>2, <2>1, <2>2, <1>sizes DEF Sizes
    <3>2. k \div BSIZE \in 0..MAXFILE - 1
      BY <3>1, BlockOfByte
    <3> QED
      BY <3>2, RefIs
  <2>4. ASSUME NEW j \in Inodes, j # i, NEW l \in Place, Ref(E, j, l) # 0, Ref(E, j, l) \in disk.bitmap
        PROVE  Ref(E, j, l) \notin S
    <3>1. Ref(E, j, l) # Ref(E, i, MAXFILE)
      BY <1>2, <1>3, <2>4 DEF Tidy
    <3>2. ASSUME NEW k \in off..end - 1 PROVE Ref(E, j, l) # Slot(E, i, k \div BSIZE)
      <4>1. k \div BSIZE \in Place /\ Slot(E, i, k \div BSIZE) = Ref(E, i, k \div BSIZE)
        BY <1>3, <2>3
      <4> QED
        BY <1>2, <2>4, <4>1 DEF Tidy
    <3> HIDE DEF S
    <3> QED
      BY <1>3, <1>6, <2>4, <3>1, <3>2
  <2>5. ASSUME NEW j \in Inodes, NEW l \in Place, Ref(E, j, l) # 0, Ref(E, j, l) \in disk.bitmap
        PROVE  Ref(disk, j, l) = Ref(E, j, l)
    <3>1. PICK m \in Inodes, q \in Place : Ref(disk, m, q) = Ref(E, j, l)
      BY <2>5 DEF Tidy
    <3>2. Ref(E, m, q) = Ref(E, j, l)
      BY <2>1, <2>5, <3>1
    <3>3. m = j /\ q = l
      BY <1>2, <2>5, <3>2 DEF Tidy
    <3> QED
      BY <3>1, <3>3
  <2> HIDE DEF S
  <2>6. ASSUME NEW j \in Inodes, E.ino[j].addrs[NDIRECT] # 0
        PROVE  h[E.ino[j].addrs[NDIRECT]] = E.data[E.ino[j].addrs[NDIRECT]]
    <3>1. E.ino[j].addrs[NDIRECT] \in Blocks
      BY <1>3, <1>4, <2>6
    <3>2. CASE j = i
      BY <1>5, <1>6, <3>1, <3>2
    <3>3. CASE j # i
      <4> DEFINE a == E.ino[j].addrs[NDIRECT]
      <4>1. a = disk.ino[j].addrs[NDIRECT] /\ E.data[a] = disk.data[a] /\ home[a] = disk.data[a]
        BY <2>1, <2>6, <3>3 DEF Apart, HomeOK
      <4> QED
        BY <1>5, <3>1, <4>1
    <3> QED
      BY <3>2, <3>3
  <2>7. ASSUME NEW j \in Inodes, NEW k \in 0..E.ino[j].size - 1
        PROVE  /\ h[Ref(E, j, k \div BSIZE)][k % BSIZE] \in {Byte(E, j, k), KByte(j, k)}
               /\ j # i => h[Ref(E, j, k \div BSIZE)][k % BSIZE] = KByte(j, k)
               /\ j = i /\ k \in off..off + v.r - 1 => h[Ref(E, j, k \div BSIZE)][k % BSIZE] = Byte(E, j, k)
    <3> DEFINE l == k \div BSIZE
               x == k % BSIZE
               b == Ref(E, j, l)
    <3>1. l \in Place /\ b # 0
      BY <1>2, <1>4, SizeBytes DEF Full, Has
    <3>2. b \in Blocks /\ b \in E.bitmap
      BY <1>2, <1>4, <3>1 DEF Tidy
    <3>3. Byte(E, j, k) = E.data[b][x] /\ KByte(j, k) = home[Ref(disk, j, l)][x]
      BY DEF Byte, KByte
    <3> HIDE DEF l, x, b
    <3>4. b \in S => h[b][x] = Byte(E, j, k)
      BY <1>5, <3>2, <3>3
    <3>5. b \notin S => h[b][x] = KByte(j, k)
      <4> SUFFICES ASSUME b \notin S PROVE h[b][x] = KByte(j, k)
        OBVIOUS
      <4>1. b \in disk.bitmap
        BY <1>6, <3>2
      <4>2. Ref(disk, j, l) = b
        BY <2>5, <3>1, <4>1 DEF b
      <4> QED
        BY <1>5, <3>2, <3>3, <4>2
    <3>6. j # i => b \notin S
      <4> SUFFICES ASSUME j # i PROVE b \notin S
        OBVIOUS
      <4>1. k \in 0..disk.ino[j].size - 1
        BY <2>1
      <4>2. Ref(disk, j, l) # 0
        BY <4>1 DEF Full, Has, l
      <4>3. b = Ref(disk, j, l) /\ b \in disk.bitmap
        BY <2>1, <3>1, <4>2 DEF b, Tidy
      <4> QED
        BY <2>4, <3>1, <4>3 DEF b
    <3>7. j = i /\ k \in off..off + v.r - 1 => b \in S
      <4> SUFFICES ASSUME j = i, k \in off..off + v.r - 1 PROVE b \in S
        OBVIOUS
      <4>1. k \in off..end - 1
        BY <1>2, <2>1, <2>2
      <4>2. b = Slot(E, i, k \div BSIZE)
        BY <2>3, <4>1 DEF b, l
      <4> QED
        BY <1>6, <4>1, <4>2
    <3> QED
      BY <3>4, <3>5, <3>6, <3>7 DEF b, l, x
  <2> QED
    BY <1>5, <2>1, <2>6, <2>7 DEF HomeAfter
<1> QED
  BY <1>8, <1>9

\* A part of the text is written at the position of f.
PartWritten(f, i, n, t) ==
  /\ file[f].type = "inode" /\ file[f].ref > 0 /\ file[f].ip \in Inodes /\ file[f].off \in Nat
  /\ i \in Nat /\ n \in Nat /\ t \in Nat /\ t <= n /\ i + n <= Len(Text)
  /\ file[f].off <= disk.ino[file[f].ip].size /\ file[f].off + t <= MaxBytes
  /\ file'[f].off = file[f].off + t /\ file'[f].ref = file[f].ref
  /\ file'[f].type = file[f].type /\ file'[f].ip = file[f].ip
  /\ \A g \in Files : g # f => file'[g] = file[g]
  /\ \A j \in Inodes : disk'.ino[j].size =
       IF j = file[f].ip /\ file[f].off + t > disk.ino[j].size THEN file[f].off + t ELSE disk.ino[j].size
  /\ \A j \in Inodes : \A k \in 0..disk'.ino[j].size - 1 : Byte(disk', j, k) =
       IF j = file[f].ip /\ k \in file[f].off..file[f].off + n - 1 THEN Text[i + (k - file[f].off + 1)]
       ELSE Byte(disk, j, k)
  /\ \A j \in Inodes : \A k \in 0..disk'.ino[j].size - 1 :
       /\ KByte(j, k)' \in {Byte(disk', j, k), KByte(j, k)}
       /\ j # file[f].ip => KByte(j, k)' = KByte(j, k)
       /\ j = file[f].ip /\ k \in file[f].off..file[f].off + t - 1 => KByte(j, k)' = Byte(disk', j, k)

LEMMA WriteChunkKeeps ==
  ASSUME FilesAssumption, OpenInv, HomeOK, NEW p \in Procs, WriteChunk(p)
  PROVE  /\ OpenInv' /\ HomeOK'
         /\ \/ UNCHANGED <<disk, home>> /\ \A g \in Files : /\ file'[g].ref = file[g].ref /\ file'[g].type = file[g].type
                                                          /\ file'[g].ip = file[g].ip /\ file'[g].off = file[g].off
            \/ \E f \in Files, i, n, t \in Nat : PartWritten(f, i, n, t)
<1>sizes. Sizes
  BY FileSizes
<1> DEFINE l == loc[p]
           f == l.f
           n1 == Min({l.n - l.i, MaxChunk})
           src == SubSeq(Text, l.i + 1, l.i + n1)
<1>1. FilesTypes /\ Links /\ Referred /\ Tidy(disk) /\ Full(disk) /\ disk \in DiskType
  BY DEF OpenInv, Tidy
<1>2. l.pc = "write" /\ UNCHANGED <<iref, ofile, pipe, calls>>
  BY DEF WriteChunk, At
<1>3. /\ l.f \in Files /\ l.i \in Nat /\ l.n \in Nat /\ l.i < l.n /\ l.n <= Len(Text)
      /\ l = [pc |-> "write", f |-> l.f, i |-> l.i, n |-> l.n]
  BY <1>1, <1>2 DEF FilesTypes, Doing
<1>4. PICK good \in 0..n1, absorbed \in BOOLEAN :
        LET v == Writei(file[l.f].ip, file[l.f].off, src, good) IN
          /\ disk' = v.disk
          /\ home' = Logged(v, file[l.f].ip, file[l.f].off, n1, absorbed)
          /\ file' = [file EXCEPT ![l.f].off = @ + Max({v.r, 0})]
          /\ Go(p, IF v.r = n1 /\ l.i + n1 < l.n THEN [l EXCEPT !.i = @ + n1] ELSE Idle)
  BY DEF WriteChunk
<1> DEFINE v == Writei(file[f].ip, file[f].off, src, good)
           r == IF v.r = n1 /\ l.i + n1 < l.n THEN [l EXCEPT !.i = @ + n1] ELSE Idle
<1>5. /\ disk' = v.disk /\ home' = Logged(v, file[f].ip, file[f].off, n1, absorbed) /\ file' = [file EXCEPT ![f].off = file[f].off + Max({v.r, 0})] /\ Go(p, r)
  BY <1>4
<1>6. n1 \in Nat \ {0} /\ n1 <= l.n - l.i
  <2> HIDE DEF l
  <2>1. l.n - l.i \in Nat \ {0} /\ MaxChunk \in Nat \ {0} /\ l.n - l.i \in Int /\ MaxChunk \in Int
    BY <1>3, <1>sizes DEF Sizes
  <2>2. n1 = IF l.n - l.i <= MaxChunk THEN l.n - l.i ELSE MaxChunk
    BY <2>1, MinPair
  <2> HIDE DEF l, n1
  <2> QED
    BY <2>1, <2>2
<1> HIDE DEF n1, l
<1>7. l.i \in Nat /\ l.i + n1 <= Len(Text) /\ Len(Text) \in Nat
  <2>1. Len(Text) \in Nat
    BY DEF FilesAssumption
  <2> QED
    BY <1>3, <1>6, <2>1
<1>8. src \in Seq(Nat) /\ Len(src) = n1 /\ \A k \in 1..n1 : src[k] = Text[l.i + k]
  BY <1>6, <1>7, TextPart
<1> HIDE DEF src
<1>9. /\ f \in Files /\ file[f].type = "inode" /\ file[f].ip \in Inodes /\ file[f].ref > 0
      /\ file[f].off \in 0..MaxBytes /\ file[f] \in FileEntry /\ \E d \in Fds : ofile[p][d] = f
  <2>1. f \in Files /\ file[f].type = "inode" /\ \E d \in Fds : ofile[p][d] = f
    BY <1>1, <1>2, <1>3 DEF Links, l
  <2>2. file[f] \in FileEntry /\ file[f].ref # 0 /\ file[f].ip \in Inodes
    BY <1>1, <2>1 DEF Links, FilesTypes
  <2>3. file[f].off \in 0..MaxBytes /\ file[f].ref \in Nat
    BY <2>2 DEF FileEntry
  <2> QED
    BY <2>1, <2>2, <2>3
<1> DEFINE i == file[f].ip
           off == file[f].off
           old == disk.ino[i].size
<1> HIDE DEF f
<1>10. Outcome(v, i, off, src)
  <2>1. i \in Inodes /\ off \in Nat /\ good \in 0..Len(src)
    BY <1>8, <1>9, FileSizes DEF Sizes
  <2> HIDE DEF i, off
  <2>2. Outcome(Writei(i, off, src, good), i, off, src)
    BY <1>1, <1>8, <2>1, WriteiKeeps
  <2> QED
    BY <2>2 DEF i, off
<1>logged. /\ home' \in [Blocks -> [0..BSIZE - 1 -> Nat]] /\ (v.r = -1 => home' = home)
           /\ \A j \in Inodes : disk'.ino[j].addrs[NDIRECT] # 0 =>
                home'[disk'.ino[j].addrs[NDIRECT]] = disk'.data[disk'.ino[j].addrs[NDIRECT]]
           /\ \A j \in Inodes : \A k \in 0..disk'.ino[j].size - 1 :
                /\ home'[Ref(disk', j, k \div BSIZE)][k % BSIZE] \in {Byte(disk', j, k), KByte(j, k)}
                /\ j # i => home'[Ref(disk', j, k \div BSIZE)][k % BSIZE] = KByte(j, k)
                /\ j = i /\ k \in off..off + v.r - 1 =>
                     home'[Ref(disk', j, k \div BSIZE)][k % BSIZE] = Byte(disk', j, k)
  <2>1. i \in Inodes /\ off \in Nat
    BY <1>9, FileSizes DEF Sizes
  <2>2. home' = Logged(v, i, off, n1, absorbed) /\ disk' = v.disk
    BY <1>5
  <2> HIDE DEF i, off, v, n1, src
  <2>3. i \in Inodes /\ off \in Nat /\ src \in Seq(Nat) /\ Outcome(v, i, off, src) /\ n1 = Len(src) /\ absorbed \in BOOLEAN
    BY <1>8, <1>10, <2>1
  <2>4. ASSUME NEW E, E = v.disk, NEW h, h = Logged(v, i, off, n1, absorbed)
        PROVE  HomeAfter(h, E, i, off, v.r)
    BY <1>1, <2>3, <2>4, LoggedIs
  <2>5. HomeAfter(home', disk', i, off, v.r)
    BY <2>2, <2>4
  <2> QED
    BY <2>5 DEF HomeAfter
<1>home. HomeOK'
  BY <1>logged DEF HomeOK
<1>kept. \A j, k : KByte(j, k)' = home'[Ref(disk', j, k \div BSIZE)][k % BSIZE]
  BY DEF KByte
<1> HIDE DEF v
<1> DEFINE t == Max({v.r, 0})
           o == off + t
<1>11. /\ v.r \in Int /\ t \in 0..n1 /\ o \in 0..MaxBytes /\ t = IF v.r = -1 THEN 0 ELSE v.r
  <2>1. v.r \in Int
    BY <1>8, <1>10 DEF Outcome
  <2>2. t = IF v.r > 0 THEN v.r ELSE 0
    BY <2>1, MaxZero
  <2>3. off \in 0..MaxBytes /\ MaxBytes \in Nat
    BY <1>9, FileSizes DEF Sizes
  <2> HIDE DEF t, off
  <2> QED
    BY <1>6, <1>8, <1>10, <2>1, <2>2, <2>3 DEF Outcome
<1>12. Moves(f, o)
  BY <1>5 DEF Moves
<1>13. Doing(r) /\ r.pc \in {"idle", "write"} /\ (\A j : ~HasInode(r, j) /\ ~HasInode(l, j)) /\ (r.pc = "write" => r.f = f)
  <2>1. \A j : ~HasInode(l, j)
    BY <1>2, HasInodeIs
  <2>2. CASE v.r = n1 /\ l.i + n1 < l.n
    <3>1. r = [pc |-> "write", f |-> l.f, i |-> l.i + n1, n |-> l.n]
      BY <1>3, <2>2, LocWith
    <3>2. l.f \in Files /\ l.i + n1 \in Nat /\ l.n \in Nat /\ l.i + n1 < l.n /\ l.n <= Len(Text)
      BY <1>3, <1>6, <2>2
    <3> DEFINE a == l.i + n1
    <3> HIDE DEF a, r
    <3>3. Doing([pc |-> "write", f |-> l.f, i |-> a, n |-> l.n])
      BY <3>2, DoingIs DEF a
    <3>4. r.pc = "write" /\ r.f = l.f
      BY <3>1
    <3> QED
      BY <2>1, <3>1, <3>3, <3>4, HasInodeIs DEF a, f
  <2>3. CASE ~(v.r = n1 /\ l.i + n1 < l.n)
    <3>1. r = Idle
      BY <2>3
    <3> QED
      BY <2>1, <3>1, DoingIs, HasInodeIs DEF Idle
  <2> QED
    BY <2>2, <2>3
<1>14. Goes(p, r)
  BY <1>1, <1>5, GoesTo
<1> HIDE DEF r, t, o
<1>15. Tidy(disk') /\ Full(disk')
  BY <1>1, <1>5, <1>10 DEF Outcome
<1>16. \A j : HasInode(r, j) <=> HasInode(loc[p], j)
  BY <1>13 DEF l
<1>17. r.pc = "write" => file[r.f].type = "inode" /\ \E d \in Fds : ofile[p][d] = r.f
  BY <1>9, <1>13
<1>18. /\ OpenInv' /\ \A g \in Files : g # f => file'[g] = file[g]
       /\ file'[f].ref = file[f].ref /\ file'[f].type = file[f].type /\ file'[f].ip = file[f].ip /\ file'[f].off = o
  BY <1>2, <1>9, <1>11, <1>12, <1>13, <1>14, <1>15, <1>16, <1>17, OffStep
<1>19. CASE v.disk = disk /\ v.r = -1
  <2>1. o = off
    BY <1>9, <1>11, <1>19, FileSizes DEF o, Sizes
  <2>2. UNCHANGED <<disk, home>>
    BY <1>5, <1>19, <1>logged
  <2>3. file'[f].off = file[f].off
    BY <1>18, <2>1 DEF off
  <2> QED
    BY <1>18, <1>home, <2>2, <2>3
<1>20. CASE ~(v.disk = disk /\ v.r = -1)
  <2>1. PICK w \in v.r..Len(src) : \A j \in Inodes : \A k \in 0..disk'.ino[j].size - 1 :
          Byte(disk', j, k) = IF j = i /\ k \in off..off + w - 1 THEN src[k - off + 1] ELSE Byte(disk, j, k)
    BY <1>5, <1>10, <1>20 DEF Outcome
  <2>2. /\ v.r \in 0..n1 /\ off <= old /\ t = v.r /\ w \in Nat /\ t \in Nat /\ t <= w /\ w <= n1
        /\ l.i + w <= Len(Text) /\ off \in Nat
    <3>1. v.r \in 0..n1 /\ off <= old
      BY <1>8, <1>10, <1>20 DEF Outcome
    <3>2. off \in Nat
      BY <1>9, FileSizes DEF Sizes
    <3> HIDE DEF off, old
    <3> QED
      BY <1>6, <1>7, <1>8, <1>11, <2>1, <3>1, <3>2
  <2>3. off + t <= MaxBytes
    BY <1>11, FileSizes DEF o, Sizes
  <2>4. \A j \in Inodes : disk'.ino[j].size = IF j = i /\ off + t > disk.ino[j].size THEN off + t ELSE disk.ino[j].size
    BY <1>5, <1>10, <1>20, <2>2 DEF Outcome
  <2>5. ASSUME NEW j \in Inodes, NEW k \in 0..disk'.ino[j].size - 1
        PROVE  Byte(disk', j, k) = IF j = i /\ k \in off..off + w - 1 THEN Text[l.i + (k - off + 1)] ELSE Byte(disk, j, k)
    <3>1. CASE j = i /\ k \in off..off + w - 1
      <4> DEFINE x == k - off + 1
      <4>1. x \in 1..n1
        BY <1>6, <2>2, <3>1
      <4>2. src[x] = Text[l.i + x]
        BY <1>8, <4>1
      <4> QED
        BY <2>1, <3>1, <4>2
    <3>2. CASE ~(j = i /\ k \in off..off + w - 1)
      BY <2>1, <3>2
    <3> QED
      BY <3>1, <3>2
  <2>6. file'[f].off = off + t
    BY <1>18 DEF o
  <2>7. \A j \in Inodes : \A k \in 0..disk'.ino[j].size - 1 :
          /\ KByte(j, k)' \in {Byte(disk', j, k), KByte(j, k)}
          /\ j # i => KByte(j, k)' = KByte(j, k)
          /\ j = i /\ k \in off..off + t - 1 => KByte(j, k)' = Byte(disk', j, k)
    BY <1>logged, <1>kept, <2>2
  <2>8. PartWritten(f, l.i, w, t)
    BY <1>7, <1>9, <1>18, <2>2, <2>3, <2>4, <2>5, <2>6, <2>7 DEF PartWritten
  <2> QED
    BY <1>7, <1>9, <1>18, <1>home, <2>2, <2>8
<1> QED
  BY <1>19, <1>20

\* A step that takes or gives up one descriptor.
LEMMA FdStep ==
  ASSUME FilesAssumption, OpenInv, NEW p \in Procs, NEW d \in Fds, NEW f \in Files, NEW e \in FileEntry, NEW g, NEW r,
         Doing(r), Goes(p, r), r.pc \notin {"dead", "write"}, Fills(p, d, g), Enters(f, e),
         \/ ofile[p][d] = 0 /\ g = f /\ e.ref = file[f].ref + 1
         \/ ofile[p][d] = f /\ g = 0 /\ e.ref = file[f].ref - 1,
         e.ref = 0 <=> e.type = "none", e.type = "inode" => e.ip \in Inodes,
         file[f].type = "inode" => e.type \in {"inode", "none"},
         DOMAIN iref' = Inodes, iref' = [j \in Inodes |-> iref'[j]], Counted(p, r, f, e),
         (pipe = {file[h].writable : h \in Pipes})',
         (\A a, b \in Pipes : a # b => file[a].writable # file[b].writable)',
         Tidy(disk'), Full(disk')
  PROVE  OpenInv'
<1>1. FilesTypes /\ Links /\ Referred
  BY DEF OpenInv
<1>2. \A q \in Procs, c \in Fds : ofile'[q][c] = IF q = p /\ c = d THEN g ELSE ofile[q][c]
  BY <1>1 DEF FilesTypes, Fills
<1>3. f # 0 /\ g \in Files \cup {0}
  BY FileSets
<1>4. /\ file' \in [Files -> FileEntry] /\ file'[f] = e /\ \A h \in Files : h # f => file'[h] = file[h]
      /\ file[f] \in FileEntry
  BY <1>1 DEF FilesTypes, Enters
<1>5. FilesTypes'
  <2>1. iref' \in [Inodes -> Nat]
    <3>1. ASSUME NEW j \in Inodes PROVE iref'[j] \in Nat
      <4> DEFINE a == IF IsFile(e, j) THEN 1 ELSE 0
                 b == IF IsFile(file[f], j) THEN 1 ELSE 0
                 c == IF HasInode(r, j) THEN 1 ELSE 0
                 h == IF HasInode(loc[p], j) THEN 1 ELSE 0
      <4>1. iref'[j] = iref[j] + a - b + c - h
        BY DEF Counted
      <4>2. iref[j] = Cardinality(FilesOf(j)) + Cardinality(CallsOf(j))
            /\ Cardinality(FilesOf(j)) \in Nat /\ Cardinality(CallsOf(j)) \in Nat
        BY <1>1, Finite DEF Referred
      <4>3. Cardinality(FilesOf(j))' \in Nat /\ Cardinality(FilesOf(j))' = Cardinality(FilesOf(j)) + a - b
        BY <1>1, <4>2, FilesGo
      <4>4. Cardinality(CallsOf(j))' \in Nat /\ Cardinality(CallsOf(j))' = Cardinality(CallsOf(j)) + c - h
        BY <1>1, <4>2, CallsGoes
      <4>5. a \in Int /\ b \in Int /\ c \in Int /\ h \in Int
        OBVIOUS
      <4> HIDE DEF a, b, c, h
      <4> QED
        BY <4>1, <4>2, <4>3, <4>4, <4>5
    <3> QED
      BY <3>1
  <2>2. \A q \in Procs : Doing(loc'[q])
    BY <1>1 DEF Goes, FilesTypes
  <2>3. ofile' \in [Procs -> [Fds -> Files \cup {0}]]
    BY <1>1, <1>3 DEF FilesTypes, Fills
  <2> QED
    BY <1>4, <2>1, <2>2, <2>3 DEF Goes, FilesTypes, Doing
<1>6. ASSUME NEW h \in Files PROVE file'[h].ref = Cardinality(On(h))'
  <2>1. file[h].ref = Cardinality(On(h)) /\ Cardinality(On(h)) \in Nat
    BY <1>1, Finite DEF Referred
  <2>2. CASE h = f
    BY <1>1, <1>3, <1>4, <2>1, <2>2, OnGo
  <2>3. CASE h # f
    <3>1. h # 0
      BY FileSets
    <3>2. ofile[p][d] # h /\ g # h
      BY <2>3, <3>1
    <3>3. Cardinality(On(h))' = Cardinality(On(h))
      BY <1>1, <3>2, OnGo
    <3> QED
      BY <1>4, <2>1, <2>3, <3>3
  <2> QED
    BY <2>2, <2>3
<1>7. ASSUME NEW j \in Inodes PROVE iref'[j] = (Cardinality(FilesOf(j)) + Cardinality(CallsOf(j)))'
  <2> DEFINE a == IF IsFile(e, j) THEN 1 ELSE 0
             b == IF IsFile(file[f], j) THEN 1 ELSE 0
             c == IF HasInode(r, j) THEN 1 ELSE 0
             h == IF HasInode(loc[p], j) THEN 1 ELSE 0
  <2>1. iref'[j] = iref[j] + a - b + c - h
    BY DEF Counted
  <2>2. iref[j] = Cardinality(FilesOf(j)) + Cardinality(CallsOf(j))
        /\ Cardinality(FilesOf(j)) \in Nat /\ Cardinality(CallsOf(j)) \in Nat
    BY <1>1, Finite DEF Referred
  <2>3. Cardinality(FilesOf(j))' = Cardinality(FilesOf(j)) + a - b
    BY <1>1, <2>2, FilesGo
  <2>4. Cardinality(CallsOf(j))' = Cardinality(CallsOf(j)) + c - h
    BY <1>1, <2>2, CallsGoes
  <2>5. a \in Int /\ b \in Int /\ c \in Int /\ h \in Int
    OBVIOUS
  <2> HIDE DEF a, b, c, h
  <2> QED
    BY <2>1, <2>2, <2>3, <2>4, <2>5
<1>8. Referred'
  <2>1. (\A h \in Files : file[h].ref = Cardinality(On(h)))'
    BY <1>6
  <2>2. (\A i \in Inodes : iref[i] = Cardinality(FilesOf(i)) + Cardinality(CallsOf(i)))'
    BY <1>7
  <2> QED
    BY <2>1, <2>2 DEF Referred
<1>9. ASSUME NEW q \in Procs, loc'[q].pc = "write"
      PROVE  file'[loc'[q].f].type = "inode" /\ \E c \in Fds : ofile'[q][c] = loc'[q].f
  <2>1. q # p /\ loc'[q] = loc[q]
    BY <1>9 DEF Goes
  <2> DEFINE x == loc[q].f
  <2>2. PICK c \in Fds : ofile[q][c] = x
    BY <1>1, <1>9, <2>1 DEF Links
  <2>3. file[x].type = "inode" /\ x \in Files
    BY <1>1, <1>9, <2>1 DEF Links, FilesTypes, Doing
  <2> HIDE DEF x
  <2>4. ofile'[q][c] = x
    BY <1>2, <2>1, <2>2
  <2>5. file'[x].type = "inode"
    <3>1. CASE x # f
      BY <1>4, <2>3, <3>1
    <3>2. CASE x = f
      <4>1. <<q, c>> \in On(f)'
        BY <2>4, <3>2 DEF On
      <4>2. IsFiniteSet(On(f)')
        <5>1. On(f)' \in SUBSET (Procs \X Fds)
          BY DEF On
        <5> QED
          BY <5>1, FileSets, FS_Subset
      <4>3. Cardinality(On(f)') # 0
        BY <4>1, <4>2, FS_EmptySet
      <4>4. e.ref # 0
        BY <1>4, <1>6, <4>3
      <4> QED
        BY <1>4, <2>3, <3>2, <4>4
    <3> QED
      BY <3>1, <3>2
  <2> QED
    BY <2>1, <2>4, <2>5 DEF x
<1>10. Links'
  <2>1. (\A h \in Files : /\ file[h].ref = 0 <=> file[h].type = "none"
                          /\ file[h].type = "inode" => file[h].ip \in Inodes)'
    <3> TAKE h \in Files
    <3>1. CASE h = f
      BY <1>4, <3>1
    <3>2. CASE h # f
      BY <1>1, <1>4, <3>2 DEF Links
    <3> QED
      BY <3>1, <3>2
  <2>2. ASSUME NEW q \in Procs, NEW c \in Fds, loc'[q].pc = "dead" PROVE ofile'[q][c] = 0
    <3>1. q # p /\ loc[q].pc = "dead"
      BY <2>2 DEF Goes
    <3> QED
      BY <1>1, <1>2, <3>1 DEF Links
  <2> QED
    BY <1>9, <2>1, <2>2 DEF Links
<1>11. (Tidy(disk) /\ Full(disk))'
  BY DEF Tidy, Full
<1> QED
  BY <1>5, <1>8, <1>10, <1>11 DEF OpenInv

\* The pipe, when an entry is no end of it before and after, or the same one.
LEMMA SamePipe ==
  ASSUME OpenInv, NEW f \in Files, NEW e \in FileEntry, Enters(f, e), UNCHANGED pipe,
         file[f].ref > 0 /\ file[f].type = "pipe" <=> e.ref > 0 /\ e.type = "pipe",
         e.type = "pipe" => e.writable = file[f].writable
  PROVE  /\ (pipe = {file[h].writable : h \in Pipes})'
         /\ (\A a, b \in Pipes : a # b => file[a].writable # file[b].writable)'
<1>1. FilesTypes /\ Links /\ Referred
  BY DEF OpenInv
<1>2. file'[f] = e /\ \A h \in Files : h # f => file'[h] = file[h]
  BY <1>1 DEF FilesTypes, Enters
<1>3. Pipes' = Pipes
  BY <1>2 DEF Pipes
<1>4. \A h \in Pipes : file'[h].writable = file[h].writable
  BY <1>2 DEF Pipes
<1> QED
  BY <1>1, <1>3, <1>4 DEF Links, Referred

LEMMA FreeEntry ==
  ASSUME FilesAssumption, FilesTypes, Links, FreeFiles # {}
  PROVE  LET f == Min(FreeFiles) IN f \in Files /\ file[f].ref = 0 /\ file[f].type = "none"
<1>1. FreeFiles \in SUBSET Nat
  BY FileSets DEF FreeFiles
<1>2. Min(FreeFiles) \in FreeFiles
  BY <1>1, MinIn
<1> QED
  BY <1>2 DEF FreeFiles, Links

LEMMA FreeFd ==
  ASSUME FilesAssumption, NEW p, FreeFds(p) # {}
  PROVE  LET d == Min(FreeFds(p)) IN d \in Fds /\ ofile[p][d] = 0
<1>1. FreeFds(p) \in SUBSET Nat
  BY FileSets DEF FreeFds
<1>2. Min(FreeFds(p)) \in FreeFds(p)
  BY <1>1, MinIn
<1> QED
  BY <1>2 DEF FreeFds

\* An entry, as far as the descriptors of other files go.
SameEntry(f) == file'[f].ref = file[f].ref /\ file'[f].type = file[f].type
                /\ file'[f].ip = file[f].ip /\ file'[f].off = file[f].off

LEMMA OpenFileKeeps ==
  ASSUME FilesAssumption, OpenInv, NEW p \in Procs, OpenFile(p)
  PROVE  /\ OpenInv' /\ UNCHANGED home /\ Steady(disk, disk')
         /\ \E f \in Files, i \in Inodes, m \in Mode :
              /\ file[f].ref = 0 /\ \A g \in Files : g # f => SameEntry(g)
              /\ file'[f].ref = 1 /\ file'[f].type = "inode" /\ file'[f].ip = i
              /\ file'[f].off = IF m.append THEN disk.ino[i].size ELSE 0
              /\ IF m.trunc THEN disk'.ino[i].size = 0 /\ \A j \in Inodes : j # i => SameBytes(disk, disk', j)
                 ELSE UNCHANGED disk
<1> DEFINE i == loc[p].ip
           m == loc[p].mode
           f == Min(FreeFiles)
           d == Min(FreeFds(p))
           o == IF m.append THEN disk.ino[i].size ELSE 0
           e == [ref |-> 1, type |-> "inode", ip |-> i, off |-> o,
                 readable |-> m.readable, writable |-> m.writable]
<1>1. FilesTypes /\ Links /\ Referred /\ Tidy(disk) /\ Full(disk) /\ disk \in DiskType /\ iref \in [Inodes -> Nat]
  BY DEF OpenInv, Tidy, FilesTypes
<1>2. /\ loc[p].pc = "open" /\ FreeFiles # {} /\ FreeFds(p) # {}
      /\ ofile' = [ofile EXCEPT ![p][d] = f] /\ file' = [file EXCEPT ![f] = e]
      /\ disk' = (IF m.trunc THEN Itrunc(disk, i) ELSE disk)
      /\ Go(p, Idle) /\ UNCHANGED <<home, iref, pipe>>
  BY DEF OpenFile, At
<1>3. i \in Inodes /\ m \in Mode /\ \A j : HasInode(loc[p], j) <=> i = j
  BY <1>1, <1>2 DEF FilesTypes, Doing, HasInode
<1>4. f \in Files /\ file[f].ref = 0 /\ file[f].type = "none"
  BY <1>1, <1>2, FreeEntry
<1>5. d \in Fds /\ ofile[p][d] = 0
  BY <1>2, FreeFd
<1> HIDE DEF i, m, f, d
<1>6. o \in 0..MaxBytes
  BY <1>1, <1>3, SizeBytes, FileSizes DEF Sizes
<1>7. e \in FileEntry /\ e.ref = 1 /\ e.type = "inode" /\ e.ip = i /\ e.off = o
  <2>1. m.readable \in BOOLEAN /\ m.writable \in BOOLEAN
    BY <1>3 DEF Mode
  <2> HIDE DEF o
  <2> QED
    BY <1>3, <1>6, <2>1 DEF FileEntry
<1>8. Enters(f, e) /\ Fills(p, d, f)
  BY <1>2 DEF Enters, Fills
<1>9. /\ Tidy(disk') /\ Full(disk') /\ Steady(disk, disk')
      /\ IF m.trunc THEN disk'.ino[i].size = 0 /\ \A j \in Inodes : j # i => SameBytes(disk, disk', j)
         ELSE UNCHANGED disk
  <2>1. CASE m.trunc
    <3>1. disk' = Itrunc(disk, i)
      BY <1>2, <2>1
    <3> QED
      BY <1>1, <1>3, <2>1, <3>1, EmptyKeeps
  <2>2. CASE ~m.trunc
    BY <1>1, <1>2, <2>2 DEF Steady
  <2> QED
    BY <2>1, <2>2
<1> HIDE DEF e, o
<1> DEFINE r == Idle
<1>10. Doing(r) /\ Goes(p, r) /\ r.pc \notin {"dead", "write"} /\ \A j : ~HasInode(r, j)
  BY <1>1, <1>2, DoingIs, HasInodeIs, GoesTo DEF Idle
<1> HIDE DEF r
<1>11. Counted(p, r, f, e)
  <2>1. ASSUME NEW j \in Inodes
        PROVE  iref'[j] = iref[j] + (IF IsFile(e, j) THEN 1 ELSE 0) - (IF IsFile(file[f], j) THEN 1 ELSE 0)
                          + (IF HasInode(r, j) THEN 1 ELSE 0) - (IF HasInode(loc[p], j) THEN 1 ELSE 0)
    <3>1. ~IsFile(file[f], j) /\ (IsFile(e, j) <=> i = j)
      BY <1>4, <1>7 DEF IsFile
    <3>2. iref'[j] = iref[j] /\ iref[j] \in Nat
      BY <1>1, <1>2
    <3> QED
      BY <1>3, <1>10, <3>1, <3>2
  <2> QED
    BY <2>1 DEF Counted
<1>12. /\ (pipe = {file[h].writable : h \in Pipes})'
       /\ (\A a, b \in Pipes : a # b => file[a].writable # file[b].writable)'
  BY <1>2, <1>4, <1>7, <1>8, SamePipe
<1>13. e.ref = file[f].ref + 1 /\ e.ref # 0 /\ DOMAIN iref' = Inodes /\ iref' = [j \in Inodes |-> iref'[j]]
  BY <1>1, <1>2, <1>4, <1>7
<1>14. OpenInv'
  BY <1>3, <1>4, <1>5, <1>7, <1>8, <1>9, <1>10, <1>11, <1>12, <1>13, FdStep
<1>15. file'[f] = e /\ \A g \in Files : g # f => SameEntry(g)
  BY <1>1, <1>4, <1>8 DEF FilesTypes, Enters, SameEntry
<1> QED
  BY <1>2, <1>3, <1>4, <1>7, <1>9, <1>14, <1>15 DEF o

LEMMA DupKeeps ==
  ASSUME FilesAssumption, OpenInv, NEW p \in Procs, NEW c \in Fds, Dup(p, c)
  PROVE  /\ OpenInv' /\ UNCHANGED <<disk, home>>
         /\ \A g \in Files : /\ (file'[g].ref > 0 <=> file[g].ref > 0) /\ file'[g].type = file[g].type
                             /\ file'[g].ip = file[g].ip /\ file'[g].off = file[g].off
<1> DEFINE f == ofile[p][c]
           d == Min(FreeFds(p))
           e == [file[f] EXCEPT !.ref = @ + 1]
<1>1. FilesTypes /\ Links /\ Referred /\ Tidy(disk) /\ Full(disk) /\ iref \in [Inodes -> Nat]
  BY DEF OpenInv, FilesTypes
<1>2. /\ loc[p].pc = "idle" /\ f # 0 /\ FreeFds(p) # {}
      /\ ofile' = [ofile EXCEPT ![p][d] = f] /\ file' = [file EXCEPT ![f].ref = @ + 1]
      /\ UNCHANGED <<disk, home, iref, pipe, loc>>
  BY DEF Dup, Call, At
<1>3. f \in Files /\ ofile[p][c] = f /\ file[f] \in FileEntry
  BY <1>1, <1>2 DEF FilesTypes
<1>4. d \in Fds /\ ofile[p][d] = 0
  BY <1>2, FreeFd
<1> HIDE DEF f, d
<1>5. file[f].ref > 0 /\ file[f].type # "none" /\ (file[f].type = "inode" => file[f].ip \in Inodes)
  <2>1. file[f].ref > 0
    BY <1>1, <1>3, NoneOn
  <2> QED
    BY <1>1, <1>3, <2>1 DEF Links
<1>6. /\ e \in FileEntry /\ e.ref = file[f].ref + 1 /\ e.type = file[f].type /\ e.ip = file[f].ip
      /\ e.off = file[f].off /\ e.writable = file[f].writable
  BY <1>3 DEF FileEntry
<1>7. Enters(f, e) /\ Fills(p, d, f)
  BY <1>2 DEF Enters, Fills
<1> HIDE DEF e
<1>8. file[f].ref \in Nat /\ e.ref # 0 /\ e.ref > 0
  BY <1>3, <1>6 DEF FileEntry
<1> DEFINE r == loc[p]
<1>9. Doing(r) /\ Goes(p, r) /\ r.pc \notin {"dead", "write"} /\ loc[p] = r
  BY <1>1, <1>2 DEF Goes, FilesTypes
<1> HIDE DEF r
<1>10. Counted(p, r, f, e)
  <2>1. ASSUME NEW j \in Inodes
        PROVE  iref'[j] = iref[j] + (IF IsFile(e, j) THEN 1 ELSE 0) - (IF IsFile(file[f], j) THEN 1 ELSE 0)
                          + (IF HasInode(r, j) THEN 1 ELSE 0) - (IF HasInode(loc[p], j) THEN 1 ELSE 0)
    <3>1. IsFile(file[f], j) <=> IsFile(e, j)
      BY <1>5, <1>6, <1>8 DEF IsFile
    <3>2. iref'[j] = iref[j] /\ iref[j] \in Nat
      BY <1>1, <1>2
    <3> QED
      BY <1>9, <3>1, <3>2
  <2> QED
    BY <2>1 DEF Counted
<1>11. /\ (pipe = {file[h].writable : h \in Pipes})'
       /\ (\A a, b \in Pipes : a # b => file[a].writable # file[b].writable)'
  BY <1>2, <1>3, <1>5, <1>6, <1>7, <1>8, SamePipe
<1>12. /\ DOMAIN iref' = Inodes /\ iref' = [j \in Inodes |-> iref'[j]] /\ Tidy(disk') /\ Full(disk')
       /\ (e.ref = 0 <=> e.type = "none") /\ (e.type = "inode" => e.ip \in Inodes)
       /\ (file[f].type = "inode" => e.type \in {"inode", "none"})
  BY <1>1, <1>2, <1>5, <1>6, <1>8
<1>13. OpenInv'
  BY <1>3, <1>4, <1>6, <1>7, <1>9, <1>10, <1>11, <1>12, FdStep
<1>14. file'[f] = e /\ \A g \in Files : g # f => file'[g] = file[g]
  BY <1>1, <1>3, <1>7 DEF FilesTypes, Enters
<1>15. ASSUME NEW g \in Files
       PROVE  /\ file'[g].ref > 0 <=> file[g].ref > 0
              /\ file'[g].type = file[g].type /\ file'[g].ip = file[g].ip /\ file'[g].off = file[g].off
  <2>1. CASE g = f
    BY <1>5, <1>6, <1>8, <1>14, <2>1
  <2>2. CASE g # f
    BY <1>14, <2>2
  <2> QED
    BY <2>1, <2>2
<1> QED
  BY <1>2, <1>13, <1>15

\* An end of the pipe is closed with its entry.
LEMMA PipeGone ==
  ASSUME OpenInv, NEW f \in Files, NEW e \in FileEntry, Enters(f, e), e.ref = 0,
         file[f].ref > 0, file[f].type = "pipe", pipe' = pipe \ {file[f].writable}
  PROVE  /\ (pipe = {file[h].writable : h \in Pipes})'
         /\ (\A a, b \in Pipes : a # b => file[a].writable # file[b].writable)'
<1>1. FilesTypes /\ Links /\ Referred
  BY DEF OpenInv
<1>2. file'[f] = e /\ \A h \in Files : h # f => file'[h] = file[h]
  BY <1>1 DEF FilesTypes, Enters
<1>3. f \in Pipes /\ Pipes' = Pipes \ {f}
  BY <1>2 DEF Pipes
<1>4. \A h \in Pipes : h # f => file'[h].writable = file[h].writable /\ file[h].writable # file[f].writable
  BY <1>1, <1>2, <1>3 DEF Pipes, Links
<1>5. pipe' = {file'[h].writable : h \in Pipes \ {f}}
  BY <1>1, <1>3, <1>4 DEF Referred
<1>6. (pipe = {file[h].writable : h \in Pipes})'
  BY <1>3, <1>5
<1>7. (\A a, b \in Pipes : a # b => file[a].writable # file[b].writable)'
  BY <1>1, <1>3, <1>4 DEF Links
<1> QED
  BY <1>6, <1>7

LEMMA DroppedIs ==
  ASSUME NEW f, file[f] \in FileEntry, file[f].ref > 0
  PROVE  LET e == Dropped(f) IN
         /\ e \in FileEntry /\ e.ref = file[f].ref - 1 /\ e.ip = file[f].ip /\ e.off = file[f].off
         /\ e.writable = file[f].writable
         /\ e.type = IF file[f].ref = 1 THEN "none" ELSE file[f].type
<1>1. CASE file[f].ref > 1
  <2>1. Dropped(f) = [file[f] EXCEPT !.ref = file[f].ref - 1]
    BY <1>1 DEF Dropped
  <2>2. file[f].ref - 1 \in Nat /\ file[f].ref # 1
    BY <1>1 DEF FileEntry
  <2> QED
    BY <2>1, <2>2 DEF FileEntry
<1>2. CASE ~(file[f].ref > 1)
  <2> DEFINE a == [file[f] EXCEPT !.ref = 0]
             e == [a EXCEPT !.type = "none"]
  <2>1. Dropped(f) = e
    BY <1>2 DEF Dropped
  <2>2. file[f].ref = 1
    BY <1>2 DEF FileEntry
  <2>3. a \in FileEntry /\ a.ref = 0 /\ a.ip = file[f].ip /\ a.off = file[f].off /\ a.writable = file[f].writable
    BY DEF FileEntry
  <2> HIDE DEF a
  <2>4. e \in FileEntry /\ e.ref = a.ref /\ e.ip = a.ip /\ e.off = a.off /\ e.writable = a.writable /\ e.type = "none"
    BY <2>3 DEF FileEntry
  <2> QED
    BY <2>1, <2>2, <2>3, <2>4
<1> QED
  BY <1>1, <1>2

\* Only entry f has changed, and it is the same open file or none.
Dropping(f) ==
  /\ \A g \in Files : g # f => file'[g] = file[g]
  /\ \/ file'[f].ref = 0
     \/ file'[f].ref > 0 /\ file[f].ref > 0 /\ file'[f].type = file[f].type
        /\ file'[f].ip = file[f].ip /\ file'[f].off = file[f].off

LEMMA CloseFdKeeps ==
  ASSUME FilesAssumption, OpenInv, NEW p \in Procs, NEW d \in Fds, NEW n \in {Idle, Exiting},
         loc[p].pc \in {"idle", "exit"}, CloseFd(p, d, n)
  PROVE  OpenInv' /\ UNCHANGED <<disk, home>> /\ \E f \in Files : Dropping(f)
<1> DEFINE f == ofile[p][d]
           e == Dropped(f)
           last == file[f].ref = 1 /\ file[f].type = "inode"
           r == IF last THEN [pc |-> "iput", ip |-> file[f].ip, next |-> n] ELSE n
<1>1. FilesTypes /\ Links /\ Referred /\ Tidy(disk) /\ Full(disk) /\ iref \in [Inodes -> Nat]
  BY DEF OpenInv, FilesTypes
<1>2. /\ f # 0 /\ Fills(p, d, 0) /\ Enters(f, e) /\ Go(p, r) /\ UNCHANGED <<disk, home, iref>>
      /\ pipe' = IF file[f].ref = 1 /\ file[f].type = "pipe" THEN pipe \ {file[f].writable} ELSE pipe
  BY DEF CloseFd, Fills, Enters
<1>3. f \in Files /\ ofile[p][d] = f /\ file[f] \in FileEntry
  BY <1>1, <1>2 DEF FilesTypes
<1> HIDE DEF f
<1>4. file[f].ref > 0 /\ file[f].ref \in Nat /\ file[f].type # "none" /\ (file[f].type = "inode" => file[f].ip \in Inodes)
  <2>1. file[f].ref > 0
    BY <1>1, <1>3, NoneOn
  <2> QED
    BY <1>1, <1>3, <2>1 DEF Links, FileEntry
<1>5. /\ e \in FileEntry /\ e.ref = file[f].ref - 1 /\ e.ip = file[f].ip /\ e.off = file[f].off
      /\ e.writable = file[f].writable /\ e.type = IF file[f].ref = 1 THEN "none" ELSE file[f].type
  BY <1>3, <1>4, DroppedIs
<1> HIDE DEF e
<1>6. /\ Doing(r) /\ r.pc \notin {"dead", "write"}
      /\ \A j : HasInode(r, j) <=> last /\ file[f].ip = j
      /\ \A j : ~HasInode(loc[p], j)
  <2>1. \A j : ~HasInode(loc[p], j)
    BY HasInodeIs
  <2>2. CASE last
    <3>1. r = [pc |-> "iput", ip |-> file[f].ip, next |-> n]
      BY <2>2
    <3>2. \A j : HasInode(r, j) <=> file[f].ip = j
      BY <3>1, HasInodeIs
    <3>3. Doing(r)
      BY <1>4, <2>2, <3>1, DoingIs
    <3>4. r.pc \notin {"dead", "write"}
      BY <3>1
    <3> HIDE DEF r
    <3> QED
      BY <2>1, <2>2, <3>2, <3>3, <3>4
  <2>3. CASE ~last
    <3>1. r = n
      BY <2>3
    <3>2. Doing(n) /\ n.pc \notin {"dead", "write"} /\ \A j : ~HasInode(n, j)
      BY DoingIs, HasInodeIs DEF Idle, Exiting
    <3> HIDE DEF r
    <3> QED
      BY <2>1, <2>3, <3>1, <3>2
  <2> QED
    BY <2>2, <2>3
<1>7. Goes(p, r)
  BY <1>1, <1>2, GoesTo
<1> HIDE DEF r
<1>8. Counted(p, r, f, e)
  <2>1. ASSUME NEW j \in Inodes
        PROVE  iref'[j] = iref[j] + (IF IsFile(e, j) THEN 1 ELSE 0) - (IF IsFile(file[f], j) THEN 1 ELSE 0)
                          + (IF HasInode(r, j) THEN 1 ELSE 0) - (IF HasInode(loc[p], j) THEN 1 ELSE 0)
    <3>1. iref'[j] = iref[j] /\ iref[j] \in Nat
      BY <1>1, <1>2
    <3>2. CASE last
      <4>1. ~IsFile(e, j) /\ (IsFile(file[f], j) <=> file[f].ip = j) /\ (HasInode(r, j) <=> file[f].ip = j)
        BY <1>4, <1>5, <1>6, <3>2 DEF IsFile
      <4> QED
        BY <1>6, <3>1, <4>1
    <3>3. CASE ~last
      <4>1. (IsFile(e, j) <=> IsFile(file[f], j)) /\ ~HasInode(r, j)
        <5>1. CASE file[f].ref = 1
          BY <1>5, <1>6, <3>3, <5>1 DEF IsFile
        <5>2. CASE file[f].ref # 1
          BY <1>4, <1>5, <1>6, <3>3, <5>2 DEF IsFile
        <5> QED
          BY <5>1, <5>2
      <4> QED
        BY <1>6, <3>1, <4>1
    <3> QED
      BY <3>2, <3>3
  <2> QED
    BY <2>1 DEF Counted
<1>9. /\ (pipe = {file[h].writable : h \in Pipes})'
      /\ (\A a, b \in Pipes : a # b => file[a].writable # file[b].writable)'
  <2>1. CASE file[f].ref = 1 /\ file[f].type = "pipe"
    <3>1. e.ref = 0 /\ pipe' = pipe \ {file[f].writable}
      BY <1>2, <1>5, <2>1
    <3> QED
      BY <1>2, <1>3, <1>4, <1>5, <2>1, <3>1, PipeGone
  <2>2. CASE ~(file[f].ref = 1 /\ file[f].type = "pipe")
    <3>1. UNCHANGED pipe /\ (e.type = "pipe" => e.writable = file[f].writable)
      BY <1>2, <1>5, <2>2
    <3>2. file[f].ref > 0 /\ file[f].type = "pipe" <=> e.ref > 0 /\ e.type = "pipe"
      BY <1>4, <1>5, <2>2
    <3> QED
      BY <1>2, <1>3, <1>5, <3>1, <3>2, SamePipe
  <2> QED
    BY <2>1, <2>2
<1>10. /\ DOMAIN iref' = Inodes /\ iref' = [j \in Inodes |-> iref'[j]] /\ Tidy(disk') /\ Full(disk')
       /\ (e.ref = 0 <=> e.type = "none") /\ (e.type = "inode" => e.ip \in Inodes)
       /\ (file[f].type = "inode" => e.type \in {"inode", "none"})
  BY <1>1, <1>2, <1>4, <1>5
<1> DEFINE none == 0
<1>11. none = 0 /\ Fills(p, d, none)
  BY <1>2
<1> HIDE DEF none
<1>12. OpenInv'
  BY <1>2, <1>3, <1>5, <1>6, <1>7, <1>8, <1>9, <1>10, <1>11, FdStep
<1>13. file'[f] = e /\ \A g \in Files : g # f => file'[g] = file[g]
  BY <1>1, <1>2, <1>3 DEF FilesTypes, Enters
<1>14. Dropping(f)
  <2>1. CASE file[f].ref = 1
    BY <1>5, <1>13, <2>1 DEF Dropping
  <2>2. CASE file[f].ref # 1
    BY <1>4, <1>5, <1>13, <2>2 DEF Dropping
  <2> QED
    BY <2>1, <2>2
<1> QED
  BY <1>2, <1>3, <1>12, <1>14

LEMMA CloseKeeps ==
  ASSUME FilesAssumption, OpenInv, NEW p \in Procs, NEW d \in Fds, Close(p, d)
  PROVE  OpenInv' /\ UNCHANGED <<disk, home>> /\ \E f \in Files : Dropping(f)
<1> DEFINE n == Idle
<1>1. loc[p].pc \in {"idle", "exit"} /\ CloseFd(p, d, n) /\ n \in {Idle, Exiting}
  BY DEF Close, At
<1> HIDE DEF n
<1> QED
  BY <1>1, CloseFdKeeps

LEMMA ExitKeeps ==
  ASSUME FilesAssumption, OpenInv, NEW p \in Procs, Exit(p)
  PROVE  OpenInv' /\ UNCHANGED <<disk, home>> /\ (UNCHANGED file \/ \E f \in Files : Dropping(f))
<1> DEFINE S == {d \in Fds : ofile[p][d] # 0}
           n == Exiting
<1>1. loc[p].pc \in {"idle", "exit"}
  BY DEF Exit, At
<1>2. CASE S = {}
  <2> DEFINE r == Dead
  <2>1. Go(p, r) /\ UNCHANGED <<disk, home, iref, file, ofile, pipe>>
    BY <1>2 DEF Exit
  <2>2. FilesTypes /\ Tidy(disk) /\ Full(disk) /\ iref \in [Inodes -> Nat]
    BY DEF OpenInv, FilesTypes
  <2>3. Doing(r) /\ r.pc = "dead" /\ \A j : ~HasInode(r, j) /\ ~HasInode(loc[p], j)
    BY <1>1, DoingIs, HasInodeIs DEF Dead
  <2>4. Goes(p, r)
    BY <2>1, <2>2, GoesTo
  <2> HIDE DEF r
  <2>5. \A j \in Inodes :
          iref'[j] = iref[j] + (IF HasInode(r, j) THEN 1 ELSE 0) - (IF HasInode(loc[p], j) THEN 1 ELSE 0)
    BY <2>1, <2>2, <2>3
  <2>6. DOMAIN iref' = Inodes /\ iref' = [j \in Inodes |-> iref'[j]] /\ Tidy(disk') /\ Full(disk')
    BY <2>1, <2>2
  <2>7. \A d \in Fds : ofile[p][d] = 0
    BY <1>2
  <2> QED
    BY <2>1, <2>3, <2>4, <2>5, <2>6, <2>7, LocStep
<1>3. CASE S # {}
  <2>1. S \in SUBSET Nat
    BY FileSets
  <2> DEFINE d == Min(S)
  <2>2. d \in S /\ d \in Fds
    BY <1>3, <2>1, MinIn
  <2>3. CloseFd(p, d, n) /\ n \in {Idle, Exiting}
    BY <1>3 DEF Exit, Exiting
  <2> HIDE DEF d, n
  <2> QED
    BY <1>1, <2>2, <2>3, CloseFdKeeps
<1> QED
  BY <1>2, <1>3

\* The parent's descriptors on f, once more.
Held(p, f) == {d \in Fds : ofile[p][d] = f}
Shares(p, q) == ofile' = [ofile EXCEPT ![q] = ofile[p]]

LEMMA OnShared ==
  ASSUME FilesAssumption, FilesTypes, NEW p \in Procs, NEW q \in Procs, p # q, \A d \in Fds : ofile[q][d] = 0,
         Shares(p, q), NEW f \in Files
  PROVE  /\ Cardinality(On(f))' = Cardinality(On(f)) + Cardinality(Held(p, f))
         /\ Cardinality(Held(p, f)) \in Nat /\ (Cardinality(Held(p, f)) # 0 => On(f) # {})
<1> DEFINE A == On(f)
           S == Held(p, f)
           B == {q} \X S
<1>1. f # 0 /\ IsFiniteSet(A) /\ Cardinality(A) \in Nat
  BY FileSets, Finite
<1>2. S \in SUBSET Fds
  BY DEF Held
<1>3. IsFiniteSet(S) /\ Cardinality(S) \in Nat
  BY <1>2, FileSets, FS_Subset, FS_CardinalityType
<1>4. IsFiniteSet({q}) /\ Cardinality({q}) = 1
  BY FS_Singleton
<1> HIDE DEF S
<1>5. IsFiniteSet(B) /\ Cardinality(B) = Cardinality(S)
  <2>1. IsFiniteSet(B) /\ Cardinality(B) = Cardinality({q}) * Cardinality(S)
    BY <1>3, <1>4, FS_Product
  <2> HIDE DEF B
  <2> QED
    BY <1>3, <1>4, <2>1
<1>6. \A u \in Procs, d \in Fds : ofile'[u][d] = IF u = q THEN ofile[p][d] ELSE ofile[u][d]
  BY DEF FilesTypes, Shares
<1>7. A \cap B = {}
  <2> SUFFICES ASSUME NEW x \in A, x \in B PROVE FALSE
    OBVIOUS
  <2>1. x[1] = q /\ x[2] \in Fds /\ ofile[x[1]][x[2]] = f
    BY <1>2 DEF On
  <2> QED
    BY <1>1, <2>1
<1>8. On(f)' = A \cup B
  <2>1. ASSUME NEW u \in Procs, NEW d \in Fds
        PROVE  <<u, d>> \in On(f)' <=> <<u, d>> \in A \/ <<u, d>> \in B
    <3>1. <<u, d>> \in On(f)' <=> ofile'[u][d] = f
      BY DEF On
    <3>2. <<u, d>> \in A <=> ofile[u][d] = f
      BY DEF On
    <3>3. <<u, d>> \in B <=> u = q /\ ofile[p][d] = f
      BY DEF S, Held
    <3> QED
      BY <1>1, <1>6, <3>1, <3>2, <3>3
  <2>2. On(f)' \subseteq Procs \X Fds /\ A \subseteq Procs \X Fds
    BY DEF On
  <2>3. B \subseteq Procs \X Fds
    BY <1>2
  <2> HIDE DEF A, B
  <2> QED
    BY <2>1, <2>2, <2>3
<1>9. Cardinality(On(f))' = Cardinality(A) + Cardinality(S)
  <2> HIDE DEF A, B
  <2>1. Cardinality(A \cup B) = Cardinality(A) + Cardinality(B) - Cardinality(A \cap B)
    BY <1>1, <1>5, FS_Union
  <2>2. Cardinality(A \cap B) = 0
    BY <1>7, FS_EmptySet
  <2>3. Cardinality(On(f))' = Cardinality(A \cup B)
    BY <1>8
  <2> QED
    BY <1>1, <1>3, <1>5, <2>1, <2>2, <2>3
<1>10. ASSUME Cardinality(S) # 0 PROVE A # {}
  <2>1. PICK d \in S : TRUE
    BY <1>3, <1>10, FS_EmptySet
  <2>2. <<p, d>> \in A
    BY <2>1 DEF On, S, Held
  <2> QED
    BY <2>2
<1> QED
  BY <1>3, <1>9, <1>10 DEF S

LEMMA ForkKeeps ==
  ASSUME FilesAssumption, OpenInv, NEW p \in Procs, NEW q \in Procs, Fork(p, q)
  PROVE  /\ OpenInv' /\ UNCHANGED <<disk, home>>
         /\ \A g \in Files : /\ (file'[g].ref > 0 <=> file[g].ref > 0) /\ file'[g].type = file[g].type
                             /\ file'[g].ip = file[g].ip /\ file'[g].off = file[g].off
<1>1. FilesTypes /\ Links /\ Referred /\ Tidy(disk) /\ Full(disk)
  BY DEF OpenInv
<1> DEFINE r == Idle
<1>2. /\ loc[p].pc = "idle" /\ loc[q].pc = "dead" /\ Shares(p, q)
      /\ file' = [f \in Files |-> [file[f] EXCEPT !.ref = @ + Cardinality(Held(p, f))]]
      /\ Go(q, r) /\ UNCHANGED <<disk, home, iref, pipe>>
  BY DEF Fork, Call, At, Shares, Held, Go, Cardinality
<1>3. p # q /\ \A d \in Fds : ofile[q][d] = 0
  BY <1>1, <1>2 DEF Links
<1>4. ASSUME NEW f \in Files
      PROVE  /\ file'[f] \in FileEntry /\ file'[f].ref = Cardinality(On(f))'
             /\ (file'[f].ref = 0 <=> file[f].ref = 0) /\ (file'[f].ref > 0 <=> file[f].ref > 0)
             /\ file'[f].type = file[f].type
             /\ file'[f].ip = file[f].ip /\ file'[f].off = file[f].off /\ file'[f].writable = file[f].writable
  <2> DEFINE c == Cardinality(Held(p, f))
  <2>1. /\ c \in Nat /\ Cardinality(On(f))' = Cardinality(On(f)) + c /\ (c # 0 => On(f) # {})
    BY <1>1, <1>2, <1>3, OnShared
  <2>2. file[f] \in FileEntry /\ file[f].ref = Cardinality(On(f)) /\ file[f].ref \in Nat
    BY <1>1 DEF FilesTypes, Referred, FileEntry
  <2>3. file'[f] = [file[f] EXCEPT !.ref = file[f].ref + c]
    BY <1>2
  <2>4. c # 0 => file[f].ref # 0
    BY <1>1, <2>1, NoneOn
  <2> HIDE DEF c
  <2>5. /\ file'[f] \in FileEntry /\ file'[f].ref = file[f].ref + c /\ file'[f].type = file[f].type
        /\ file'[f].ip = file[f].ip /\ file'[f].off = file[f].off /\ file'[f].writable = file[f].writable
    BY <2>1, <2>2, <2>3 DEF FileEntry
  <2> QED
    BY <2>1, <2>2, <2>4, <2>5
<1>5. Goes(q, r) /\ Doing(r) /\ r.pc = "idle" /\ \A j : ~HasInode(r, j) /\ ~HasInode(loc[q], j)
  BY <1>1, <1>2, GoesTo, DoingIs, HasInodeIs DEF Idle
<1> HIDE DEF r
<1>6. Pipes' = Pipes /\ \A i : FilesOf(i)' = FilesOf(i)
  BY <1>4 DEF Pipes, FilesOf
<1>7. \A i : Cardinality(CallsOf(i))' = Cardinality(CallsOf(i))
  BY <1>1, <1>5, CallsGoes
<1>8. FilesTypes'
  <2>1. file' \in [Files -> FileEntry]
    BY <1>2, <1>4
  <2>2. ofile' \in [Procs -> [Fds -> Files \cup {0}]]
    BY <1>1, <1>2 DEF FilesTypes, Shares
  <2>3. \A u \in Procs : Doing(loc'[u])
    BY <1>1, <1>5 DEF Goes, FilesTypes
  <2> QED
    BY <1>1, <1>2, <1>5, <2>1, <2>2, <2>3 DEF Goes, FilesTypes, Doing
<1>9. Links'
  <2>1. ASSUME NEW u \in Procs, u # q PROVE loc'[u] = loc[u] /\ \A d \in Fds : ofile'[u][d] = ofile[u][d]
    BY <1>1, <1>2, <1>5, <2>1 DEF Goes, Shares, FilesTypes
  <2>2. loc'[q].pc = "idle"
    BY <1>5 DEF Goes
  <2>3. ASSUME NEW u \in Procs, NEW d \in Fds, loc'[u].pc = "dead" PROVE ofile'[u][d] = 0
    BY <1>1, <2>1, <2>2, <2>3 DEF Links
  <2>4. ASSUME NEW u \in Procs, loc'[u].pc = "write"
        PROVE  file'[loc'[u].f].type = "inode" /\ \E d \in Fds : ofile'[u][d] = loc'[u].f
    <3>1. u # q /\ loc'[u] = loc[u]
      BY <2>1, <2>2, <2>4
    <3>2. loc[u].f \in Files /\ file[loc[u].f].type = "inode" /\ \E d \in Fds : ofile[u][d] = loc[u].f
      BY <1>1, <2>4, <3>1 DEF Links, FilesTypes, Doing
    <3>3. file'[loc[u].f].type = "inode"
      BY <1>4, <3>2
    <3> QED
      BY <2>1, <3>1, <3>2, <3>3
  <2>5. (\A f \in Files : /\ file[f].ref = 0 <=> file[f].type = "none"
                          /\ file[f].type = "inode" => file[f].ip \in Inodes)'
    BY <1>1, <1>4 DEF Links
  <2>6. (\A f, g \in Pipes : f # g => file[f].writable # file[g].writable)'
    BY <1>1, <1>4, <1>6 DEF Links, Pipes
  <2> QED
    BY <2>3, <2>4, <2>5, <2>6 DEF Links
<1>10. Referred'
  <2>1. (\A f \in Files : file[f].ref = Cardinality(On(f)))'
    BY <1>4
  <2>2. (\A i \in Inodes : iref[i] = Cardinality(FilesOf(i)) + Cardinality(CallsOf(i)))'
    BY <1>1, <1>2, <1>6, <1>7 DEF Referred
  <2>3. (pipe = {file[f].writable : f \in Pipes})'
    <3>1. \A g \in Pipes : file'[g].writable = file[g].writable
      BY <1>4 DEF Pipes
    <3> QED
      BY <1>1, <1>2, <1>6, <3>1 DEF Referred
  <2> QED
    BY <2>1, <2>2, <2>3 DEF Referred
<1>11. (Tidy(disk) /\ Full(disk))'
  BY <1>1, <1>2 DEF Tidy, Full
<1> QED
  BY <1>2, <1>4, <1>8, <1>9, <1>10, <1>11 DEF OpenInv

\* A state in which nothing is open.
Fresh ==
  /\ iref = [i \in Inodes |-> 0] /\ file = [f \in Files |-> NoFile]
  /\ ofile = [p \in Procs |-> [d \in Fds |-> 0]] /\ pipe = {}
  /\ \E p \in Procs : loc = [q \in Procs |-> IF q = p THEN Idle ELSE Dead]

LEMMA FreshSafe == ASSUME FilesAssumption PROVE Fresh /\ Tidy(disk) /\ Full(disk) => OpenInv
<1> SUFFICES ASSUME Fresh, Tidy(disk), Full(disk) PROVE OpenInv
  OBVIOUS
<1>1. PICK p \in Procs : loc = [q \in Procs |-> IF q = p THEN Idle ELSE Dead]
  BY DEF Fresh
<1>2. \A q \in Procs : Doing(loc[q]) /\ loc[q].pc \in {"idle", "dead"}
  BY <1>1, DoingIs DEF Idle, Dead
<1>3. NoFile \in FileEntry /\ NoFile.ref = 0 /\ NoFile.type = "none"
  BY FileSizes DEF NoFile, FileEntry, Sizes
<1>4. \A f \in Files : file[f] = NoFile
  BY DEF Fresh
<1>5. FilesTypes
  BY <1>1, <1>2, <1>3 DEF FilesTypes, Fresh
<1>6. Pipes = {} /\ \A i : FilesOf(i) = {}
  BY <1>3, <1>4 DEF Pipes, FilesOf
<1>7. \A i : CallsOf(i) = {}
  BY <1>2 DEF CallsOf
<1>8. \A f \in Files : On(f) = {}
  <2> SUFFICES ASSUME NEW f \in Files, NEW x \in On(f) PROVE FALSE
    OBVIOUS
  <2>1. x[1] \in Procs /\ x[2] \in Fds /\ ofile[x[1]][x[2]] = f
    BY DEF On
  <2> QED
    BY <2>1, FileSets DEF Fresh
<1>9. Links
  BY <1>2, <1>3, <1>4, <1>6 DEF Links, Fresh
<1>10. Referred
  <2>1. Cardinality({}) = 0
    BY FS_EmptySet
  <2>2. ASSUME NEW i \in Inodes PROVE iref[i] = Cardinality(FilesOf(i)) + Cardinality(CallsOf(i))
    BY <1>6, <1>7, <2>1 DEF Fresh
  <2>3. pipe = {file[f].writable : f \in Pipes}
    BY <1>6 DEF Fresh
  <2> QED
    BY <1>3, <1>4, <1>8, <2>1, <2>2, <2>3 DEF Referred
<1> QED
  BY <1>5, <1>9, <1>10 DEF OpenInv

LEMMA FreshNext == ASSUME FilesAssumption PROVE Fresh' /\ Tidy(disk)' /\ Full(disk)' => OpenInv'
BY FreshSafe, PTL

\* Blocks that do not hold addresses may change.
LEMMA Restore ==
  ASSUME FilesAssumption, NEW D, Tidy(D), Full(D), NEW E \in DiskType, E.bitmap = D.bitmap, E.ino = D.ino,
         \A j \in Inodes : D.ino[j].addrs[NDIRECT] # 0 =>
           E.data[D.ino[j].addrs[NDIRECT]] = D.data[D.ino[j].addrs[NDIRECT]]
  PROVE  Tidy(E) /\ Full(E) /\ \A j \in Inodes, l \in Place : Ref(E, j, l) = Ref(D, j, l)
<1>1. ASSUME NEW j \in Inodes, NEW l \in Place PROVE Ref(E, j, l) = Ref(D, j, l)
  BY RefIs
<1>2. Tidy(E)
  BY <1>1 DEF Tidy
<1>3. ASSUME NEW j \in Inodes, NEW k \in 0..E.ino[j].size - 1 PROVE Has(E, j, k)
  <2>1. k \div BSIZE \in Place
    BY SizeBytes
  <2> QED
    BY <1>1, <2>1 DEF Full, Has
<1> QED
  BY <1>1, <1>2, <1>3 DEF Full

\* A step that logs nothing and gives each file its bytes or those that are durable.
Rereads ==
  /\ home' = home
  /\ \A j \in Inodes : disk'.ino[j].size = disk.ino[j].size
  /\ \A j \in Inodes : \A k \in 0..disk.ino[j].size - 1 :
       /\ KByte(j, k)' = KByte(j, k)
       /\ Byte(disk', j, k) \in {Byte(disk, j, k), KByte(j, k)}

LEMMA RereadsIs ==
  ASSUME FilesAssumption, OpenInv, HomeOK, home' = home, disk' \in DiskType,
         disk'.bitmap = disk.bitmap, disk'.ino = disk.ino,
         \A b \in Blocks : disk'.data[b] \in {disk.data[b], home[b]}
  PROVE  /\ Tidy(disk') /\ Full(disk') /\ HomeOK' /\ Rereads
         /\ \A j \in Inodes, l \in Place : Ref(disk', j, l) = Ref(disk, j, l)
<1>1. Tidy(disk) /\ Full(disk) /\ disk \in DiskType
  BY DEF OpenInv, Tidy
<1>2. ASSUME NEW j \in Inodes, disk.ino[j].addrs[NDIRECT] # 0
      PROVE  disk'.data[disk.ino[j].addrs[NDIRECT]] = disk.data[disk.ino[j].addrs[NDIRECT]]
  <2>1. MAXFILE \in Place /\ disk.ino[j].addrs[NDIRECT] = Ref(disk, j, MAXFILE)
    BY RefIs, FileSizes DEF Place, Sizes
  <2>2. disk.ino[j].addrs[NDIRECT] \in Blocks
    BY <1>1, <1>2, <2>1, RefType
  <2> QED
    BY <1>2, <2>2 DEF HomeOK
<1>3. Tidy(disk') /\ Full(disk') /\ \A j \in Inodes, l \in Place : Ref(disk', j, l) = Ref(disk, j, l)
  <2>1. ASSUME NEW E, E = disk' PROVE Tidy(E) /\ Full(E) /\ \A j \in Inodes, l \in Place : Ref(E, j, l) = Ref(disk, j, l)
    BY <1>1, <1>2, <2>1, Restore
  <2> QED
    BY <2>1
<1>4. HomeOK'
  BY <1>2 DEF HomeOK
<1>5. ASSUME NEW j \in Inodes, NEW k \in 0..disk.ino[j].size - 1
      PROVE  /\ KByte(j, k)' = KByte(j, k)
             /\ Byte(disk', j, k) = disk'.data[Ref(disk, j, k \div BSIZE)][k % BSIZE]
             /\ Ref(disk, j, k \div BSIZE) \in Blocks
  <2>1. k \div BSIZE \in Place /\ Ref(disk, j, k \div BSIZE) # 0
    BY <1>1, SizeBytes DEF Full, Has
  <2>2. Ref(disk', j, k \div BSIZE) = Ref(disk, j, k \div BSIZE) /\ Ref(disk, j, k \div BSIZE) \in Blocks
    BY <1>1, <1>3, <2>1, RefType
  <2>3. KByte(j, k)' = home'[Ref(disk', j, k \div BSIZE)][k % BSIZE]
    BY DEF KByte
  <2>4. KByte(j, k)' = KByte(j, k)
    BY <2>2, <2>3 DEF KByte
  <2> QED
    BY <2>2, <2>4 DEF Byte
<1>6. Rereads
  BY <1>5 DEF Rereads, Byte, KByte
<1> QED
  BY <1>3, <1>4, <1>6

LEMMA EvictKeeps ==
  ASSUME FilesAssumption, FilesInv, NEW b \in Blocks, Evict(b)
  PROVE  FilesInv' /\ Rereads /\ UNCHANGED file
<1>1. OpenInv /\ HomeOK /\ disk \in DiskType /\ home[b] \in [0..BSIZE - 1 -> Nat]
  BY DEF FilesInv, OpenInv, Tidy, HomeOK
<1>2. /\ disk' = [disk EXCEPT !.data[b] = home[b]]
      /\ UNCHANGED <<home, iref, file, ofile, pipe, loc, calls>>
  BY DEF Evict
<1>3. /\ disk' \in DiskType /\ disk'.bitmap = disk.bitmap /\ disk'.ino = disk.ino
      /\ disk'.data[b] = home[b] /\ \A c \in Blocks : c # b => disk'.data[c] = disk.data[c]
  BY <1>1, <1>2, SetBlock
<1>4. \A c \in Blocks : disk'.data[c] \in {disk.data[c], home[c]}
  BY <1>3
<1>5. Tidy(disk') /\ Full(disk') /\ HomeOK' /\ Rereads
  BY <1>1, <1>2, <1>3, <1>4, RereadsIs
<1>6. FilesTypes' /\ Links' /\ Referred'
  BY <1>1, <1>2 DEF OpenInv, FilesTypes, Links, Referred, On, FilesOf, CallsOf, Pipes, Doing
<1> QED
  BY <1>2, <1>5, <1>6 DEF FilesInv, OpenInv

LEMMA CrashKeeps ==
  ASSUME FilesAssumption, FilesInv, Crash
  PROVE  /\ FilesInv' /\ Rereads /\ \A f \in Files : file'[f].ref = 0
         /\ \A j \in Inodes : \A k \in 0..disk.ino[j].size - 1 : Byte(disk', j, k) = KByte(j, k)
<1>1. Fresh' /\ home' = home /\ \A f \in Files : file'[f].ref = 0
  BY DEF Crash, Fresh, NoFile
<1>2. OpenInv /\ HomeOK /\ Tidy(disk) /\ Full(disk) /\ disk \in DiskType
  BY DEF FilesInv, OpenInv, Tidy
<1>3. disk' \in DiskType /\ disk'.bitmap = disk.bitmap /\ disk'.ino = disk.ino /\ disk'.data = home
  <2>1. disk = [bitmap |-> disk.bitmap, data |-> disk.data, ino |-> disk.ino]
    BY <1>2 DEF DiskType
  <2>2. disk' = [disk EXCEPT !.data = home]
    BY DEF Crash
  <2>3. disk' = [bitmap |-> disk.bitmap, data |-> home, ino |-> disk.ino]
    BY <2>1, <2>2, DiskWith
  <2> QED
    BY <1>2, <2>3 DEF DiskType, HomeOK
<1>4. \A b \in Blocks : disk'.data[b] \in {disk.data[b], home[b]}
  BY <1>3
<1>5. /\ Tidy(disk') /\ Full(disk') /\ HomeOK' /\ Rereads
      /\ \A j \in Inodes, l \in Place : Ref(disk', j, l) = Ref(disk, j, l)
  BY <1>1, <1>2, <1>3, <1>4, RereadsIs
<1>6. Tidy(disk)' /\ Full(disk)'
  BY <1>5 DEF Tidy, Full
<1>7. OpenInv'
  BY <1>1, <1>6, FreshNext
<1>8. \A j \in Inodes : \A k \in 0..disk.ino[j].size - 1 : Byte(disk', j, k) = KByte(j, k)
  BY <1>2, <1>3, <1>5, SizeBytes DEF Byte, KByte
<1> QED
  BY <1>1, <1>5, <1>7, <1>8 DEF FilesInv

LEMMA TwoFree ==
  ASSUME NEW S \in SUBSET Nat, IsFiniteSet(S), Cardinality(S) >= 2
  PROVE  /\ Min(S) \in S /\ Min(S \ {Min(S)}) \in S /\ Min(S \ {Min(S)}) # Min(S)
<1>1. S # {}
  BY FS_EmptySet
<1> DEFINE m == Min(S)
           T == S \ {m}
<1>2. m \in S
  BY <1>1, MinIn
<1> HIDE DEF m
<1>3. Cardinality(T) = Cardinality(S) - 1 /\ Cardinality(S) \in Nat
  BY <1>2, FS_RemoveElement, FS_CardinalityType
<1>4. T # {}
  BY <1>3, FS_EmptySet
<1>5. Min(T) \in T
  BY <1>4, MinIn
<1> QED
  BY <1>2, <1>5 DEF m

LEMMA PipeKeeps ==
  ASSUME FilesAssumption, OpenInv, NEW p \in Procs, Pipe(p)
  PROVE  /\ OpenInv' /\ UNCHANGED <<disk, home>>
         /\ \A g \in Files : \/ file[g].ref = 0 /\ file'[g].type = "pipe"
                             \/ file'[g] = file[g]
<1>1. FilesTypes /\ Links /\ Referred /\ Tidy(disk) /\ Full(disk) /\ iref \in [Inodes -> Nat]
  BY DEF OpenInv, FilesTypes
<1> DEFINE F == FreeFiles
           S == FreeFds(p)
           r == Min(F)
           w == Min(F \ {r})
           d == Min(S)
           c == Min(S \ {d})
           er == [NoFile EXCEPT !.ref = 1, !.type = "pipe", !.readable = TRUE]
           ew == [NoFile EXCEPT !.ref = 1, !.type = "pipe", !.writable = TRUE]
<1>2. /\ loc[p].pc = "idle" /\ pipe = {} /\ Cardinality(F) >= 2 /\ Cardinality(S) >= 2 /\ pipe' = {TRUE, FALSE}
      /\ file' = [file EXCEPT ![r] = er, ![w] = ew] /\ ofile' = [ofile EXCEPT ![p][d] = r, ![p][c] = w]
      /\ UNCHANGED <<disk, home, iref, loc>>
  BY DEF Pipe, Call, At, Cardinality
<1>3. F \in SUBSET Nat /\ IsFiniteSet(F) /\ S \in SUBSET Nat /\ IsFiniteSet(S)
  <2>1. F \in SUBSET Files /\ S \in SUBSET Fds
    BY DEF FreeFiles, FreeFds
  <2> HIDE DEF F, S
  <2> QED
    BY <2>1, FileSets, FS_Subset
<1>4. r \in F /\ w \in F /\ w # r /\ d \in S /\ c \in S /\ c # d
  <2> HIDE DEF F, S
  <2> QED
    BY <1>2, <1>3, TwoFree
<1>5. /\ r \in Files /\ file[r].ref = 0 /\ w \in Files /\ file[w].ref = 0 /\ w # r
      /\ d \in Fds /\ ofile[p][d] = 0 /\ c \in Fds /\ ofile[p][c] = 0 /\ c # d
      /\ r # 0 /\ w # 0
  BY <1>4, FileSets DEF FreeFiles, FreeFds
<1> HIDE DEF F, S, r, w, d, c
<1>6. /\ er \in FileEntry /\ er.ref = 1 /\ er.type = "pipe" /\ er.writable = FALSE
      /\ ew \in FileEntry /\ ew.ref = 1 /\ ew.type = "pipe" /\ ew.writable = TRUE
  <2> DEFINE a == [NoFile EXCEPT !.ref = 1]
             b == [a EXCEPT !.type = "pipe"]
  <2>1. NoFile \in FileEntry /\ NoFile.writable = FALSE
    BY FileSizes DEF NoFile, FileEntry, Sizes
  <2>2. a \in FileEntry /\ a.ref = 1 /\ a.writable = FALSE
    BY <2>1 DEF FileEntry
  <2> HIDE DEF a
  <2>3. b \in FileEntry /\ b.ref = 1 /\ b.type = "pipe" /\ b.writable = FALSE
    BY <2>2 DEF FileEntry
  <2>4. er = [b EXCEPT !.readable = TRUE] /\ ew = [b EXCEPT !.writable = TRUE]
    BY DEF a
  <2> HIDE DEF b, er, ew
  <2>5. er \in FileEntry /\ er.ref = 1 /\ er.type = "pipe" /\ er.writable = FALSE
    BY <2>3, <2>4 DEF FileEntry
  <2>6. ew \in FileEntry /\ ew.ref = 1 /\ ew.type = "pipe" /\ ew.writable = TRUE
    BY <2>3, <2>4 DEF FileEntry
  <2> QED
    BY <2>5, <2>6
<1> HIDE DEF er, ew
<1>7. /\ file' \in [Files -> FileEntry] /\ file'[r] = er /\ file'[w] = ew
      /\ \A g \in Files : g # r /\ g # w => file'[g] = file[g]
  BY <1>1, <1>2, <1>5, <1>6 DEF FilesTypes
<1>8. /\ ofile' \in [Procs -> [Fds -> Files \cup {0}]]
      /\ \A q \in Procs, x \in Fds :
           ofile'[q][x] = IF q = p /\ x = d THEN r ELSE IF q = p /\ x = c THEN w ELSE ofile[q][x]
  BY <1>1, <1>2, <1>5 DEF FilesTypes
<1>9. On(r) = {} /\ On(w) = {} /\ Pipes = {}
  <2>1. Pipes = {}
    BY <1>1, <1>2 DEF Referred
  <2> QED
    BY <1>1, <1>5, <2>1, NoneOn
<1>10. \A y \in Procs \X Fds : y = <<y[1], y[2]>> /\ y[1] \in Procs /\ y[2] \in Fds
  OBVIOUS
<1>11. ASSUME NEW f \in Files
       PROVE  On(f)' = IF f = r THEN {<<p, d>>} ELSE IF f = w THEN {<<p, c>>} ELSE On(f)
  <2>1. ASSUME NEW q \in Procs, NEW x \in Fds
        PROVE  /\ <<q, x>> \in On(f)' <=> ofile'[q][x] = f
               /\ <<q, x>> \in On(f) <=> ofile[q][x] = f
    BY DEF On
  <2>2. On(f) \subseteq Procs \X Fds /\ On(f)' \subseteq Procs \X Fds /\ f # 0
    BY FileSets DEF On
  <2>3. CASE f = r
    <3>1. ASSUME NEW q \in Procs, NEW x \in Fds PROVE <<q, x>> \in On(f)' <=> q = p /\ x = d
      BY <1>5, <1>8, <1>9, <2>1, <2>3
    <3>2. On(f)' = {<<p, d>>}
      BY <1>5, <1>10, <2>2, <3>1
    <3> QED
      BY <2>3, <3>2
  <2>4. CASE f = w
    <3>1. ASSUME NEW q \in Procs, NEW x \in Fds PROVE <<q, x>> \in On(f)' <=> q = p /\ x = c
      BY <1>5, <1>8, <1>9, <2>1, <2>4
    <3>2. On(f)' = {<<p, c>>}
      BY <1>5, <1>10, <2>2, <3>1
    <3> QED
      BY <1>5, <2>4, <3>2
  <2>5. CASE f # r /\ f # w
    <3>1. ASSUME NEW q \in Procs, NEW x \in Fds PROVE <<q, x>> \in On(f)' <=> <<q, x>> \in On(f)
      BY <1>5, <1>8, <2>1, <2>2, <2>5
    <3>2. On(f)' = On(f)
      BY <1>10, <2>2, <3>1
    <3> QED
      BY <2>5, <3>2
  <2> QED
    BY <2>3, <2>4, <2>5
<1>12. ASSUME NEW f \in Files PROVE file'[f].ref = Cardinality(On(f))'
  <2>1. CASE f = r
    BY <1>6, <1>7, <1>11, <2>1, FS_Singleton
  <2>2. CASE f = w
    BY <1>5, <1>6, <1>7, <1>11, <2>2, FS_Singleton
  <2>3. CASE f # r /\ f # w
    BY <1>1, <1>7, <1>11, <2>3 DEF Referred
  <2> QED
    BY <2>1, <2>2, <2>3
<1>13. /\ Pipes' = {r, w} /\ \A i : FilesOf(i)' = FilesOf(i) /\ CallsOf(i)' = CallsOf(i)
  <2>1. Pipes' = {r, w}
    BY <1>5, <1>6, <1>7, <1>9 DEF Pipes
  <2>2. \A i : FilesOf(i)' = FilesOf(i)
    BY <1>5, <1>6, <1>7 DEF FilesOf
  <2>3. \A i : CallsOf(i)' = CallsOf(i)
    BY <1>2 DEF CallsOf
  <2> QED
    BY <2>1, <2>2, <2>3
<1>14. FilesTypes'
  BY <1>1, <1>2, <1>7, <1>8 DEF FilesTypes, Doing
<1>15. Links'
  <2>1. (\A f \in Files : /\ file[f].ref = 0 <=> file[f].type = "none"
                          /\ file[f].type = "inode" => file[f].ip \in Inodes)'
    <3> TAKE f \in Files
    <3>1. CASE f = r \/ f = w
      BY <1>6, <1>7, <3>1
    <3>2. CASE f # r /\ f # w
      BY <1>1, <1>7, <3>2 DEF Links
    <3> QED
      BY <3>1, <3>2
  <2>2. (\A f, g \in Pipes : f # g => file[f].writable # file[g].writable)'
    BY <1>6, <1>7, <1>13
  <2>3. ASSUME NEW q \in Procs, NEW x \in Fds, loc'[q].pc = "dead" PROVE ofile'[q][x] = 0
    BY <1>1, <1>2, <1>8, <2>3 DEF Links
  <2>4. ASSUME NEW q \in Procs, loc'[q].pc = "write"
        PROVE  file'[loc'[q].f].type = "inode" /\ \E x \in Fds : ofile'[q][x] = loc'[q].f
    <3> DEFINE g == loc[q].f
    <3>1. loc'[q] = loc[q] /\ q # p
      BY <1>2, <2>4
    <3>2. g \in Files /\ file[g].type = "inode" /\ \E x \in Fds : ofile[q][x] = g
      BY <1>1, <2>4, <3>1 DEF Links, FilesTypes, Doing
    <3> HIDE DEF g
    <3>3. g # r /\ g # w
      BY <1>1, <1>5, <3>2 DEF Links
    <3>4. file'[g].type = "inode" /\ \E x \in Fds : ofile'[q][x] = g
      BY <1>7, <1>8, <3>1, <3>2, <3>3
    <3> QED
      BY <3>1, <3>4 DEF g
  <2> QED
    BY <2>1, <2>2, <2>3, <2>4 DEF Links
<1>16. Referred'
  <2>1. (\A f \in Files : file[f].ref = Cardinality(On(f)))'
    BY <1>12
  <2>2. (\A i \in Inodes : iref[i] = Cardinality(FilesOf(i)) + Cardinality(CallsOf(i)))'
    BY <1>1, <1>2, <1>13 DEF Referred
  <2>3. (pipe = {file[f].writable : f \in Pipes})'
    <3>1. file'[r].writable = FALSE /\ file'[w].writable = TRUE
      BY <1>6, <1>7
    <3>2. {file'[f].writable : f \in {r, w}} = {file'[r].writable, file'[w].writable}
      OBVIOUS
    <3> QED
      BY <1>2, <1>13, <3>1, <3>2
  <2> QED
    BY <2>1, <2>2, <2>3 DEF Referred
<1>17. (Tidy(disk) /\ Full(disk))'
  BY <1>1, <1>2 DEF Tidy, Full
<1>18. OpenInv'
  BY <1>14, <1>15, <1>16, <1>17 DEF OpenInv
<1>19. ASSUME NEW g \in Files PROVE \/ file[g].ref = 0 /\ file'[g].type = "pipe"
                                    \/ file'[g] = file[g]
  BY <1>5, <1>6, <1>7
<1> QED
  BY <1>2, <1>18, <1>19

LEMMA FilesInit == ASSUME FilesAssumption, Init PROVE FilesInv
<1> DEFINE I == [i \in Inodes |-> NoInode]
           B == [b \in Blocks |-> [k \in 0..BSIZE - 1 |-> 0]]
<1>1. Fresh
  BY DEF Init, Fresh
<1>2. disk = [bitmap |-> {}, data |-> B, ino |-> I]
  BY DEF Init
<1>3. /\ NoInode \in Inode /\ NoInode.size = 0
      /\ \A n \in 0..NDIRECT : NoInode.addrs[n] = 0
  <2>1. [n \in 0..NDIRECT |-> 0] \in [0..NDIRECT -> Address] /\ 0 \in 0..MaxBytes
    BY FileSizes DEF Address, Sizes
  <2> QED
    BY <2>1 DEF NoInode, Inode
<1>4. I \in [Inodes -> Inode] /\ \A i \in Inodes : I[i] = NoInode
  BY <1>3
<1>5. B \in [Blocks -> [0..BSIZE - 1 -> Nat]]
  OBVIOUS
<1> HIDE DEF I, B
<1>6. disk \in DiskType /\ disk.bitmap = {} /\ disk.ino = I
  BY <1>2, <1>4, <1>5 DEF DiskType
<1>7. \A i \in Inodes : \A n \in 0..NDIRECT : disk.ino[i].addrs[n] = 0
  BY <1>3, <1>4, <1>6
<1>8. ASSUME NEW i \in Inodes, NEW k \in Place PROVE Ref(disk, i, k) = 0
  <2>1. CASE k \in 0..NDIRECT - 1
    <3>1. k \in 0..NDIRECT
      BY <2>1, FileSizes DEF Sizes
    <3> QED
      BY <1>7, <2>1, <3>1, RefIs
  <2>2. NDIRECT \in 0..NDIRECT
    BY FileSizes DEF Sizes
  <2>3. CASE k \in NDIRECT..MAXFILE - 1
    BY <1>7, <2>2, <2>3, RefIs
  <2>4. CASE k = MAXFILE
    BY <1>7, <2>2, <2>4, RefIs
  <2> QED
    BY <2>1, <2>3, <2>4, FileSizes DEF Place, Sizes
<1>9. Tidy(disk)
  <2>1. NDIRECT \in 0..NDIRECT
    BY FileSizes DEF Sizes
  <2> QED
    BY <1>6, <1>7, <1>8, <2>1 DEF Tidy
<1>10. Full(disk)
  <2>1. \A i \in Inodes : disk.ino[i].size = 0
    BY <1>3, <1>4, <1>6
  <2> QED
    BY <2>1 DEF Full
<1>11. OpenInv
  BY <1>1, <1>9, <1>10, FreshSafe
<1>12. HomeOK
  <2>1. home = B
    BY <1>2 DEF Init
  <2>2. NDIRECT \in 0..NDIRECT
    BY FileSizes DEF Sizes
  <2> QED
    BY <1>5, <1>7, <2>1, <2>2 DEF HomeOK
<1> QED
  BY <1>11, <1>12 DEF FilesInv

LEMMA FilesNext == ASSUME FilesAssumption, FilesInv, Next PROVE FilesInv'
<1>inv. OpenInv /\ HomeOK
  BY DEF FilesInv
<1>1. CASE Crash
  BY <1>1, CrashKeeps
<1>2. CASE \E b \in Blocks : Evict(b)
  BY <1>2, EvictKeeps
<1>3. CASE ~Crash /\ ~\E b \in Blocks : Evict(b)
  <2>1. PICK p \in Procs :
          \/ \E i \in Inodes, m \in Modes : Lookup(p, i, m) \/ Create(p, i, m)
          \/ \E i \in Inodes : Unlink(p, i)
          \/ OpenFile(p) \/ OpenNone(p) \/ Iput(p)
          \/ \E d \in Fds : \/ \E n \in Counts : Read(p, d, n) \/ WriteStart(p, d, n)
                            \/ Dup(p, d) \/ Close(p, d)
          \/ WriteChunk(p)
          \/ \E q \in Procs : Fork(p, q)
          \/ Exit(p) \/ Pipe(p)
    BY <1>3 DEF Next
  <2> HIDE DEF Next
  <2>2. ASSUME NEW i \in Inodes, NEW m \in Modes, Lookup(p, i, m) \/ Create(p, i, m) PROVE OpenInv' /\ HomeOK'
    <3>1. CASE Lookup(p, i, m)
      BY <1>inv, <3>1, LookupKeeps, StillHome
    <3>2. CASE Create(p, i, m)
      BY <1>inv, <3>2, CreateKeeps, SteadyHome
    <3> QED
      BY <2>2, <3>1, <3>2
  <2>3. ASSUME NEW i \in Inodes, Unlink(p, i) PROVE OpenInv' /\ HomeOK'
    BY <1>inv, <2>3, UnlinkKeeps, SteadyHome
  <2>4. CASE OpenFile(p)
    BY <1>inv, <2>4, OpenFileKeeps, SteadyHome DEF FilesInv
  <2>5. CASE OpenNone(p)
    BY <1>inv, <2>5, OpenNoneKeeps, StillHome DEF FilesInv
  <2>6. CASE Iput(p)
    BY <1>inv, <2>6, IputKeeps, SteadyHome DEF FilesInv
  <2>7. ASSUME NEW d \in Fds, NEW n \in Counts, Read(p, d, n) PROVE OpenInv' /\ HomeOK'
    BY <1>inv, <2>7, ReadKeeps, StillHome
  <2>8. ASSUME NEW d \in Fds, NEW n \in Counts, WriteStart(p, d, n) PROVE OpenInv' /\ HomeOK'
    BY <1>inv, <2>8, WriteStartKeeps, StillHome
  <2>9. ASSUME NEW d \in Fds, Dup(p, d) PROVE OpenInv' /\ HomeOK'
    BY <1>inv, <2>9, DupKeeps, StillHome
  <2>10. ASSUME NEW d \in Fds, Close(p, d) PROVE OpenInv' /\ HomeOK'
    BY <1>inv, <2>10, CloseKeeps, StillHome
  <2>11. CASE WriteChunk(p)
    BY <1>inv, <2>11, WriteChunkKeeps DEF FilesInv
  <2>12. ASSUME NEW q \in Procs, Fork(p, q) PROVE OpenInv' /\ HomeOK'
    BY <1>inv, <2>12, ForkKeeps, StillHome
  <2>13. CASE Exit(p)
    BY <1>inv, <2>13, ExitKeeps, StillHome DEF FilesInv
  <2>14. CASE Pipe(p)
    BY <1>inv, <2>14, PipeKeeps, StillHome DEF FilesInv
  <2> QED
    BY <2>1, <2>2, <2>3, <2>4, <2>5, <2>6, <2>7, <2>8, <2>9, <2>10, <2>11, <2>12, <2>13, <2>14 DEF FilesInv
<1> QED
  BY <1>1, <1>2, <1>3

LEMMA FilesStutter == ASSUME FilesInv, UNCHANGED <<disk, home, iref, file, ofile, pipe, loc>> PROVE FilesInv'
<1>1. FilesTypes' /\ Links' /\ Referred'
  BY DEF FilesInv, OpenInv, FilesTypes, Links, Referred, On, FilesOf, CallsOf, Pipes, Doing
<1>2. (Tidy(disk) /\ Full(disk))'
  BY DEF FilesInv, OpenInv, Tidy, Full
<1>3. HomeOK'
  BY StillHome DEF FilesInv
<1> QED
  BY <1>1, <1>2, <1>3 DEF FilesInv, OpenInv

-----------------------------------------------------------------------------
(* The file layer implements ByteFiles.                                     *)

\* The bytes of a file, what a crash would leave of them, and the position of an open one.
BytesOf(i) == [k \in 1..disk.ino[i].size |-> Byte(disk, i, k - 1)]
KeptOf(i) == [k \in 1..disk.ino[i].size |-> KByte(i, k - 1)]
OpenOf(f) == IF file[f].ref > 0 /\ file[f].type = "inode" THEN [ip |-> file[f].ip, off |-> file[f].off]
             ELSE [ip |-> 0, off |-> 0]

LEMMA ContentIs ==
  ASSUME FilesAssumption
  PROVE  Tidy(disk) => \A i \in Inodes : Content(i) = BytesOf(i) /\ Kept(i) = KeptOf(i)
<1> SUFFICES ASSUME Tidy(disk), NEW i \in Inodes PROVE Content(i) = BytesOf(i) /\ Kept(i) = KeptOf(i)
  OBVIOUS
<1>sizes. Sizes
  BY FileSizes
<1> DEFINE old == disk.ino[i].size
           z == (0 + old) % Width
           m == IF 0 > old \/ z < 0 THEN 0 ELSE IF z > old THEN old - 0 ELSE old
<1>1. disk \in DiskType /\ old \in Nat /\ old <= MaxBytes
  BY <1>sizes, SizeBytes DEF Tidy, Sizes
<1> HIDE DEF old
<1>2. z = old
  BY <1>1, <1>sizes DEF Sizes
<1>3. m = old
  BY <1>1, <1>2
<1>4. Content(i) = [k \in 1..m |-> disk.data[Slot(disk, i, (0 + k - 1) \div BSIZE)][(0 + k - 1) % BSIZE]]
  BY DEF Content, Readi, old, z
<1> HIDE DEF m
<1>5. ASSUME NEW k \in 1..old
      PROVE  0 + k - 1 = k - 1 /\ Slot(disk, i, (k - 1) \div BSIZE) = Ref(disk, i, (k - 1) \div BSIZE)
  <2>1. 0 + k - 1 = k - 1 /\ k - 1 \in 0..disk.ino[i].size - 1
    BY <1>1 DEF old
  <2>2. (k - 1) \div BSIZE \in 0..MAXFILE - 1
    BY <1>1, <2>1, SizeBytes
  <2> QED
    BY <2>1, <2>2, RefIs
<1>6. \A k \in 1..old :
        /\ disk.data[Slot(disk, i, (0 + k - 1) \div BSIZE)][(0 + k - 1) % BSIZE] = Byte(disk, i, k - 1)
        /\ home[Slot(disk, i, (k - 1) \div BSIZE)][(k - 1) % BSIZE] = KByte(i, k - 1)
  BY <1>5 DEF Byte, KByte
<1>7. Kept(i) = [k \in 1..old |-> home[Slot(disk, i, (k - 1) \div BSIZE)][(k - 1) % BSIZE]]
  BY DEF Kept, old
<1> QED
  BY <1>3, <1>4, <1>6, <1>7 DEF BytesOf, KeptOf, old

LEMMA ContentNext ==
  ASSUME FilesAssumption
  PROVE  Tidy(disk)' => \A i \in Inodes : Content(i)' = BytesOf(i)' /\ Kept(i)' = KeptOf(i)'
<1>1. (Tidy(disk) => \A i \in Inodes : Content(i) = BytesOf(i) /\ Kept(i) = KeptOf(i))'
  BY ContentIs, PTL
<1> QED
  BY <1>1

\* What the variables of ByteFiles are here.
LEMMA ViewIs ==
  ASSUME FilesAssumption, OpenInv, OpenInv'
  PROVE  LET c == [i \in Inodes |-> Content(i)]
             e == [i \in Inodes |-> Kept(i)]
             o == [f \in Files |-> IF file[f].ref > 0 /\ file[f].type = "inode"
                                   THEN [ip |-> file[f].ip, off |-> file[f].off]
                                   ELSE [ip |-> 0, off |-> 0]]
         IN /\ c = [i \in Inodes |-> BytesOf(i)] /\ c' = [i \in Inodes |-> BytesOf(i)']
            /\ e = [i \in Inodes |-> KeptOf(i)] /\ e' = [i \in Inodes |-> KeptOf(i)']
            /\ o = [f \in Files |-> OpenOf(f)] /\ o' = [f \in Files |-> OpenOf(f)']
            /\ \A i \in Inodes : /\ BytesOf(i) = [k \in 1..disk.ino[i].size |-> Byte(disk, i, k - 1)]
                                 /\ KeptOf(i) = [k \in 1..disk.ino[i].size |-> KByte(i, k - 1)]
                                 /\ Len(BytesOf(i)) = disk.ino[i].size /\ disk.ino[i].size \in Nat
                                 /\ Len(KeptOf(i)) = disk.ino[i].size
            /\ \A i \in Inodes : /\ BytesOf(i)' = [k \in 1..disk'.ino[i].size |-> Byte(disk', i, k - 1)]
                                 /\ KeptOf(i)' = [k \in 1..disk'.ino[i].size |-> KByte(i, k - 1)']
                                 /\ disk'.ino[i].size \in Nat
<1>1. \A i \in Inodes : Content(i) = BytesOf(i) /\ Kept(i) = KeptOf(i)
  BY ContentIs DEF OpenInv
<1>2. \A i \in Inodes : Content(i)' = BytesOf(i)' /\ Kept(i)' = KeptOf(i)'
  BY ContentNext DEF OpenInv
<1>3. \A i \in Inodes : disk.ino[i].size \in Nat /\ disk'.ino[i].size \in Nat
  <2>1. disk \in DiskType /\ disk' \in DiskType
    BY DEF OpenInv, Tidy, DiskType
  <2> QED
    BY <2>1, SizeBytes
<1> QED
  BY <1>1, <1>2, <1>3 DEF BytesOf, KeptOf, OpenOf, Byte, KByte

\* A file of which neither the bytes nor the durable ones change.
LEMMA SameFile ==
  ASSUME FilesAssumption, OpenInv, OpenInv', home' = home, NEW i \in Inodes, SameBytes(disk, disk', i)
  PROVE  BytesOf(i)' = BytesOf(i) /\ KeptOf(i)' = KeptOf(i)
<1> DEFINE n == disk.ino[i].size
<1>1. /\ BytesOf(i) = [k \in 1..n |-> Byte(disk, i, k - 1)] /\ n \in Nat
      /\ BytesOf(i)' = [k \in 1..disk'.ino[i].size |-> Byte(disk', i, k - 1)]
      /\ KeptOf(i) = [k \in 1..n |-> KByte(i, k - 1)]
      /\ KeptOf(i)' = [k \in 1..disk'.ino[i].size |-> KByte(i, k - 1)']
  BY ViewIs
<1>2. disk'.ino[i].size = n /\ \A k \in 0..n - 1 : Byte(disk', i, k) = Byte(disk, i, k) /\ KByte(i, k)' = KByte(i, k)
  BY DEF SameBytes, KByte
<1> HIDE DEF n
<1>3. \A k \in 1..n : Byte(disk', i, k - 1) = Byte(disk, i, k - 1) /\ KByte(i, k - 1)' = KByte(i, k - 1)
  BY <1>1, <1>2
<1> QED
  BY <1>1, <1>2, <1>3

LEMMA SameView ==
  ASSUME FilesAssumption, OpenInv, OpenInv', home' = home,
         \A i \in Inodes : SameBytes(disk, disk', i), \A f \in Files : OpenOf(f)' = OpenOf(f)
  PROVE  UNCHANGED Bytes!bvars
<1>1. \A i \in Inodes : BytesOf(i)' = BytesOf(i) /\ KeptOf(i)' = KeptOf(i)
  BY SameFile
<1> QED
  BY <1>1, ViewIs DEF Bytes!bvars

LEMMA SameDisk == ASSUME UNCHANGED disk PROVE \A i \in Inodes : SameBytes(disk, disk', i)
BY DEF SameBytes

\* A file that has lost its bytes.
LEMMA NoBytes ==
  ASSUME FilesAssumption, OpenInv, OpenInv', home' = home, NEW i \in Inodes, disk'.ino[i].size = 0,
         \A j \in Inodes : j # i => SameBytes(disk, disk', j)
  PROVE  /\ [j \in Inodes |-> BytesOf(j)'] = [[j \in Inodes |-> BytesOf(j)] EXCEPT ![i] = <<>>]
         /\ [j \in Inodes |-> KeptOf(j)'] = [[j \in Inodes |-> KeptOf(j)] EXCEPT ![i] = <<>>]
<1>1. BytesOf(i)' = <<>> /\ KeptOf(i)' = <<>>
  BY ViewIs
<1>2. \A j \in Inodes : j # i => BytesOf(j)' = BytesOf(j) /\ KeptOf(j)' = KeptOf(j)
  BY SameFile
<1> QED
  BY <1>1, <1>2

LEMMA OpenBytes ==
  ASSUME FilesAssumption, OpenInv, OpenInv', NEW p \in Procs, OpenFile(p)
  PROVE  Bytes!Next
<1>1. PICK f \in Files, i \in Inodes, m \in Mode :
        /\ file[f].ref = 0 /\ \A g \in Files : g # f => SameEntry(g)
        /\ file'[f].ref = 1 /\ file'[f].type = "inode" /\ file'[f].ip = i
        /\ file'[f].off = IF m.append THEN disk.ino[i].size ELSE 0
        /\ home' = home
        /\ IF m.trunc THEN disk'.ino[i].size = 0 /\ \A j \in Inodes : j # i => SameBytes(disk, disk', j)
           ELSE UNCHANGED disk
  BY OpenFileKeeps
<1> DEFINE c == [j \in Inodes |-> Content(j)]
           e == [j \in Inodes |-> Kept(j)]
           o == [g \in Files |-> IF file[g].ref > 0 /\ file[g].type = "inode"
                                 THEN [ip |-> file[g].ip, off |-> file[g].off]
                                 ELSE [ip |-> 0, off |-> 0]]
           y == m.trunc
           a == m.append
<1>2. y \in BOOLEAN /\ a \in BOOLEAN
  BY DEF Mode
<1>3. /\ c = [j \in Inodes |-> BytesOf(j)] /\ c' = [j \in Inodes |-> BytesOf(j)']
      /\ e = [j \in Inodes |-> KeptOf(j)] /\ e' = [j \in Inodes |-> KeptOf(j)']
      /\ o = [g \in Files |-> OpenOf(g)] /\ o' = [g \in Files |-> OpenOf(g)']
      /\ Len(BytesOf(i)) = disk.ino[i].size
  BY ViewIs
<1>4. o[f] = [ip |-> 0, off |-> 0]
  BY <1>1, <1>3 DEF OpenOf
<1>5. o' = [o EXCEPT ![f] = [ip |-> i, off |-> IF a THEN Len(c[i]) ELSE 0]]
  <2>1. \A g \in Files : g # f => OpenOf(g)' = OpenOf(g)
    BY <1>1 DEF SameEntry, OpenOf
  <2>2. OpenOf(f)' = [ip |-> i, off |-> IF a THEN Len(c[i]) ELSE 0]
    <3>1. OpenOf(f)' = [ip |-> file'[f].ip, off |-> file'[f].off]
      BY <1>1 DEF OpenOf
    <3>2. c[i] = BytesOf(i)
      BY <1>3
    <3> HIDE DEF c
    <3> QED
      BY <1>1, <1>3, <3>1, <3>2
  <2> HIDE DEF o, c
  <2> QED
    BY <1>3, <2>1, <2>2
<1>6. /\ c' = IF y THEN [c EXCEPT ![i] = <<>>] ELSE c
      /\ e' = IF y THEN [e EXCEPT ![i] = <<>>] ELSE e
  <2>1. CASE y
    <3>1. /\ [j \in Inodes |-> BytesOf(j)'] = [[j \in Inodes |-> BytesOf(j)] EXCEPT ![i] = <<>>]
          /\ [j \in Inodes |-> KeptOf(j)'] = [[j \in Inodes |-> KeptOf(j)] EXCEPT ![i] = <<>>]
      BY <1>1, <2>1, NoBytes
    <3> HIDE DEF c, e, y
    <3> QED
      BY <1>3, <2>1, <3>1
  <2>2. CASE ~y
    <3>1. \A j \in Inodes : BytesOf(j)' = BytesOf(j) /\ KeptOf(j)' = KeptOf(j)
      BY <1>1, <2>2, SameDisk, SameFile
    <3> HIDE DEF c, e, y
    <3> QED
      BY <1>3, <2>2, <3>1
  <2> QED
    BY <2>1, <2>2
<1> HIDE DEF y, a
<1>7. Bytes!Open(f, i, y, a)
  BY <1>4, <1>5, <1>6 DEF Bytes!Open, Bytes!Closed
<1> QED
  BY <1>2, <1>7 DEF Bytes!Next

LEMMA ReadBytes ==
  ASSUME FilesAssumption, OpenInv, OpenInv', NEW p \in Procs, NEW d \in Fds, NEW n \in Counts, Read(p, d, n)
  PROVE  Bytes!Next \/ UNCHANGED Bytes!bvars
<1>1. PICK f \in Files, m \in Nat :
        /\ file[f].type = "inode" /\ file[f].ref > 0 /\ \A g \in Files : g # f => file'[g] = file[g]
        /\ file'[f].ref = file[f].ref /\ file'[f].type = file[f].type
        /\ file'[f].ip = file[f].ip /\ file'[f].off = file[f].off + m
        /\ m # 0 => file[f].off + m <= disk.ino[file[f].ip].size
  BY ReadKeeps
<1>2. UNCHANGED <<disk, home>>
  BY ReadKeeps
<1>3. \A g \in Files : g # f => OpenOf(g)' = OpenOf(g)
  BY <1>1 DEF OpenOf
<1>4. file[f].ip \in Inodes /\ file[f].off \in Nat
  <2>1. file[f] \in FileEntry /\ file[f].ip \in Inodes
    BY <1>1 DEF OpenInv, FilesTypes, Links
  <2> QED
    BY <2>1, FileSizes DEF FileEntry, Sizes
<1>5. OpenOf(f) = [ip |-> file[f].ip, off |-> file[f].off] /\ OpenOf(f)' = [ip |-> file[f].ip, off |-> file[f].off + m]
  BY <1>1 DEF OpenOf
<1>6. CASE m = 0
  <2>1. OpenOf(f)' = OpenOf(f)
    BY <1>4, <1>5, <1>6
  <2> QED
    BY <1>2, <1>3, <2>1, SameDisk, SameView
<1>7. CASE m # 0
  <2> DEFINE c == [j \in Inodes |-> Content(j)]
             e == [j \in Inodes |-> Kept(j)]
             o == [g \in Files |-> IF file[g].ref > 0 /\ file[g].type = "inode"
                                   THEN [ip |-> file[g].ip, off |-> file[g].off]
                                   ELSE [ip |-> 0, off |-> 0]]
             i == file[f].ip
             z == file[f].off
  <2>1. /\ c = [j \in Inodes |-> BytesOf(j)] /\ c' = [j \in Inodes |-> BytesOf(j)']
        /\ e = [j \in Inodes |-> KeptOf(j)] /\ e' = [j \in Inodes |-> KeptOf(j)']
        /\ o = [g \in Files |-> OpenOf(g)] /\ o' = [g \in Files |-> OpenOf(g)']
        /\ Len(BytesOf(i)) = disk.ino[i].size /\ disk.ino[i].size \in Nat
    BY <1>4, ViewIs
  <2>2. c' = c /\ e' = e
    BY <1>2, <2>1 DEF BytesOf, Byte, KeptOf, KByte
  <2>3. o[f] = [ip |-> i, off |-> z] /\ 0 \notin Inodes /\ o[f].ip = i /\ o[f].off = z
    BY <1>5, <2>1 DEF FilesAssumption
  <2>4. o' = [o EXCEPT ![f].off = @ + m]
    <3> HIDE DEF o
    <3> QED
      BY <1>3, <1>5, <2>1, <2>3
  <2>5. z + m <= Len(c[i])
    <3>1. c[i] = BytesOf(i)
      BY <1>4, <2>1
    <3> HIDE DEF c
    <3> QED
      BY <1>1, <1>7, <2>1, <3>1
  <2>6. m \in 1..MAXFILE * BSIZE
    <3>1. disk.ino[i].size <= MaxBytes
      BY <1>4, SizeBytes DEF OpenInv, Tidy
    <3> HIDE DEF i, z
    <3>2. z + m <= disk.ino[i].size /\ z \in Nat
      BY <1>1, <1>4, <1>7 DEF i, z
    <3>3. MaxBytes \in Nat
      BY FileSizes DEF Sizes
    <3>4. m \in 1..MaxBytes
      BY <1>7, <2>1, <3>1, <3>2, <3>3
    <3> QED
      BY <3>4 DEF MaxBytes
  <2>7. o[f] # [ip |-> 0, off |-> 0]
    BY <1>4, <2>3
  <2>8. o[f].off + m <= Len(c[o[f].ip])
    <3> HIDE DEF o, c
    <3> QED
      BY <2>3, <2>5
  <2>9. Bytes!Read(f, m)
    BY <2>2, <2>4, <2>7, <2>8 DEF Bytes!Read, Bytes!Closed
  <2> QED
    BY <2>6, <2>9 DEF Bytes!Next
<1> QED
  BY <1>6, <1>7

LEMMA CloseBytes ==
  ASSUME FilesAssumption, OpenInv, OpenInv', UNCHANGED <<disk, home>>, NEW f \in Files, Dropping(f)
  PROVE  Bytes!Next \/ UNCHANGED Bytes!bvars
<1>1. \A g \in Files : g # f => OpenOf(g)' = OpenOf(g)
  BY DEF Dropping, OpenOf
<1>2. CASE file'[f].ref = 0
  <2> DEFINE c == [j \in Inodes |-> Content(j)]
             e == [j \in Inodes |-> Kept(j)]
             o == [g \in Files |-> IF file[g].ref > 0 /\ file[g].type = "inode"
                                   THEN [ip |-> file[g].ip, off |-> file[g].off]
                                   ELSE [ip |-> 0, off |-> 0]]
  <2>1. /\ c = [j \in Inodes |-> BytesOf(j)] /\ c' = [j \in Inodes |-> BytesOf(j)']
        /\ e = [j \in Inodes |-> KeptOf(j)] /\ e' = [j \in Inodes |-> KeptOf(j)']
        /\ o = [g \in Files |-> OpenOf(g)] /\ o' = [g \in Files |-> OpenOf(g)']
    BY ViewIs
  <2>2. c' = c /\ e' = e
    BY <2>1 DEF BytesOf, Byte, KeptOf, KByte
  <2>3. OpenOf(f)' = [ip |-> 0, off |-> 0]
    BY <1>2 DEF OpenOf
  <2>4. o' = [o EXCEPT ![f] = [ip |-> 0, off |-> 0]]
    <3> HIDE DEF o
    <3> QED
      BY <1>1, <2>1, <2>3
  <2>5. Bytes!Close(f)
    BY <2>2, <2>4 DEF Bytes!Close, Bytes!Closed
  <2> QED
    BY <2>5 DEF Bytes!Next
<1>3. CASE file'[f].ref # 0
  <2>1. OpenOf(f)' = OpenOf(f)
    BY <1>3 DEF Dropping, OpenOf
  <2> QED
    BY <1>1, <2>1, SameDisk, SameView
<1> QED
  BY <1>2, <1>3

LEMMA CrashBytes ==
  ASSUME FilesAssumption, FilesInv, FilesInv', Crash
  PROVE  Bytes!Next
<1> DEFINE c == [j \in Inodes |-> Content(j)]
           e == [j \in Inodes |-> Kept(j)]
           o == [g \in Files |-> IF file[g].ref > 0 /\ file[g].type = "inode"
                                 THEN [ip |-> file[g].ip, off |-> file[g].off]
                                 ELSE [ip |-> 0, off |-> 0]]
<1>1. /\ c' = [j \in Inodes |-> BytesOf(j)'] /\ o' = [g \in Files |-> OpenOf(g)']
      /\ e = [j \in Inodes |-> KeptOf(j)] /\ e' = [j \in Inodes |-> KeptOf(j)']
  BY ViewIs DEF FilesInv
<1>2. /\ Rereads /\ \A f \in Files : file'[f].ref = 0
      /\ \A j \in Inodes : \A k \in 0..disk.ino[j].size - 1 : Byte(disk', j, k) = KByte(j, k)
  BY CrashKeeps
<1>3. ASSUME NEW j \in Inodes PROVE BytesOf(j)' = KeptOf(j) /\ KeptOf(j)' = KeptOf(j)
  <2> DEFINE n == disk.ino[j].size
  <2>1. /\ n \in Nat /\ KeptOf(j) = [k \in 1..n |-> KByte(j, k - 1)]
        /\ BytesOf(j)' = [k \in 1..disk'.ino[j].size |-> Byte(disk', j, k - 1)]
        /\ KeptOf(j)' = [k \in 1..disk'.ino[j].size |-> KByte(j, k - 1)']
    BY ViewIs DEF FilesInv
  <2>2. disk'.ino[j].size = n /\ \A k \in 0..n - 1 : Byte(disk', j, k) = KByte(j, k) /\ KByte(j, k)' = KByte(j, k)
    BY <1>2 DEF Rereads
  <2> HIDE DEF n
  <2>3. \A k \in 1..n : Byte(disk', j, k - 1) = KByte(j, k - 1) /\ KByte(j, k - 1)' = KByte(j, k - 1)
    BY <2>1, <2>2
  <2> QED
    BY <2>1, <2>2, <2>3
<1>4. c' = e /\ e' = e
  BY <1>1, <1>3
<1>5. \A g \in Files : OpenOf(g)' = [ip |-> 0, off |-> 0]
  BY <1>2 DEF OpenOf
<1>6. o' = [g \in Files |-> [ip |-> 0, off |-> 0]]
  BY <1>1, <1>5
<1>7. Bytes!Crash
  BY <1>4, <1>6 DEF Bytes!Crash, Bytes!Closed
<1> QED
  BY <1>7 DEF Bytes!Next

LEMMA EvictBytes ==
  ASSUME FilesAssumption, FilesInv, FilesInv', NEW b \in Blocks, Evict(b)
  PROVE  Bytes!Next
<1> DEFINE c == [j \in Inodes |-> Content(j)]
           e == [j \in Inodes |-> Kept(j)]
           o == [g \in Files |-> IF file[g].ref > 0 /\ file[g].type = "inode"
                                 THEN [ip |-> file[g].ip, off |-> file[g].off]
                                 ELSE [ip |-> 0, off |-> 0]]
<1>1. /\ c = [j \in Inodes |-> BytesOf(j)] /\ c' = [j \in Inodes |-> BytesOf(j)']
      /\ e = [j \in Inodes |-> KeptOf(j)] /\ e' = [j \in Inodes |-> KeptOf(j)']
      /\ o = [g \in Files |-> OpenOf(g)] /\ o' = [g \in Files |-> OpenOf(g)']
  BY ViewIs DEF FilesInv
<1>2. Rereads /\ UNCHANGED file
  BY EvictKeeps
<1>3. ASSUME NEW j \in Inodes
      PROVE  Bytes!Between(BytesOf(j)', BytesOf(j), KeptOf(j)) /\ KeptOf(j)' = KeptOf(j)
  <2> DEFINE n == disk.ino[j].size
  <2>1. /\ n \in Nat /\ BytesOf(j) = [k \in 1..n |-> Byte(disk, j, k - 1)]
        /\ KeptOf(j) = [k \in 1..n |-> KByte(j, k - 1)]
        /\ BytesOf(j)' = [k \in 1..disk'.ino[j].size |-> Byte(disk', j, k - 1)]
        /\ KeptOf(j)' = [k \in 1..disk'.ino[j].size |-> KByte(j, k - 1)']
    BY ViewIs DEF FilesInv
  <2>2. disk'.ino[j].size = n /\ \A k \in 0..n - 1 :
          Byte(disk', j, k) \in {Byte(disk, j, k), KByte(j, k)} /\ KByte(j, k)' = KByte(j, k)
    BY <1>2 DEF Rereads
  <2> HIDE DEF n
  <2>3. \A k \in 1..n : /\ Byte(disk', j, k - 1) \in {Byte(disk, j, k - 1), KByte(j, k - 1)}
                        /\ KByte(j, k - 1)' = KByte(j, k - 1)
    BY <2>1, <2>2
  <2> QED
    BY <2>1, <2>2, <2>3 DEF Bytes!Between
<1>4. e' = e /\ o' = o
  BY <1>1, <1>2, <1>3 DEF OpenOf
<1>5. c' = [j \in Inodes |-> c'[j]] /\ \A j \in Inodes : Bytes!Between(c'[j], c[j], e[j])
  <2> HIDE DEF c, e
  <2> QED
    BY <1>1, <1>3
<1>6. Bytes!Revert
  BY <1>4, <1>5 DEF Bytes!Revert
<1> QED
  BY <1>6 DEF Bytes!Next

LEMMA IputBytes ==
  ASSUME FilesAssumption, OpenInv, OpenInv', NEW p \in Procs, Iput(p)
  PROVE  Bytes!Next \/ UNCHANGED Bytes!bvars
<1>1. UNCHANGED file /\ home' = home
  BY IputKeeps
<1>2. \A f \in Files : OpenOf(f)' = OpenOf(f)
  BY <1>1 DEF OpenOf
<1>3. CASE UNCHANGED disk
  BY <1>1, <1>2, <1>3, SameDisk, SameView
<1>4. CASE ~UNCHANGED disk
  <2>1. PICK i \in Inodes : /\ disk'.ino[i].size = 0 /\ \A j \in Inodes : j # i => SameBytes(disk, disk', j)
                            /\ FilesOf(i) = {}
    BY <1>4, IputKeeps
  <2> DEFINE c == [j \in Inodes |-> Content(j)]
             e == [j \in Inodes |-> Kept(j)]
             o == [g \in Files |-> IF file[g].ref > 0 /\ file[g].type = "inode"
                                   THEN [ip |-> file[g].ip, off |-> file[g].off]
                                   ELSE [ip |-> 0, off |-> 0]]
  <2>2. /\ c = [j \in Inodes |-> BytesOf(j)] /\ c' = [j \in Inodes |-> BytesOf(j)']
        /\ e = [j \in Inodes |-> KeptOf(j)] /\ e' = [j \in Inodes |-> KeptOf(j)']
        /\ o = [g \in Files |-> OpenOf(g)] /\ o' = [g \in Files |-> OpenOf(g)']
    BY ViewIs
  <2>3. c' = [c EXCEPT ![i] = <<>>] /\ e' = [e EXCEPT ![i] = <<>>]
    <3>1. /\ [j \in Inodes |-> BytesOf(j)'] = [[j \in Inodes |-> BytesOf(j)] EXCEPT ![i] = <<>>]
          /\ [j \in Inodes |-> KeptOf(j)'] = [[j \in Inodes |-> KeptOf(j)] EXCEPT ![i] = <<>>]
      BY <1>1, <2>1, NoBytes
    <3> HIDE DEF c, e
    <3> QED
      BY <2>2, <3>1
  <2>4. o' = o
    BY <1>2, <2>2
  <2>5. ASSUME NEW f \in Files PROVE o[f].ip # i
    <3>1. i # 0
      BY DEF FilesAssumption
    <3>2. o[f] = OpenOf(f)
      BY <2>2
    <3> QED
      BY <2>1, <3>1, <3>2 DEF OpenOf, FilesOf
  <2>6. Bytes!Free(i)
    BY <2>3, <2>4, <2>5 DEF Bytes!Free
  <2> QED
    BY <2>6 DEF Bytes!Next
<1> QED
  BY <1>3, <1>4

LEMMA WriteBytes ==
  ASSUME FilesAssumption, OpenInv, OpenInv', NEW f \in Files, NEW i \in Nat, NEW n \in Nat, NEW t \in Nat,
         PartWritten(f, i, n, t), NEW h \in Inodes, NEW z \in Nat, file[f].ip = h, file[f].off = z
  PROVE  Bytes!Next
<1>sizes. Sizes
  BY FileSizes
<1> DEFINE c == [j \in Inodes |-> Content(j)]
           e == [j \in Inodes |-> Kept(j)]
           o == [g \in Files |-> IF file[g].ref > 0 /\ file[g].type = "inode"
                                 THEN [ip |-> file[g].ip, off |-> file[g].off]
                                 ELSE [ip |-> 0, off |-> 0]]
           s == SubSeq(Text, i + 1, i + n)
           q == SubSeq(Text, i + 1, i + t)
           old == disk.ino[h].size
           new == disk'.ino[h].size
<1>1. /\ h \in Inodes /\ z \in Nat /\ t <= n /\ i + n <= Len(Text) /\ z <= old /\ z + t <= MaxBytes
      /\ \A g \in Files : g # f => file'[g] = file[g]
      /\ \A j \in Inodes : disk'.ino[j].size = IF j = h /\ z + t > disk.ino[j].size THEN z + t ELSE disk.ino[j].size
      /\ \A j \in Inodes : \A k \in 0..disk'.ino[j].size - 1 : Byte(disk', j, k) =
           IF j = h /\ k \in z..z + n - 1 THEN Text[i + (k - z + 1)] ELSE Byte(disk, j, k)
      /\ \A j \in Inodes : \A k \in 0..disk'.ino[j].size - 1 :
           /\ KByte(j, k)' \in {Byte(disk', j, k), KByte(j, k)}
           /\ j # h => KByte(j, k)' = KByte(j, k)
           /\ j = h /\ k \in z..z + t - 1 => KByte(j, k)' = Byte(disk', j, k)
  BY DEF PartWritten
<1>2. /\ c = [j \in Inodes |-> BytesOf(j)] /\ c' = [j \in Inodes |-> BytesOf(j)']
      /\ e = [j \in Inodes |-> KeptOf(j)] /\ e' = [j \in Inodes |-> KeptOf(j)']
      /\ o = [g \in Files |-> OpenOf(g)] /\ o' = [g \in Files |-> OpenOf(g)']
      /\ \A j \in Inodes : /\ BytesOf(j) = [k \in 1..disk.ino[j].size |-> Byte(disk, j, k - 1)]
                           /\ KeptOf(j) = [k \in 1..disk.ino[j].size |-> KByte(j, k - 1)]
                           /\ Len(BytesOf(j)) = disk.ino[j].size /\ disk.ino[j].size \in Nat
                           /\ Len(KeptOf(j)) = disk.ino[j].size
      /\ \A j \in Inodes : /\ BytesOf(j)' = [k \in 1..disk'.ino[j].size |-> Byte(disk', j, k - 1)]
                           /\ KeptOf(j)' = [k \in 1..disk'.ino[j].size |-> KByte(j, k - 1)']
                           /\ disk'.ino[j].size \in Nat
  BY ViewIs
<1>3. OpenOf(f) = [ip |-> h, off |-> z] /\ OpenOf(f)' = [ip |-> h, off |-> z + t]
  BY DEF PartWritten, OpenOf
<1>4. o[f].ip = h /\ o[f].off = z /\ h # 0 /\ o[f] # [ip |-> 0, off |-> 0]
  BY <1>1, <1>2, <1>3 DEF FilesAssumption
<1>5. o' = [o EXCEPT ![f].off = @ + t]
  <2>1. \A g \in Files : g # f => OpenOf(g)' = OpenOf(g)
    BY <1>1 DEF OpenOf
  <2> HIDE DEF o
  <2> QED
    BY <1>2, <1>3, <1>4, <2>1
<1>6. Len(s) = n /\ \A k \in 1..n : s[k] = Text[i + k]
  <2>1. CASE n # 0
    BY <1>1, <2>1, TextPart
  <2>2. CASE n = 0
    BY <2>2, <1>1
  <2> QED
    BY <2>1, <2>2
<1>part. Len(q) = t
  <2>1. CASE t # 0
    <3>1. Len(Text) \in Nat
      BY DEF FilesAssumption
    <3>2. i + t <= Len(Text)
      BY <1>1, <3>1
    <3> QED
      BY <2>1, <3>2, TextPart
  <2>2. CASE t = 0
    BY <2>2, <1>1
  <2> QED
    BY <2>1, <2>2
<1> HIDE DEF s, q
<1>7. /\ BytesOf(h) = [k \in 1..old |-> Byte(disk, h, k - 1)] /\ Len(BytesOf(h)) = old /\ old \in Nat /\ new \in Nat
      /\ BytesOf(h)' = [k \in 1..new |-> Byte(disk', h, k - 1)]
  BY <1>2
<1>old. /\ KeptOf(h) = [k \in 1..old |-> KByte(h, k - 1)] /\ Len(KeptOf(h)) = old
        /\ KeptOf(h)' = [k \in 1..new |-> KByte(h, k - 1)']
  BY <1>2
<1>8. new = IF z + t > old THEN z + t ELSE old
  BY <1>1
<1>9. \A k \in 0..new - 1 : Byte(disk', h, k) =
        IF k \in z..z + n - 1 THEN Text[i + (k - z + 1)] ELSE Byte(disk, h, k)
  BY <1>1
<1>bytes. \A k \in 0..new - 1 : /\ KByte(h, k)' \in {Byte(disk', h, k), KByte(h, k)}
                                /\ k \in z..z + t - 1 => KByte(h, k)' = Byte(disk', h, k)
  BY <1>1
<1>10. ASSUME NEW j \in Inodes, j # h PROVE BytesOf(j)' = BytesOf(j) /\ KeptOf(j)' = KeptOf(j)
  <2> DEFINE m == disk.ino[j].size
  <2>1. /\ BytesOf(j) = [k \in 1..m |-> Byte(disk, j, k - 1)] /\ m \in Nat
        /\ BytesOf(j)' = [k \in 1..disk'.ino[j].size |-> Byte(disk', j, k - 1)]
        /\ KeptOf(j) = [k \in 1..m |-> KByte(j, k - 1)]
        /\ KeptOf(j)' = [k \in 1..disk'.ino[j].size |-> KByte(j, k - 1)']
    BY <1>2
  <2>2. disk'.ino[j].size = m /\ \A k \in 0..m - 1 : Byte(disk', j, k) = Byte(disk, j, k) /\ KByte(j, k)' = KByte(j, k)
    BY <1>1, <1>10
  <2> HIDE DEF m
  <2>3. \A k \in 1..m : Byte(disk', j, k - 1) = Byte(disk, j, k - 1) /\ KByte(j, k - 1)' = KByte(j, k - 1)
    BY <2>1, <2>2
  <2> QED
    BY <2>1, <2>2, <2>3
<1> HIDE DEF old, new
<1>11. ASSUME NEW k \in 1..new
       PROVE  Byte(disk', h, k - 1) = IF k \in (z + 1)..(z + Len(s)) THEN s[k - z] ELSE BytesOf(h)[k]
  <2>0. new \in Nat /\ n \in Nat /\ z \in Nat /\ k \in 1..new
    BY <1>7
  <2>1. /\ k \in Nat /\ k >= 1 /\ k - 1 \in 0..new - 1
        /\ k \in (z + 1)..(z + n) => k - 1 \in z..z + n - 1
        /\ k - 1 \in z..z + n - 1 => k \in (z + 1)..(z + n)
    BY <2>0
  <2>2. CASE k \in (z + 1)..(z + n)
    <3>1. k - z \in 1..n /\ i + ((k - 1) - z + 1) = i + (k - z)
      BY <2>0, <2>2
    <3>2. Byte(disk', h, k - 1) = Text[i + ((k - 1) - z + 1)]
      BY <1>9, <2>1, <2>2
    <3>3. s[k - z] = Text[i + (k - z)]
      BY <1>6, <3>1
    <3> QED
      BY <1>6, <2>2, <3>1, <3>2, <3>3
  <2>3. CASE k \notin (z + 1)..(z + n)
    <3>1. k \in 1..old
      <4>1. k <= old
        BY <1>1, <1>7, <1>8, <2>1, <2>3
      <4> QED
        BY <1>7, <2>1, <4>1
    <3>2. Byte(disk', h, k - 1) = Byte(disk, h, k - 1)
      BY <1>9, <2>1, <2>3
    <3>3. BytesOf(h)[k] = Byte(disk, h, k - 1)
      BY <1>7, <3>1
    <3> QED
      BY <1>6, <2>3, <3>2, <3>3
  <2> QED
    BY <2>2, <2>3
<1> DEFINE b == BytesOf(h)
<1>12. BytesOf(h)' = Bytes!Patch(b, z, s, t)
  <2>1. BytesOf(h)' = [k \in 1..new |-> IF k \in (z + 1)..(z + Len(s)) THEN s[k - z] ELSE b[k]]
    BY <1>7, <1>11
  <2>2. Len(b) = old
    BY <1>7
  <2> HIDE DEF b
  <2> QED
    BY <1>8, <2>1, <2>2 DEF Bytes!Patch
<1>13. c[h] = b
  BY <1>1, <1>2
<1> HIDE DEF b
<1> DEFINE w == Bytes!Patch(b, z, s, t)
<1>14. c' = [c EXCEPT ![h] = w]
  <2> HIDE DEF c, w
  <2> SUFFICES ASSUME NEW j \in Inodes PROVE c'[j] = IF j = h THEN w ELSE c[j]
    BY <1>1, <1>2
  <2>1. BytesOf(h)' = w
    BY <1>12 DEF w
  <2>2. c'[j] = BytesOf(j)' /\ c[j] = BytesOf(j)
    BY <1>2
  <2> QED
    BY <1>10, <2>1, <2>2
<1>15. c' = [c EXCEPT ![o[f].ip] = Bytes!Patch(@, o[f].off, SubSeq(Text, i + 1, i + n), t)]
  <2> HIDE DEF c, o
  <2> QED
    BY <1>4, <1>13, <1>14 DEF s
<1>16. o[f].off <= Len(c[o[f].ip]) /\ o[f].off + t <= MAXFILE * BSIZE
  <2>1. z <= Len(c[h])
    BY <1>1, <1>2, <1>7 DEF old
  <2> HIDE DEF c, o
  <2> QED
    BY <1>1, <1>4, <2>1 DEF MaxBytes
<1>between. Bytes!Between(KeptOf(h)', BytesOf(h)', Bytes!Patch(KeptOf(h), z, q, t))
  <2> DEFINE v == Bytes!Patch(KeptOf(h), z, q, t)
             g == KeptOf(h)
  <2>1. v = [k \in 1..new |-> IF k \in (z + 1)..(z + t) THEN q[k - z] ELSE g[k]]
    <3>1. Len(g) = old
      BY <1>old
    <3> HIDE DEF g
    <3>2. Bytes!Patch(g, z, q, t) = [k \in 1..new |-> IF k \in (z + 1)..(z + t) THEN q[k - z] ELSE g[k]]
      BY <1>8, <1>part, <3>1 DEF Bytes!Patch
    <3> QED
      BY <3>2 DEF g
  <2> HIDE DEF v
  <2>2. ASSUME NEW k \in 1..new
        PROVE  KByte(h, k - 1)' \in {Byte(disk', h, k - 1), v[k]}
    <3>1. new \in Nat /\ old \in Nat /\ z \in Nat /\ t \in Nat /\ k - 1 \in 0..new - 1 /\ z <= old
      BY <1>1, <1>7
    <3>2. CASE k \in (z + 1)..(z + t)
      <4>1. k - 1 \in z..z + t - 1
        BY <3>1, <3>2
      <4> QED
        BY <1>bytes, <3>1, <4>1
    <3>3. CASE k \notin (z + 1)..(z + t)
      <4>1. k \in 1..old
        BY <1>8, <3>1, <3>3
      <4>2. v[k] = g[k] /\ g[k] = KByte(h, k - 1)
        BY <1>old, <2>1, <3>3, <4>1
      <4> QED
        BY <1>bytes, <3>1, <4>2
    <3> QED
      BY <3>2, <3>3
  <2>3. DOMAIN KeptOf(h)' = 1..new /\ DOMAIN BytesOf(h)' = 1..new
    BY <1>7, <1>old
  <2>4. \A k \in 1..new : KeptOf(h)'[k] = KByte(h, k - 1)' /\ BytesOf(h)'[k] = Byte(disk', h, k - 1)
    BY <1>7, <1>old
  <2>5. \A k \in DOMAIN BytesOf(h)' : KeptOf(h)'[k] \in {BytesOf(h)'[k], v[k]}
    BY <2>2, <2>3, <2>4
  <2>6. Bytes!Between(KeptOf(h)', BytesOf(h)', v)
    BY <2>3, <2>5 DEF Bytes!Between
  <2> QED
    BY <2>6 DEF v
<1>17. e' = [e EXCEPT ![h] = e'[h]]
  <2> DEFINE u == [j \in Inodes |-> KeptOf(j)']
             x == [j \in Inodes |-> KeptOf(j)]
  <2>1. u = [x EXCEPT ![h] = u[h]]
    <3>1. \A j \in Inodes : u[j] = IF j = h THEN u[h] ELSE x[j]
      BY <1>10
    <3> QED
      BY <3>1
  <2>2. e = x /\ e' = u
    BY <1>2
  <2> HIDE DEF e, u, x
  <2> QED
    BY <2>1, <2>2
<1>18. /\ c'[h] = BytesOf(h)' /\ e'[h] = KeptOf(h)' /\ e[h] = KeptOf(h)
  BY <1>2
<1>19. Bytes!Between(e'[o[f].ip], c'[o[f].ip],
                     Bytes!Patch(e[o[f].ip], o[f].off, SubSeq(Text, i + 1, i + t), t))
  <2> HIDE DEF c, e, o
  <2> QED
    BY <1>4, <1>18, <1>between DEF q
<1>20. i \in 0..Len(Text) /\ n \in 0..Len(Text) /\ t \in 0..Len(Text)
  <2>1. Len(Text) \in Nat
    BY DEF FilesAssumption
  <2> QED
    BY <1>1, <2>1
<1>21. e' = [e EXCEPT ![o[f].ip] = e'[o[f].ip]]
  <2> HIDE DEF e, o
  <2> QED
    BY <1>4, <1>17
<1>22. Bytes!Write(f, t)
  BY <1>1, <1>4, <1>5, <1>15, <1>16, <1>19, <1>20, <1>21 DEF Bytes!Write, Bytes!Closed
<1> QED
  BY <1>20, <1>22 DEF Bytes!Next

LEMMA QuietBytes ==
  ASSUME FilesAssumption, OpenInv, OpenInv', home' = home, \A i \in Inodes : SameBytes(disk, disk', i),
         \A g \in Files : /\ (file'[g].ref > 0 <=> file[g].ref > 0) /\ file'[g].type = file[g].type
                          /\ file'[g].ip = file[g].ip /\ file'[g].off = file[g].off
  PROVE  UNCHANGED Bytes!bvars
<1>1. \A g \in Files : OpenOf(g)' = OpenOf(g)
  BY DEF OpenOf
<1> QED
  BY <1>1, SameView

LEMMA StillBytes ==
  ASSUME FilesAssumption, OpenInv, OpenInv', UNCHANGED <<home, file>>, \A i \in Inodes : SameBytes(disk, disk', i)
  PROVE  UNCHANGED Bytes!bvars
BY QuietBytes

LEMMA PipeBytes ==
  ASSUME FilesAssumption, OpenInv, OpenInv', NEW p \in Procs, Pipe(p)
  PROVE  UNCHANGED Bytes!bvars
<1>1. UNCHANGED <<disk, home>>
  BY PipeKeeps
<1>2. \A g \in Files : OpenOf(g)' = OpenOf(g)
  <2>1. \A g \in Files : \/ file[g].ref = 0 /\ file'[g].type = "pipe"
                         \/ file'[g] = file[g]
    BY PipeKeeps
  <2> QED
    BY <2>1 DEF OpenOf
<1> QED
  BY <1>1, <1>2, SameDisk, SameView

LEMMA ChunkBytes ==
  ASSUME FilesAssumption, OpenInv, OpenInv', HomeOK, NEW p \in Procs, WriteChunk(p)
  PROVE  Bytes!Next \/ UNCHANGED Bytes!bvars
<1>1. \/ UNCHANGED <<disk, home>> /\ \A g \in Files : /\ file'[g].ref = file[g].ref /\ file'[g].type = file[g].type
                                            /\ file'[g].ip = file[g].ip /\ file'[g].off = file[g].off
      \/ \E f \in Files, i, n, t \in Nat : PartWritten(f, i, n, t)
  BY WriteChunkKeeps
<1>2. ASSUME NEW f \in Files, NEW i \in Nat, NEW n \in Nat, NEW t \in Nat, PartWritten(f, i, n, t)
      PROVE  Bytes!Next
  <2>1. file[f].ip \in Inodes /\ file[f].off \in Nat
    BY <1>2 DEF PartWritten
  <2>2. PICK h \in Inodes, z \in Nat : file[f].ip = h /\ file[f].off = z
    BY <2>1
  <2> QED
    BY <1>2, <2>2, WriteBytes
<1>3. CASE /\ UNCHANGED <<disk, home>>
           /\ \A g \in Files : /\ file'[g].ref = file[g].ref /\ file'[g].type = file[g].type
                               /\ file'[g].ip = file[g].ip /\ file'[g].off = file[g].off
  BY <1>3, SameDisk, QuietBytes
<1> QED
  BY <1>1, <1>2, <1>3

\* Every step of the file layer is a step of ByteFiles or none.
LEMMA FilesBytes ==
  ASSUME FilesAssumption, FilesInv, Next
  PROVE  Bytes!Next \/ UNCHANGED Bytes!bvars
<1>inv. FilesInv' /\ OpenInv /\ OpenInv' /\ HomeOK
  BY FilesNext DEF FilesInv
<1>1. CASE Crash
  BY <1>inv, <1>1, CrashBytes
<1>2. CASE \E b \in Blocks : Evict(b)
  BY <1>inv, <1>2, EvictBytes
<1>3. CASE ~Crash /\ ~\E b \in Blocks : Evict(b)
  <2>1. PICK p \in Procs :
          \/ \E i \in Inodes, m \in Modes : Lookup(p, i, m) \/ Create(p, i, m)
          \/ \E i \in Inodes : Unlink(p, i)
          \/ OpenFile(p) \/ OpenNone(p) \/ Iput(p)
          \/ \E d \in Fds : \/ \E n \in Counts : Read(p, d, n) \/ WriteStart(p, d, n)
                            \/ Dup(p, d) \/ Close(p, d)
          \/ WriteChunk(p)
          \/ \E q \in Procs : Fork(p, q)
          \/ Exit(p) \/ Pipe(p)
    BY <1>3 DEF Next
  <2> HIDE DEF Next
  <2>2. ASSUME NEW i \in Inodes, NEW m \in Modes, Lookup(p, i, m) \/ Create(p, i, m) PROVE UNCHANGED Bytes!bvars
    <3>1. CASE Lookup(p, i, m)
      BY <1>inv, <3>1, LookupKeeps, SameDisk, StillBytes
    <3>2. CASE Create(p, i, m)
      BY <1>inv, <3>2, CreateKeeps, StillBytes
    <3> QED
      BY <2>2, <3>1, <3>2
  <2>3. ASSUME NEW i \in Inodes, Unlink(p, i) PROVE UNCHANGED Bytes!bvars
    BY <1>inv, <2>3, UnlinkKeeps, StillBytes
  <2>4. CASE OpenFile(p)
    BY <1>inv, <2>4, OpenBytes
  <2>5. CASE OpenNone(p)
    BY <1>inv, <2>5, OpenNoneKeeps, SameDisk, StillBytes
  <2>6. CASE Iput(p)
    BY <1>inv, <2>6, IputBytes
  <2>7. ASSUME NEW d \in Fds, NEW n \in Counts, Read(p, d, n) PROVE Bytes!Next \/ UNCHANGED Bytes!bvars
    BY <1>inv, <2>7, ReadBytes
  <2>8. ASSUME NEW d \in Fds, NEW n \in Counts, WriteStart(p, d, n) PROVE UNCHANGED Bytes!bvars
    BY <1>inv, <2>8, WriteStartKeeps, SameDisk, StillBytes
  <2>9. ASSUME NEW d \in Fds, Dup(p, d) PROVE UNCHANGED Bytes!bvars
    BY <1>inv, <2>9, DupKeeps, SameDisk, QuietBytes
  <2>10. ASSUME NEW d \in Fds, Close(p, d) PROVE Bytes!Next \/ UNCHANGED Bytes!bvars
    BY <1>inv, <2>10, CloseKeeps, CloseBytes
  <2>11. CASE WriteChunk(p)
    BY <1>inv, <2>11, ChunkBytes
  <2>12. ASSUME NEW q \in Procs, Fork(p, q) PROVE UNCHANGED Bytes!bvars
    BY <1>inv, <2>12, ForkKeeps, SameDisk, QuietBytes
  <2>13. CASE Exit(p)
    <3>1. UNCHANGED <<disk, home>> /\ (UNCHANGED file \/ \E f \in Files : Dropping(f))
      BY <1>inv, <2>13, ExitKeeps
    <3> QED
      BY <1>inv, <3>1, SameDisk, StillBytes, CloseBytes
  <2>14. CASE Pipe(p)
    BY <1>inv, <2>14, PipeBytes
  <2> QED
    BY <2>1, <2>2, <2>3, <2>4, <2>5, <2>6, <2>7, <2>8, <2>9, <2>10, <2>11, <2>12, <2>13, <2>14
<1> QED
  BY <1>1, <1>2, <1>3

LEMMA BytesStutter ==
  ASSUME FilesAssumption, FilesInv, UNCHANGED <<disk, home, iref, file, ofile, pipe, loc>>
  PROVE  UNCHANGED Bytes!bvars
<1>1. OpenInv /\ OpenInv'
  BY FilesStutter DEF FilesInv
<1> QED
  BY <1>1, SameDisk, StillBytes

LEMMA BytesInit == ASSUME FilesAssumption, Init PROVE Bytes!Init
<1>1. OpenInv
  BY FilesInit DEF FilesInv
<1>2. \A i \in Inodes : Content(i) = <<>> /\ Kept(i) = <<>>
  <2> SUFFICES ASSUME NEW i \in Inodes PROVE Content(i) = <<>> /\ Kept(i) = <<>>
    OBVIOUS
  <2>1. Content(i) = BytesOf(i) /\ Kept(i) = KeptOf(i)
    BY <1>1, ContentIs DEF OpenInv
  <2>2. disk.ino[i].size = 0
    BY DEF Init, NoInode
  <2> QED
    BY <2>1, <2>2 DEF BytesOf, KeptOf
<1>3. \A f \in Files : OpenOf(f) = [ip |-> 0, off |-> 0]
  BY DEF Init, NoFile, OpenOf
<1>4. /\ [i \in Inodes |-> Content(i)] = [i \in Inodes |-> <<>>]
      /\ [i \in Inodes |-> Kept(i)] = [i \in Inodes |-> Content(i)]
  BY <1>2
<1>5. [f \in Files |-> OpenOf(f)] = [f \in Files |-> [ip |-> 0, off |-> 0]]
  BY <1>3
<1> QED
  BY <1>4, <1>5 DEF Bytes!Init, Bytes!Closed, OpenOf
=============================================================================
