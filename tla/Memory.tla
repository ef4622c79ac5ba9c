------------------------------- MODULE Memory -------------------------------
(***************************************************************************)
(* Physical pages and page tables (kernel/kalloc.c, kernel/vm.c) and the     *)
(* calls that build and free them: fork(), exec(), sbrk(), exit() with       *)
(* wait(), and getcwd()'s buffer.                                            *)
(*                                                                          *)
(* Pages are counted, not named: a page is owned by the slot whose table,    *)
(* mapping or trapframe it is.  A call is a step.  Other CPUs allocate       *)
(* meanwhile, so its budget is any number of pages up to the free ones, and  *)
(* kalloc() fails when it is spent.  Sizes are in halves of a page, so that  *)
(* they need not be aligned.                                                 *)
(***************************************************************************)
EXTENDS Integers, Sequences, SequencesExt, FiniteSets, FiniteSetsExt

CONSTANTS
  Slots,     \* the process table; 1 is init
  Pages,     \* physical pages
  Fan,       \* entries of a page-table page
  MaxSz,     \* bound: a process's size, far below the trapframe as in practice
  Images,    \* the programs: the ends of their segments
  Grows,     \* what sbrk() is asked for
  MaxArgs    \* bound: arguments of exec()

VARIABLES
  free,      \* the length of kmem.freelist
  proc,      \* each slot: live, trapframe, has, pt, sz
  lost,      \* history: pages that nobody frees any more
  panicked,  \* the panic, if any
  failed     \* history: the last call returned an error

vars == <<free, proc, lost, panicked, failed>>

PGSIZE == 2
PGROUNDUP(sz) == ((sz + PGSIZE - 1) \div PGSIZE) * PGSIZE
Vpns == 0..Fan * Fan * Fan - 1
TRAMPOLINE == Fan * Fan * Fan - 1
TRAPFRAME == TRAMPOLINE - 1
\* The table pages of a virtual page: root, level 1, level 0.
Tables(v) == {<<>>, <<v \div (Fan * Fan)>>, <<v \div (Fan * Fan), (v \div Fan) % Fan>>}

\* A page table: its pages, and what each virtual page is mapped to: nothing,
\* a page of the kernel, a page of the user, or the guard page (no PTE_U).
NoTable == [tab |-> {}, map |-> [v \in Vpns |-> "none"]]
Unused == [live |-> FALSE, trapframe |-> FALSE, pt |-> NoTable, sz |-> 0]
Owned(p) ==
  (IF proc[p].trapframe THEN 1 ELSE 0) + Cardinality(proc[p].pt.tab)
    + Cardinality({v \in Vpns : proc[p].pt.map[v] \in {"user", "guard"}})

-----------------------------------------------------------------------------
(* A call in progress: its page table, the pages it may still allocate, the  *)
(* pages it has allocated and not freed, and what has gone wrong.            *)
Begin(pt, budget) == [pt |-> pt, left |-> budget, used |-> 0, ok |-> TRUE, panic |-> ""]
Going(m) == m.ok /\ m.panic = ""
Panic(m, msg) == IF m.panic = "" THEN [m EXCEPT !.panic = msg] ELSE m

Kalloc(m, n) ==
  IF n <= m.left THEN [m EXCEPT !.left = @ - n, !.used = @ + n]
  ELSE [m EXCEPT !.left = 0, !.used = @ + m.left, !.ok = FALSE]
Kfree(m, n) == [m EXCEPT !.used = @ - n]

\* walk(alloc = 1): the missing pages from the top, as far as memory goes;
\* those it has linked stay.
Walk(m, v) ==
  LET missing == Tables(v) \ m.pt.tab
      w == Kalloc(m, Cardinality(missing))
      got == w.used - m.used IN
    [w EXCEPT !.pt.tab = @ \cup {t \in missing : Len(t) < 3 - Cardinality(missing) + got}]

Mappage(m, v, what) ==
  LET w == Walk(m, v) IN
    IF ~w.ok THEN w
    ELSE IF w.pt.map[v] # "none" THEN Panic(w, "mappages: remap")
    ELSE [w EXCEPT !.pt.map[v] = what]

\* uvmunmap() of virtual pages vs.
Unmap(m, vs, do_free) ==
  IF \E v \in vs : ~(Tables(v) \subseteq m.pt.tab) THEN Panic(m, "uvmunmap: walk")
  ELSE IF \E v \in vs : m.pt.map[v] = "none" THEN Panic(m, "uvmunmap: not mapped")
  ELSE [m EXCEPT !.pt.map = [v \in Vpns |-> IF v \in vs THEN "none" ELSE @[v]],
                 !.used = IF do_free THEN @ - Cardinality(vs) ELSE @]

UserPages(lo, hi) == {v \in Vpns : lo <= v * PGSIZE /\ v * PGSIZE < hi}

\* Mutant: the page that newsz is in goes too.
KeptDown(newsz) == (newsz \div PGSIZE) * PGSIZE
Kept(newsz) == PGROUNDUP(newsz)
Uvmdealloc(m, oldsz, newsz) ==
  IF newsz >= oldsz THEN m ELSE Unmap(m, UserPages(Kept(newsz), PGROUNDUP(oldsz)), TRUE)

\* One page of uvmalloc(); when memory is short the pages of this call go.
\* Mutant: a page that could not be mapped is forgotten.
AllocPageLoses(m, v, oldsz) ==
  LET k == Kalloc(m, 1) w == Mappage(k, v, "user") IN
    IF ~k.ok THEN Uvmdealloc(k, v * PGSIZE, oldsz)
    ELSE IF ~w.ok THEN Uvmdealloc(w, v * PGSIZE, oldsz)
    ELSE w
\* Mutant: the pages before it stay.
AllocPageKeeps(m, v, oldsz) ==
  LET k == Kalloc(m, 1) w == Mappage(k, v, "user") IN
    IF ~k.ok THEN k ELSE IF ~w.ok THEN Kfree(w, 1) ELSE w
AllocPage(m, v, oldsz) ==
  LET k == Kalloc(m, 1) w == Mappage(k, v, "user") IN
    IF ~k.ok THEN Uvmdealloc(k, v * PGSIZE, oldsz)
    ELSE IF ~w.ok THEN Uvmdealloc(Kfree(w, 1), v * PGSIZE, oldsz)
    ELSE w
Uvmalloc(m, oldsz, newsz) ==
  FoldLeft(LAMBDA n, v : IF Going(n) THEN AllocPage(n, v, PGROUNDUP(oldsz)) ELSE n, m,
           SetToSortSeq(UserPages(PGROUNDUP(oldsz), newsz), <))

Freewalk(m) ==
  IF \E v \in Vpns : m.pt.map[v] # "none" THEN Panic(m, "freewalk: leaf")
  ELSE [m EXCEPT !.pt = NoTable, !.used = @ - Cardinality(m.pt.tab)]
Uvmfree(m, sz) == Freewalk(IF sz > 0 THEN Unmap(m, UserPages(0, PGROUNDUP(sz)), TRUE) ELSE m)

ProcFreepagetable(m, sz) ==
  Uvmfree(Unmap(Unmap(m, {TRAMPOLINE}, FALSE), {TRAPFRAME}, FALSE), sz)

\* proc_pagetable() on a new table.
ProcPagetable(m) ==
  LET root == Kalloc(m, 1)
      a == Mappage([root EXCEPT !.pt.tab = {<<>>}], TRAMPOLINE, "kernel")
      b == Mappage(a, TRAPFRAME, "kernel") IN
    IF ~root.ok THEN root
    ELSE IF ~a.ok THEN Uvmfree(a, 0)
    ELSE IF ~b.ok THEN Uvmfree(Unmap(b, {TRAMPOLINE}, FALSE), 0)
    ELSE b

\* uvmcopy(): each page is mapped as it is in the parent.
CopyPage(m, v, kind) ==
  LET k == Kalloc(m, 1) w == Mappage(k, v, kind) IN
    IF ~k.ok THEN Unmap(k, UserPages(0, v * PGSIZE), TRUE)
    ELSE IF ~w.ok THEN Unmap(Kfree(w, 1), UserPages(0, v * PGSIZE), TRUE)
    ELSE w
Uvmcopy(m, old, sz) ==
  IF \E v \in UserPages(0, sz) : old.map[v] = "none" THEN Panic(m, "uvmcopy: page not present")
  ELSE FoldLeft(LAMBDA n, v : IF Going(n) THEN CopyPage(n, v, old.map[v]) ELSE n, m,
                SetToSortSeq(UserPages(0, sz), <))

-----------------------------------------------------------------------------
\* The call of slot p ends with m, and leaves the slot as given.
Finish(m, p, slot, fail) ==
  /\ free' = free - m.used
  /\ proc' = IF m.panic = "" THEN [proc EXCEPT ![p] = slot] ELSE proc
  /\ panicked' = m.panic
  /\ failed' = fail
  /\ UNCHANGED lost

\* allocproc() and the memory part of fork().  A failure frees the slot, whose
\* size is not set yet.
\* Mutant: the child's size is set before the copy.
ForkFreesSz(sz) == sz
ForkFrees(sz) == 0
Fork(p, c, budget) ==
  /\ proc[p].live /\ proc[c] = Unused
  /\ \E frame \in {Kalloc(Begin(NoTable, budget), 1)} :
     \E table \in {ProcPagetable(frame)} :
     \E copy \in {Uvmcopy(table, proc[p].pt, proc[p].sz)} :
     \E end \in {IF ~frame.ok THEN frame
                ELSE IF ~table.ok THEN Kfree(table, 1)
                ELSE IF ~copy.ok THEN Kfree(ProcFreepagetable(copy, ForkFrees(proc[p].sz)), 1)
                ELSE copy} :
       Finish(end, c, IF end.ok THEN [live |-> TRUE, trapframe |-> TRUE, pt |-> end.pt, sz |-> proc[p].sz]
                      ELSE Unused, ~end.ok)

\* The loop over the segments: the size and the table so far.  uvmalloc()
\* returns the old size when a segment ends below it, and 0 is a failure.
Segment(l, end) ==
  LET m == IF end < l.sz THEN l.m ELSE Uvmalloc(l.m, l.sz, end)
      sz == IF ~m.ok THEN 0 ELSE IF end < l.sz THEN l.sz ELSE end IN
    IF l.bad THEN l ELSE IF sz = 0 THEN [l EXCEPT !.m = m, !.bad = TRUE] ELSE [l EXCEPT !.m = m, !.sz = sz]
\* sys_exec() and exec().  refused: the file is no program (nothing has been
\* allocated), a read fails after the segments, or the arguments do not fit.
Exec(p, image, args, refused, budget) ==
  /\ proc[p].live
  /\ \E argv \in {Kalloc(Begin(NoTable, budget), args)} :
     \E table \in {ProcPagetable(argv)} :
     \E load \in {FoldLeft(Segment, [m |-> table, sz |-> 0, bad |-> FALSE], image)} :
     \E base \in {PGROUNDUP(load.sz)} :
     \E stack \in {Uvmalloc(load.m, base, base + 2 * PGSIZE)} :
     \E sz \in {IF stack.ok THEN base + 2 * PGSIZE ELSE base} :
     \E guard \in {IF stack.ok THEN [stack EXCEPT !.pt.map[base \div PGSIZE] = "guard"] ELSE stack} :
       LET old == ProcFreepagetable([guard EXCEPT !.pt = proc[p].pt], proc[p].sz)
           Bad(m) == Finish(Kfree(m, argv.used), p, proc[p], TRUE) IN
         IF ~argv.ok \/ refused = "magic" THEN Bad(argv)
         ELSE IF ~table.ok THEN Bad(table)
         ELSE IF load.bad \/ refused = "read" THEN Bad(ProcFreepagetable(load.m, load.sz))
         ELSE IF ~stack.ok \/ refused = "args" THEN Bad(ProcFreepagetable(guard, sz))
         ELSE Finish(Kfree(old, argv.used), p, [proc[p] EXCEPT !.pt = guard.pt, !.sz = sz], FALSE)

\* growproc(n): a size below 0 wraps, so that nothing is freed.
Sbrk(p, n, budget) ==
  LET sz == proc[p].sz
      new == sz + n
      m == IF n > 0 THEN Uvmalloc(Begin(proc[p].pt, budget), sz, new)
           ELSE IF new < 0 THEN Begin(proc[p].pt, budget)
           ELSE Uvmdealloc(Begin(proc[p].pt, budget), sz, new) IN
    /\ proc[p].live /\ new <= MaxSz
    /\ Finish(m, p, [proc[p] EXCEPT !.pt = m.pt, !.sz = IF ~m.ok \/ new < 0 THEN sz ELSE new], ~m.ok)

\* exit() of p and freeproc() by the parent's wait().
ExitWait(p) ==
  LET m == ProcFreepagetable(Begin(proc[p].pt, 0), proc[p].sz) IN
    /\ proc[p].live /\ p # 1
    /\ Finish(Kfree(m, 1), p, Unused, FALSE)

\* sys_getcwd(): how a call ends.  The size is signed for its test and unsigned
\* in getcwd(), so a negative one passes and the write is outside of memory, or,
\* in the root, which returns before it, the copy out runs until it fails.
\* Without a page the copy reads address 0, and kfree() is given 0.
GetcwdEnds(budget, size) ==
  IF size = "zero" THEN {IF budget > 0 THEN "copied" ELSE "kfree of 0"}
  ELSE {"refused", IF budget > 0 /\ size = "positive" THEN "copied" ELSE "kerneltrap"}
\* The page is freed when it has been copied out, and only then.
Getcwd(p, size, end, budget) ==
  LET page == IF budget > 0 /\ end = "refused" THEN 1 ELSE 0 IN
    /\ proc[p].live
    /\ lost' = lost + page
    /\ free' = free - page
    /\ panicked' = IF end \in {"copied", "refused"} THEN "" ELSE end
    /\ failed' = (end = "refused")
    /\ UNCHANGED proc

-----------------------------------------------------------------------------
\* userinit(): init with one page.
Init ==
  LET m == Mappage(Kalloc(ProcPagetable(Kalloc(Begin(NoTable, Pages), 1)), 1), 0, "user") IN
    /\ proc = [p \in Slots |-> IF p = 1 THEN [live |-> TRUE, trapframe |-> TRUE, pt |-> m.pt, sz |-> PGSIZE]
                              ELSE Unused]
    /\ free = Pages - m.used
    /\ lost = 0 /\ panicked = "" /\ failed = FALSE

Next ==
  /\ panicked = ""
  /\ \E p \in Slots, budget \in 0..free :
       \/ \E c \in Slots : Fork(p, c, budget)
       \/ \E image \in Images, args \in 0..MaxArgs, refused \in {"no", "magic", "read", "args"} :
            Exec(p, image, args, refused, budget)
       \/ \E n \in Grows : Sbrk(p, n, budget)
       \/ ExitWait(p)
       \/ \E size \in {"negative", "zero", "positive"} :
            \E end \in GetcwdEnds(budget, size) : Getcwd(p, size, end, budget)

Spec == Init /\ [][Next]_vars

-----------------------------------------------------------------------------
TypeOK == free \in 0..Pages /\ \A p \in Slots : proc[p].sz \in 0..MaxSz

\* Every page is free or has one owner: no path, and no failure on it, frees a
\* page twice or forgets one, but for getcwd()'s.
Conserved == panicked = "" => free + lost + MapThenSumSet(Owned, Slots) = Pages

\* No page table is freed with pages in it, and none is unmapped or mapped
\* twice (vm.c:164, 188-192, 290, 323).  The panics are getcwd()'s, of a size
\* that is negative and of a page that there is not.
NoPanic == panicked \in {"", "kerneltrap", "kfree of 0"}

\* A process's user pages are those of its size, on whatever way it got there.
SizeExact == panicked = "" => \A p \in Slots : proc[p].live =>
  /\ {v \in Vpns : proc[p].pt.map[v] \in {"user", "guard"}} = UserPages(0, PGROUNDUP(proc[p].sz))
  /\ {v \in Vpns : proc[p].pt.map[v] = "kernel"} = {TRAMPOLINE, TRAPFRAME}

\* A call that fails leaves every process's memory as it was: exec() keeps the
\* old program, sbrk() the old size, fork() no child.
FailsClean == failed' => \A p \in Slots :
  <<proc'[p].live, proc'[p].sz, proc'[p].pt.map>> = <<proc[p].live, proc[p].sz, proc[p].pt.map>>
AllOrNothing == [][FailsClean]_vars

\* usertests.c:3067-3068: calls do not lose free pages.
NoPageLost == lost = 0
=============================================================================
