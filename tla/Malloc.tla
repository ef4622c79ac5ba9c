------------------------------- MODULE Malloc -------------------------------
(***************************************************************************)
(* The user allocator (user/umalloc.c): blocks with a header in a doubly     *)
(* linked list, the free ones in a second list, three ways to choose one.    *)
(*                                                                          *)
(* Addresses are numbers.  The header of a block is a record at its address; *)
(* the program that calls malloc() and free() frees only what it holds and   *)
(* stays inside the bytes it asked for.                                      *)
(***************************************************************************)
EXTENDS Integers, Sequences, FiniteSets, FiniteSetsExt, SequencesExt

CONSTANTS
  PageSize,   \* PAGE_SZ, what sbrk() is asked for
  Requests,   \* what the program asks for
  MaxHeap,    \* bound: end of the heap
  Width       \* of the unsigned numbers

NULL == 0
Header == 32        \* sizeof(struct mem_block)
MinBlock == 48      \* MIN_BLOCK_SZ, sizeof(struct free_block)
Start == 16         \* address of the first region
Strategies == 0..2  \* FIRST_FIT, BEST_FIT, WORST_FIT

MallocAssumption ==
  /\ PageSize % 16 = 0 /\ PageSize > MinBlock
  /\ Requests \subseteq 1..PageSize - Header
  /\ Width > 2 * MaxHeap

VARIABLES
  heap,   \* the headers, and the heads and tails of the two lists
  brk,    \* end of the heap
  fsm,    \* the strategy
  held    \* what the program holds: address of the block, bytes asked for

mvars == <<heap, brk, fsm, held>>

NoBlock == [size |-> 0, next |-> NULL, prev |-> NULL, fnext |-> NULL, fprev |-> NULL]

Init ==
  /\ heap = [at |-> [b \in {} |-> NoBlock], head |-> NULL, tail |-> NULL,
             fhead |-> NULL, ftail |-> NULL]
  /\ brk = Start
  /\ fsm = 0
  /\ held = {}

-----------------------------------------------------------------------------
(* The lists.                                                               *)
AddBlock(H, b) ==
  IF H.head = NULL THEN [H EXCEPT !.head = b, !.tail = b]
  ELSE [H EXCEPT !.at[H.tail].next = b, !.at[b].prev = H.tail, !.at[b].next = NULL, !.tail = b]

AddFree(H, b) ==
  IF H.fhead = NULL
  THEN [H EXCEPT !.fhead = b, !.ftail = b, !.at[b].fnext = NULL, !.at[b].fprev = NULL]
  ELSE [H EXCEPT !.at[H.ftail].fnext = b, !.at[b].fprev = H.ftail, !.at[b].fnext = NULL,
                 !.ftail = b]

\* Mutant: the tail is not moved back.
RemoveFreeKeepsTail(H, b) ==
  LET n == H.at[b].fnext
      p == H.at[b].fprev
      G == IF n # NULL THEN [H EXCEPT !.at[n].fprev = p] ELSE H IN
    [(IF p # NULL THEN [G EXCEPT !.at[p].fnext = n] ELSE G) EXCEPT
       !.fhead = IF @ = b THEN n ELSE @]
RemoveFree(H, b) ==
  LET n == H.at[b].fnext
      p == H.at[b].fprev
      G == IF n # NULL THEN [H EXCEPT !.at[n].fprev = p] ELSE H IN
    [(IF p # NULL THEN [G EXCEPT !.at[p].fnext = n] ELSE G) EXCEPT
       !.fhead = IF @ = b THEN n ELSE @, !.ftail = IF @ = b THEN p ELSE @]

IsFree(size) == size % 2 = 1
SetFree(size) == IF IsFree(size) THEN size ELSE size + 1
SetUsed(size) == IF IsFree(size) THEN size - 1 ELSE size + 1
RealSize(size) == size - (size % 2)
Align(n, a) == (n \div a) * a + (IF n % a # 0 THEN a ELSE 0)

InsertSplit(H, b, s) ==
  LET n == H.at[b].next
      G == [H EXCEPT !.at[b].next = s, !.at[s].prev = b, !.at[s].next = n] IN
    IF n # NULL THEN [G EXCEPT !.at[n].prev = s] ELSE G

\* The last n bytes of block b, which its list entry says has size bytes.
\* Mutant: the old block keeps its size.
SplitKeepsSize(H, b, size, n) ==
  LET s == b + size - n
      at == [x \in DOMAIN H.at \cup {s} |-> IF x = s THEN [NoBlock EXCEPT !.size = n] ELSE H.at[x]] IN
    InsertSplit([H EXCEPT !.at = [at EXCEPT ![b].size = SetFree(size)]], b, s)
Split(H, b, size, n) ==
  LET s == b + size - n
      at == [x \in DOMAIN H.at \cup {s} |-> IF x = s THEN [NoBlock EXCEPT !.size = n] ELSE H.at[x]] IN
    InsertSplit([H EXCEPT !.at = [at EXCEPT ![b].size = SetFree(size - n)]], b, s)

\* check_can_split(): the difference is unsigned, and a block that is exactly
\* large enough leaves 0, which is below MIN_BLOCK_SZ.
Total(n) == Align(Header + n, 16)
Safe(size, n) == (size - Total(n)) % Width >= MinBlock

-----------------------------------------------------------------------------
(* The three strategies go through the free list from its head.             *)
FreeList(H) ==
  LET Walk[k \in 0..Cardinality(DOMAIN H.at)] ==
        IF k = 0 THEN <<H.fhead>>
        ELSE LET w == Walk[k - 1] IN
               IF Last(w) = NULL THEN w ELSE Append(w, H.at[Last(w)].fnext)
      all == Walk[Cardinality(DOMAIN H.at)]
  IN IF Last(all) = NULL THEN Front(all) ELSE all

\* The first of the blocks that fit and are best; only first_fit() goes on
\* when check_can_split() says no.
Choice(H, n) ==
  LET list == FreeList(H)
      Size(k) == H.at[list[k]].size
      fits == {k \in DOMAIN list : Size(k) >= n /\ (fsm = 0 => Safe(Size(k), n))}
      Better(j, k) ==
        CASE fsm = 0 -> j < k
          [] fsm = 1 -> Size(j) < Size(k) \/ (Size(j) = Size(k) /\ j <= k)
          [] fsm = 2 -> Size(j) > Size(k) \/ (Size(j) = Size(k) /\ j <= k)
      best == {k \in fits : \A j \in fits \ {k} : Better(k, j)}
  IN IF fits = {} THEN NULL ELSE list[CHOOSE k \in best : TRUE]

\* A block of the free list, split or whole: then its links in the free list are
\* the program's bytes, and mean nothing (NULL).
Reuse(H, b, n) ==
  LET size == H.at[b].size
      whole == RemoveFree([H EXCEPT !.at[b].size = SetUsed(size)], b) IN
    IF Safe(size, n) THEN [heap |-> Split(H, b, size, Total(n)), block |-> b + size - Total(n)]
    ELSE [heap |-> [whole EXCEPT !.at[b].fnext = NULL, !.at[b].fprev = NULL], block |-> b]

\* A new region at the end of the heap, split if there is room for two.
Extend(H, n) ==
  LET size == Align(Total(n), PageSize)
      at == [x \in DOMAIN H.at \cup {brk} |-> IF x = brk THEN [NoBlock EXCEPT !.size = size] ELSE H.at[x]]
      G == AddBlock([H EXCEPT !.at = at], brk)
      S == Split(G, brk, size, Total(n)) IN
    IF Safe(size, n)
    THEN [heap |-> AddFree(S, brk), block |-> brk + size - Total(n), brk |-> brk + size]
    ELSE [heap |-> G, block |-> brk, brk |-> brk + size]

-----------------------------------------------------------------------------
Hold(b, n) == held' = held \cup {[block |-> b, n |-> n]}

MallocReuse(n) ==
  LET b == Choice(heap, n)
      r == Reuse(heap, b, n) IN
    /\ b # NULL
    /\ heap' = r.heap /\ Hold(r.block, n)
    /\ UNCHANGED <<brk, fsm>>

\* sbrk() that fails ends the program.
MallocExtend(n) ==
  LET r == Extend(heap, n) IN
    /\ Choice(heap, n) = NULL /\ brk + Align(Total(n), PageSize) <= MaxHeap
    /\ heap' = r.heap /\ Hold(r.block, n) /\ brk' = r.brk
    /\ UNCHANGED fsm

Free(h) ==
  /\ held' = held \ {h}
  /\ heap' = AddFree([heap EXCEPT !.at[h.block].size = SetFree(@)], h.block)
  /\ UNCHANGED <<brk, fsm>>

MallocSetfsm(choice) ==
  /\ fsm' = IF choice \in Strategies THEN choice ELSE 0
  /\ UNCHANGED <<heap, brk, held>>

Next ==
  \/ \E n \in Requests : MallocReuse(n) \/ MallocExtend(n)
  \/ \E h \in held : Free(h)
  \/ \E c \in Strategies : MallocSetfsm(c)

Spec == Init /\ [][Next]_mvars

-----------------------------------------------------------------------------
TypeOK ==
  /\ heap.at \in [DOMAIN heap.at -> [size : Nat, next : Nat, prev : Nat, fnext : Nat, fprev : Nat]]
  /\ {heap.head, heap.tail, heap.fhead, heap.ftail} \subseteq DOMAIN heap.at \cup {NULL}
  /\ fsm \in Strategies /\ \A h \in held : h.block \in DOMAIN heap.at

\* The free list holds each block with the free bit once, in both directions,
\* and nothing that the program holds.
FreeListExact ==
  LET list == FreeList(heap) IN
    /\ IsInjective(list)
    /\ ToSet(list) = {b \in DOMAIN heap.at : IsFree(heap.at[b].size)}
    /\ ToSet(list) \cap {h.block : h \in held} = {}
    /\ heap.ftail = IF list = <<>> THEN NULL ELSE Last(list)
    /\ \A k \in 2..Len(list) : heap.at[list[k]].fprev = list[k - 1]

\* No bytes are forgotten: a block begins where the sizes of those before it
\* say, or one byte later, as the free bit is in the size word from which the
\* second block of a page is split; and the sizes add up to the heap.
Sizes(S) == FoldSet(LAMBDA b, n : RealSize(heap.at[b].size) + n, 0, S)
Tiled ==
  /\ \A b \in DOMAIN heap.at : b - Start - Sizes({c \in DOMAIN heap.at : c < b}) \in {0, 1}
  /\ Sizes(DOMAIN heap.at) = brk - Start

\* umalloc.c:174: what the program holds is in the heap and overlaps nothing else
\* that it holds, and of the headers at most the first byte of a block's name,
\* which is where a block that begins one byte late ends.
Disjoint ==
  LET Payload(h) == (h.block + Header)..(h.block + Header + h.n - 1)
      Fields(b) == (b + 1)..(b + Header - 1) IN
    \A h \in held :
      /\ Payload(h) \subseteq Start..brk - 1
      /\ \A b \in DOMAIN heap.at : Payload(h) \cap Fields(b) = {}
      /\ \A g \in held \ {h} : Payload(h) \cap Payload(g) = {}
=============================================================================
