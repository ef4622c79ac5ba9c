------------------------------- MODULE MCLog -------------------------------
(* Instances of Log for TLC.                                                *)
EXTENDS Log, TLC

\* Contents, processes and blocks are interchangeable.
Sym == Permutations(Proc) \cup Permutations(Block) \cup Permutations(Val)

\* The buffer cache never disagrees with the log: a block is pinned exactly while the
\* log has it and its home does not, and between transactions all is at home.
CacheExact == RefcntExact /\ QuiescentDurable
=============================================================================
