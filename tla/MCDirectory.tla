---------------------------- MODULE MCDirectory ----------------------------
(* Directory with two processes and a few short paths.                     *)
EXTENDS Directory, TLC
CONSTANTS a, b, p1, p2
Symmetry == Permutations(Procs)
MCNames == {a, b}
To(es) == [abs |-> TRUE, elems |-> es]
Rel(es) == [abs |-> FALSE, elems |-> es]
Call(k, path) == [kind |-> k, path |-> path, new |-> To(<<>>), write |-> FALSE]
LinkCall(path, new) == [Call("link", path) EXCEPT !.new = new]

\* One directory and a file in it and next to it.
Flat ==
  {Call("mkdir", To(<<a>>)), Call("create", To(<<a>>)), Call("mknod", To(<<a, b>>)),
   LinkCall(To(<<a>>), To(<<b>>)), Call("unlink", To(<<a>>)), Call("unlink", Rel(<<b>>)),
   Call("chdir", To(<<a>>)), [Call("open", To(<<a>>)) EXCEPT !.write = TRUE]}
\* Directories in directories, and the way up.
Nested ==
  {Call("mkdir", To(<<a>>)), Call("mkdir", To(<<a, b>>)), Call("chdir", To(<<a, b>>)),
   Call("unlink", To(<<a, b>>)), Call("unlink", To(<<a>>)), Call("open", Rel(<<"..">>))}

\* No order of calls runs into a panic of the inode layer or into a circle of
\* processes that wait for each other's locks.
NeverStuck == NoPanic /\ NoDeadlock

\* A reference count is the number of holders, who hold inodes that are allocated and
\* see, with the lock free, what is on the disk.
RefsExact == RefExact /\ CopyExact /\ OpenAllocated

\* A name leads to an inode that counts it, each directory has one name and the way
\* up from it leads back, and between calls every link count is exact.
NamesExact == LinksCover /\ TreeShape /\ LinksExact
=============================================================================
