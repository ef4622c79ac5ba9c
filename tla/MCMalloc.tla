------------------------------ MODULE MCMalloc ------------------------------
(* Malloc with pages that hold a few blocks; the constants are in the .cfg    *)
(* file.                                                                     *)
EXTENDS Malloc
=============================================================================
