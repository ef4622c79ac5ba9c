------------------------------ MODULE FifoPipe ------------------------------
(***************************************************************************)
(* What a pipe promises: a bounded first-in first-out queue of bytes with    *)
(* two ends that are each closed at most once.  `taken' is the last byte     *)
(* removed, so that the order of the bytes is part of the promise.           *)
(***************************************************************************)
EXTENDS Naturals, Sequences

CONSTANTS Byte, Nothing, Capacity

VARIABLES queue, taken, readopen, writeopen

fvars == <<queue, taken, readopen, writeopen>>

FInit ==
  /\ queue = <<>>
  /\ taken = Nothing
  /\ readopen = TRUE
  /\ writeopen = TRUE

\* Bytes are accepted only while somebody may still read them.
FPut(c) ==
  /\ readopen /\ writeopen
  /\ Len(queue) < Capacity
  /\ queue' = Append(queue, c)
  /\ UNCHANGED <<taken, readopen, writeopen>>

FTake ==
  /\ readopen
  /\ queue # <<>>
  /\ taken' = Head(queue)
  /\ queue' = Tail(queue)
  /\ UNCHANGED <<readopen, writeopen>>

FCloseRead ==
  /\ readopen
  /\ readopen' = FALSE
  /\ UNCHANGED <<queue, taken, writeopen>>

FCloseWrite ==
  /\ writeopen
  /\ writeopen' = FALSE
  /\ UNCHANGED <<queue, taken, readopen>>

FNext == (\E c \in Byte : FPut(c)) \/ FTake \/ FCloseRead \/ FCloseWrite

FSpec == FInit /\ [][FNext]_fvars
=============================================================================
