------------------------------- MODULE FileCopy -------------------------------
(***************************************************************************)
(* What a file copy promises, whatever carries the data: the copy is at    *)
(* all times the beginning of the file, it only grows, and once closed it  *)
(* does not change.  PrefixSpec lets the copy be closed too early;         *)
(* WholeSafety does not, and with the fairness of WholeSpec the copy is    *)
(* closed in the end.                                                      *)
(***************************************************************************)
EXTENDS Naturals, Sequences

CONSTANT FileLength   \* the number of chunks; chunk i is represented by i

VARIABLES copy, closed

copyVars == <<copy, closed>>

FirstChunks(n) == [i \in 1..n |-> i]

CopyInit == copy = <<>> /\ closed = FALSE

\* Some more chunks are written.
Write ==
  /\ ~closed
  /\ \E n \in (Len(copy) + 1)..FileLength : copy' = FirstChunks(n)
  /\ UNCHANGED closed

\* What is known is written, and the copy is closed.
Close ==
  /\ ~closed
  /\ \E n \in Len(copy)..FileLength : copy' = FirstChunks(n)
  /\ closed' = TRUE

CloseWhole == Close /\ copy' = FirstChunks(FileLength)

PrefixSpec == CopyInit /\ [][Write \/ Close]_copyVars

WholeSafety == CopyInit /\ [][Write \/ CloseWhole]_copyVars

WholeSpec == WholeSafety /\ WF_copyVars(CloseWhole)
===============================================================================
