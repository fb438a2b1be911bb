------------------------------ MODULE MCTransfer ------------------------------
(***************************************************************************)
(* Transfer for TLC, with the abstract specifications it implements.  The  *)
(* constants are given their values in MCTransfer_*.cfg.                   *)
(***************************************************************************)
EXTENDS Transfer

\* rcopy's output file is a FileCopy, closed when the EOF is acknowledged.
Copy == INSTANCE FileCopy WITH
          FileLength <- FileChunks,
          copy       <- outFile,
          closed     <- (transferState = "DONE")

\* The child's ring is a SendWindow while send_data_state and its successors
\* run; when the child ends, what it still holds is given up.
ChildServes == sequenceNum > 0 /\ childState \notin {"EXITED", "CRASHED"}

Window == INSTANCE SendWindow WITH
            Size <- ServerWindow,
            open <- ChildServes,
            next <- sequenceNum,
            held <- IF ChildServes THEN Outstanding(window) ELSE {}

\* However often datagrams are lost, repeated, late or out of order, what
\* rcopy writes is a growing prefix of the file and nothing after the close.
CopyIsPrefix == Copy!PrefixSpec

\* Without losses, rcopy closes the file with every chunk in it.
CopyIsWhole == Copy!WholeSpec

\* insert, the removal loop and the count of the ring together are a sliding
\* window, whatever arrives at the child.
RingIsSendWindow == Window!WindowSpec
===============================================================================
