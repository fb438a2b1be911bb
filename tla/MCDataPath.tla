------------------------------ MODULE MCDataPath -------------------------------
(***************************************************************************)
(* The instance of DataPath that TLC checks: names and files of a few      *)
(* lengths.                                                                *)
(***************************************************************************)
EXTENDS DataPath

CONSTANTS NameLengths, FileLengths

\* Some bytes, with carries in their checksum.
Bytes(n) == [i \in 1..n |-> (85 * i) % 256]

MCNames == {Bytes(n) : n \in NameLengths}
MCFiles == {Bytes(n) : n \in FileLengths}
===============================================================================
