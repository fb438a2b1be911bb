------------------------------- MODULE PduFlags -------------------------------
(***************************************************************************)
(* The flag byte of every PDU.  The program writes these as literals.      *)
(***************************************************************************)
EXTENDS Integers

RR           == 5    \* receiver ready: everything below seq was received
SREJ         == 6    \* selective reject: seq is missing
FILENAME     == 8    \* rcopy's request for a file
FILE_OK      == 9    \* the child opened the file
EOF          == 10   \* end of file
DATA         == 16   \* a data packet, first transmission
SREJ_DATA    == 17   \* a data packet, retransmitted on SREJ
TIMEOUT_DATA == 18   \* a data packet, retransmitted on a timeout
FILE_ERROR   == 33   \* the child cannot open the file
FILE_OK_ACK  == 34   \* rcopy opened its output file
EOF_ACK      == 35   \* rcopy received the end of file
===============================================================================
