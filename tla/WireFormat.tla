------------------------------ MODULE WireFormat ------------------------------
(***************************************************************************)
(* The PDUs that server and rcopy exchange, and the conversions between    *)
(* host and network byte order the programs perform on them.  A PDU is a   *)
(* 7-byte header (sequence number, checksum, flag) and a payload.  The     *)
(* checksum field is abstracted to `intact', which says that the field     *)
(* agrees with the rest of the PDU; the one place where the program looks  *)
(* at its value (the end-of-file acknowledgement) uses in_cksum below.     *)
(***************************************************************************)
EXTENDS PduFlags

CONSTANTS
  ByteBase,   \* values of one byte of the 16-bit window-size field (256 in
              \* the program; scaled down so that small windows swap too)
  WindowArg   \* argv[3] of rcopy: the window size the user asks for

ASSUME ByteBaseAssumption == ByteBase \in Nat \ {0, 1}
\* rcopy's checkArgs() refuses a window size that is not positive.
ASSUME WindowArgAssumption == WindowArg \in Nat \ {0}

\* The flags of a file transfer.
DataFlags == {DATA, SREJ_DATA, TIMEOUT_DATA}
Flags     == DataFlags \cup {RR, SREJ, EOF, FILE_OK_ACK, EOF_ACK}

\* A NULL pointer, and the payload of a PDU that has none.
NULL == 0
\* A payload in which the network changed a bit.
Garbage == -1

\* What a PDU carries: chunk i of the file is represented by i itself.
PDU == [seq : Nat, flag : Nat, payload : Int, intact : BOOLEAN]

createPDU(sequenceNumber, flag, payload) ==
  [seq |-> sequenceNumber, flag |-> flag, payload |-> payload, intact |-> TRUE]

-------------------------------------------------------------------------------
\* htons() and ntohs() on the little-endian machines the program is built for:
\* both truncate to 16 bits and exchange the two bytes.
htons(n) == ((n % ByteBase) * ByteBase) + ((n \div ByteBase) % ByteBase)

\* The window the child process ends up with.  rcopy sends htons(WindowArg);
\* filename_state first stores ntohs() of the field and then, before it
\* returns, overwrites it with the field as it came off the wire.
ServerWindow == htons(WindowArg)

-------------------------------------------------------------------------------
\* in_cksum() of a PDU without payload whose checksum field is zero: the
\* complemented one's-complement sum of its little-endian 16-bit words, the
\* odd last byte being the flag.
SeqByte(seq, unit) == (seq \div unit) % 256

in_cksum(seq, flag) ==
  LET sum   == SeqByte(seq, 16777216) + 256 * SeqByte(seq, 65536)
             + SeqByte(seq, 256) + 256 * SeqByte(seq, 1) + flag
      fold1 == (sum \div 65536) + (sum % 65536)
      fold2 == fold1 + (fold1 \div 65536)
  IN  65535 - (fold2 % 65536)

SwapBytes(w) == (w % 256) * 256 + (w \div 256)

\* The server's checksum test of a PDU without payload.  createPDU() stores the
\* checksum in host order, wait_on_eof_ack_state() applies ntohs() to the field
\* before it compares.
ChecksumAccepted(m) ==
  /\ m.intact
  /\ SwapBytes(in_cksum(m.seq, m.flag)) = in_cksum(m.seq, m.flag)
===============================================================================
