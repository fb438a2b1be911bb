--------------------------------- MODULE Codec ---------------------------------
(***************************************************************************)
(* PDUs as bytes, on the little-endian machines the program is built for.  *)
(* The models of the transfer abstract them (module WireFormat); DataPath  *)
(* checks that abstraction against these.                                  *)
(***************************************************************************)
EXTENDS PduFlags, Sequences, FiniteSetsExt

Byte == 0..255

\* Host to network order: the low bytes of n, high first.
Htonl(n) == <<(n \div 16777216) % 256, (n \div 65536) % 256, (n \div 256) % 256, n % 256>>
Htons(n) == <<(n \div 256) % 256, n % 256>>

\* ntohl() of four bytes, and a 16-bit field used as it came off the wire.
Ntohl(bytes) == 16777216 * bytes[1] + 65536 * bytes[2] + 256 * bytes[3] + bytes[4]
Word(bytes)  == bytes[1] + 256 * bytes[2]

\* The sum of the 16-bit words, low bytes first; an odd last byte is a word of
\* its own.
Weight(n) == IF n % 2 = 1 THEN 1 ELSE 256

WordSum(bytes) ==
  LET sum[n \in 0..Len(bytes)] ==
        IF n = 0 THEN 0 ELSE sum[n - 1] + Weight(n) * bytes[n]
  IN  sum[Len(bytes)]

\* in_cksum(): the carries are added to the sum, twice, and it is complemented.
Complement(sum) ==
  LET fold == (sum \div 65536) + (sum % 65536)
  IN  65535 - ((fold + (fold \div 65536)) % 65536)

in_cksum(bytes) == Complement(WordSum(bytes))

\* The header's checksum field, bytes 5 and 6, is written in host order.
WithChecksum(bytes, w) == [bytes EXCEPT ![5] = w % 256, ![6] = w \div 256]

\* Mutant: the checksum is taken of the header alone.
createPDU_HeaderOnly(sequenceNumber, flag, payload) ==
  LET zeroed == Htonl(sequenceNumber) \o <<0, 0, flag>> \o payload
  IN  WithChecksum(zeroed, in_cksum(SubSeq(zeroed, 1, 7)))

createPDU(sequenceNumber, flag, payload) ==
  LET zeroed == Htonl(sequenceNumber) \o <<0, 0, flag>> \o payload
  IN  WithChecksum(zeroed, in_cksum(zeroed))

\* What the receivers take out of a PDU.
SeqNum(pdu)  == Ntohl(SubSeq(pdu, 1, 4))
Flag(pdu)    == pdu[7]
Payload(pdu) == SubSeq(pdu, 8, Len(pdu))

\* printPDU()'s test.
ChecksumIsZero(pdu) == in_cksum(pdu) = 0

\* Mutant: the field is compared as it came.
EofAckChecksumValid_HostOrder(pdu) ==
  Word(SubSeq(pdu, 5, 6)) = in_cksum(WithChecksum(pdu, 0))

\* wait_on_eof_ack_state()'s test: ntohs() of the field, and the sum of a copy
\* whose field is zero.
EofAckChecksumValid(pdu) ==
  256 * pdu[5] + pdu[6] = in_cksum(WithChecksum(pdu, 0))

\* The datagrams that sendtoErr() can make of a PDU by flipping one bit.
OneBitFlips(pdu) ==
  {[pdu EXCEPT ![i] = IF (@ \div w) % 2 = 0 THEN @ + w ELSE @ - w] :
     i \in DOMAIN pdu, w \in {1, 2, 4, 8, 16, 32, 64, 128}}
===============================================================================
