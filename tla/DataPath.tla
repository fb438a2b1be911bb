------------------------------- MODULE DataPath --------------------------------
(***************************************************************************)
(* The bytes of a transfer, from the arguments on rcopy's command line and *)
(* the file on the server to rcopy's output file.  One datagram is on its  *)
(* way at a time and it is not lost: windows, acknowledgements, buffering  *)
(* and faults are module Transfer's, the exchange that opens the two files *)
(* is Handshake's.  Here the sizes in the request, the chunks read, the    *)
(* PDUs built and taken apart are what they are in the program, and only   *)
(* the two array sizes are scaled down.                                    *)
(***************************************************************************)
EXTENDS Codec

CONSTANTS
  MAXBUF,        \* the size of the payload array (1400 in the program)
  FILENAME_SIZE, \* the size of the child's filename array (100)
  WindowArgs,    \* the arguments of rcopy and the files on the server
  BufferArgs,
  Names,
  Files,
  MaxFlips       \* bound: how many requests have a bit flipped

ASSUME DataPathAssumption ==
  /\ {MAXBUF, FILENAME_SIZE} \subseteq Nat \ {0}
  /\ WindowArgs \subseteq Nat /\ BufferArgs \subseteq Nat
  /\ Names \subseteq Seq(Byte) /\ Files \subseteq Seq(Byte)
  /\ MaxFlips \in Nat

VARIABLES
  args,    \* rcopy's arguments, and the contents of the file they ask for
  wire,    \* the datagram on its way, <<>> if there is none
  flips,   \* how many requests were damaged
  server,  \* the child's state, ServerInfo, file position and last packet
  rcopy    \* rcopy's state, next number and output file

vars == <<args, wire, flips, server, rcopy>>

File == args.file
Name == args.name

\* rcopy's checkArgs, of the name and the window; it does not look at the
\* buffer size, and its tests of the other arguments do not matter here.
checkArgs(a) ==
  /\ a.window > 0 /\ a.window < 2^30
  /\ Len(a.name) <= FILENAME_SIZE

-------------------------------------------------------------------------------
\* wait_on_file_ok_state: the request, sent again until it is answered.
SendRequest ==
  /\ wire = <<>>
  /\ server.state = "FILENAME"
  /\ wire' = createPDU(0, FILENAME,
               Htons(args.window) \o Htons(args.buffer) \o Name)
  /\ UNCHANGED <<args, flips, server, rcopy>>

\* The only datagram whose damage is followed here: nobody verifies it.
FlipRequest ==
  /\ wire # <<>> /\ Flag(wire) = FILENAME
  /\ flips < MaxFlips
  /\ flips' = flips + 1
  /\ wire' \in OneBitFlips(wire)
  /\ UNCHANGED <<args, server, rcopy>>

\* filename_state: ntohs() of the two sizes is overwritten by the fields as
\* they came.  The terminator of a name of FILENAME_SIZE bytes is written past
\* the array, after which anything may happen.  Otherwise both files are opened
\* (module Handshake) and the transfer begins.
filename_state ==
  /\ server.state = "FILENAME" /\ wire # <<>>
  /\ wire' = <<>>
  /\ LET payload == Payload(wire)
         name    == SubSeq(payload, 5, Len(payload))
     IN  \/ /\ Flag(wire) = FILENAME /\ name = Name
            /\ server' = [server EXCEPT
                            !.state = "SEND_DATA",
                            !.windowSize = Word(SubSeq(payload, 1, 2)),
                            !.bufferSize = Word(SubSeq(payload, 3, 4))]
            /\ rcopy' = [rcopy EXCEPT !.state = "PROCESS_TRANSFER"]
         \/ /\ Flag(wire) = FILENAME /\ Len(name) >= FILENAME_SIZE
            /\ server' = [server EXCEPT !.state = "UNDEFINED"]
            /\ UNCHANGED rcopy
         \/ /\ Flag(wire) # FILENAME \/ name # Name   \* ignored, or refused
            /\ UNCHANGED <<server, rcopy>>
  /\ UNCHANGED <<args, flips>>

\* Mutant: the last byte of the file is taken for its end.
fread_DropsLast(size) ==
  SubSeq(File, server.offset + 1, Min({server.offset + size, Len(File) - 1}))

\* fread(payload, 1, size, file)
fread(size) ==
  SubSeq(File, server.offset + 1, Min({server.offset + size, Len(File)}))

\* One round of send_data_state's inner loop; a window of zero is always full.
\* What does not fit the payload array is written past it.
SendChunk ==
  /\ server.state = "SEND_DATA" /\ wire = <<>>
  /\ server.windowSize > 0
  /\ LET payload == fread(server.bufferSize)
         pdu     == createPDU(server.sequenceNum, DATA, payload)
         eof     == createPDU(server.sequenceNum, EOF, <<>>)
     IN  \/ /\ payload # <<>> /\ Len(payload) <= MAXBUF
            /\ wire' = pdu
            /\ server' = [server EXCEPT !.offset = @ + Len(payload),
                                        !.sequenceNum = @ + 1,
                                        !.packet = pdu]
         \/ /\ Len(payload) > MAXBUF
            /\ wire' = <<>>
            /\ server' = [server EXCEPT !.state = "UNDEFINED"]
         \/ /\ payload = <<>>
            /\ wire' = eof
            /\ server' = [server EXCEPT !.state = "WAIT_ON_EOF_ACK"]
  /\ UNCHANGED <<args, flips, rcopy>>

\* Mutant: the stored header is sent as part of the payload.
Resent_WithHeader(packet, flag) == createPDU(SeqNum(packet), flag, packet)

\* The number and the payload come from the PDU that the window holds.
Resent(packet, flag) == createPDU(SeqNum(packet), flag, Payload(packet))

\* After an SREJ or a timeout.
ResendChunk ==
  /\ server.state = "SEND_DATA" /\ wire = <<>>
  /\ server.packet # <<>>
  /\ \E flag \in {SREJ_DATA, TIMEOUT_DATA} : wire' = Resent(server.packet, flag)
  /\ UNCHANGED <<args, flips, server, rcopy>>

\* process_transfer_state, for a packet that is in order or old.
RecvData ==
  /\ rcopy.state = "PROCESS_TRANSFER" /\ wire # <<>>
  /\ Flag(wire) \in {DATA, SREJ_DATA, TIMEOUT_DATA}
  /\ wire' = <<>>
  /\ rcopy' = IF SeqNum(wire) = rcopy.expected
              THEN [rcopy EXCEPT !.expected = @ + 1,
                                 !.outFile = @ \o Payload(wire)]
              ELSE rcopy
  /\ UNCHANGED <<args, flips, server>>

\* The end of file, and send_eof_ack_state.
RecvEof ==
  /\ rcopy.state = "PROCESS_TRANSFER" /\ wire # <<>> /\ Flag(wire) = EOF
  /\ wire' = createPDU(SeqNum(wire), EOF_ACK, <<>>)
  /\ rcopy' = [rcopy EXCEPT !.state = "DONE"]
  /\ UNCHANGED <<args, flips, server>>

\* wait_on_eof_ack_state; without a valid acknowledgement the child goes on
\* waiting until it has sent its EOF often enough (module Server).
RecvEofAck ==
  /\ server.state = "WAIT_ON_EOF_ACK" /\ wire # <<>> /\ Flag(wire) = EOF_ACK
  /\ wire' = <<>>
  /\ server' = [server EXCEPT !.state =
       IF SeqNum(wire) = server.sequenceNum /\ EofAckChecksumValid(wire)
       THEN "DONE" ELSE @]
  /\ UNCHANGED <<args, flips, rcopy>>

Init ==
  /\ args \in {a \in [window : WindowArgs, buffer : BufferArgs,
                      name : Names, file : Files] : checkArgs(a)}
  /\ wire = <<>>
  /\ flips = 0
  /\ server = [state |-> "FILENAME", windowSize |-> 0, bufferSize |-> 0,
               offset |-> 0, sequenceNum |-> 1, packet |-> <<>>]
  /\ rcopy = [state |-> "WAIT_ON_FILE_OK", expected |-> 1, outFile |-> <<>>]

Next ==
  \/ SendRequest \/ FlipRequest \/ filename_state \/ SendChunk \/ ResendChunk
  \/ RecvData    \/ RecvEof     \/ RecvEofAck

Spec == Init /\ [][Next]_vars

-------------------------------------------------------------------------------
(***************************************************************************)
(* Properties.                                                             *)
(***************************************************************************)
Abstract == INSTANCE WireFormat WITH ByteBase <- 256, WindowArg <- 1

\* Whatever chunk size the child works with, swapped as it always is or from a
\* damaged request, the payloads put together are the file; only a size of
\* zero makes rcopy close an empty one.
WholeFileCopied ==
  rcopy.state = "DONE" =>
    rcopy.outFile = IF server.bufferSize = 0 THEN <<>> ELSE File

\* A data packet, sent for the first time or again, carries the bytes of its
\* number: what the models of the transfer call chunk i of the file.
ChunkOfItsNumber ==
  wire # <<>> /\ Flag(wire) \in {DATA, SREJ_DATA, TIMEOUT_DATA} =>
    LET n    == SeqNum(wire)
        size == server.bufferSize
    IN  Payload(wire) = SubSeq(File, (n - 1) * size + 1, Min({n * size, Len(File)}))

\* The checksum of createPDU() tells every PDU of the two programs, of odd
\* or even length, from each of those one flipped bit can make of it.
ChecksumFindsFlip ==
  wire # <<>> /\ flips = 0 =>
    /\ ChecksumIsZero(wire)
    /\ \A bad \in OneBitFlips(wire) : ~ChecksumIsZero(bad)

\* Module WireFormat's summary of the bytes is exact: the window the child
\* works with, and which EOF acknowledgements pass its test, namely none that
\* was damaged and of the others those with a number of 35 modulo 257.
WireFormatIsExact ==
  /\ flips = 0 /\ server.state = "SEND_DATA" =>
       server.windowSize = Abstract!htons(args.window)
  /\ wire # <<>> /\ Flag(wire) = EOF_ACK =>
       LET accepted == EofAckChecksumValid(wire)
       IN  /\ accepted <=> Abstract!ChecksumAccepted(
                             Abstract!createPDU(SeqNum(wire), EOF_ACK, Abstract!NULL))
           /\ accepted <=> SeqNum(wire) % 257 = 35
           /\ \A bad \in OneBitFlips(wire) : ~EofAckChecksumValid(bad)

\* A chunk has the size that was asked for, unless it is what is left.
FixedSizePackets ==
  server.state = "SEND_DATA" /\ flips = 0 /\ args.buffer \in 1..MAXBUF =>
    Len(fread(server.bufferSize)) = Min({args.buffer, Len(File) - server.offset})
===============================================================================
