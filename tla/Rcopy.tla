-------------------------------- MODULE Rcopy ---------------------------------
(***************************************************************************)
(* rcopy.c: the client from the moment it has sent the file-OK             *)
(* acknowledgement (wait_on_file_ok_state returned WAIT_ON_DATA): the      *)
(* receive loop of process_transfer_state, which blocks in recvfrom()      *)
(* without a timeout, and send_eof_ack_state.  No checksum is looked at.   *)
(***************************************************************************)
EXTENDS Network

VARIABLES
  transferState,  \* the TRANSFER_STATE, or DONE after send_eof_ack_state
  expected,       \* info->expected
  highest,        \* info->highest
  buffer,         \* info->buffer: the payloads of its valid entries, by slot
  outFile         \* the payloads written to info->outFile

rcopyVars == <<transferState, expected, highest, buffer, outFile>>

TransferStates == {"IN_ORDER", "OUT_OF_ORDER", "FLUSH", "DONE"}

Slot(seq) == seq % WindowArg

RcopyTypeOK ==
  /\ transferState \in TransferStates
  /\ expected \in Nat
  /\ highest \in Nat
  /\ DOMAIN buffer \subseteq 0..(WindowArg - 1)
  /\ buffer \in [DOMAIN buffer -> Int]
  /\ outFile \in Seq(Int)

\* wait_on_data_state
RcopyInit ==
  /\ transferState = "IN_ORDER"
  /\ expected = 1
  /\ highest = 0
  /\ buffer = <<>>
  /\ outFile = <<>>

-------------------------------------------------------------------------------
\* buffer_packet(): an entry that is valid already is left alone, whatever
\* packet it holds.
BufferWith(m) ==
  [i \in DOMAIN buffer \cup {Slot(m.seq)} |->
     IF i \in DOMAIN buffer THEN buffer[i] ELSE m.payload]

\* How many packets the flush loop writes: from `expected' on, as long as the
\* number is not above `highest' and its slot is valid (it clears the slots
\* as it goes, so it never comes round).
Flushable(n) == expected + n <= highest /\ Slot(expected + n) \in DOMAIN buffer

FlushCount ==
  CHOOSE n \in 0..WindowArg :
    /\ \A k \in 0..(n - 1) : Flushable(k)
    /\ n < WindowArg => ~Flushable(n)

\* Mutant: entry->valid is not reset.
FlushedSlots_LeftValid(n) == {}

FlushedSlots(n) == {Slot(expected + k) : k \in 0..(n - 1)}

\* The flush loop: write the packets, clear their entries, advance.
Flush(n) ==
  /\ expected' = expected + n
  /\ outFile' = outFile \o [k \in 1..n |-> buffer[Slot(expected + k - 1)]]
  /\ buffer' = [i \in DOMAIN buffer \ FlushedSlots(n) |-> buffer[i]]

\* Mutant: the counter is not advanced.
WriteExpected_NotCounted(m) ==
  /\ outFile' = Append(outFile, m.payload)
  /\ UNCHANGED <<expected, buffer>>

WriteExpected(m) ==
  /\ expected' = expected + 1
  /\ outFile' = Append(outFile, m.payload)
  /\ UNCHANGED buffer

BufferAhead(m) ==
  /\ buffer' = BufferWith(m)
  /\ highest' = IF m.seq > highest THEN m.seq ELSE highest
  /\ UNCHANGED <<expected, outFile>>

\* Mutant: the packet after the expected one is acknowledged.
send_rr_TooFar(next, paid) == SendToServer(createPDU(next + 1, RR, NULL), paid)

send_rr(next, paid)        == SendToServer(createPDU(next, RR, NULL), paid)
send_srej(missing, paid)   == SendToServer(createPDU(missing, SREJ, NULL), paid)
SendNothing(paid)          == Charge(paid) /\ UNCHANGED toServer

-------------------------------------------------------------------------------
\* The three cases of the switch on a data packet m.
InOrder(m, paid) ==
  /\ transferState = "IN_ORDER"
  /\ \/ /\ m.seq = expected
        /\ WriteExpected(m)
        /\ highest' = m.seq
        /\ send_rr(expected', paid)
        /\ UNCHANGED transferState
     \/ /\ m.seq > expected
        /\ BufferAhead(m)
        /\ send_srej(expected, paid)
        /\ transferState' = "OUT_OF_ORDER"
     \/ /\ m.seq < expected
        /\ SendNothing(paid)
        /\ UNCHANGED rcopyVars

\* Mutant: the missing packet ends the disorder without a flush.
OutOfOrder_NoFlush(m, paid) ==
  /\ transferState = "OUT_OF_ORDER"
  /\ \/ /\ m.seq = expected
        /\ WriteExpected(m)
        /\ send_rr(expected', paid)
        /\ transferState' = "IN_ORDER"
        /\ UNCHANGED highest
     \/ /\ m.seq > expected
        /\ BufferAhead(m)
        /\ SendNothing(paid)
        /\ UNCHANGED transferState
     \/ /\ m.seq < expected
        /\ SendNothing(paid)
        /\ UNCHANGED rcopyVars

OutOfOrder(m, paid) ==
  /\ transferState = "OUT_OF_ORDER"
  /\ \/ /\ m.seq = expected
        /\ WriteExpected(m)
        /\ send_rr(expected', paid)
        /\ transferState' = "FLUSH"
        /\ UNCHANGED highest
     \/ /\ m.seq > expected
        /\ BufferAhead(m)
        /\ SendNothing(paid)
        /\ UNCHANGED transferState
     \/ /\ m.seq < expected
        /\ SendNothing(paid)
        /\ UNCHANGED rcopyVars

\* The packet that wakes this state up is itself not looked at.
FlushState(paid) ==
  /\ transferState = "FLUSH"
  /\ Flush(FlushCount)
  /\ \/ /\ expected' <= highest
        /\ send_srej(expected', paid)
        /\ transferState' = "OUT_OF_ORDER"
     \/ /\ expected' > highest
        /\ send_rr(expected', paid)
        /\ transferState' = "IN_ORDER"
  /\ UNCHANGED highest

RecvData ==
  /\ transferState # "DONE"
  /\ \E d \in Deliveries(toClient) :
       /\ d.msg.flag \in DataFlags
       /\ toClient' = d.rest
       /\ InOrder(d.msg, d.cost) \/ OutOfOrder(d.msg, d.cost) \/ FlushState(d.cost)

\* Flush what is contiguous, acknowledge the EOF's number, close everything.
RecvEof ==
  /\ transferState # "DONE"
  /\ \E d \in Deliveries(toClient) :
       /\ d.msg.flag = EOF
       /\ toClient' = d.rest
       /\ Flush(FlushCount)
       /\ SendToServer(createPDU(d.msg.seq, EOF_ACK, NULL), d.cost)
  /\ transferState' = "DONE"
  /\ UNCHANGED highest

\* Any other flag: the loop reads on.
RecvOther ==
  /\ transferState # "DONE"
  /\ \E d \in Deliveries(toClient) :
       /\ d.msg.flag \notin DataFlags \cup {EOF}
       /\ toClient' = d.rest
       /\ SendNothing(d.cost)
  /\ UNCHANGED rcopyVars

RcopyNext == RecvData \/ RecvEof \/ RecvOther
===============================================================================
