-------------------------------- MODULE Server --------------------------------
(***************************************************************************)
(* server.c: the child process that serves one rcopy, from the moment it   *)
(* has sent the file-OK PDU (filename_state returned WRITE_FILE_OK_ACK).   *)
(*                                                                         *)
(* childState is the STATE of processClient's loop.  send_data_state runs  *)
(* as one call there; it has two places where it waits for datagrams:      *)
(*   SEND_DATA  the top of its loops, `is the window full?'                *)
(*   DRAIN      the loop `while (pollCall(0) > 0)' after each packet sent  *)
(* EXITED and CRASHED are the process' two ends.  wait_on_ack_state is     *)
(* only ever called from send_data_state, which ignores its result.        *)
(***************************************************************************)
EXTENDS Network, CircularQueue

CONSTANTS
  FileChunks,   \* bound: how many fread() calls find data in the file
  MAX_TIMEOUTS  \* the 10 of the program's three retry loops

ASSUME ServerAssumption == FileChunks \in Nat /\ MAX_TIMEOUTS \in Nat \ {0}
\* A window argument that is a multiple of 65536 leaves the child a ring of
\* size zero, in which every index is a division by zero.  It is left out.
ASSUME WindowAssumption == ServerWindow > 0

VARIABLES
  childState,     \* where the child is, see above
  window,         \* the CircularQueue of processClient
  sequenceNum,    \* send_data_state's next sequence number; 0 before it runs
  count,          \* write_file_ok_ack_state's timeouts so far
  timeoutCount,   \* send_data_state's timeouts since it last heard of rcopy
  eofResendCount  \* info->eofResendCount

serverVars ==
  <<childState, window, sequenceNum, count, timeoutCount, eofResendCount>>

ChildStates == {"WRITE_FILE_OK_ACK", "SEND_DATA", "DRAIN", "WAIT_ON_EOF_ACK",
                "RESEND_EOF", "DONE", "EXITED", "CRASHED"}

ServerTypeOK ==
  /\ childState \in ChildStates
  /\ window \in [entries    : [0..(window.WindowSize - 1) -> QueueEntry],
                 WindowSize : {ServerWindow, 0},
                 ValidCount : Nat]
  /\ sequenceNum \in 0..(FileChunks + 1)
  /\ count \in 0..MAX_TIMEOUTS
  /\ timeoutCount \in 0..MAX_TIMEOUTS
  /\ eofResendCount \in 0..MAX_TIMEOUTS

\* processClient initialises the queue on entry to SEND_DATA; until then it is
\* an uninitialised local that nothing but CleanUp reads.
ServerInit ==
  /\ childState = "WRITE_FILE_OK_ACK"
  /\ window = CircularQueue_init(ServerWindow)
  /\ sequenceNum = 0
  /\ count = 0
  /\ timeoutCount = 0
  /\ eofResendCount = 0

-------------------------------------------------------------------------------
\* write_file_ok_ack_state: anything but flag 34 is read and forgotten.
RecvFileOkAck ==
  /\ childState = "WRITE_FILE_OK_ACK"
  /\ \E d \in Deliveries(toServer) :
       /\ toServer' = d.rest
       /\ Charge(d.cost)
       /\ \/ /\ d.msg.flag = FILE_OK_ACK
             /\ childState' = "SEND_DATA"
             /\ window' = CircularQueue_init(ServerWindow)
             /\ sequenceNum' = 1
             /\ count' = 0
          \/ /\ d.msg.flag # FILE_OK_ACK
             /\ UNCHANGED <<childState, window, sequenceNum, count>>
  /\ UNCHANGED <<toClient, timeoutCount, eofResendCount>>

FileOkAckTimeout ==
  /\ childState = "WRITE_FILE_OK_ACK"
  /\ PollTimesOut
  /\ Charge(PollTimeoutCost)
  /\ count' = count + 1
  /\ childState' = IF count' >= MAX_TIMEOUTS THEN "DONE" ELSE childState
  /\ UNCHANGED <<toClient, toServer, window, sequenceNum, timeoutCount,
                 eofResendCount>>

-------------------------------------------------------------------------------
\* Mutant: fread() returning less than bufferSize taken for the end of the file.
FileRead_ShortReadEnds == sequenceNum >= FileChunks

\* fread() has nothing more.
FileRead == sequenceNum > FileChunks

\* Mutant: the number is incremented before the packet is made.
SendData_NumberedLate ==
  /\ childState = "SEND_DATA"
  /\ ~CircularQueue_is_full(window)
  /\ ~FileRead
  /\ window' = CircularQueue_insert(window, sequenceNum, sequenceNum)
  /\ sequenceNum' = sequenceNum + 1
  /\ SendToClient(createPDU(sequenceNum', DATA, sequenceNum), 0)
  /\ childState' = "DRAIN"
  /\ UNCHANGED <<toServer, count, timeoutCount, eofResendCount>>

\* send_data_state: read a chunk, keep it in the window, send it.
SendData ==
  /\ childState = "SEND_DATA"
  /\ ~CircularQueue_is_full(window)
  /\ ~FileRead
  /\ window' = CircularQueue_insert(window, sequenceNum, sequenceNum)
  /\ SendToClient(createPDU(sequenceNum, DATA, sequenceNum), 0)
  /\ sequenceNum' = sequenceNum + 1
  /\ childState' = "DRAIN"
  /\ UNCHANGED <<toServer, count, timeoutCount, eofResendCount>>

\* pollCall(0) finds nothing (a datagram may still be on its way).
DrainEnds ==
  /\ childState = "DRAIN"
  /\ childState' = "SEND_DATA"
  /\ timeoutCount' = 0
  /\ UNCHANGED <<netVars, window, sequenceNum, count, eofResendCount>>

\* What wait_on_ack_state does with the datagram m.  An entry whose packet is
\* NULL makes createPDU() copy from address 7, and the child dies.
wait_on_ack_state(m, paid) ==
  \/ /\ m.flag = RR
     /\ window' = RemoveBelow(window, m.seq)
     /\ Charge(paid)
     /\ UNCHANGED <<childState, toClient>>
  \/ /\ m.flag = SREJ
     /\ \E entry \in CircularQueue_get(window, m.seq) :
          /\ entry.packet # NULL
          /\ SendToClient(createPDU(m.seq, SREJ_DATA, entry.packet), paid)
     /\ UNCHANGED <<childState, window>>
  \/ /\ m.flag = SREJ
     /\ \E entry \in CircularQueue_get(window, m.seq) : entry.packet = NULL
     /\ childState' = "CRASHED"
     /\ Charge(paid)
     /\ UNCHANGED <<window, toClient>>
  \/ /\ m.flag = SREJ => CircularQueue_get(window, m.seq) = {}
     /\ m.flag # RR
     /\ Charge(paid)
     /\ UNCHANGED <<childState, window, toClient>>

RecvWhileDraining ==
  /\ childState = "DRAIN"
  /\ \E d \in Deliveries(toServer) :
       /\ toServer' = d.rest
       /\ wait_on_ack_state(d.msg, d.cost)
  /\ UNCHANGED <<sequenceNum, count, timeoutCount, eofResendCount>>

RecvWhileFull ==
  /\ childState = "SEND_DATA"
  /\ CircularQueue_is_full(window)
  /\ \E d \in Deliveries(toServer) :
       /\ toServer' = d.rest
       /\ wait_on_ack_state(d.msg, d.cost)
  /\ timeoutCount' = 0
  /\ UNCHANGED <<sequenceNum, count, eofResendCount>>

\* The packet the timeout resends: the first valid entry by index (a full
\* window has one).
ResentSlot(queue) == Min(ValidSlots(queue))

TimeoutWhileFull ==
  /\ childState = "SEND_DATA"
  /\ CircularQueue_is_full(window)
  /\ PollTimesOut
  /\ LET entry == window.entries[ResentSlot(window)]
     IN  SendToClient(createPDU(entry.sequenceNum, TIMEOUT_DATA, entry.packet),
                      PollTimeoutCost)
  /\ timeoutCount' = timeoutCount + 1
  /\ childState' = IF timeoutCount' >= MAX_TIMEOUTS THEN "DONE" ELSE childState
  /\ UNCHANGED <<toServer, window, sequenceNum, count, eofResendCount>>

\* fread() returns nothing: both loops end and the EOF goes out at once,
\* whatever the window still holds.  info->eofSeq is sequenceNum from now on.
SendEof ==
  /\ childState = "SEND_DATA"
  /\ ~CircularQueue_is_full(window)
  /\ FileRead
  /\ SendToClient(createPDU(sequenceNum, EOF, NULL), 0)
  /\ childState' = "WAIT_ON_EOF_ACK"
  /\ timeoutCount' = 0
  /\ UNCHANGED <<toServer, window, sequenceNum, count, eofResendCount>>

-------------------------------------------------------------------------------
\* Mutant: the number alone is compared.
ValidEofAck_AnyFlag(m) == m.seq = sequenceNum

\* The test of flag, number and checksum.
ValidEofAck(m) ==
  /\ m.flag = EOF_ACK
  /\ m.seq = sequenceNum
  /\ ChecksumAccepted(m)

\* wait_on_eof_ack_state: every datagram but a valid EOF ACK is ignored, an
\* RR or SREJ included.
RecvEofAck ==
  /\ childState = "WAIT_ON_EOF_ACK"
  /\ \E d \in Deliveries(toServer) :
       /\ toServer' = d.rest
       /\ Charge(d.cost)
       /\ \/ ValidEofAck(d.msg)  /\ childState' = "DONE"
          \/ ~ValidEofAck(d.msg) /\ UNCHANGED childState
  /\ UNCHANGED <<toClient, window, sequenceNum, count, timeoutCount,
                 eofResendCount>>

\* Mutant: the timeout is handled like an unexpected datagram.
EofAckTimeout_KeepsWaiting ==
  /\ childState = "WAIT_ON_EOF_ACK"
  /\ PollTimesOut
  /\ Charge(PollTimeoutCost)
  /\ UNCHANGED <<toClient, toServer, serverVars>>

EofAckTimeout ==
  /\ childState = "WAIT_ON_EOF_ACK"
  /\ PollTimesOut
  /\ Charge(PollTimeoutCost)
  /\ childState' = "RESEND_EOF"
  /\ UNCHANGED <<toClient, toServer, window, sequenceNum, count, timeoutCount,
                 eofResendCount>>

\* Mutant: the retry limit is off by one.
resend_eof_state_OneMore ==
  /\ childState = "RESEND_EOF"
  /\ \/ /\ eofResendCount > MAX_TIMEOUTS
        /\ childState' = "DONE"
        /\ UNCHANGED <<toClient, faults, eofResendCount>>
     \/ /\ eofResendCount <= MAX_TIMEOUTS
        /\ SendToClient(createPDU(sequenceNum, EOF, NULL), 0)
        /\ eofResendCount' = eofResendCount + 1
        /\ childState' = "WAIT_ON_EOF_ACK"
  /\ UNCHANGED <<toServer, window, sequenceNum, count, timeoutCount>>

resend_eof_state ==
  /\ childState = "RESEND_EOF"
  /\ \/ /\ eofResendCount >= MAX_TIMEOUTS
        /\ childState' = "DONE"
        /\ UNCHANGED <<toClient, faults, eofResendCount>>
     \/ /\ eofResendCount < MAX_TIMEOUTS
        /\ SendToClient(createPDU(sequenceNum, EOF, NULL), 0)
        /\ eofResendCount' = eofResendCount + 1
        /\ childState' = "WAIT_ON_EOF_ACK"
  /\ UNCHANGED <<toServer, window, sequenceNum, count, timeoutCount>>

-------------------------------------------------------------------------------
\* The end of processClient: the window and the socket are freed, then the
\* child is back in processServer's loop and exits on its closed socket.  A
\* window that was never initialised is freed as well: anything can happen.
CleanUp ==
  /\ childState = "DONE"
  /\ \/ /\ childState' = "EXITED"
        /\ window' = CircularQueue_free(window)
     \/ /\ sequenceNum = 0
        /\ ServerWindow > 0
        /\ childState' = "CRASHED"
        /\ UNCHANGED window
  /\ UNCHANGED <<netVars, sequenceNum, count, timeoutCount, eofResendCount>>

ServerNext ==
  \/ RecvFileOkAck    \/ FileOkAckTimeout
  \/ SendData         \/ DrainEnds
  \/ RecvWhileDraining
  \/ RecvWhileFull    \/ TimeoutWhileFull
  \/ SendEof
  \/ RecvEofAck       \/ EofAckTimeout     \/ resend_eof_state
  \/ CleanUp
===============================================================================
