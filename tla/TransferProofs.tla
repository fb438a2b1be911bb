---------------------------- MODULE TransferProofs -----------------------------
(***************************************************************************)
(* What one step of rcopy's receive loop does, and theorems about a        *)
(* transfer, for every window size, file length and number of faults.      *)
(***************************************************************************)
EXTENDS Transfer, ServerProofs

(***************************************************************************)
(* rcopy, whatever datagram wakes it.                                      *)
(***************************************************************************)
\* The slot of a number in rcopy's buffer.
LEMMA SlotIsSlotOf == \A s : Slot(s) = SlotOf(WindowArg, s)
  BY DEF Slot, SlotOf

\* The flush loop stops: FlushCount is the number of packets it writes.
LEMMA FlushCountExists ==
  /\ FlushCount \in 0..WindowArg
  /\ \A k \in 0..(FlushCount - 1) : Flushable(k)
  /\ FlushCount < WindowArg => ~Flushable(FlushCount)
<1> DEFINE S == {k \in 0..WindowArg : k = WindowArg \/ ~Flushable(k)}
<1>1. WindowArg \in Nat
  BY WindowArgAssumption
<1>2. S \in SUBSET Nat /\ S # {}
  BY <1>1
<1>3. PICK n \in S : \A k \in S : n <= k
  BY <1>2, LeastNatural
<1>4. /\ n \in 0..WindowArg
      /\ n < WindowArg => ~Flushable(n)
  BY <1>1, <1>3
<1>5. ASSUME NEW k \in 0..(n - 1) PROVE Flushable(k)
  <2>1. k \in 0..WindowArg /\ k # WindowArg /\ ~(n <= k)
    BY <1>1, <1>4
  <2>2. QED
    BY <1>3, <2>1
<1> HIDE DEF S
<1>6. QED
  BY <1>4, <1>5 DEF FlushCount

\* What the flush loop does to the counters, the buffer and the file.
LEMMA FlushType ==
  ASSUME RcopyTypeOK, Flush(FlushCount)
  PROVE  /\ FlushCount \in Nat
         /\ \A k \in 1..FlushCount :
              /\ expected + k - 1 \in expected..highest
              /\ Slot(expected + k - 1) \in DOMAIN buffer
         /\ expected' \in Nat /\ expected' = expected + FlushCount
         /\ DOMAIN buffer' \subseteq 0..(WindowArg - 1)
         /\ buffer' \in [DOMAIN buffer' -> Int]
         /\ outFile' \in Seq(Int)
<1> DEFINE n == FlushCount
           w == [k \in 1..n |-> buffer[Slot(expected + k - 1)]]
<1>1. expected \in Nat /\ highest \in Nat /\ WindowArg \in Nat
  BY WindowArgAssumption DEF RcopyTypeOK
<1>2. n \in Nat
  BY <1>1, FlushCountExists
<1>3. ASSUME NEW k \in 1..n
      PROVE  /\ expected + k - 1 \in expected..highest
             /\ Slot(expected + k - 1) \in DOMAIN buffer
  <2>1. k - 1 \in 0..(n - 1) /\ expected + (k - 1) = expected + k - 1
    BY <1>1, <1>2
  <2>2. Flushable(k - 1)
    BY <2>1, FlushCountExists
  <2>3. QED
    BY <1>1, <1>2, <2>1, <2>2 DEF Flushable
<1>4. /\ buffer \in [DOMAIN buffer -> Int] /\ DOMAIN buffer \subseteq 0..(WindowArg - 1)
      /\ outFile \in Seq(Int)
  BY DEF RcopyTypeOK
<1>5. /\ expected' = expected + n
      /\ outFile' = outFile \o w
      /\ buffer' = [i \in DOMAIN buffer \ FlushedSlots(n) |-> buffer[i]]
  BY DEF Flush
<1> HIDE DEF n
<1>6. w \in [1..n -> Int]
  BY <1>3, <1>4
<1> HIDE DEF w
<1>7. w \in Seq(Int)
  BY <1>2, <1>6
<1>8. outFile' \in Seq(Int)
  BY <1>4, <1>5, <1>7
<1>9. DOMAIN buffer' \subseteq 0..(WindowArg - 1) /\ buffer' \in [DOMAIN buffer' -> Int]
  BY <1>4, <1>5
<1>10. QED
  BY <1>1, <1>2, <1>3, <1>5, <1>8, <1>9 DEF n

\* Writing the expected packet.
LEMMA WriteExpectedType ==
  ASSUME RcopyTypeOK, NEW m \in PDU, WriteExpected(m)
  PROVE  /\ expected' \in Nat
         /\ DOMAIN buffer' \subseteq 0..(WindowArg - 1)
         /\ buffer' \in [DOMAIN buffer' -> Int]
         /\ outFile' \in Seq(Int)
<1>1. m.payload \in Int
  BY DEF PDU
<1>2. QED
  BY <1>1 DEF RcopyTypeOK, WriteExpected

\* Buffering a packet ahead of the expected one.
LEMMA BufferAheadType ==
  ASSUME RcopyTypeOK, NEW m \in PDU, BufferAhead(m)
  PROVE  /\ expected' \in Nat /\ highest' \in Nat
         /\ DOMAIN buffer' = DOMAIN buffer \cup {Slot(m.seq)}
         /\ DOMAIN buffer' \subseteq 0..(WindowArg - 1)
         /\ \A i \in DOMAIN buffer' :
              buffer'[i] = IF i \in DOMAIN buffer THEN buffer[i] ELSE m.payload
         /\ buffer' \in [DOMAIN buffer' -> Int]
         /\ outFile' \in Seq(Int)
<1>1. m.payload \in Int /\ m.seq \in Nat
  BY DEF PDU
<1>2. Slot(m.seq) \in 0..(WindowArg - 1)
  BY <1>1, SlotIsSlotOf, SlotOfRange, WindowArgAssumption
<1>3. /\ buffer \in [DOMAIN buffer -> Int] /\ DOMAIN buffer \subseteq 0..(WindowArg - 1)
      /\ expected \in Nat /\ highest \in Nat /\ outFile \in Seq(Int)
  BY DEF RcopyTypeOK
<1>4. /\ buffer' = BufferWith(m)
      /\ highest' = IF m.seq > highest THEN m.seq ELSE highest
      /\ UNCHANGED <<expected, outFile>>
  BY DEF BufferAhead
<1>5. /\ DOMAIN buffer' = DOMAIN buffer \cup {Slot(m.seq)}
      /\ \A i \in DOMAIN buffer' :
           buffer'[i] = IF i \in DOMAIN buffer THEN buffer[i] ELSE m.payload
      /\ buffer' = [i \in DOMAIN buffer' |-> buffer'[i]]
  BY <1>4 DEF BufferWith
<1>6. \A i \in DOMAIN buffer' : buffer'[i] \in Int
  BY <1>1, <1>3, <1>5
<1>7. buffer' \in [DOMAIN buffer' -> Int]
  BY <1>5, <1>6
<1>8. QED
  BY <1>1, <1>2, <1>3, <1>4, <1>5, <1>7

-------------------------------------------------------------------------------
\* An RR or an SREJ of rcopy carries the number it expects from now on, and an
\* SREJ is only sent when the loop goes on out of order, an EOF acknowledgement
\* only when the file is closed.
Reply(x) ==
  /\ x.flag \in {RR, SREJ} => x.seq = expected'
  /\ x.flag = SREJ => transferState' = "OUT_OF_ORDER"
  /\ x.flag = EOF_ACK => transferState' = "DONE"

\* The flow towards the child after a handler has answered, or has not.
Answered ==
  /\ toServer' \in Seq(PDU)
  /\ faults' \in 0..MaxFaults
  /\ \A x \in Range(toServer') : x \in Range(toServer) \/ ~x.intact \/ Reply(x)
  /\ "flip" \notin FaultKinds =>
       \A x \in Range(toServer') : x \in Range(toServer) \/ Reply(x)

\* What every step of rcopy has to establish.
RcopyTypeStep ==
  /\ NetTypeOK' /\ RcopyTypeOK'
  /\ Answered
  /\ Range(toClient') \subseteq Range(toClient)

LEMMA AnswerAdds ==
  ASSUME NetTypeOK, NEW s \in Nat, NEW f \in {RR, SREJ, EOF_ACK}, NEW paid \in Nat,
         SendToServer(createPDU(s, f, NULL), paid),
         Reply(createPDU(s, f, NULL))
  PROVE  Answered
<1> DEFINE m == createPDU(s, f, NULL)
<1>1. f \in Nat /\ NULL \in Int
  BY DEF RR, SREJ, EOF_ACK, NULL
<1>2. m \in PDU
  BY <1>1 DEF createPDU, PDU
<1>3. SendToServer(m, paid) /\ Reply(m)
  OBVIOUS
<1> HIDE DEF m
<1>4. OnlyAdds(toServer', toServer, m) /\ faults' \in 0..MaxFaults
  BY <1>2, <1>3, SendToServerAdds
<1>5. QED
  BY <1>3, <1>4 DEF Answered, OnlyAdds

LEMMA SendNothingAdds ==
  ASSUME NetTypeOK, NEW paid \in Nat, SendNothing(paid)
  PROVE  Answered
  BY ChargeBound DEF SendNothing, Answered, NetTypeOK

\* The three replies.
LEMMA SendRr ==
  ASSUME NetTypeOK, NEW paid \in Nat, expected' \in Nat, send_rr(expected', paid)
  PROVE  Answered
<1>1. /\ createPDU(expected', RR, NULL).flag = RR
      /\ createPDU(expected', RR, NULL).seq = expected'
  BY DEF createPDU
<1>2. Reply(createPDU(expected', RR, NULL))
  BY <1>1 DEF Reply, RR, SREJ, EOF_ACK
<1>3. QED
  BY <1>2, AnswerAdds DEF send_rr

LEMMA SendSrej ==
  ASSUME NetTypeOK, NEW paid \in Nat, expected' \in Nat, send_srej(expected', paid),
         transferState' = "OUT_OF_ORDER"
  PROVE  Answered
<1>1. /\ createPDU(expected', SREJ, NULL).flag = SREJ
      /\ createPDU(expected', SREJ, NULL).seq = expected'
  BY DEF createPDU
<1>2. Reply(createPDU(expected', SREJ, NULL))
  BY <1>1 DEF Reply, SREJ, EOF_ACK
<1>3. QED
  BY <1>2, AnswerAdds DEF send_srej

LEMMA InOrderType ==
  ASSUME NetTypeOK, RcopyTypeOK, NEW m \in PDU, NEW paid \in Nat, InOrder(m, paid)
  PROVE  RcopyTypeOK' /\ Answered
<1>1. m.seq \in Nat
  BY DEF PDU
<1>2. CASE /\ WriteExpected(m)
           /\ highest' = m.seq
           /\ send_rr(expected', paid)
           /\ UNCHANGED transferState
  <2>1. RcopyTypeOK'
    BY <1>1, <1>2, WriteExpectedType DEF RcopyTypeOK
  <2>2. Answered
    BY <1>2, <2>1, SendRr DEF RcopyTypeOK
  <2>3. QED
    BY <2>1, <2>2
<1>3. CASE /\ BufferAhead(m)
           /\ send_srej(expected, paid)
           /\ transferState' = "OUT_OF_ORDER"
  <2>1. RcopyTypeOK'
    BY <1>3, BufferAheadType DEF RcopyTypeOK, TransferStates
  <2>2. expected' = expected
    BY <1>3 DEF BufferAhead
  <2>3. Answered
    BY <1>3, <2>1, <2>2, SendSrej DEF RcopyTypeOK
  <2>4. QED
    BY <2>1, <2>3
<1>4. CASE SendNothing(paid) /\ UNCHANGED rcopyVars
  <2>1. RcopyTypeOK'
    BY <1>4 DEF RcopyTypeOK, rcopyVars
  <2>2. QED
    BY <1>4, <2>1, SendNothingAdds
<1>5. QED
  BY <1>2, <1>3, <1>4 DEF InOrder

LEMMA OutOfOrderType ==
  ASSUME NetTypeOK, RcopyTypeOK, NEW m \in PDU, NEW paid \in Nat, OutOfOrder(m, paid)
  PROVE  RcopyTypeOK' /\ Answered
<1>1. CASE /\ WriteExpected(m)
           /\ send_rr(expected', paid)
           /\ transferState' = "FLUSH"
           /\ UNCHANGED highest
  <2>1. RcopyTypeOK'
    BY <1>1, WriteExpectedType DEF RcopyTypeOK, TransferStates
  <2>2. Answered
    BY <1>1, <2>1, SendRr DEF RcopyTypeOK
  <2>3. QED
    BY <2>1, <2>2
<1>2. CASE BufferAhead(m) /\ SendNothing(paid) /\ UNCHANGED transferState
  <2>1. RcopyTypeOK'
    BY <1>2, BufferAheadType DEF RcopyTypeOK
  <2>2. QED
    BY <1>2, <2>1, SendNothingAdds
<1>3. CASE SendNothing(paid) /\ UNCHANGED rcopyVars
  <2>1. RcopyTypeOK'
    BY <1>3 DEF RcopyTypeOK, rcopyVars
  <2>2. QED
    BY <1>3, <2>1, SendNothingAdds
<1>4. QED
  BY <1>1, <1>2, <1>3 DEF OutOfOrder

LEMMA FlushStateType ==
  ASSUME NetTypeOK, RcopyTypeOK, NEW paid \in Nat, FlushState(paid)
  PROVE  RcopyTypeOK' /\ Answered
<1>1. Flush(FlushCount) /\ UNCHANGED highest
  BY DEF FlushState
<1>2. transferState' \in {"IN_ORDER", "OUT_OF_ORDER"}
  BY DEF FlushState
<1>3. RcopyTypeOK'
  BY <1>1, <1>2, FlushType DEF RcopyTypeOK, TransferStates
<1>4. \/ send_srej(expected', paid) /\ transferState' = "OUT_OF_ORDER"
      \/ send_rr(expected', paid)
  BY DEF FlushState
<1>5. expected' \in Nat
  BY <1>3 DEF RcopyTypeOK
<1>6. Answered
  BY <1>4, <1>5, SendRr, SendSrej
<1>7. QED
  BY <1>3, <1>6

\* Every step of rcopy.
LEMMA RcopyNextType ==
  ASSUME NetTypeOK, RcopyTypeOK, RcopyNext
  PROVE  RcopyTypeStep
<1>1. toClient \in Seq(PDU)
  BY DEF NetTypeOK
<1>2. CASE RecvData
  <2>1. PICK d \in Deliveries(toClient) :
          /\ toClient' = d.rest
          /\ InOrder(d.msg, d.cost) \/ OutOfOrder(d.msg, d.cost) \/ FlushState(d.cost)
    BY <1>2 DEF RecvData
  <2>2. /\ d.msg \in PDU /\ d.cost \in Nat
        /\ toClient' \in Seq(PDU) /\ Range(toClient') \subseteq Range(toClient)
    BY <1>1, <2>1, DeliveriesTake
  <2>3. RcopyTypeOK' /\ Answered
    BY <2>1, <2>2, InOrderType, OutOfOrderType, FlushStateType
  <2>4. QED
    BY <2>2, <2>3 DEF RcopyTypeStep, Answered, NetTypeOK
<1>3. CASE RecvEof
  <2>1. PICK d \in Deliveries(toClient) :
          /\ toClient' = d.rest
          /\ SendToServer(createPDU(d.msg.seq, EOF_ACK, NULL), d.cost)
    BY <1>3 DEF RecvEof
  <2>2. /\ d.msg \in PDU /\ d.msg.seq \in Nat /\ d.cost \in Nat
        /\ toClient' \in Seq(PDU) /\ Range(toClient') \subseteq Range(toClient)
    BY <1>1, <2>1, DeliveriesTake DEF PDU
  <2>3. Reply(createPDU(d.msg.seq, EOF_ACK, NULL))
    BY <1>3 DEF RecvEof, Reply, createPDU, EOF_ACK, RR, SREJ
  <2>4. Answered
    BY <2>1, <2>2, <2>3, AnswerAdds
  <2>5. Flush(FlushCount) /\ UNCHANGED highest /\ transferState' = "DONE"
    BY <1>3 DEF RecvEof
  <2>6. RcopyTypeOK'
    BY <2>5, FlushType DEF RcopyTypeOK, TransferStates
  <2>7. QED
    BY <2>2, <2>4, <2>6 DEF RcopyTypeStep, Answered, NetTypeOK
<1>4. CASE RecvOther
  <2>1. PICK d \in Deliveries(toClient) : toClient' = d.rest /\ SendNothing(d.cost)
    BY <1>4 DEF RecvOther
  <2>2. /\ d.cost \in Nat
        /\ toClient' \in Seq(PDU) /\ Range(toClient') \subseteq Range(toClient)
    BY <1>1, <2>1, DeliveriesTake
  <2>3. Answered
    BY <2>1, <2>2, SendNothingAdds
  <2>4. RcopyTypeOK'
    BY <1>4 DEF RecvOther, RcopyTypeOK, rcopyVars
  <2>5. QED
    BY <2>2, <2>3, <2>4 DEF RcopyTypeStep, Answered, NetTypeOK
<1>5. QED
  BY <1>2, <1>3, <1>4 DEF RcopyNext

LEMMA RcopyInitType == RcopyInit => RcopyTypeOK
  BY WindowArgAssumption DEF RcopyInit, RcopyTypeOK, TransferStates

-------------------------------------------------------------------------------
(***************************************************************************)
(* Types, and the child's window: whatever the network does, a flipped bit *)
(* included.                                                               *)
(***************************************************************************)
IndInv == NetTypeOK /\ ServerInv /\ RcopyTypeOK

LEMMA InitIndInv == Init => IndInv
<1> SUFFICES ASSUME Init PROVE IndInv
  OBVIOUS
<1>1. ServerInv /\ RcopyTypeOK
  BY ServerInitInv, RcopyInitType DEF Init
<1> DEFINE m == createPDU(0, FILE_OK_ACK, NULL)
<1>2. m \in PDU
  BY DEF createPDU, PDU, FILE_OK_ACK, NULL
<1>3. PICK t \in Transmissions(<<>>, m) :
        toServer = t.flow /\ faults = t.cost /\ t.cost <= MaxFaults
  BY DEF Init
<1> HIDE DEF m
<1>4. t.flow \in Seq(PDU) /\ t.cost \in Nat
  <2>1. <<>> \in Seq(PDU)
    OBVIOUS
  <2>2. QED
    BY <1>2, <2>1, TransmissionsAdd
<1>5. toClient \in Seq(PDU)
  BY DEF Init
<1>6. NetTypeOK
  BY <1>3, <1>4, <1>5, FaultAssumption DEF NetTypeOK
<1>7. QED
  BY <1>1, <1>6 DEF IndInv

LEMMA NextIndInv == IndInv /\ [Next]_vars => IndInv'
<1> SUFFICES ASSUME IndInv, [Next]_vars PROVE IndInv'
  OBVIOUS
<1> USE DEF IndInv
<1>1. CASE ServerStep
  <2>1. NetTypeOK' /\ ServerInv'
    BY <1>1, ServerNextStep DEF ServerStep, ChildStep
  <2>2. RcopyTypeOK'
    BY <1>1 DEF ServerStep, rcopyVars, RcopyTypeOK
  <2>3. QED
    BY <2>1, <2>2
<1>2. CASE RcopyStep
  <2>1. NetTypeOK' /\ RcopyTypeOK'
    BY <1>2, RcopyNextType DEF RcopyStep, RcopyTypeStep
  <2>2. ServerInv'
    BY <1>2, SameWindow DEF RcopyStep, serverVars, ServerInv
  <2>3. QED
    BY <2>1, <2>2
<1>3. CASE ClientPortClosed
  <2>1. NetTypeOK'
    BY <1>3 DEF ClientPortClosed, NetTypeOK
  <2>2. ServerInv'
    BY <1>3, SameWindow DEF ClientPortClosed, serverVars, ServerInv
  <2>3. RcopyTypeOK'
    BY <1>3 DEF ClientPortClosed, rcopyVars, RcopyTypeOK
  <2>4. QED
    BY <2>1, <2>2, <2>3
<1>4. CASE ServerPortClosed
  <2>1. NetTypeOK'
    BY <1>4 DEF ServerPortClosed, NetTypeOK
  <2>2. ServerInv'
    BY <1>4, SameWindow DEF ServerPortClosed, serverVars, ServerInv
  <2>3. RcopyTypeOK'
    BY <1>4 DEF ServerPortClosed, rcopyVars, RcopyTypeOK
  <2>4. QED
    BY <2>1, <2>2, <2>3
<1>5. CASE UNCHANGED vars
  <2>1. NetTypeOK'
    BY <1>5 DEF vars, netVars, NetTypeOK
  <2>2. ServerInv'
    BY <1>5, SameWindow DEF vars, serverVars, ServerInv
  <2>3. RcopyTypeOK'
    BY <1>5 DEF vars, rcopyVars, RcopyTypeOK
  <2>4. QED
    BY <2>1, <2>2, <2>3
<1>6. QED
  BY <1>1, <1>2, <1>3, <1>4, <1>5 DEF Next

LEMMA IndInvHolds == Spec => []IndInv
  BY InitIndInv, NextIndInv, PTL DEF Spec

\* Every variable keeps its type, the bounds of the three retry counters
\* included, whatever the network loses, repeats, reorders or damages.
THEOREM TypeCorrect == Spec => []TypeOK
<1>1. IndInv => TypeOK
  BY ServerInvType DEF IndInv, TypeOK
<1>2. QED
  BY <1>1, IndInvHolds, PTL

\* The invariant of the child implies that the ring is a window.
LEMMA ServerInvContiguous == ASSUME ServerInv PROVE WindowContiguous
<1> USE DEF WindowContiguous, Base
<1>1. CASE childState # "EXITED"
  <2>1. Holds /\ LowEnd = Base
    BY <1>1 DEF ServerInv, LowEnd
  <2>2. \A s \in Base..(sequenceNum - 1) :
          /\ window.entries[SlotOf(ServerWindow, s)].valid
          /\ window.entries[SlotOf(ServerWindow, s)].sequenceNum = s
    BY <2>1 DEF Holds, RingHolds
  <2>3. DOMAIN window.entries = 0..(ServerWindow - 1)
    BY <2>1, RingContents, ServerWindowNat DEF Holds
  <2>4. \A i \in ValidSlots(window) :
          /\ window.entries[i].sequenceNum \in Base..(sequenceNum - 1)
          /\ i = SlotOf(ServerWindow, window.entries[i].sequenceNum)
    BY <2>1, <2>3 DEF Holds, RingHolds, ValidSlots
  <2>5. QED
    BY <2>2, <2>4 DEF SlotOf
<1>2. CASE childState = "EXITED"
  <2>1. window.entries = <<>> /\ window.ValidCount = 0 /\ sequenceNum \in Nat
    BY <1>2, ServerAssumption DEF ServerInv
  <2>2. Base..(sequenceNum - 1) = {}
    BY <2>1
  <2>3. ValidSlots(window) = {}
    BY <2>1 DEF ValidSlots
  <2>4. QED
    BY <2>2, <2>3
<1>3. QED
  BY <1>1, <1>2

\* CircularQueue_insert never fails in send_data_state: the ring holds the
\* contiguous numbers below the next one, each in its own slot, however the
\* acknowledgements arrive and whatever number a damaged one carries.
THEOREM WindowStaysContiguous == Spec => []WindowContiguous
<1>1. IndInv => WindowContiguous
  BY ServerInvContiguous DEF IndInv
<1>2. QED
  BY <1>1, IndInvHolds, PTL

\* An undamaged EOF acknowledgement on its way means that rcopy has closed the
\* file.  No bit that the network flips makes another datagram into one.
EofAckTrue ==
  \A m \in Range(toServer) : m.flag = EOF_ACK /\ m.intact => transferState = "DONE"

LEMMA InitEofAckTrue == Init => EofAckTrue
<1> SUFFICES ASSUME Init PROVE EofAckTrue
  OBVIOUS
<1> DEFINE m == createPDU(0, FILE_OK_ACK, NULL)
<1>1. m \in PDU /\ m.flag # EOF_ACK
  BY DEF createPDU, PDU, FILE_OK_ACK, EOF_ACK, NULL
<1>2. PICK t \in Transmissions(<<>>, m) : toServer = t.flow
  BY DEF Init
<1> HIDE DEF m
<1>3. <<>> \in Seq(PDU) /\ Range(<<>>) = {}
  BY DEF Range
<1>4. \A x \in Range(toServer) : x = m \/ ~x.intact
  BY <1>1, <1>2, <1>3, TransmissionsAdd, CorruptionsArePDUs
<1>5. QED
  BY <1>1, <1>4 DEF EofAckTrue

\* What the child reads makes no datagram up.
LEMMA ServerOnlyTakes ==
  ASSUME NetTypeOK, ServerNext
  PROVE  Range(toServer') \subseteq Range(toServer)
<1>1. toServer \in Seq(PDU)
  BY DEF NetTypeOK
<1>2. \/ \E d \in Deliveries(toServer) : toServer' = d.rest
      \/ toServer' = toServer
  BY DEF ServerNext, RecvFileOkAck, FileOkAckTimeout, SendData, DrainEnds,
         RecvWhileDraining, RecvWhileFull, TimeoutWhileFull, SendEof, RecvEofAck,
         EofAckTimeout, resend_eof_state, CleanUp, netVars
<1>3. QED
  BY <1>1, <1>2, DeliveryTakes

LEMMA NextEofAckTrue == IndInv /\ EofAckTrue /\ [Next]_vars => EofAckTrue'
<1> SUFFICES ASSUME IndInv, EofAckTrue, [Next]_vars PROVE EofAckTrue'
  OBVIOUS
<1> USE DEF EofAckTrue
<1>1. CASE ServerStep
  BY <1>1, ServerOnlyTakes DEF IndInv, ServerStep, rcopyVars
<1>2. CASE RcopyStep
  <2>1. /\ \A m \in Range(toServer') : m \in Range(toServer) \/ ~m.intact \/ Reply(m)
        /\ transferState # "DONE"
    BY <1>2, RcopyNextType
       DEF IndInv, RcopyStep, RcopyTypeStep, Answered, RcopyNext, RecvData, RecvEof,
           RecvOther
  <2>2. QED
    BY <2>1 DEF Reply
<1>3. CASE ClientPortClosed
  BY <1>3 DEF ClientPortClosed, rcopyVars
<1>4. CASE ServerPortClosed
  <2>1. Range(<<>>) = {}
    BY DEF Range
  <2>2. QED
    BY <1>4, <2>1 DEF ServerPortClosed
<1>5. CASE UNCHANGED vars
  BY <1>5 DEF vars, netVars, rcopyVars
<1>6. QED
  BY <1>1, <1>2, <1>3, <1>4, <1>5 DEF Next

\* wait_on_eof_ack_state, which ignores everything but a valid EOF
\* acknowledgement, ends by one only after rcopy has closed the file, whatever
\* is left over from the transfer and whatever bits the network flips.
THEOREM EofAckIsTheEnd == Spec => EofAckMeansClosed
<1>1. ASSUME IndInv, EofAckTrue, [Next]_vars,
             childState = "WAIT_ON_EOF_ACK", childState' = "DONE"
      PROVE  transferState = "DONE"
  <2>1. RecvEofAck
    BY <1>1 DEF Next, vars, serverVars, ServerStep, RcopyStep, ClientPortClosed,
                ServerPortClosed, ServerNext, RecvFileOkAck, FileOkAckTimeout, SendData,
                DrainEnds, RecvWhileDraining, RecvWhileFull, TimeoutWhileFull, SendEof,
                EofAckTimeout, resend_eof_state, CleanUp
  <2>2. PICK d \in Deliveries(toServer) : ValidEofAck(d.msg)
    BY <1>1, <2>1 DEF RecvEofAck
  <2>3. d.msg \in Range(toServer)
    BY <1>1, <2>2, DeliveriesTake DEF IndInv, NetTypeOK
  <2>4. QED
    BY <1>1, <2>2, <2>3 DEF EofAckTrue, ValidEofAck, ChecksumAccepted
<1>2. IndInv /\ EofAckTrue /\ [Next]_vars =>
        [childState = "WAIT_ON_EOF_ACK" /\ childState' = "DONE" =>
           transferState = "DONE"]_vars
  BY <1>1
<1>3. Spec => []EofAckTrue
  BY InitEofAckTrue, NextEofAckTrue, IndInvHolds, PTL DEF Spec
<1>4. QED
  BY <1>2, <1>3, IndInvHolds, PTL DEF Spec, EofAckMeansClosed

-------------------------------------------------------------------------------
(***************************************************************************)
(* The copy, when no bit is flipped and the child's window is no larger    *)
(* than rcopy's buffer.  Datagrams may be lost, repeated, late and out of  *)
(* order any number of times.                                              *)
(***************************************************************************)
\* The first n chunks of the file.
FirstChunks(n) == [i \in 1..n |-> i]

\* rcopy's counters, buffer and file.
RcopyInv ==
  /\ expected >= 1
  /\ expected <= sequenceNum \/ expected = 1
  /\ highest < sequenceNum \/ highest = 0
  /\ sequenceNum <= expected + ServerWindow
  /\ outFile = FirstChunks(expected - 1)
  /\ \A i \in DOMAIN buffer : buffer[i] \in expected..highest /\ i = Slot(buffer[i])
  /\ transferState = "IN_ORDER" => highest = expected - 1 /\ DOMAIN buffer = {}
  /\ transferState = "OUT_OF_ORDER" =>
       expected <= highest /\ Slot(expected) \notin DOMAIN buffer
  /\ transferState = "FLUSH" => expected <= highest + 1

\* A data packet on its way has been numbered and, if rcopy can still use it,
\* carries the chunk of its number.
DataOK(m) ==
  m.flag \in DataFlags =>
    /\ m.seq \in 1..(sequenceNum - 1)
    /\ m.seq >= expected => m.payload = m.seq

\* An RR on its way acknowledges what is written, an SREJ asks for a packet
\* that has been numbered and is not beyond the one that is missing.
AckOK(m) ==
  /\ m.flag = RR => m.seq <= expected
  /\ m.flag = SREJ => m.seq \in 1..expected /\ m.seq < sequenceNum

\* The inductive invariant.  The child releases only what is written, so what
\* rcopy asks for is still in the ring and the lookup finds the right entry.
CopyInv ==
  /\ RcopyInv
  /\ \A m \in Range(toClient) : DataOK(m)
  /\ \A m \in Range(toServer) : AckOK(m)
  /\ childState # "EXITED" => LowEnd <= expected

Assumed == ServerWindow <= WindowArg /\ "flip" \notin FaultKinds

LEMMA InitCopyInv ==
  ASSUME Assumed, Init
  PROVE  CopyInv
<1>1. IndInv /\ sequenceNum = 0
  BY InitIndInv DEF Init, ServerInit
<1>2. RcopyInv
  <2>1. outFile = FirstChunks(expected - 1)
    BY DEF Init, RcopyInit, FirstChunks
  <2>2. DOMAIN buffer = {}
    BY DEF Init, RcopyInit
  <2>3. QED
    BY <1>1, <2>1, <2>2, ServerWindowNat DEF Init, RcopyInit, RcopyInv
<1>3. \A m \in Range(toClient) : DataOK(m)
  BY DEF Init, Range
<1>4. \A x \in Range(toServer) : AckOK(x)
  <2> DEFINE m == createPDU(0, FILE_OK_ACK, NULL)
  <2>1. m \in PDU /\ m.flag = FILE_OK_ACK
    BY DEF createPDU, PDU, FILE_OK_ACK, NULL
  <2>2. PICK t \in Transmissions(<<>>, m) : toServer = t.flow
    BY DEF Init
  <2> HIDE DEF m
  <2>3. <<>> \in Seq(PDU) /\ Range(<<>>) = {}
    BY DEF Range
  <2>4. Range(toServer) \subseteq {m}
    BY <2>1, <2>2, <2>3, TransmissionsAdd DEF Assumed
  <2>5. QED
    BY <2>1, <2>4, FlagsDiffer DEF AckOK
<1>5. LowEnd <= expected
  BY <1>1, ServerFacts DEF IndInv, LowEnd, Init, ServerInit, RcopyInit, CircularQueue_init
<1>6. QED
  BY <1>2, <1>3, <1>4, <1>5 DEF CopyInv

\* The child's steps.
LEMMA ServerStepCopyInv ==
  ASSUME Assumed, IndInv, CopyInv, ServerStep
  PROVE  CopyInv'
<1>1. /\ ChildEffect /\ childState # "EXITED"
      /\ UNCHANGED <<transferState, expected, highest, buffer, outFile>>
  BY ServerNextStep, ExitedIsFinal
     DEF Assumed, IndInv, ServerStep, ChildStep, rcopyVars
<1>2. /\ sequenceNum \in Nat /\ sequenceNum' \in Nat /\ LowEnd \in Nat
      /\ expected \in Nat /\ highest \in Nat /\ expected >= 1
      /\ LowEnd <= expected /\ ServerWindow \in Nat \ {0}
      /\ sequenceNum <= sequenceNum'
      /\ sequenceNum <= expected + ServerWindow
  <2>1. IndInv'
    BY NextIndInv DEF Next
  <2>2. sequenceNum \in Nat /\ sequenceNum' \in Nat
    BY <2>1, ServerAssumption DEF IndInv, ServerInv
  <2>3. QED
    BY <1>1, <2>2, ServerFacts DEF IndInv, CopyInv, RcopyInv, RcopyTypeOK, ChildEffect
<1>3. ASSUME NEW m \in Range(toServer)
      PROVE  /\ m \in PDU /\ m.seq \in Nat
             /\ AckOK(m) /\ AckOK(m)'
  <2>1. m \in PDU
    BY DEF IndInv, NetTypeOK, Range
  <2>2. m.seq \in Nat
    BY <2>1 DEF PDU
  <2>3. AckOK(m)
    BY DEF CopyInv
  <2>4. AckOK(m)'
    BY <1>1, <1>2, <2>2, <2>3 DEF AckOK
  <2>5. QED
    BY <2>1, <2>2, <2>3, <2>4
<1>4. RcopyInv'
  <2>1. sequenceNum' <= expected + ServerWindow
    BY <1>1, <1>2 DEF ChildEffect
  <2>2. expected <= sequenceNum' \/ expected = 1
    BY <1>2 DEF CopyInv, RcopyInv
  <2>3. highest < sequenceNum' \/ highest = 0
    BY <1>2 DEF CopyInv, RcopyInv
  <2>4. ServerWindow' = ServerWindow
    BY DEF ServerWindow, htons
  <2>5. \A s : Slot(s)' = Slot(s)
    BY DEF Slot
  <2>6. QED
    BY <1>1, <2>1, <2>2, <2>3, <2>4 DEF CopyInv, RcopyInv, Slot
<1>5. \A m \in Range(toClient') : DataOK(m)'
  <2> SUFFICES ASSUME NEW m \in Range(toClient'), m.flag \in DataFlags
               PROVE  /\ m.seq \in 1..(sequenceNum' - 1)
                      /\ m.seq >= expected => m.payload = m.seq
    BY <1>1 DEF DataOK
  <2>1. CASE m \in Range(toClient)
    BY <1>2, <2>1 DEF CopyInv, DataOK
  <2>2. CASE m.seq \in 1..(sequenceNum' - 1) /\ m.payload = m.seq
    BY <2>2
  <2>3. ASSUME NEW a \in Range(toServer), a.flag = SREJ, a.seq = m.seq,
               m.seq \in LowEnd..(sequenceNum - 1) => m.payload = m.seq
        PROVE  /\ m.seq \in 1..(sequenceNum' - 1)
               /\ m.seq >= expected => m.payload = m.seq
    <3>1. m.seq \in 1..expected /\ m.seq < sequenceNum
      BY <1>3, <2>3 DEF AckOK
    <3>2. QED
      BY <1>2, <2>3, <3>1
  <2>4. m \in Range(toClient) \/ FromChild(m)
    BY <1>1 DEF ChildEffect
  <2>5. QED
    BY <2>1, <2>2, <2>3, <2>4 DEF FromChild
<1>6. \A m \in Range(toServer') : AckOK(m)'
  BY <1>1, <1>3 DEF ChildEffect
<1>7. childState' # "EXITED" => LowEnd' <= expected'
  <2> SUFFICES ASSUME childState' # "EXITED" PROVE LowEnd' <= expected
    BY <1>1
  <2>1. CASE LowEnd' = LowEnd
    BY <1>2, <2>1
  <2>2. CASE LowEnd' = 1
    BY <1>2, <2>2
  <2>3. ASSUME NEW m \in Range(toServer), m.flag = RR, LowEnd' <= m.seq
        PROVE  LowEnd' <= expected
    <3>1. m.seq <= expected /\ m.seq \in Nat
      BY <1>3, <2>3 DEF AckOK
    <3>2. LowEnd' \in Nat
      <4>1. IndInv'
        BY NextIndInv DEF Next
      <4>2. sequenceNum' \in Nat /\ window'.ValidCount \in Nat /\ LowEnd' \in Nat
        BY <4>1, RingCount, ServerWindowNat DEF IndInv, ServerInv, Holds
      <4>3. QED
        BY <4>2
    <3>3. QED
      BY <1>2, <2>3, <3>1, <3>2
  <2>4. QED
    BY <1>1, <2>1, <2>2, <2>3 DEF ChildEffect
<1>8. QED
  BY <1>4, <1>5, <1>6, <1>7 DEF CopyInv

\* The output file grows by the next chunks of the file.
LEMMA PrefixGrows ==
  ASSUME NEW e \in Nat, e >= 1, NEW n \in Nat, NEW w \in [1..n -> Int],
         \A k \in 1..n : w[k] = e + k - 1
  PROVE  FirstChunks(e - 1) \o w = FirstChunks(e + n - 1)
<1> DEFINE p == FirstChunks(e - 1)
           q == FirstChunks(e + n - 1)
<1>1. p \in Seq(Int) /\ Len(p) = e - 1 /\ \A i \in 1..(e - 1) : p[i] = i
  BY DEF FirstChunks
<1>2. q \in Seq(Int) /\ Len(q) = e + n - 1 /\ \A i \in 1..(e + n - 1) : q[i] = i
  BY DEF FirstChunks
<1>3. w \in Seq(Int) /\ Len(w) = n
  OBVIOUS
<1> HIDE DEF p, q
<1>4. /\ p \o w \in Seq(Int)
      /\ Len(p \o w) = e + n - 1
      /\ \A i \in 1..(Len(p) + Len(w)) :
           (p \o w)[i] = IF i <= Len(p) THEN p[i] ELSE w[i - Len(p)]
  <2>1. /\ p \o w \in Seq(Int)
        /\ Len(p \o w) = Len(p) + Len(w)
        /\ \A i \in 1..(Len(p) + Len(w)) :
             (p \o w)[i] = IF i <= Len(p) THEN p[i] ELSE w[i - Len(p)]
    BY <1>1, <1>3, ConcatProperties
  <2>2. Len(p) + Len(w) = e + n - 1
    BY <1>1, <1>3
  <2>3. QED
    BY <2>1, <2>2
<1>5. \A i \in 1..(e + n - 1) : (p \o w)[i] = i
  <2> TAKE i \in 1..(e + n - 1)
  <2>1. i \in 1..(Len(p) + Len(w))
    BY <1>1, <1>3
  <2>2. CASE i <= e - 1
    BY <1>1, <1>4, <2>1, <2>2
  <2>3. CASE ~(i <= e - 1)
    <3>1. i - (e - 1) \in 1..n
      BY <2>3
    <3>2. (p \o w)[i] = w[i - (e - 1)]
      BY <1>1, <1>4, <2>1, <2>3
    <3>3. w[i - (e - 1)] = e + (i - (e - 1)) - 1
      BY <3>1
    <3>4. QED
      BY <3>2, <3>3
  <2>4. QED
    BY <2>2, <2>3
<1>6. p \o w = q
  BY <1>2, <1>4, <1>5, SeqEqual
<1>7. QED
  BY <1>6 DEF p, q

\* What the invariant says of the numbers rcopy works with.
LEMMA RcopyFacts ==
  ASSUME Assumed, IndInv, RcopyInv
  PROVE  /\ sequenceNum \in Nat /\ expected \in Nat /\ highest \in Nat
         /\ ServerWindow \in Nat \ {0} /\ WindowArg \in Nat \ {0}
         /\ ServerWindow <= WindowArg
         /\ expected >= 1
         /\ expected <= sequenceNum \/ expected = 1
         /\ highest < sequenceNum \/ highest = 0
         /\ sequenceNum <= expected + ServerWindow
         /\ highest - expected < WindowArg
<1>1. /\ sequenceNum \in Nat /\ expected \in Nat /\ highest \in Nat
      /\ ServerWindow \in Nat \ {0} /\ WindowArg \in Nat \ {0}
      /\ ServerWindow <= WindowArg
  BY ServerFacts, WindowArgAssumption DEF Assumed, IndInv, RcopyTypeOK
<1>2. QED
  BY <1>1 DEF RcopyInv

\* Two numbers that can be on their way together have slots of their own.
LEMMA SlotsApart ==
  ASSUME WindowArg \in Nat \ {0}, NEW a \in Nat, NEW b \in Nat,
         a - b < WindowArg, b - a < WindowArg, Slot(a) = Slot(b)
  PROVE  a = b
<1>1. SlotOf(WindowArg, a) = SlotOf(WindowArg, b)
  BY SlotIsSlotOf
<1>2. CASE a < b
  BY <1>1, <1>2, SlotsDiffer
<1>3. CASE b < a
  BY <1>1, <1>3, SlotsDiffer
<1>4. QED
  BY <1>2, <1>3

\* The flush loop writes the next chunks of the file, each from its own slot.
LEMMA FlushCopy ==
  ASSUME Assumed, IndInv, RcopyInv, Flush(FlushCount)
  PROVE  /\ expected' \in Nat /\ expected <= expected'
         /\ expected' = expected \/ expected' <= highest + 1
         /\ outFile' = FirstChunks(expected' - 1)
         /\ \A i \in DOMAIN buffer' :
              buffer'[i] \in expected'..highest /\ i = Slot(buffer'[i])
         /\ expected' <= highest => Slot(expected') \notin DOMAIN buffer'
<1> DEFINE n == FlushCount
           w == [k \in 1..n |-> buffer[Slot(expected + k - 1)]]
<1>0. RcopyTypeOK
  BY DEF IndInv
<1>1. /\ n \in Nat
      /\ \A k \in 1..n : /\ expected + k - 1 \in expected..highest
                         /\ Slot(expected + k - 1) \in DOMAIN buffer
      /\ expected' \in Nat /\ expected' = expected + n
  BY <1>0, FlushType
<1>2. /\ outFile' = outFile \o w
      /\ buffer' = [i \in DOMAIN buffer \ FlushedSlots(n) |-> buffer[i]]
  BY DEF Flush
<1>3. /\ n \in 0..WindowArg
      /\ n < WindowArg => ~Flushable(n)
  BY FlushCountExists
<1> HIDE DEF n
<1>4. /\ sequenceNum \in Nat /\ expected \in Nat /\ highest \in Nat
      /\ WindowArg \in Nat \ {0} /\ expected >= 1
      /\ highest - expected < WindowArg
  BY RcopyFacts
<1>5. \A i \in DOMAIN buffer : buffer[i] \in expected..highest /\ i = Slot(buffer[i])
  BY DEF RcopyInv
<1>6. ASSUME NEW k \in 1..n
      PROVE  buffer[Slot(expected + k - 1)] = expected + k - 1
  <2> DEFINE s == expected + k - 1
             b == buffer[Slot(s)]
  <2>1. s \in expected..highest /\ b \in expected..highest /\ Slot(s) = Slot(b)
    BY <1>1, <1>5
  <2> HIDE DEF s, b
  <2>2. s \in Nat /\ b \in Nat /\ s - b < WindowArg /\ b - s < WindowArg
    BY <1>4, <2>1
  <2>3. s = b
    BY <1>4, <2>1, <2>2, SlotsApart
  <2>4. QED
    BY <2>3 DEF s, b
<1>7. outFile' = FirstChunks(expected' - 1)
  <2>1. ASSUME NEW k \in 1..n
        PROVE  w[k] = expected + k - 1 /\ w[k] \in Int
    <3>1. w[k] = buffer[Slot(expected + k - 1)]
      OBVIOUS
    <3>2. w[k] = expected + k - 1
      BY <1>6, <3>1
    <3>3. expected + k - 1 \in Int
      BY <1>1, <1>4
    <3>4. QED
      BY <3>2, <3>3
  <2>2. w = [k \in 1..n |-> w[k]]
    OBVIOUS
  <2> HIDE DEF w
  <2>3. w \in [1..n -> Int] /\ \A k \in 1..n : w[k] = expected + k - 1
    BY <2>1, <2>2
  <2>4. FirstChunks(expected - 1) \o w = FirstChunks(expected + n - 1)
    BY <1>1, <1>4, <2>3, PrefixGrows
  <2>5. outFile = FirstChunks(expected - 1)
    BY DEF RcopyInv
  <2>6. expected' - 1 = expected + n - 1
    BY <1>1, <1>4
  <2>7. QED
    BY <1>2, <2>4, <2>5, <2>6
<1>8. DOMAIN buffer' = DOMAIN buffer \ FlushedSlots(n)
      /\ \A i \in DOMAIN buffer' : buffer'[i] = buffer[i]
  BY <1>2
<1>9. ASSUME NEW i \in DOMAIN buffer'
      PROVE  buffer'[i] \in expected'..highest /\ i = Slot(buffer'[i])
  <2>1. /\ buffer'[i] = buffer[i] /\ i \notin FlushedSlots(n)
        /\ buffer[i] \in expected..highest /\ i = Slot(buffer[i])
    BY <1>5, <1>8
  <2> DEFINE b == buffer[i]
  <2>2. ~(b < expected + n)
    <3> SUFFICES ASSUME b < expected + n PROVE FALSE
      OBVIOUS
    <3>1. b - expected \in 0..(n - 1) /\ expected + (b - expected) = b
      BY <1>1, <1>4, <2>1
    <3>2. Slot(b) \in FlushedSlots(n)
      BY <3>1 DEF FlushedSlots
    <3>3. QED
      BY <2>1, <3>2
  <2>3. QED
    BY <1>1, <1>4, <2>1, <2>2
<1>10. expected' = expected \/ expected' <= highest + 1
  <2>1. CASE n = 0
    BY <1>1, <1>4, <2>1
  <2>2. CASE n # 0
    <3>1. n \in 1..n
      BY <1>1, <2>2
    <3>2. expected + n - 1 \in expected..highest
      BY <1>1, <3>1
    <3>3. QED
      BY <1>1, <1>4, <3>2
  <2>3. QED
    BY <2>1, <2>2
<1>11. ASSUME expected' <= highest PROVE Slot(expected') \notin DOMAIN buffer'
  <2>1. n < WindowArg
    BY <1>1, <1>3, <1>4, <1>11
  <2>2. ~(Slot(expected + n) \in DOMAIN buffer)
    BY <1>1, <1>3, <1>11, <2>1 DEF Flushable
  <2>3. QED
    BY <1>1, <1>8, <2>2
<1>12. QED
  BY <1>1, <1>4, <1>7, <1>9, <1>10, <1>11

\* Writing the expected packet.
LEMMA WriteExpectedGrows ==
  ASSUME RcopyTypeOK, expected >= 1, outFile = FirstChunks(expected - 1),
         NEW m \in PDU, m.payload = expected, WriteExpected(m)
  PROVE  outFile' = FirstChunks(expected' - 1)
<1> DEFINE w == [k \in 1..1 |-> m.payload]
<1>1. expected \in Nat /\ m.payload \in Int
  BY DEF PDU, RcopyTypeOK
<1>2. w \in [1..1 -> Int] /\ \A k \in 1..1 : w[k] = expected + k - 1
  BY <1>1
<1>3. outFile \in Seq(Int)
  BY DEF RcopyTypeOK
<1>4. w = <<m.payload>>
  OBVIOUS
<1>5. Append(outFile, m.payload) = outFile \o <<m.payload>>
  BY <1>1, <1>3, AppendIsConcat
<1> HIDE DEF w
<1>6. FirstChunks(expected - 1) \o w = FirstChunks(expected + 1 - 1)
  BY <1>1, <1>2, PrefixGrows
<1>7. expected' - 1 = expected + 1 - 1 /\ outFile' = Append(outFile, m.payload)
  BY <1>1 DEF WriteExpected
<1>8. QED
  BY <1>4, <1>5, <1>6, <1>7

LEMMA WriteExpectedCopy ==
  ASSUME Assumed, IndInv, RcopyInv, NEW m \in PDU, m.payload = expected,
         WriteExpected(m)
  PROVE  outFile' = FirstChunks(expected' - 1)
  BY WriteExpectedGrows DEF IndInv, RcopyInv

\* Buffering a packet ahead of the expected one: its slot is free or holds the
\* same packet, and it is not the slot of the expected one.
LEMMA BufferAheadCopy ==
  ASSUME Assumed, IndInv, RcopyInv, NEW m \in PDU, BufferAhead(m),
         m.seq \in (expected + 1)..(sequenceNum - 1), m.payload = m.seq,
         Slot(expected) \notin DOMAIN buffer
  PROVE  /\ expected' = expected /\ outFile' = outFile
         /\ highest' \in Nat /\ highest' < sequenceNum /\ expected <= highest'
         /\ \A i \in DOMAIN buffer' :
              buffer'[i] \in expected..highest' /\ i = Slot(buffer'[i])
         /\ Slot(expected) \notin DOMAIN buffer'
<1>1. /\ sequenceNum \in Nat /\ expected \in Nat /\ highest \in Nat
      /\ ServerWindow \in Nat \ {0} /\ WindowArg \in Nat \ {0}
      /\ ServerWindow <= WindowArg
      /\ highest < sequenceNum \/ highest = 0
      /\ sequenceNum <= expected + ServerWindow
      /\ highest - expected < WindowArg
      /\ m.seq \in Nat
  BY RcopyFacts DEF PDU
<1>2. RcopyTypeOK
  BY DEF IndInv
<1>3. /\ DOMAIN buffer' = DOMAIN buffer \cup {Slot(m.seq)}
      /\ \A i \in DOMAIN buffer' :
           buffer'[i] = IF i \in DOMAIN buffer THEN buffer[i] ELSE m.payload
  BY <1>2, BufferAheadType
<1>4. /\ highest' = IF m.seq > highest THEN m.seq ELSE highest
      /\ expected' = expected /\ outFile' = outFile
  BY DEF BufferAhead
<1>5. /\ highest' \in Nat /\ highest <= highest' /\ m.seq <= highest'
      /\ highest' < sequenceNum /\ expected <= highest'
  BY <1>1, <1>4
<1>6. Slot(expected) # Slot(m.seq)
  <2>1. expected - m.seq < WindowArg /\ m.seq - expected < WindowArg /\ expected # m.seq
    BY <1>1
  <2>2. QED
    BY <1>1, <2>1, SlotsApart
<1>7. ASSUME NEW i \in DOMAIN buffer'
      PROVE  buffer'[i] \in expected..highest' /\ i = Slot(buffer'[i])
  <2>1. CASE i \in DOMAIN buffer
    <3>1. buffer'[i] = buffer[i] /\ buffer[i] \in expected..highest /\ i = Slot(buffer[i])
      BY <1>3, <2>1 DEF RcopyInv
    <3>2. QED
      BY <1>1, <1>5, <3>1
  <2>2. CASE i \notin DOMAIN buffer
    <3>1. i = Slot(m.seq) /\ buffer'[i] = m.seq
      BY <1>3, <2>2
    <3>2. QED
      BY <1>1, <1>5, <3>1
  <2>3. QED
    BY <2>1, <2>2
<1>8. QED
  BY <1>3, <1>4, <1>5, <1>6, <1>7

\* A data packet within the child's numbers, in the two states that look at it.
LEMMA InOrderCopy ==
  ASSUME Assumed, IndInv, RcopyInv, sequenceNum' = sequenceNum,
         NEW m \in PDU, m.flag \in DataFlags, DataOK(m),
         NEW paid \in Nat, InOrder(m, paid)
  PROVE  RcopyInv' /\ expected <= expected'
<1> USE DEF RcopyInv
<1>1. /\ sequenceNum \in Nat /\ expected \in Nat /\ highest \in Nat
      /\ expected >= 1 /\ ServerWindow \in Nat \ {0}
      /\ ServerWindow' = ServerWindow
      /\ sequenceNum <= expected + ServerWindow
      /\ m.seq \in 1..(sequenceNum - 1)
      /\ m.seq >= expected => m.payload = m.seq
      /\ transferState = "IN_ORDER" /\ DOMAIN buffer = {}
  BY RcopyFacts DEF DataOK, InOrder, ServerWindow, htons
<1>2. CASE /\ m.seq = expected /\ WriteExpected(m) /\ highest' = m.seq
           /\ UNCHANGED transferState
  <2>1. outFile' = FirstChunks(expected' - 1)
    BY <1>1, <1>2, WriteExpectedCopy
  <2>2. expected' = expected + 1 /\ buffer' = buffer
    BY <1>2 DEF WriteExpected
  <2>3. QED
    BY <1>1, <1>2, <2>1, <2>2
<1>3. CASE /\ m.seq > expected /\ BufferAhead(m)
           /\ transferState' = "OUT_OF_ORDER"
  <2>1. m.seq \in (expected + 1)..(sequenceNum - 1)
    BY <1>1, <1>3
  <2>2. /\ expected' = expected /\ outFile' = outFile
        /\ highest' \in Nat /\ highest' < sequenceNum /\ expected <= highest'
        /\ \A i \in DOMAIN buffer' :
             buffer'[i] \in expected..highest' /\ i = Slot(buffer'[i])
        /\ Slot(expected) \notin DOMAIN buffer'
    BY <1>1, <1>3, <2>1, BufferAheadCopy
  <2>3. QED
    BY <1>1, <1>3, <2>2 DEF Slot
<1>4. CASE UNCHANGED rcopyVars
  BY <1>1, <1>4 DEF rcopyVars, Slot
<1>5. QED
  BY <1>2, <1>3, <1>4 DEF InOrder

LEMMA OutOfOrderCopy ==
  ASSUME Assumed, IndInv, RcopyInv, sequenceNum' = sequenceNum,
         NEW m \in PDU, m.flag \in DataFlags, DataOK(m),
         NEW paid \in Nat, OutOfOrder(m, paid)
  PROVE  RcopyInv' /\ expected <= expected'
<1> USE DEF RcopyInv
<1>1. /\ sequenceNum \in Nat /\ expected \in Nat /\ highest \in Nat
      /\ expected >= 1 /\ ServerWindow \in Nat \ {0}
      /\ ServerWindow' = ServerWindow
      /\ sequenceNum <= expected + ServerWindow
      /\ m.seq \in 1..(sequenceNum - 1)
      /\ m.seq >= expected => m.payload = m.seq
      /\ transferState = "OUT_OF_ORDER"
      /\ expected <= highest /\ Slot(expected) \notin DOMAIN buffer
  BY RcopyFacts DEF DataOK, OutOfOrder, ServerWindow, htons
<1>2. CASE /\ m.seq = expected /\ WriteExpected(m)
           /\ transferState' = "FLUSH" /\ UNCHANGED highest
  <2>1. outFile' = FirstChunks(expected' - 1)
    BY <1>1, <1>2, WriteExpectedCopy
  <2>2. expected' = expected + 1 /\ buffer' = buffer
    BY <1>2 DEF WriteExpected
  <2>3. \A i \in DOMAIN buffer : buffer[i] \in (expected + 1)..highest /\ i = Slot(buffer[i])
    BY <1>1
  <2>4. QED
    BY <1>1, <1>2, <2>1, <2>2, <2>3 DEF Slot
<1>3. CASE m.seq > expected /\ BufferAhead(m) /\ UNCHANGED transferState
  <2>1. m.seq \in (expected + 1)..(sequenceNum - 1)
    BY <1>1, <1>3
  <2>2. /\ expected' = expected /\ outFile' = outFile
        /\ highest' \in Nat /\ highest' < sequenceNum /\ expected <= highest'
        /\ \A i \in DOMAIN buffer' :
             buffer'[i] \in expected..highest' /\ i = Slot(buffer'[i])
        /\ Slot(expected) \notin DOMAIN buffer'
    BY <1>1, <1>3, <2>1, BufferAheadCopy
  <2>3. QED
    BY <1>1, <1>3, <2>2 DEF Slot
<1>4. CASE UNCHANGED rcopyVars
  BY <1>1, <1>4 DEF rcopyVars, Slot
<1>5. QED
  BY <1>2, <1>3, <1>4 DEF OutOfOrder

\* The flush, on a datagram in state FLUSH and on the EOF in any state.
LEMMA FlushStateCopy ==
  ASSUME Assumed, IndInv, RcopyInv, sequenceNum' = sequenceNum,
         NEW paid \in Nat, FlushState(paid)
  PROVE  RcopyInv' /\ expected <= expected'
<1>1. /\ transferState = "FLUSH" /\ Flush(FlushCount) /\ highest' = highest
      /\ \/ expected' <= highest /\ transferState' = "OUT_OF_ORDER"
         \/ expected' > highest /\ transferState' = "IN_ORDER"
  BY DEF FlushState
<1>2. /\ sequenceNum \in Nat /\ expected \in Nat /\ highest \in Nat
      /\ expected >= 1 /\ ServerWindow \in Nat \ {0}
      /\ ServerWindow' = ServerWindow
      /\ expected <= sequenceNum \/ expected = 1
      /\ highest < sequenceNum \/ highest = 0
      /\ sequenceNum <= expected + ServerWindow
      /\ expected <= highest + 1
  BY <1>1, RcopyFacts DEF RcopyInv, ServerWindow, htons
<1>3. /\ expected' \in Nat /\ expected <= expected'
      /\ expected' = expected \/ expected' <= highest + 1
      /\ outFile' = FirstChunks(expected' - 1)
      /\ \A i \in DOMAIN buffer' :
           buffer'[i] \in expected'..highest /\ i = Slot(buffer'[i])
      /\ expected' <= highest => Slot(expected') \notin DOMAIN buffer'
  BY <1>1, FlushCopy
<1>4. ASSUME expected' > highest
      PROVE  DOMAIN buffer' = {} /\ highest = expected' - 1
  <2>1. expected'..highest = {}
    BY <1>2, <1>3, <1>4
  <2>2. DOMAIN buffer' = {}
    BY <1>3, <2>1
  <2>3. highest = expected' - 1
    <3> DEFINE e == expected'
    <3>1. e \in Nat /\ expected <= e /\ (e = expected \/ e <= highest + 1) /\ e > highest
      BY <1>3, <1>4
    <3> HIDE DEF e
    <3>2. highest = e - 1
      BY <1>2, <3>1
    <3>3. QED
      BY <3>2 DEF e
  <2>4. QED
    BY <2>2, <2>3
<1>5. /\ expected' <= sequenceNum \/ expected' = 1
      /\ expected' >= 1 /\ sequenceNum <= expected' + ServerWindow
  <2> DEFINE e == expected'
  <2>1. e \in Nat /\ expected <= e /\ (e = expected \/ e <= highest + 1)
    BY <1>3
  <2> HIDE DEF e
  <2>2. (e <= sequenceNum \/ e = 1) /\ e >= 1 /\ sequenceNum <= e + ServerWindow
    BY <1>2, <2>1
  <2>3. QED
    BY <2>2 DEF e
<1>6. \A i \in DOMAIN buffer' : buffer'[i] \in expected'..highest' /\ i = Slot(buffer'[i])
  BY <1>1, <1>3
<1>7. RcopyInv'
  BY <1>1, <1>2, <1>3, <1>4, <1>5, <1>6 DEF RcopyInv
<1>8. QED
  BY <1>3, <1>7

LEMMA RecvEofCopy ==
  ASSUME Assumed, IndInv, RcopyInv, sequenceNum' = sequenceNum, RecvEof
  PROVE  RcopyInv' /\ expected <= expected'
<1>1. Flush(FlushCount) /\ highest' = highest /\ transferState' = "DONE"
  BY DEF RecvEof
<1>2. /\ sequenceNum \in Nat /\ expected \in Nat /\ highest \in Nat
      /\ expected >= 1 /\ ServerWindow \in Nat \ {0}
      /\ ServerWindow' = ServerWindow
      /\ expected <= sequenceNum \/ expected = 1
      /\ highest < sequenceNum \/ highest = 0
      /\ sequenceNum <= expected + ServerWindow
  BY RcopyFacts DEF RcopyInv, ServerWindow, htons
<1>3. /\ expected' \in Nat /\ expected <= expected'
      /\ expected' = expected \/ expected' <= highest + 1
      /\ outFile' = FirstChunks(expected' - 1)
      /\ \A i \in DOMAIN buffer' :
           buffer'[i] \in expected'..highest /\ i = Slot(buffer'[i])
  BY <1>1, FlushCopy
<1>4. /\ expected' <= sequenceNum \/ expected' = 1
      /\ expected' >= 1 /\ sequenceNum <= expected' + ServerWindow
  <2> DEFINE e == expected'
  <2>1. e \in Nat /\ expected <= e /\ (e = expected \/ e <= highest + 1)
    BY <1>3
  <2> HIDE DEF e
  <2>2. (e <= sequenceNum \/ e = 1) /\ e >= 1 /\ sequenceNum <= e + ServerWindow
    BY <1>2, <2>1
  <2>3. QED
    BY <2>2 DEF e
<1>5. \A i \in DOMAIN buffer' : buffer'[i] \in expected'..highest' /\ i = Slot(buffer'[i])
  BY <1>1, <1>3
<1>6. RcopyInv'
  BY <1>1, <1>2, <1>3, <1>4, <1>5 DEF RcopyInv
<1>7. QED
  BY <1>3, <1>6

\* A step of rcopy keeps what is said of rcopy, and never goes back.
LEMMA RcopyStepGrows ==
  ASSUME Assumed, IndInv, CopyInv, RcopyStep
  PROVE  RcopyInv' /\ expected <= expected'
<1>1. sequenceNum' = sequenceNum
  BY DEF RcopyStep, serverVars
<1>2. RcopyInv /\ toClient \in Seq(PDU) /\ expected \in Nat
  BY DEF CopyInv, IndInv, NetTypeOK, RcopyTypeOK
<1>3. CASE RecvData
  <2>1. PICK d \in Deliveries(toClient) :
          /\ d.msg.flag \in DataFlags
          /\ InOrder(d.msg, d.cost) \/ OutOfOrder(d.msg, d.cost) \/ FlushState(d.cost)
    BY <1>3 DEF RecvData
  <2>2. d.msg \in PDU /\ d.cost \in Nat /\ DataOK(d.msg)
    BY <1>2, DeliveriesTake DEF CopyInv
  <2>3. QED
    BY <1>1, <1>2, <2>1, <2>2, InOrderCopy, OutOfOrderCopy, FlushStateCopy
<1>4. CASE RecvEof
  BY <1>1, <1>2, <1>4, RecvEofCopy
<1>5. CASE RecvOther
  <2>1. UNCHANGED <<transferState, expected, highest, buffer, outFile>>
    BY <1>5 DEF RecvOther, rcopyVars
  <2>2. ServerWindow' = ServerWindow
    BY DEF ServerWindow, htons
  <2>3. RcopyInv'
    BY <1>1, <1>2, <2>1, <2>2 DEF RcopyInv, Slot
  <2>4. QED
    BY <1>2, <2>1, <2>3
<1>6. QED
  BY <1>3, <1>4, <1>5 DEF RcopyStep, RcopyNext

\* rcopy's steps.
LEMMA RcopyStepCopyInv ==
  ASSUME Assumed, IndInv, CopyInv, RcopyStep
  PROVE  CopyInv'
<1>1. /\ RcopyTypeStep
      /\ UNCHANGED <<childState, window, sequenceNum>>
  BY RcopyNextType DEF IndInv, RcopyStep, serverVars
<1>2. RcopyInv' /\ expected <= expected'
  BY RcopyStepGrows
<1>3. /\ expected \in Nat /\ expected' \in Nat /\ highest' \in Nat
      /\ sequenceNum \in Nat
  BY <1>1, ServerFacts DEF RcopyTypeStep, RcopyTypeOK, IndInv
<1>4. ASSUME NEW m \in Range(toClient') PROVE DataOK(m)'
  <2>1. m \in Range(toClient)
    BY <1>1 DEF RcopyTypeStep
  <2>2. m \in PDU
    BY <2>1 DEF IndInv, NetTypeOK, Range
  <2>3. DataOK(m) /\ m.seq \in Nat
    BY <2>1, <2>2 DEF CopyInv, PDU
  <2>4. QED
    BY <1>1, <1>2, <1>3, <2>3 DEF DataOK
<1>5. ASSUME NEW m \in Range(toServer') PROVE AckOK(m)'
  <2>1. CASE m \in Range(toServer)
    <3>1. m \in PDU
      BY <2>1 DEF IndInv, NetTypeOK, Range
    <3>2. AckOK(m) /\ m.seq \in Nat
      BY <2>1, <3>1 DEF CopyInv, PDU
    <3>3. QED
      BY <1>1, <1>2, <1>3, <3>2 DEF AckOK
  <2>2. CASE Reply(m)
    <3>1. m.flag = RR => m.seq <= expected'
      BY <1>3, <2>2 DEF Reply
    <3>2. ASSUME m.flag = SREJ
          PROVE  m.seq \in 1..expected' /\ m.seq < sequenceNum
      <4>1. m.seq = expected' /\ transferState' = "OUT_OF_ORDER"
        BY <2>2, <3>2 DEF Reply
      <4>2. /\ expected' >= 1 /\ expected' <= highest'
            /\ highest' < sequenceNum \/ highest' = 0
        BY <1>1, <1>2, <4>1 DEF RcopyInv
      <4> DEFINE e == expected'
                 h == highest'
      <4>3. /\ e \in Nat /\ h \in Nat /\ e >= 1 /\ e <= h
            /\ h < sequenceNum \/ h = 0
        BY <1>3, <4>2
      <4> HIDE DEF e, h
      <4>4. e \in 1..e /\ e < sequenceNum
        BY <1>3, <4>3
      <4>5. QED
        BY <4>1, <4>4 DEF e
    <3>3. QED
      BY <1>1, <3>1, <3>2 DEF AckOK
  <2>3. QED
    BY <1>1, <2>1, <2>2 DEF RcopyTypeStep, Answered, Assumed
<1>6. childState' # "EXITED" => LowEnd' <= expected'
  <2> SUFFICES ASSUME childState' # "EXITED" PROVE LowEnd' <= expected'
    OBVIOUS
  <2>1. LowEnd' = LowEnd /\ LowEnd \in Nat /\ LowEnd <= expected
    BY <1>1, ServerFacts, SameWindow DEF CopyInv, IndInv
  <2> DEFINE e == expected'
  <2>2. e \in Nat /\ expected <= e
    BY <1>2, <1>3
  <2> HIDE DEF e
  <2>3. LowEnd <= e
    BY <1>3, <2>1, <2>2
  <2>4. QED
    BY <2>1, <2>3 DEF e
<1>7. QED
  BY <1>2, <1>4, <1>5, <1>6 DEF CopyInv

\* Steps that only lose datagrams, and stuttering steps.
LEMMA QuietCopyInv ==
  ASSUME Assumed, IndInv, CopyInv, UNCHANGED <<serverVars, rcopyVars>>,
         Range(toClient') \subseteq Range(toClient),
         Range(toServer') \subseteq Range(toServer)
  PROVE  CopyInv'
<1>1. UNCHANGED <<childState, window, sequenceNum, transferState, expected, highest,
                  buffer, outFile>>
  BY DEF serverVars, rcopyVars
<1>2. ServerWindow' = ServerWindow
  BY DEF ServerWindow, htons
<1>3. RcopyInv'
  BY <1>1, <1>2 DEF CopyInv, RcopyInv, Slot
<1>4. \A m : (DataOK(m) => DataOK(m)') /\ (AckOK(m) => AckOK(m)')
  BY <1>1 DEF DataOK, AckOK
<1>5. LowEnd' = LowEnd
  BY <1>1, SameWindow
<1>6. QED
  BY <1>1, <1>3, <1>4, <1>5 DEF CopyInv

LEMMA NextCopyInv ==
  ASSUME Assumed, IndInv, CopyInv, [Next]_vars
  PROVE  CopyInv'
<1>1. CASE ServerStep
  BY <1>1, ServerStepCopyInv
<1>2. CASE RcopyStep
  BY <1>2, RcopyStepCopyInv
<1>3. Range(<<>>) = {}
  BY DEF Range
<1>4. CASE ClientPortClosed
  BY <1>3, <1>4, QuietCopyInv DEF ClientPortClosed
<1>5. CASE ServerPortClosed
  BY <1>3, <1>5, QuietCopyInv DEF ServerPortClosed
<1>6. CASE UNCHANGED vars
  <2>1. UNCHANGED <<toClient, toServer, serverVars, rcopyVars>>
    BY <1>6 DEF vars, netVars
  <2>2. QED
    BY <2>1, QuietCopyInv
<1>7. QED
  BY <1>1, <1>2, <1>4, <1>5, <1>6 DEF Next

LEMMA CopyInvHolds ==
  ASSUME Assumed
  PROVE  Spec => []CopyInv
<1>1. Init => CopyInv
  BY InitCopyInv
<1>2. IndInv /\ CopyInv /\ [Next]_vars => CopyInv'
  BY NextCopyInv
<1>3. QED
  BY <1>1, <1>2, IndInvHolds, PTL DEF Spec

\* What rcopy writes is always the beginning of the file: no chunk is skipped,
\* repeated or taken from the wrong slot, by process_transfer_state's three
\* cases or by the flush at the end of file.
THEOREM CopyIsAPrefix ==
  ASSUME ServerWindow <= WindowArg, "flip" \notin FaultKinds
  PROVE  Spec => []PrefixWritten
<1>1. CopyInv => PrefixWritten
  BY DEF CopyInv, RcopyInv, PrefixWritten, FirstChunks
<1>2. QED
  BY <1>1, CopyInvHolds, PTL DEF Assumed

\* The removal loop of wait_on_ack_state never releases a packet that rcopy has
\* not written, so an SREJ for it can be answered.
THEOREM MissingStaysHeld ==
  ASSUME ServerWindow <= WindowArg, "flip" \notin FaultKinds
  PROVE  Spec => []MissingIsHeld
<1>1. IndInv /\ CopyInv => MissingIsHeld
  <2> SUFFICES ASSUME IndInv, CopyInv, childState # "EXITED",
                      NEW s \in expected..(sequenceNum - 1)
               PROVE  s \in Outstanding(window)
    BY DEF MissingIsHeld
  <2>1. /\ Holds /\ LowEnd \in Nat /\ LowEnd <= expected
        /\ expected \in Nat /\ sequenceNum \in Nat
    BY ServerFacts DEF IndInv, CopyInv, RcopyTypeOK
  <2>2. Outstanding(window) = LowEnd..(sequenceNum - 1)
    BY <2>1, RingContents, ServerWindowNat DEF Holds
  <2>3. QED
    BY <2>1, <2>2
<1>2. QED
  BY <1>1, IndInvHolds, CopyInvHolds, PTL DEF Assumed

\* The child is never more than its window ahead of rcopy.
THEOREM FlowControl ==
  ASSUME ServerWindow <= WindowArg, "flip" \notin FaultKinds
  PROVE  Spec => []WithinWindow
<1>1. CopyInv => WithinWindow
  BY DEF CopyInv, RcopyInv, WithinWindow
<1>2. QED
  BY <1>1, CopyInvHolds, PTL DEF Assumed

\* The three states of the receive loop agree with its counters and buffer.
THEOREM BufferAgrees ==
  ASSUME ServerWindow <= WindowArg, "flip" \notin FaultKinds
  PROVE  Spec => []BufferAgreesWithState
<1>1. CopyInv => BufferAgreesWithState
  BY DEF CopyInv, RcopyInv, BufferAgreesWithState
<1>2. QED
  BY <1>1, CopyInvHolds, PTL DEF Assumed

\* A data packet that rcopy can still use carries the chunk of its number,
\* although CircularQueue_get also returns entries of other packets.
THEOREM DataIsLabelled ==
  ASSUME ServerWindow <= WindowArg, "flip" \notin FaultKinds
  PROVE  Spec => []NoMislabelledData
<1>1. CopyInv => NoMislabelledData
  BY DEF CopyInv, NoMislabelledData, DataOK, Range
<1>2. QED
  BY <1>1, CopyInvHolds, PTL DEF Assumed

\* send_rr, called from three places, never acknowledges more than rcopy has
\* written, and an RR that is late or repeated stays true.
THEOREM AcksStayEarned ==
  ASSUME ServerWindow <= WindowArg, "flip" \notin FaultKinds
  PROVE  Spec => []AcksAreEarned
<1>1. CopyInv => AcksAreEarned
  BY DEF CopyInv, AcksAreEarned, AckOK, Range
<1>2. QED
  BY <1>1, CopyInvHolds, PTL DEF Assumed
===============================================================================
