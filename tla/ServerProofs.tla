----------------------------- MODULE ServerProofs ------------------------------
(***************************************************************************)
(* What the network can do to a flow, and what one step of the child does, *)
(* for every window size, file length and number of faults: the inductive  *)
(* invariant of server.c and what rcopy can see of a step.                 *)
(***************************************************************************)
EXTENDS Server, CircularQueueProofs, SequenceTheorems

(***************************************************************************)
(* A faulty network reorders, repeats, loses and damages datagrams, but it *)
(* does not make any up.                                                   *)
(***************************************************************************)
\* Removing the i-th element of a sequence.
LEMMA RemoveAtProperties ==
  ASSUME NEW M, NEW s \in Seq(M), NEW i \in 1..Len(s)
  PROVE  /\ RemoveAt(s, i) \in Seq(M)
         /\ Range(RemoveAt(s, i)) \subseteq Range(s)
<1> DEFINE l == SubSeq(s, 1, i - 1)
           r == SubSeq(s, i + 1, Len(s))
<1>1. Len(s) \in Nat /\ i \in Nat /\ 1 <= i /\ i <= Len(s)
  OBVIOUS
<1>2. l \in Seq(M) /\ Len(l) = i - 1 /\ \A j \in 1..(i - 1) : l[j] = s[j]
  OBVIOUS
<1>3. /\ r \in Seq(M) /\ Len(r) = Len(s) - i
      /\ \A j \in 1..(Len(s) - i) : r[j] = s[j + i]
  OBVIOUS
<1>4. RemoveAt(s, i) = l \o r
  BY DEF RemoveAt
<1> HIDE DEF l, r
<1>5. /\ l \o r \in Seq(M)
      /\ Len(l \o r) = Len(l) + Len(r)
      /\ \A j \in 1..(Len(l) + Len(r)) :
           (l \o r)[j] = IF j <= Len(l) THEN l[j] ELSE r[j - Len(l)]
  BY <1>2, <1>3, ConcatProperties
<1>6. ASSUME NEW j \in 1..(Len(l) + Len(r))
      PROVE  \E k \in 1..Len(s) : (l \o r)[j] = s[k]
  <2>1. CASE j < i
    BY <1>1, <1>2, <1>3, <1>5, <2>1
  <2>2. CASE ~(j < i)
    <3>1. (l \o r)[j] = r[j - i + 1] /\ j - i + 1 \in 1..(Len(s) - i)
      BY <1>1, <1>2, <1>3, <1>5, <2>2
    <3>2. r[j - i + 1] = s[j - i + 1 + i] /\ j - i + 1 + i \in 1..Len(s)
      BY <1>1, <1>3, <3>1
    <3>3. QED
      BY <3>1, <3>2
  <2>3. QED
    BY <2>1, <2>2
<1>7. DOMAIN (l \o r) = 1..(Len(l) + Len(r)) /\ DOMAIN s = 1..Len(s)
  BY <1>5
<1>8. \A x \in Range(l \o r) : x \in Range(s)
  BY <1>6, <1>7 DEF Range
<1>9. QED
  BY <1>4, <1>5, <1>8

\* Appending an element.
LEMMA AppendRange ==
  ASSUME NEW M, NEW s \in Seq(M), NEW m \in M
  PROVE  Append(s, m) \in Seq(M) /\ Range(Append(s, m)) = Range(s) \cup {m}
<1>1. /\ Append(s, m) \in Seq(M)
      /\ DOMAIN Append(s, m) = 1..(Len(s) + 1) /\ DOMAIN s = 1..Len(s)
      /\ Len(s) \in Nat
      /\ \A i \in 1..Len(s) : Append(s, m)[i] = s[i]
      /\ Append(s, m)[Len(s) + 1] = m
  OBVIOUS
<1>2. \A x \in Range(Append(s, m)) : x \in Range(s) \cup {m}
  BY <1>1 DEF Range
<1>3. \A x \in Range(s) \cup {m} : x \in Range(Append(s, m))
  BY <1>1 DEF Range
<1>4. QED
  BY <1>1, <1>2, <1>3

\* A bit flipped in a natural number leaves a natural number.
LEMMA FlipBitNat ==
  ASSUME NEW a \in Nat, NEW w \in Nat \ {0}
  PROVE  FlipBit(a, w) \in Nat
<1>1. CASE (a \div w) % 2 = 0
  BY <1>1 DEF FlipBit
<1>2. CASE (a \div w) % 2 # 0
  <2> DEFINE p == a \div w
  <2>1. a = w * p + (a % w) /\ p \in Int /\ a % w \in 0..(w - 1)
    BY DivMod
  <2> HIDE DEF p
  <2>2. w * p \in Int /\ w * 0 = 0
    BY <2>1
  <2>3. p # 0
    BY <1>2 DEF p
  <2>4. ~(p < 0)
    BY <2>1, <2>2, MultipleStep
  <2>5. w * p - w * 0 >= w
    BY <2>1, <2>3, <2>4, MultipleStep
  <2>6. a - w \in Nat
    BY <2>1, <2>2, <2>5
  <2>7. QED
    BY <1>2, <2>6 DEF FlipBit
<1>3. QED
  BY <1>1, <1>2

\* A damaged PDU is a PDU that says it is damaged.
LEMMA CorruptionsArePDUs ==
  ASSUME NEW m \in PDU
  PROVE  \A c \in Corruptions(m) : c \in PDU /\ ~c.intact
<1> DEFINE bad == [m EXCEPT !.intact = FALSE]
<1>1. bad \in PDU /\ ~bad.intact /\ bad.seq = m.seq
  BY DEF PDU
<1> HIDE DEF bad
<1>2. ASSUME NEW f \in Nat
      PROVE  [bad EXCEPT !.flag = f] \in PDU /\ ~[bad EXCEPT !.flag = f].intact
  BY <1>1 DEF PDU
<1>3. ASSUME NEW f \in Int
      PROVE  [bad EXCEPT !.payload = f] \in PDU /\ ~[bad EXCEPT !.payload = f].intact
  BY <1>1 DEF PDU
<1>4. ASSUME NEW f \in Nat
      PROVE  [bad EXCEPT !.seq = f] \in PDU /\ ~[bad EXCEPT !.seq = f].intact
  BY <1>1 DEF PDU
<1>5. Flags \subseteq Nat /\ Garbage \in Int
  BY DEF Flags, DataFlags, RR, SREJ, EOF, DATA, SREJ_DATA, TIMEOUT_DATA,
         FILE_OK_ACK, EOF_ACK, Garbage
<1>6. \A w \in FlipBits : FlipBit(m.seq, w) \in Nat
  BY FaultAssumption, FlipBitNat DEF PDU
<1>7. QED
  BY <1>1, <1>2, <1>3, <1>4, <1>5, <1>6 DEF Corruptions, bad

\* What sending m adds to a flow.
LEMMA TransmissionsAdd ==
  ASSUME NEW flow \in Seq(PDU), NEW m \in PDU, NEW t \in Transmissions(flow, m)
  PROVE  /\ t.flow \in Seq(PDU) /\ t.cost \in Nat
         /\ Range(t.flow) \subseteq
              Range(flow) \cup {m} \cup (IF "flip" \in FaultKinds THEN Corruptions(m) ELSE {})
<1>1. CASE t = [flow |-> Append(flow, m), cost |-> 0]
  BY <1>1, AppendRange
<1>2. CASE t = [flow |-> flow, cost |-> 1]
  BY <1>2
<1>3. ASSUME NEW c \in Corruptions(m), "flip" \in FaultKinds,
             t = [flow |-> Append(flow, c), cost |-> 1]
      PROVE  /\ t.flow \in Seq(PDU) /\ t.cost \in Nat
             /\ Range(t.flow) \subseteq Range(flow) \cup Corruptions(m)
  BY <1>3, CorruptionsArePDUs, AppendRange
<1>4. QED
  BY <1>1, <1>2, <1>3 DEF Transmissions

\* A flow delivers what is in it and is left with what was in it.
LEMMA DeliveriesTake ==
  ASSUME NEW flow \in Seq(PDU), NEW d \in Deliveries(flow)
  PROVE  /\ d.msg \in PDU /\ d.msg \in Range(flow)
         /\ d.rest \in Seq(PDU) /\ Range(d.rest) \subseteq Range(flow)
         /\ d.cost \in Nat
<1> DEFINE I == {j \in DOMAIN flow : j = 1 \/ "reorder" \in FaultKinds}
           A == {FALSE, "dup" \in FaultKinds}
           D(i, again) ==
             [msg  |-> flow[i],
              rest |-> IF again THEN flow ELSE RemoveAt(flow, i),
              cost |-> (IF i > 1 THEN 1 ELSE 0) + (IF again THEN 1 ELSE 0)]
<1>0. d \in {D(i, again) : i \in I, again \in A}
  BY DEF Deliveries
<1>1. PICK i \in 1..Len(flow) : \E again \in A : d = D(i, again)
  <2>1. I \subseteq 1..Len(flow)
    OBVIOUS
  <2> HIDE DEF I, A, D
  <2>2. QED
    BY <1>0, <2>1
<1> PICK again \in A : d = D(i, again)
  BY <1>1
<1>2. d.msg = flow[i] /\ d.cost \in Nat
  BY <1>1
<1>3. flow[i] \in PDU /\ flow[i] \in Range(flow)
  BY DEF Range
<1>4. d.rest = flow \/ d.rest = RemoveAt(flow, i)
  BY <1>1
<1>5. d.rest \in Seq(PDU) /\ Range(d.rest) \subseteq Range(flow)
  BY <1>4, RemoveAtProperties
<1>6. QED
  BY <1>2, <1>3, <1>5

\* The faults that are charged stay within their bound.
LEMMA ChargeBound ==
  ASSUME faults \in 0..MaxFaults, NEW cost \in Nat, Charge(cost)
  PROVE  faults' \in 0..MaxFaults
  BY FaultAssumption DEF Charge

\* What flow holds beyond old is m, or a damaged m.
OnlyAdds(flow, old, m) ==
  /\ flow \in Seq(PDU)
  /\ \A x \in Range(flow) : x \in Range(old) \/ x = m \/ ~x.intact
  /\ "flip" \notin FaultKinds => Range(flow) \subseteq Range(old) \cup {m}

\* A call of sendtoErr() adds what it sends, and nothing else.
LEMMA SendToClientAdds ==
  ASSUME NetTypeOK, NEW m \in PDU, NEW paid \in Nat, SendToClient(m, paid)
  PROVE  OnlyAdds(toClient', toClient, m) /\ faults' \in 0..MaxFaults
<1>1. PICK t \in Transmissions(toClient, m) : toClient' = t.flow /\ Charge(paid + t.cost)
  BY DEF SendToClient
<1>2. toClient \in Seq(PDU) /\ faults \in 0..MaxFaults
  BY DEF NetTypeOK
<1>3. /\ t.flow \in Seq(PDU) /\ t.cost \in Nat
      /\ \A x \in Range(t.flow) : x \in Range(toClient) \/ x = m \/ ~x.intact
      /\ "flip" \notin FaultKinds => Range(t.flow) \subseteq Range(toClient) \cup {m}
  BY <1>2, TransmissionsAdd, CorruptionsArePDUs
<1>4. paid + t.cost \in Nat
  BY <1>3
<1>5. QED
  BY <1>1, <1>2, <1>3, <1>4, ChargeBound DEF OnlyAdds

LEMMA SendToServerAdds ==
  ASSUME NetTypeOK, NEW m \in PDU, NEW paid \in Nat, SendToServer(m, paid)
  PROVE  OnlyAdds(toServer', toServer, m) /\ faults' \in 0..MaxFaults
<1>1. PICK t \in Transmissions(toServer, m) : toServer' = t.flow /\ Charge(paid + t.cost)
  BY DEF SendToServer
<1>2. toServer \in Seq(PDU) /\ faults \in 0..MaxFaults
  BY DEF NetTypeOK
<1>3. /\ t.flow \in Seq(PDU) /\ t.cost \in Nat
      /\ \A x \in Range(t.flow) : x \in Range(toServer) \/ x = m \/ ~x.intact
      /\ "flip" \notin FaultKinds => Range(t.flow) \subseteq Range(toServer) \cup {m}
  BY <1>2, TransmissionsAdd, CorruptionsArePDUs
<1>4. paid + t.cost \in Nat
  BY <1>3
<1>5. QED
  BY <1>1, <1>2, <1>3, <1>4, ChargeBound DEF OnlyAdds

\* Handing a datagram to a program makes nothing up either.
LEMMA DeliveryTakes ==
  ASSUME NEW flow \in Seq(PDU), NEW flow2, NEW d \in Deliveries(flow), flow2 = d.rest
  PROVE  flow2 \in Seq(PDU) /\ Range(flow2) \subseteq Range(flow)
  BY DeliveriesTake

\* A timeout is charged at most once.
LEMMA PollTimeoutCostNat == PollTimeoutCost \in Nat
  BY DEF PollTimeoutCost

-------------------------------------------------------------------------------
(***************************************************************************)
(* The child.                                                              *)
(***************************************************************************)
\* The oldest number the window holds, and the whole ring.
LowEnd == sequenceNum - window.ValidCount
Holds  == RingHolds(window, ServerWindow, LowEnd, sequenceNum)

\* The child runs send_data_state or has done so.
SendingStates == {"SEND_DATA", "DRAIN", "WAIT_ON_EOF_ACK", "RESEND_EOF"}

\* The inductive invariant of the child.  The number 0 is only there until
\* send_data_state runs, so the oldest number is never 0 while one is held,
\* and the loop that releases 1, 2, ... reaches everything in the ring.
ServerInv ==
  /\ childState \in ChildStates
  /\ sequenceNum \in 0..(FileChunks + 1)
  /\ count \in 0..MAX_TIMEOUTS
  /\ timeoutCount \in 0..MAX_TIMEOUTS
  /\ eofResendCount \in 0..MAX_TIMEOUTS
  /\ childState = "WRITE_FILE_OK_ACK" => sequenceNum = 0 /\ count < MAX_TIMEOUTS
  /\ childState \in SendingStates => sequenceNum >= 1
  /\ childState \in {"WRITE_FILE_OK_ACK", "SEND_DATA", "DRAIN"} =>
       timeoutCount < MAX_TIMEOUTS
  /\ childState # "EXITED" => Holds /\ (sequenceNum >= 1 => LowEnd >= 1)
  /\ childState = "EXITED" =>
       window = [entries |-> <<>>, WindowSize |-> 0, ValidCount |-> 0]

\* A datagram that the child sends in a step: anything but a data packet, or a
\* data packet with a number in use and, if the window holds that number, with
\* its chunk; a number that it does not hold is one that an SREJ asked for.
FromChild(x) ==
  x.flag \in DataFlags =>
    \/ /\ x.seq \in 1..(sequenceNum' - 1) /\ x.payload = x.seq
    \/ \E m \in Range(toServer) :
         /\ m.flag = SREJ /\ m.seq = x.seq
         /\ x.seq \in LowEnd..(sequenceNum - 1) => x.payload = x.seq

\* What rcopy can see of a step of the child when no bit is flipped: numbers
\* grow, are never more than the window ahead of the oldest one, and the oldest
\* one moves only because of an RR above it.
ChildEffect ==
  /\ sequenceNum <= sequenceNum'
  /\ Range(toServer') \subseteq Range(toServer)
  /\ \A x \in Range(toClient') : x \in Range(toClient) \/ FromChild(x)
  /\ sequenceNum' \in {sequenceNum, 1} \/ sequenceNum' <= LowEnd + ServerWindow
  /\ childState' # "EXITED" =>
       \/ childState # "EXITED" /\ LowEnd' = LowEnd
       \/ LowEnd' = 1
       \/ \E m \in Range(toServer) : m.flag = RR /\ LowEnd' <= m.seq

\* What every step of the child has to establish.
ChildStep ==
  NetTypeOK' /\ ServerInv' /\ ("flip" \notin FaultKinds => ChildEffect)

-------------------------------------------------------------------------------
\* The window has at least one slot.
LEMMA ServerWindowNat == ServerWindow \in Nat \ {0}
<1>1. WindowArg \in Nat /\ ByteBase \in Nat \ {0}
  BY WindowArgAssumption, ByteBaseAssumption
<1>2. WindowArg \div ByteBase \in Nat
  BY <1>1, SMTT(20)
<1>3. (WindowArg % ByteBase) \in Nat /\ ((WindowArg \div ByteBase) % ByteBase) \in Nat
  BY <1>1, <1>2, DivMod
<1>4. (WindowArg % ByteBase) * ByteBase \in Nat
  BY <1>1, <1>3, SMTT(20)
<1>5. ServerWindow \in Nat
  BY <1>3, <1>4 DEF ServerWindow, htons
<1>6. QED
  BY <1>5, WindowAssumption

LEMMA FlagsDiffer ==
  /\ EOF \notin DataFlags /\ RR \notin DataFlags /\ SREJ \notin DataFlags
  /\ RR # SREJ /\ EOF_ACK \notin {RR, SREJ} /\ FILE_OK_ACK \notin {RR, SREJ}
  /\ DATA \in DataFlags /\ SREJ_DATA \in DataFlags /\ TIMEOUT_DATA \in DataFlags
  /\ EOF \in Nat /\ RR \in Nat /\ SREJ \in Nat /\ EOF_ACK \in Nat
  /\ DataFlags \subseteq Nat /\ FILE_OK_ACK \in Nat
  /\ DATA \in Nat /\ SREJ_DATA \in Nat /\ TIMEOUT_DATA \in Nat
  BY DEF EOF, RR, SREJ, EOF_ACK, FILE_OK_ACK, DataFlags, DATA, SREJ_DATA, TIMEOUT_DATA

LEMMA createPDUType ==
  ASSUME NEW s \in Nat, NEW f \in Nat, NEW p \in Int
  PROVE  /\ createPDU(s, f, p) \in PDU
         /\ createPDU(s, f, p).seq = s
         /\ createPDU(s, f, p).flag = f
         /\ createPDU(s, f, p).payload = p
  BY DEF createPDU, PDU

\* The child starts in its invariant.
LEMMA ServerInitInv == ServerInit => ServerInv
<1> SUFFICES ASSUME ServerInit PROVE ServerInv
  OBVIOUS
<1>1. RingHolds(window, ServerWindow, 0, 0)
  BY RingInit, ServerWindowNat DEF ServerInit
<1>2. LowEnd = 0
  BY <1>1, RingCount, ServerWindowNat DEF LowEnd, ServerInit
<1>3. QED
  BY <1>1, <1>2, ServerAssumption
     DEF ServerInit, ServerInv, Holds, ChildStates, SendingStates

-------------------------------------------------------------------------------
\* The flows and the counters, from the invariants.
LEMMA ServerFacts ==
  ASSUME NetTypeOK, ServerInv
  PROVE  /\ toClient \in Seq(PDU) /\ toServer \in Seq(PDU) /\ faults \in 0..MaxFaults
         /\ sequenceNum \in Nat /\ sequenceNum \in 0..(FileChunks + 1)
         /\ FileChunks \in Nat /\ MAX_TIMEOUTS \in Nat \ {0}
         /\ ServerWindow \in Nat \ {0}
         /\ childState # "EXITED" =>
              /\ Holds /\ LowEnd \in Nat /\ LowEnd <= sequenceNum
              /\ sequenceNum - LowEnd <= ServerWindow
              /\ window.ValidCount \in Nat
<1>1. childState # "EXITED" =>
        /\ Holds /\ LowEnd \in Nat /\ LowEnd <= sequenceNum
        /\ sequenceNum - LowEnd <= ServerWindow
        /\ window.ValidCount \in Nat
  BY RingCount, ServerWindowNat DEF ServerInv, Holds
<1>2. QED
  BY <1>1, ServerAssumption, ServerWindowNat DEF NetTypeOK, ServerInv

\* A step that leaves the ring alone leaves what is said of it alone.
LEMMA SameWindow ==
  ASSUME window' = window, sequenceNum' = sequenceNum
  PROVE  LowEnd' = LowEnd /\ (Holds' <=> Holds)
  BY DEF LowEnd, Holds

LEMMA RecvFileOkAckStep ==
  ASSUME NetTypeOK, ServerInv, RecvFileOkAck
  PROVE  ChildStep
<1>1. PICK d \in Deliveries(toServer) :
        /\ toServer' = d.rest
        /\ Charge(d.cost)
        /\ \/ /\ childState' = "SEND_DATA"
              /\ window' = CircularQueue_init(ServerWindow)
              /\ sequenceNum' = 1
              /\ count' = 0
           \/ UNCHANGED <<childState, window, sequenceNum, count>>
  BY DEF RecvFileOkAck
<1>2. /\ toServer' \in Seq(PDU) /\ Range(toServer') \subseteq Range(toServer)
      /\ d.cost \in Nat
  BY <1>1, ServerFacts, DeliveriesTake
<1>3. /\ childState = "WRITE_FILE_OK_ACK"
      /\ UNCHANGED <<toClient, timeoutCount, eofResendCount>>
      /\ sequenceNum = 0
  BY DEF RecvFileOkAck, ServerInv
<1>4. NetTypeOK'
  BY <1>1, <1>2, <1>3, ServerFacts, ChargeBound DEF NetTypeOK
<1>5. CASE /\ childState' = "SEND_DATA"
           /\ window' = CircularQueue_init(ServerWindow)
           /\ sequenceNum' = 1
           /\ count' = 0
  <2>1. RingHolds(window', ServerWindow, 1, 1)
    BY <1>5, RingInit, ServerWindowNat
  <2>2. LowEnd' = 1
    BY <1>5, <2>1, RingCount, ServerWindowNat DEF LowEnd
  <2>3. Holds'
    BY <1>5, <2>1, <2>2 DEF Holds
  <2>4. ServerInv'
    BY <1>3, <1>5, <2>2, <2>3, ServerFacts DEF ServerInv, ChildStates, SendingStates
  <2>5. ChildEffect
    BY <1>2, <1>3, <1>5, <2>2 DEF ChildEffect
  <2>6. QED
    BY <1>4, <2>4, <2>5 DEF ChildStep
<1>6. CASE UNCHANGED <<childState, window, sequenceNum, count>>
  <2>1. ServerInv'
    BY <1>3, <1>6, SameWindow DEF ServerInv, SendingStates
  <2>2. ChildEffect
    BY <1>2, <1>3, <1>6, SameWindow DEF ChildEffect
  <2>3. QED
    BY <1>4, <2>1, <2>2 DEF ChildStep
<1>7. QED
  BY <1>1, <1>5, <1>6

\* The steps that neither send nor receive anything and leave the ring alone.
LEMMA QuietStep ==
  ASSUME NetTypeOK, ServerInv,
         UNCHANGED <<toClient, toServer, window, sequenceNum>>,
         faults' \in 0..MaxFaults, ServerInv',
         childState' # "EXITED" => childState # "EXITED"
  PROVE  ChildStep
<1>1. NetTypeOK'
  BY DEF NetTypeOK
<1>2. ChildEffect
  BY ServerFacts, SameWindow DEF ChildEffect
<1>3. QED
  BY <1>1, <1>2 DEF ChildStep

LEMMA FileOkAckTimeoutStep ==
  ASSUME NetTypeOK, ServerInv, FileOkAckTimeout
  PROVE  ChildStep
<1>1. faults' \in 0..MaxFaults
  BY ServerFacts, PollTimeoutCostNat, ChargeBound DEF FileOkAckTimeout
<1>2. ServerInv'
  BY SameWindow, ServerAssumption
     DEF FileOkAckTimeout, ServerInv, ChildStates, SendingStates
<1>3. QED
  BY <1>1, <1>2, QuietStep DEF FileOkAckTimeout

LEMMA DrainEndsStep ==
  ASSUME NetTypeOK, ServerInv, DrainEnds
  PROVE  ChildStep
<1>1. faults' \in 0..MaxFaults
  BY ServerFacts DEF DrainEnds, netVars
<1>2. ServerInv'
  BY SameWindow, ServerAssumption DEF DrainEnds, ServerInv, ChildStates, SendingStates
<1>3. QED
  BY <1>1, <1>2, QuietStep DEF DrainEnds, netVars

LEMMA EofAckTimeoutStep ==
  ASSUME NetTypeOK, ServerInv, EofAckTimeout
  PROVE  ChildStep
<1>1. faults' \in 0..MaxFaults
  BY ServerFacts, PollTimeoutCostNat, ChargeBound DEF EofAckTimeout
<1>2. ServerInv'
  BY SameWindow DEF EofAckTimeout, ServerInv, ChildStates, SendingStates
<1>3. QED
  BY <1>1, <1>2, QuietStep DEF EofAckTimeout

\* Sending one PDU and leaving the rest of the network alone.
LEMMA SendDataStep ==
  ASSUME NetTypeOK, ServerInv, SendData
  PROVE  ChildStep
<1> DEFINE m == createPDU(sequenceNum, DATA, sequenceNum)
<1>1. /\ childState = "SEND_DATA" /\ childState' = "DRAIN"
      /\ ~CircularQueue_is_full(window)
      /\ sequenceNum <= FileChunks
      /\ window' = CircularQueue_insert(window, sequenceNum, sequenceNum)
      /\ SendToClient(m, 0)
      /\ sequenceNum' = sequenceNum + 1
      /\ UNCHANGED <<toServer, count, timeoutCount, eofResendCount>>
  BY ServerFacts DEF SendData, FileRead
<1>2. /\ Holds /\ LowEnd \in Nat /\ LowEnd >= 1 /\ sequenceNum >= 1
      /\ sequenceNum \in Nat /\ LowEnd <= sequenceNum
  BY <1>1, ServerFacts DEF ServerInv, SendingStates
<1>3. sequenceNum - LowEnd < ServerWindow
  BY <1>1, <1>2, RingContents, ServerFacts DEF Holds
<1>4. RingHolds(window', ServerWindow, LowEnd, sequenceNum')
  BY <1>1, <1>2, <1>3, RingInsert, ServerFacts DEF Holds
<1>5. LowEnd' = LowEnd
  BY <1>4, RingCount, ServerFacts DEF LowEnd
<1>6. Holds'
  BY <1>4, <1>5 DEF Holds
<1>7. m \in PDU /\ m.seq = sequenceNum /\ m.flag = DATA /\ m.payload = sequenceNum
  BY <1>2, createPDUType, FlagsDiffer
<1> HIDE DEF m
<1>8. OnlyAdds(toClient', toClient, m) /\ faults' \in 0..MaxFaults
  BY <1>1, <1>7, SendToClientAdds
<1>9. NetTypeOK'
  BY <1>1, <1>8, ServerFacts DEF NetTypeOK, OnlyAdds
<1>10. ServerInv'
  BY <1>1, <1>2, <1>5, <1>6, ServerFacts DEF ServerInv, ChildStates, SendingStates
<1>11. ASSUME "flip" \notin FaultKinds PROVE ChildEffect
  <2>1. FromChild(m)
    BY <1>1, <1>2, <1>7 DEF FromChild
  <2>2. \A x \in Range(toClient') : x \in Range(toClient) \/ FromChild(x)
    BY <1>8, <1>11, <2>1 DEF OnlyAdds
  <2>3. sequenceNum <= sequenceNum' /\ sequenceNum' <= LowEnd + ServerWindow
    BY <1>1, <1>2, <1>3, ServerFacts
  <2>4. QED
    BY <1>1, <1>5, <2>2, <2>3 DEF ChildEffect
<1>12. QED
  BY <1>9, <1>10, <1>11 DEF ChildStep

\* Steps that send one PDU, not before it is due, and leave the ring alone.
LEMMA SendStep ==
  ASSUME NetTypeOK, ServerInv, NEW m \in PDU,
         OnlyAdds(toClient', toClient, m), faults' \in 0..MaxFaults,
         UNCHANGED <<toServer, window, sequenceNum>>, ServerInv',
         childState' # "EXITED" => childState # "EXITED",
         "flip" \notin FaultKinds => FromChild(m)
  PROVE  ChildStep
<1>1. NetTypeOK'
  BY ServerFacts DEF NetTypeOK, OnlyAdds
<1>2. ASSUME "flip" \notin FaultKinds PROVE ChildEffect
  <2>1. \A x \in Range(toClient') : x \in Range(toClient) \/ FromChild(x)
    BY <1>2 DEF OnlyAdds
  <2>2. QED
    BY <2>1, ServerFacts, SameWindow DEF ChildEffect
<1>3. QED
  BY <1>1, <1>2 DEF ChildStep

\* An EOF is no data packet.
LEMMA EofPDU ==
  ASSUME NEW s \in Nat
  PROVE  /\ createPDU(s, EOF, NULL) \in PDU
         /\ FromChild(createPDU(s, EOF, NULL))
<1>1. NULL \in Int
  BY DEF NULL
<1>2. createPDU(s, EOF, NULL) \in PDU /\ createPDU(s, EOF, NULL).flag = EOF
  BY <1>1, createPDUType, FlagsDiffer
<1>3. QED
  BY <1>2, FlagsDiffer DEF FromChild

LEMMA SendEofStep ==
  ASSUME NetTypeOK, ServerInv, SendEof
  PROVE  ChildStep
<1> DEFINE m == createPDU(sequenceNum, EOF, NULL)
<1>1. m \in PDU /\ FromChild(m)
  BY EofPDU, ServerFacts
<1>2. SendToClient(m, 0)
  BY DEF SendEof
<1> HIDE DEF m
<1>3. OnlyAdds(toClient', toClient, m) /\ faults' \in 0..MaxFaults
  BY <1>1, <1>2, SendToClientAdds
<1>4. ServerInv'
  BY SameWindow, ServerAssumption DEF SendEof, ServerInv, ChildStates, SendingStates
<1>5. QED
  BY <1>1, <1>3, <1>4, SendStep DEF SendEof

LEMMA ResendEofStep ==
  ASSUME NetTypeOK, ServerInv, resend_eof_state
  PROVE  ChildStep
<1>0. /\ childState = "RESEND_EOF"
      /\ UNCHANGED <<toServer, window, sequenceNum, count, timeoutCount>>
  BY DEF resend_eof_state
<1>1. CASE /\ childState' = "DONE"
           /\ UNCHANGED <<toClient, faults, eofResendCount>>
  <2>1. ServerInv'
    BY <1>0, <1>1, SameWindow DEF ServerInv, ChildStates, SendingStates
  <2>2. QED
    BY <1>0, <1>1, <2>1, QuietStep, ServerFacts
<1>2. CASE /\ eofResendCount < MAX_TIMEOUTS
           /\ SendToClient(createPDU(sequenceNum, EOF, NULL), 0)
           /\ eofResendCount' = eofResendCount + 1
           /\ childState' = "WAIT_ON_EOF_ACK"
  <2> DEFINE m == createPDU(sequenceNum, EOF, NULL)
  <2>1. m \in PDU /\ FromChild(m)
    BY EofPDU, ServerFacts
  <2> HIDE DEF m
  <2>2. OnlyAdds(toClient', toClient, m) /\ faults' \in 0..MaxFaults
    BY <1>2, <2>1, SendToClientAdds DEF m
  <2>3. ServerInv'
    BY <1>0, <1>2, SameWindow, ServerAssumption DEF ServerInv, ChildStates, SendingStates
  <2>4. QED
    BY <1>0, <1>2, <2>1, <2>2, <2>3, SendStep
<1>3. QED
  BY <1>1, <1>2 DEF resend_eof_state

\* Both places where send_data_state hands a datagram to wait_on_ack_state.
LEMMA AckStep ==
  ASSUME NetTypeOK, ServerInv, childState \in {"SEND_DATA", "DRAIN"},
         NEW d \in Deliveries(toServer), toServer' = d.rest,
         wait_on_ack_state(d.msg, d.cost),
         UNCHANGED <<sequenceNum, count, eofResendCount>>,
         timeoutCount' \in {timeoutCount, 0}
  PROVE  ChildStep
<1> DEFINE m == d.msg
<1>1. /\ m \in PDU /\ m \in Range(toServer) /\ m.seq \in Nat
      /\ toServer' \in Seq(PDU) /\ Range(toServer') \subseteq Range(toServer)
      /\ d.cost \in Nat
  BY ServerFacts, DeliveriesTake DEF PDU
<1>2. /\ Holds /\ LowEnd \in Nat /\ LowEnd >= 1 /\ sequenceNum >= 1
      /\ sequenceNum \in Nat /\ LowEnd <= sequenceNum /\ childState # "EXITED"
  BY ServerFacts DEF ServerInv, SendingStates
<1>3. CASE /\ m.flag = RR
           /\ window' = RemoveBelow(window, m.seq)
           /\ Charge(d.cost)
           /\ UNCHANGED <<childState, toClient>>
  <2> DEFINE low == Released(LowEnd, sequenceNum, m.seq)
  <2>1. RingHolds(window', ServerWindow, low, sequenceNum')
    BY <1>1, <1>2, <1>3, RingRelease, ServerFacts DEF Holds
  <2>2. LowEnd' = low
    BY <2>1, RingCount, ServerFacts DEF LowEnd
  <2>3. Holds'
    BY <2>1, <2>2 DEF Holds
  <2>4. low >= 1 /\ (low = LowEnd \/ low <= m.seq)
    BY <1>1, <1>2 DEF Released
  <2>5. NetTypeOK'
    BY <1>1, <1>3, ServerFacts, ChargeBound DEF NetTypeOK
  <2>6. ServerInv'
    BY <1>2, <1>3, <2>2, <2>3, <2>4, ServerAssumption DEF ServerInv, SendingStates
  <2>7. ChildEffect
    BY <1>1, <1>2, <1>3, <2>2, <2>4 DEF ChildEffect
  <2>8. QED
    BY <2>5, <2>6, <2>7 DEF ChildStep
<1>4. CASE /\ m.flag = SREJ
           /\ \E entry \in CircularQueue_get(window, m.seq) :
                SendToClient(createPDU(m.seq, SREJ_DATA, entry.packet), d.cost)
           /\ UNCHANGED <<childState, window>>
  <2>1. PICK entry \in CircularQueue_get(window, m.seq) :
          SendToClient(createPDU(m.seq, SREJ_DATA, entry.packet), d.cost)
    BY <1>4
  <2> DEFINE p == createPDU(m.seq, SREJ_DATA, entry.packet)
  <2>2. /\ entry.packet \in Int
        /\ m.seq \in LowEnd..(sequenceNum - 1) => entry.packet = m.seq
    <3>1. /\ RingHolds(window, ServerWindow, LowEnd, sequenceNum)
          /\ ServerWindow \in Nat \ {0} /\ m.seq \in Nat
      BY <1>1, <1>2, ServerFacts DEF Holds
    <3> HIDE DEF m
    <3>2. QED
      BY <3>1, <2>1, RingGet
  <2>3. /\ p \in PDU /\ p.seq = m.seq /\ p.flag = SREJ_DATA
        /\ p.payload = entry.packet
    <3> DEFINE s == m.seq
               c == entry.packet
    <3>1. s \in Nat /\ SREJ_DATA \in Nat /\ c \in Int
      BY <1>1, <2>2, FlagsDiffer
    <3>2. p = createPDU(s, SREJ_DATA, c)
      OBVIOUS
    <3> HIDE DEF s, c, p
    <3>3. p \in PDU /\ p.seq = s /\ p.flag = SREJ_DATA /\ p.payload = c
      BY <3>1, <3>2, createPDUType
    <3>4. QED
      BY <3>3 DEF s, c
  <2>4. SendToClient(p, d.cost)
    BY <2>1
  <2> HIDE DEF p
  <2>5. OnlyAdds(toClient', toClient, p) /\ faults' \in 0..MaxFaults
    BY <1>1, <2>3, <2>4, SendToClientAdds
  <2>6. NetTypeOK'
    BY <1>1, <2>5 DEF NetTypeOK, OnlyAdds
  <2>7. ServerInv'
    BY <1>2, <1>4, SameWindow, ServerAssumption DEF ServerInv, SendingStates
  <2>8. ASSUME "flip" \notin FaultKinds PROVE ChildEffect
    <3>1. FromChild(p)
      BY <1>1, <1>4, <2>2, <2>3 DEF FromChild
    <3>2. \A x \in Range(toClient') : x \in Range(toClient) \/ FromChild(x)
      BY <2>5, <2>8, <3>1 DEF OnlyAdds
    <3>3. QED
      BY <1>1, <1>2, <1>4, <3>2, SameWindow DEF ChildEffect
  <2>9. QED
    BY <2>6, <2>7, <2>8 DEF ChildStep
<1>5. CASE /\ childState' \in {childState, "CRASHED"}
           /\ Charge(d.cost)
           /\ UNCHANGED <<window, toClient>>
  <2>1. NetTypeOK'
    BY <1>1, <1>5, ServerFacts, ChargeBound DEF NetTypeOK
  <2>2. ServerInv'
    BY <1>2, <1>5, SameWindow, ServerAssumption DEF ServerInv, ChildStates, SendingStates
  <2>3. ChildEffect
    BY <1>1, <1>2, <1>5, SameWindow DEF ChildEffect
  <2>4. QED
    BY <2>1, <2>2, <2>3 DEF ChildStep
<1>6. QED
  BY <1>3, <1>4, <1>5 DEF wait_on_ack_state

LEMMA RecvWhileDrainingStep ==
  ASSUME NetTypeOK, ServerInv, RecvWhileDraining
  PROVE  ChildStep
<1>1. PICK d \in Deliveries(toServer) :
        toServer' = d.rest /\ wait_on_ack_state(d.msg, d.cost)
  BY DEF RecvWhileDraining
<1>2. /\ childState \in {"SEND_DATA", "DRAIN"}
      /\ UNCHANGED <<sequenceNum, count, eofResendCount>>
      /\ timeoutCount' \in {timeoutCount, 0}
  BY DEF RecvWhileDraining
<1>3. QED
  BY <1>1, <1>2, AckStep

LEMMA RecvWhileFullStep ==
  ASSUME NetTypeOK, ServerInv, RecvWhileFull
  PROVE  ChildStep
<1>1. PICK d \in Deliveries(toServer) :
        toServer' = d.rest /\ wait_on_ack_state(d.msg, d.cost)
  BY DEF RecvWhileFull
<1>2. /\ childState \in {"SEND_DATA", "DRAIN"}
      /\ UNCHANGED <<sequenceNum, count, eofResendCount>>
      /\ timeoutCount' \in {timeoutCount, 0}
  BY DEF RecvWhileFull
<1>3. QED
  BY <1>1, <1>2, AckStep

\* A full window has a first valid entry, and it is one of the window's.
LEMMA TimeoutWhileFullStep ==
  ASSUME NetTypeOK, ServerInv, TimeoutWhileFull
  PROVE  ChildStep
<1> DEFINE slot  == ResentSlot(window)
           entry == window.entries[slot]
           m     == createPDU(entry.sequenceNum, TIMEOUT_DATA, entry.packet)
<1>1. /\ childState = "SEND_DATA"
      /\ CircularQueue_is_full(window)
      /\ SendToClient(m, PollTimeoutCost)
      /\ timeoutCount' = timeoutCount + 1
      /\ childState' = IF timeoutCount' >= MAX_TIMEOUTS THEN "DONE" ELSE childState
      /\ UNCHANGED <<toServer, window, sequenceNum, count, eofResendCount>>
  BY DEF TimeoutWhileFull
<1>2. /\ Holds /\ LowEnd \in Nat /\ LowEnd >= 1 /\ sequenceNum >= 1
      /\ sequenceNum \in Nat /\ LowEnd <= sequenceNum
  BY <1>1, ServerFacts DEF ServerInv, SendingStates
<1>3. sequenceNum - LowEnd = ServerWindow
  BY <1>1, <1>2, RingContents, ServerFacts DEF Holds
<1>4. slot \in ValidSlots(window)
  <2> DEFINE V == ValidSlots(window)
  <2>1. /\ RingHolds(window, ServerWindow, LowEnd, sequenceNum)
        /\ ServerWindow \in Nat \ {0}
    BY <1>2, ServerFacts DEF Holds
  <2>2. V # {}
    <3>1. V = {SlotOf(ServerWindow, s) : s \in LowEnd..(sequenceNum - 1)}
      BY <2>1, RingContents
    <3>2. LowEnd \in LowEnd..(sequenceNum - 1)
      <4> DEFINE lo == LowEnd
      <4>1. lo \in Nat /\ sequenceNum \in Nat /\ sequenceNum - lo = ServerWindow
        BY <1>2, <1>3
      <4> HIDE DEF lo
      <4>2. lo \in lo..(sequenceNum - 1)
        BY <2>1, <4>1
      <4>3. QED
        BY <4>2 DEF lo
    <3> HIDE DEF V
    <3>3. QED
      BY <3>1, <3>2
  <2>3. DOMAIN window.entries = 0..(ServerWindow - 1)
    BY <2>1, RingContents
  <2>4. V \in SUBSET Nat
    BY <2>3, ServerFacts DEF ValidSlots
  <2> HIDE DEF V
  <2>5. \E x \in V : \A y \in V : x <= y
    BY <2>2, <2>4, LeastNatural
  <2>6. Min(V) \in V
    BY <2>5 DEF Min
  <2>7. QED
    BY <2>6 DEF V, ResentSlot
<1>5. /\ entry.sequenceNum \in LowEnd..(sequenceNum - 1)
      /\ entry.packet = entry.sequenceNum
  <2>1. slot \in 0..(ServerWindow - 1) /\ entry.valid
    BY <1>2, <1>4, RingContents, ServerFacts DEF Holds, ValidSlots
  <2>2. /\ entry.sequenceNum \in LowEnd..(sequenceNum - 1)
        /\ slot = SlotOf(ServerWindow, entry.sequenceNum)
    BY <1>2, <2>1 DEF Holds, RingHolds
  <2>3. QED
    BY <1>2, <2>2 DEF Holds, RingHolds
<1> HIDE DEF entry, slot
<1>6. /\ entry.sequenceNum \in 1..(sequenceNum - 1) /\ entry.sequenceNum \in Nat
      /\ entry.packet \in Int
  BY <1>2, <1>5
<1>7. /\ m \in PDU /\ m.seq = entry.sequenceNum /\ m.flag = TIMEOUT_DATA
      /\ m.payload = entry.packet
  <2> DEFINE s == entry.sequenceNum
             p == entry.packet
  <2>1. s \in Nat /\ TIMEOUT_DATA \in Nat /\ p \in Int
    BY <1>6, FlagsDiffer
  <2>2. m = createPDU(s, TIMEOUT_DATA, p)
    OBVIOUS
  <2> HIDE DEF s, p, m
  <2>3. /\ m \in PDU /\ m.seq = s /\ m.flag = TIMEOUT_DATA /\ m.payload = p
    BY <2>1, <2>2, createPDUType
  <2>4. QED
    BY <2>3 DEF s, p
<1> HIDE DEF m
<1>8. OnlyAdds(toClient', toClient, m) /\ faults' \in 0..MaxFaults
  BY <1>1, <1>7, SendToClientAdds, PollTimeoutCostNat
<1>9. ServerInv'
  BY <1>1, SameWindow, ServerAssumption DEF ServerInv, ChildStates, SendingStates
<1>10. FromChild(m)
  BY <1>1, <1>5, <1>6, <1>7 DEF FromChild
<1>11. QED
  BY <1>1, <1>7, <1>8, <1>9, <1>10, SendStep

LEMMA RecvEofAckStep ==
  ASSUME NetTypeOK, ServerInv, RecvEofAck
  PROVE  ChildStep
<1>1. PICK d \in Deliveries(toServer) :
        toServer' = d.rest /\ Charge(d.cost) /\ childState' \in {childState, "DONE"}
  BY DEF RecvEofAck
<1>2. /\ childState = "WAIT_ON_EOF_ACK"
      /\ UNCHANGED <<toClient, window, sequenceNum, count, timeoutCount, eofResendCount>>
  BY DEF RecvEofAck
<1>3. /\ toServer' \in Seq(PDU) /\ Range(toServer') \subseteq Range(toServer)
      /\ d.cost \in Nat
  BY <1>1, ServerFacts, DeliveriesTake
<1>4. NetTypeOK'
  BY <1>1, <1>2, <1>3, ServerFacts, ChargeBound DEF NetTypeOK
<1>5. ServerInv'
  BY <1>1, <1>2, SameWindow DEF ServerInv, ChildStates, SendingStates
<1>6. ChildEffect
  BY <1>1, <1>2, <1>3, ServerFacts, SameWindow DEF ChildEffect
<1>7. QED
  BY <1>4, <1>5, <1>6 DEF ChildStep

LEMMA CleanUpStep ==
  ASSUME NetTypeOK, ServerInv, CleanUp
  PROVE  ChildStep
<1>1. /\ childState = "DONE"
      /\ UNCHANGED <<toClient, toServer, faults, sequenceNum, count, timeoutCount,
                     eofResendCount>>
      /\ \/ childState' = "EXITED" /\ window' = CircularQueue_free(window)
         \/ childState' = "CRASHED" /\ UNCHANGED window
  BY DEF CleanUp, netVars
<1>2. NetTypeOK'
  BY <1>1, ServerFacts DEF NetTypeOK
<1>3. CASE childState' = "EXITED" /\ window' = CircularQueue_free(window)
  <2>1. window \in Ring(ServerWindow)
    BY <1>1, RingCount, ServerFacts DEF Holds
  <2>2. window' = [entries |-> <<>>, WindowSize |-> 0, ValidCount |-> 0]
    BY <1>3, <2>1 DEF CircularQueue_free, CircularQueue_clear, Ring
  <2>3. ServerInv'
    BY <1>1, <1>3, <2>2 DEF ServerInv, ChildStates, SendingStates
  <2>4. ChildEffect
    BY <1>1, <1>3, ServerFacts DEF ChildEffect
  <2>5. QED
    BY <1>2, <2>3, <2>4 DEF ChildStep
<1>4. CASE childState' = "CRASHED" /\ UNCHANGED window
  <2>1. ServerInv'
    BY <1>1, <1>4, SameWindow DEF ServerInv, ChildStates, SendingStates
  <2>2. ChildEffect
    BY <1>1, <1>4, ServerFacts, SameWindow DEF ChildEffect
  <2>3. QED
    BY <1>2, <2>1, <2>2 DEF ChildStep
<1>5. QED
  BY <1>1, <1>3, <1>4

\* A child that has exited takes no step.
LEMMA ExitedIsFinal == ServerNext => childState # "EXITED"
  BY DEF ServerNext, RecvFileOkAck, FileOkAckTimeout, SendData, DrainEnds,
         RecvWhileDraining, RecvWhileFull, TimeoutWhileFull, SendEof, RecvEofAck,
         EofAckTimeout, resend_eof_state, CleanUp

\* Every step of the child.
LEMMA ServerNextStep ==
  ASSUME NetTypeOK, ServerInv, ServerNext
  PROVE  ChildStep
  BY RecvFileOkAckStep, FileOkAckTimeoutStep, SendDataStep, DrainEndsStep,
     RecvWhileDrainingStep, RecvWhileFullStep, TimeoutWhileFullStep, SendEofStep,
     RecvEofAckStep, EofAckTimeoutStep, ResendEofStep, CleanUpStep
     DEF ServerNext

\* The invariant implies the type invariant of the child.
LEMMA ServerInvType == ASSUME ServerInv PROVE ServerTypeOK
<1>1. CASE childState # "EXITED"
  <2>1. /\ window \in Ring(ServerWindow) /\ window.WindowSize = ServerWindow
    BY <1>1, RingCount, ServerWindowNat DEF ServerInv, Holds
  <2>2. window \in [entries    : [0..(window.WindowSize - 1) -> QueueEntry],
                    WindowSize : {ServerWindow, 0},
                    ValidCount : Nat]
    BY <2>1 DEF Ring
  <2>3. QED
    BY <2>2 DEF ServerInv, ServerTypeOK
<1>2. CASE childState = "EXITED"
  <2>1. window = [entries |-> <<>>, WindowSize |-> 0, ValidCount |-> 0]
    BY <1>2 DEF ServerInv
  <2>2. <<>> \in [0..(0 - 1) -> QueueEntry]
    OBVIOUS
  <2>3. window \in [entries    : [0..(window.WindowSize - 1) -> QueueEntry],
                    WindowSize : {ServerWindow, 0},
                    ValidCount : Nat]
    BY <2>1, <2>2
  <2>4. QED
    BY <2>3 DEF ServerInv, ServerTypeOK
<1>3. QED
  BY <1>1, <1>2
===============================================================================
