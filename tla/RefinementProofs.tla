--------------------------- MODULE RefinementProofs ----------------------------
(***************************************************************************)
(* The transfer implements its abstract specifications, for every window   *)
(* size, file length and number of faults: the child's ring is a sliding   *)
(* window, and rcopy's output file is a copy that grows by the next chunks *)
(* and, when no datagram is lost, is closed whole.                         *)
(***************************************************************************)
EXTENDS MCTransfer, TransferProofs

WindowNext == Window!Open \/ Window!SendNext \/ Window!Release \/ Window!Shut
CopyNext   == Copy!Write \/ Copy!Close

\* What the abstract window holds.
Held == IF ChildServes THEN Outstanding(window) ELSE {}

LEMMA InitWindow == Init => Window!WindowInit
  BY DEF Init, ServerInit, Window!WindowInit, ChildServes

\* While the child serves, the abstract window holds LowEnd..sequenceNum-1.
LEMMA HeldIsInterval ==
  ASSUME NetTypeOK, ServerInv, ChildServes
  PROVE  /\ Holds /\ Held = LowEnd..(sequenceNum - 1)
         /\ LowEnd \in Nat /\ sequenceNum \in Nat /\ LowEnd <= sequenceNum
         /\ ServerWindow \in Nat \ {0} /\ sequenceNum > 0
<1>1. /\ Holds /\ LowEnd \in Nat /\ sequenceNum \in Nat /\ LowEnd <= sequenceNum
      /\ ServerWindow \in Nat \ {0} /\ sequenceNum > 0
  BY ServerFacts DEF ChildServes
<1>2. Outstanding(window) = LowEnd..(sequenceNum - 1)
  BY <1>1, RingContents DEF Holds
<1>3. QED
  BY <1>1, <1>2 DEF Held

\* Steps that leave the ring and its use alone.
LEMMA WindowStutters ==
  ASSUME UNCHANGED <<window, sequenceNum>>, ChildServes' <=> ChildServes
  PROVE  UNCHANGED Window!windowVars
<1>1. Outstanding(window)' = Outstanding(window)
  BY DEF Outstanding, ValidSlots
<1>2. ChildServes' = ChildServes
  BY DEF ChildServes
<1>3. QED
  BY <1>1, <1>2 DEF Window!windowVars

\* The end of the child, whatever it still held.
LEMMA WindowShuts ==
  ASSUME ChildServes, ~ChildServes', sequenceNum' = sequenceNum
  PROVE  Window!Shut
<1>1. ChildServes' = FALSE
  BY DEF ChildServes
<1>2. QED
  BY <1>1 DEF Window!Shut

LEMMA OpenStep ==
  ASSUME NetTypeOK, ServerInv, RecvFileOkAck
  PROVE  [WindowNext]_(Window!windowVars)
<1>1. childState = "WRITE_FILE_OK_ACK" /\ sequenceNum = 0 /\ ~ChildServes
  BY DEF RecvFileOkAck, ServerInv, ChildServes
<1>2. CASE /\ childState' = "SEND_DATA"
           /\ window' = CircularQueue_init(ServerWindow)
           /\ sequenceNum' = 1
  <2>1. ChildServes'
    BY <1>2 DEF ChildServes
  <2>2. Outstanding(window') = {}
    BY <1>2 DEF CircularQueue_init, Outstanding, ValidSlots
  <2>3. Window!Open
    BY <1>1, <1>2, <2>1, <2>2 DEF Window!Open, ChildServes
  <2>4. QED
    BY <2>3 DEF WindowNext
<1>3. CASE UNCHANGED <<childState, window, sequenceNum>>
  BY <1>3, WindowStutters DEF ChildServes
<1>4. QED
  BY <1>2, <1>3 DEF RecvFileOkAck

\* send_data_state reads a chunk only when the ring has room, and the ring
\* takes it in.
LEMMA SendNextStep ==
  ASSUME NetTypeOK, ServerInv, ServerInv', NetTypeOK', SendData
  PROVE  Window!SendNext
<1>1. /\ childState = "SEND_DATA" /\ childState' = "DRAIN"
      /\ ~CircularQueue_is_full(window)
      /\ window' = CircularQueue_insert(window, sequenceNum, sequenceNum)
      /\ sequenceNum' = sequenceNum + 1
  BY DEF SendData
<1>2. ChildServes
  BY <1>1, ServerFacts DEF ServerInv, SendingStates, ChildServes
<1>3. /\ Holds /\ Held = LowEnd..(sequenceNum - 1)
      /\ LowEnd \in Nat /\ sequenceNum \in Nat /\ LowEnd <= sequenceNum
      /\ ServerWindow \in Nat \ {0}
  BY <1>2, HeldIsInterval
<1>4. sequenceNum - LowEnd < ServerWindow
  <2>1. RingHolds(window, ServerWindow, LowEnd, sequenceNum)
    BY <1>3 DEF Holds
  <2>2. /\ sequenceNum - LowEnd # ServerWindow
        /\ sequenceNum - LowEnd <= ServerWindow
    BY <1>1, <1>3, <2>1, RingContents DEF RingHolds
  <2>3. QED
    BY <1>3, <2>2
<1>5. RingHolds(window', ServerWindow, LowEnd, sequenceNum')
  BY <1>1, <1>3, <1>4, RingInsert DEF Holds
<1>6. Outstanding(window') = LowEnd..(sequenceNum' - 1)
  BY <1>3, <1>5, RingContents
<1>7. ChildServes'
  BY <1>1, <1>3 DEF ChildServes
<1>8. Held' = Held \cup {sequenceNum}
  <2>1. LowEnd..sequenceNum = (LowEnd..(sequenceNum - 1)) \cup {sequenceNum}
    <3> DEFINE lo == LowEnd
    <3>1. lo \in Nat /\ sequenceNum \in Nat /\ lo <= sequenceNum
      BY <1>3
    <3> HIDE DEF lo
    <3>2. lo..sequenceNum = (lo..(sequenceNum - 1)) \cup {sequenceNum}
      BY <3>1
    <3>3. QED
      BY <3>2 DEF lo
  <2>2. sequenceNum' - 1 = sequenceNum
    BY <1>1, <1>3
  <2>3. QED
    BY <1>3, <1>6, <1>7, <2>1, <2>2 DEF Held
<1>9. \A s \in Held : sequenceNum < s + ServerWindow
  <2> DEFINE lo == LowEnd
  <2>1. lo \in Nat /\ sequenceNum - lo < ServerWindow /\ Held = lo..(sequenceNum - 1)
    BY <1>3, <1>4
  <2> HIDE DEF lo
  <2>2. QED
    BY <1>3, <2>1
<1>10. ChildServes' = ChildServes
  BY <1>2, <1>7 DEF ChildServes
<1>11. QED
  BY <1>1, <1>2, <1>8, <1>9, <1>10 DEF Window!SendNext, Held

\* Both calls of wait_on_ack_state.  The removal loop releases all numbers up
\* to the last one it removes, or nothing.
LEMMA AckWindowStep ==
  ASSUME NetTypeOK, ServerInv, childState \in {"SEND_DATA", "DRAIN"},
         NEW d \in Deliveries(toServer), wait_on_ack_state(d.msg, d.cost),
         sequenceNum' = sequenceNum
  PROVE  [WindowNext]_(Window!windowVars)
<1> DEFINE m == d.msg
<1>1. m \in PDU /\ m.seq \in Nat
  BY ServerFacts, DeliveriesTake DEF PDU
<1>2. ChildServes
  BY ServerFacts DEF ServerInv, SendingStates, ChildServes
<1>3. /\ Holds /\ Held = LowEnd..(sequenceNum - 1)
      /\ LowEnd \in Nat /\ sequenceNum \in Nat /\ LowEnd <= sequenceNum
      /\ ServerWindow \in Nat \ {0}
  BY <1>2, HeldIsInterval
<1>4. CASE window' = RemoveBelow(window, m.seq) /\ UNCHANGED childState
  <2> DEFINE lo  == LowEnd
             low == Released(lo, sequenceNum, m.seq)
  <2>1. lo >= 1
    BY <1>2, ServerFacts DEF ServerInv, SendingStates
  <2>2. RingHolds(window', ServerWindow, low, sequenceNum)
    BY <1>1, <1>3, <1>4, <2>1, RingRelease DEF Holds
  <2>3. ChildServes' = ChildServes
    BY <1>4 DEF ChildServes
  <2>4. Held' = low..(sequenceNum - 1)
    <3>1. ServerWindow \in Nat \ {0}
      BY <1>3
    <3> HIDE DEF low
    <3>2. Outstanding(window') = low..(sequenceNum - 1)
      BY <2>2, <3>1, RingContents
    <3>3. QED
      BY <1>2, <2>3, <3>2 DEF Held
  <2>5. /\ lo \in Nat /\ low \in Nat /\ lo <= low /\ low <= sequenceNum
        /\ Held = lo..(sequenceNum - 1)
    BY <1>1, <1>3 DEF Released
  <2> HIDE DEF lo, low
  <2>6. CASE low = lo
    <3>1. Held' = Held
      BY <2>4, <2>5, <2>6
    <3>2. QED
      BY <2>3, <3>1 DEF Held, Window!windowVars
  <2>7. CASE low > lo
    <3>1. low - 1 \in Held
      BY <1>3, <2>5, <2>7
    <3>2. Held' = {s \in Held : s > low - 1}
      BY <1>3, <2>4, <2>5
    <3>3. Window!Release
      BY <1>2, <2>3, <3>1, <3>2 DEF Held, Window!Release
    <3>4. QED
      BY <3>3 DEF WindowNext
  <2>8. QED
    BY <2>5, <2>6, <2>7
<1>5. CASE UNCHANGED <<childState, window>>
  BY <1>5, WindowStutters DEF ChildServes
<1>6. CASE childState' = "CRASHED"
  <2>1. ~ChildServes'
    BY <1>6 DEF ChildServes
  <2>2. QED
    BY <1>2, <2>1, WindowShuts DEF WindowNext
<1>7. QED
  BY <1>4, <1>5, <1>6 DEF wait_on_ack_state

\* The child's other steps leave the ring alone, or end the child.
LEMMA ServerWindowStep ==
  ASSUME NetTypeOK, ServerInv, ServerNext
  PROVE  [WindowNext]_(Window!windowVars)
<1>0. NetTypeOK' /\ ServerInv'
  BY ServerNextStep DEF ChildStep
<1>1. CASE RecvFileOkAck
  BY <1>1, OpenStep
<1>2. CASE SendData
  BY <1>0, <1>2, SendNextStep DEF WindowNext
<1>3. CASE RecvWhileDraining \/ RecvWhileFull
  BY <1>3, AckWindowStep DEF RecvWhileDraining, RecvWhileFull
<1>4. CASE \/ FileOkAckTimeout \/ DrainEnds \/ TimeoutWhileFull \/ SendEof
           \/ RecvEofAck \/ EofAckTimeout \/ resend_eof_state
  <2>1. /\ UNCHANGED <<window, sequenceNum>>
        /\ childState \notin {"EXITED", "CRASHED"}
        /\ childState' \notin {"EXITED", "CRASHED"}
    BY <1>4 DEF FileOkAckTimeout, DrainEnds, TimeoutWhileFull, SendEof, RecvEofAck,
                EofAckTimeout, resend_eof_state
  <2>2. QED
    BY <2>1, WindowStutters DEF ChildServes
<1>5. CASE CleanUp
  <2>1. /\ childState = "DONE" /\ childState' \in {"EXITED", "CRASHED"}
        /\ sequenceNum' = sequenceNum
    BY <1>5 DEF CleanUp
  <2>2. ~ChildServes'
    BY <2>1 DEF ChildServes
  <2>3. CASE ChildServes
    BY <2>1, <2>2, <2>3, WindowShuts DEF WindowNext
  <2>4. CASE ~ChildServes
    <3>1. ChildServes' = ChildServes
      BY <2>2, <2>4 DEF ChildServes
    <3>2. QED
      BY <2>1, <2>4, <3>1 DEF Window!windowVars
  <2>5. QED
    BY <2>3, <2>4
<1>6. QED
  BY <1>1, <1>2, <1>3, <1>4, <1>5 DEF ServerNext

\* CircularQueue_insert, the removal loop and ValidCount implement a sliding
\* window: numbers enter in order, nothing between two held numbers is missing,
\* they never span more than the ring, and a release takes all up to a number.
\* It holds whatever arrives at the child, damaged numbers included.
THEOREM RingImplementsWindow == Spec => RingIsSendWindow
<1>1. Init => Window!WindowInit
  BY InitWindow
<1>2. IndInv /\ [Next]_vars => [WindowNext]_(Window!windowVars)
  <2> SUFFICES ASSUME IndInv, [Next]_vars
               PROVE  [WindowNext]_(Window!windowVars)
    OBVIOUS
  <2>1. CASE ServerStep
    BY <2>1, ServerWindowStep DEF IndInv, ServerStep
  <2>2. CASE UNCHANGED serverVars
    BY <2>2, WindowStutters DEF serverVars, ChildServes
  <2>3. QED
    BY <2>1, <2>2 DEF Next, RcopyStep, ClientPortClosed, ServerPortClosed, vars
<1>3. QED
  BY <1>1, <1>2, IndInvHolds, PTL DEF Spec, RingIsSendWindow, Window!WindowSpec, WindowNext

-------------------------------------------------------------------------------
LEMMA InitCopy == Init => Copy!CopyInit
  BY DEF Init, RcopyInit, Copy!CopyInit

\* One step of rcopy: the file is what it was, with more of the next chunks.
LEMMA RcopyCopyStep ==
  ASSUME Assumed, IndInv, CopyInv, RcopyStep
  PROVE  [CopyNext]_(Copy!copyVars)
<1> DEFINE n == expected' - 1
<1>1. /\ outFile = FirstChunks(expected - 1) /\ outFile' = FirstChunks(n)
      /\ expected >= 1 /\ expected <= expected'
      /\ expected' <= sequenceNum' \/ expected' = 1
  BY RcopyStepGrows DEF CopyInv, RcopyInv
<1>2. /\ expected \in Nat /\ expected' \in Nat /\ sequenceNum' = sequenceNum
      /\ sequenceNum \in 0..(FileChunks + 1) /\ FileChunks \in Nat
      /\ transferState # "DONE"
  <2>1. IndInv'
    BY NextIndInv DEF Next
  <2>2. QED
    BY <2>1, ServerFacts
       DEF IndInv, RcopyTypeOK, RcopyStep, serverVars, RcopyNext, RecvData, RecvEof,
           RecvOther
<1>3. n \in Nat /\ n <= FileChunks /\ expected - 1 <= n /\ expected - 1 \in Nat
  <2> DEFINE e == expected'
  <2>1. /\ e \in Nat /\ expected <= e /\ (e <= sequenceNum \/ e = 1)
        /\ n = e - 1
    BY <1>1, <1>2
  <2> HIDE DEF e, n
  <2>2. QED
    BY <1>1, <1>2, <2>1
<1>4. Len(outFile) = expected - 1
  BY <1>1, <1>3 DEF FirstChunks
<1>5. outFile' = Copy!FirstChunks(n)
  BY <1>1 DEF FirstChunks, Copy!FirstChunks
<1> HIDE DEF n
<1>6. CASE transferState' = "DONE"
  <2>1. n \in Len(outFile)..FileChunks
    BY <1>2, <1>3, <1>4
  <2>2. Copy!Close
    BY <1>2, <1>5, <1>6, <2>1 DEF Copy!Close
  <2>3. QED
    BY <2>2 DEF CopyNext
<1>7. CASE transferState' # "DONE" /\ n = expected - 1
  <2>1. outFile' = outFile
    BY <1>1, <1>7
  <2>2. QED
    BY <1>2, <1>7, <2>1 DEF Copy!copyVars
<1>8. CASE transferState' # "DONE" /\ n # expected - 1
  <2>1. n \in (Len(outFile) + 1)..FileChunks
    BY <1>2, <1>3, <1>4, <1>8
  <2>2. Copy!Write
    BY <1>2, <1>5, <1>8, <2>1 DEF Copy!Write
  <2>3. QED
    BY <2>2 DEF CopyNext
<1>9. QED
  BY <1>6, <1>7, <1>8

\* rcopy's output file implements a file copy: each step appends the next
\* chunks of the file or nothing, the EOF closes it, and nothing is written
\* after that, however the datagrams are lost, repeated, late or out of order.
THEOREM OutFileImplementsCopy ==
  ASSUME ServerWindow <= WindowArg, "flip" \notin FaultKinds
  PROVE  Spec => CopyIsPrefix
<1>1. Init => Copy!CopyInit
  BY InitCopy
<1>2. IndInv /\ CopyInv /\ [Next]_vars => [CopyNext]_(Copy!copyVars)
  <2> SUFFICES ASSUME IndInv, CopyInv, [Next]_vars
               PROVE  [CopyNext]_(Copy!copyVars)
    OBVIOUS
  <2>1. CASE RcopyStep
    BY <2>1, RcopyCopyStep DEF Assumed
  <2>2. CASE UNCHANGED rcopyVars
    BY <2>2 DEF rcopyVars, Copy!copyVars
  <2>3. QED
    BY <2>1, <2>2 DEF Next, ServerStep, ClientPortClosed, ServerPortClosed, vars
<1>3. Spec => []CopyInv
  BY CopyInvHolds DEF Assumed
<1>4. QED
  BY <1>1, <1>2, <1>3, IndInvHolds, PTL DEF Spec, CopyIsPrefix, Copy!PrefixSpec, CopyNext

-------------------------------------------------------------------------------
(***************************************************************************)
(* The copy when no datagram is lost, damaged or overtaken; it may be      *)
(* repeated, polls may time out, and the windows may differ.               *)
(***************************************************************************)
NoLoss == FaultKinds \subseteq {"dup", "delay"}

\* sendtoErr() then adds the datagram at the end of the flow.
LEMMA NoLossSends ==
  ASSUME NoLoss, NEW m, NEW paid
  PROVE  SendToClient(m, paid) => toClient' = Append(toClient, m)
<1>1. "drop" \notin FaultKinds /\ "flip" \notin FaultKinds
  BY DEF NoLoss
<1>2. \A flow : \A t \in Transmissions(flow, m) : t.flow = Append(flow, m)
  BY <1>1 DEF Transmissions
<1>3. QED
  BY <1>2 DEF SendToClient

\* The rest of a flow whose first datagram was taken, or repeated.
Behind(rest, flow) ==
  \/ rest = flow
  \/ /\ Len(rest) = Len(flow) - 1
     /\ \A j \in 1..Len(rest) : rest[j] = flow[j + 1]

\* recvfrom() then takes the first datagram.
LEMMA NoLossDelivers ==
  ASSUME NoLoss, NEW flow \in Seq(PDU), NEW d \in Deliveries(flow)
  PROVE  Len(flow) >= 1 /\ d.msg = flow[1] /\ Behind(d.rest, flow)
<1>1. "reorder" \notin FaultKinds
  BY DEF NoLoss
<1>2. /\ 1 \in DOMAIN flow /\ d.msg = flow[1]
      /\ d.rest = flow \/ d.rest = RemoveAt(flow, 1)
  BY <1>1 DEF Deliveries
<1>3. Len(flow) \in Nat /\ 1 \in 1..Len(flow)
  BY <1>2
<1>4. RemoveAt(flow, 1) = SubSeq(flow, 2, Len(flow))
  <2>1. SubSeq(flow, 1, 1 - 1) = <<>> /\ SubSeq(flow, 1 + 1, Len(flow)) = SubSeq(flow, 2, Len(flow))
    OBVIOUS
  <2>2. SubSeq(flow, 2, Len(flow)) \in Seq(PDU)
    BY <1>3
  <2>3. <<>> \o SubSeq(flow, 2, Len(flow)) = SubSeq(flow, 2, Len(flow))
    BY <2>2
  <2>4. QED
    BY <2>1, <2>3 DEF RemoveAt
<1>5. PICK n, s : n = Len(flow) /\ s = SubSeq(flow, 2, Len(flow))
  OBVIOUS
<1>6. n \in Nat /\ 1 <= n
  BY <1>3, <1>5
<1>7. \A i \in 2..n : flow[i] \in PDU
  BY <1>3, <1>5
<1>8. /\ Len(s) = IF 2 <= n THEN n - 2 + 1 ELSE 0
      /\ \A j \in 1..(n - 2 + 1) : s[j] = flow[2 + j - 1]
  <2>1. s = SubSeq(flow, 2, n) /\ 2 \in Int /\ n \in Int
    BY <1>5, <1>6
  <2>2. QED
    BY <1>7, <2>1, SubSeqProperties
<1>9. Len(s) = n - 1
  BY <1>6, <1>8
<1>10. ASSUME NEW j \in 1..(n - 1) PROVE s[j] = flow[j + 1]
  <2>1. j \in 1..(n - 2 + 1) /\ 2 + j - 1 = j + 1
    BY <1>6
  <2>2. QED
    BY <1>8, <2>1
<1>11. Behind(s, flow)
  <2>1. Len(s) = Len(flow) - 1
    BY <1>5, <1>9
  <2>2. \A j \in 1..Len(s) : s[j] = flow[j + 1]
    BY <1>9, <1>10
  <2>3. QED
    BY <2>1, <2>2 DEF Behind
<1>12. d.rest = flow \/ d.rest = s
  BY <1>2, <1>4, <1>5
<1>13. QED
  BY <1>2, <1>3, <1>11, <1>12 DEF Behind

\* Before each datagram of a flow there are, as data, all the numbers from lo up
\* to its own; and all the numbers from lo up to hi are in the flow.
IsData(m, k) == m.flag \in DataFlags /\ m.seq = k

InSequence(flow, lo) ==
  \A i \in DOMAIN flow : \A k \in lo..(flow[i].seq - 1) :
    \E j \in 1..(i - 1) : IsData(flow[j], k)

Covers(flow, lo, hi) ==
  \A k \in lo..(hi - 1) : \E j \in DOMAIN flow : IsData(flow[j], k)

\* A datagram that is not ahead of what the flow has keeps the flow in sequence.
LEMMA AppendInSequence ==
  ASSUME NEW flow \in Seq(PDU), NEW m \in PDU, NEW lo \in Nat, NEW hi \in Nat,
         InSequence(flow, lo), Covers(flow, lo, hi), m.seq <= hi
  PROVE  /\ InSequence(Append(flow, m), lo)
         /\ Covers(Append(flow, m), lo, hi)
         /\ IsData(m, hi) => Covers(Append(flow, m), lo, hi + 1)
<1> DEFINE new == Append(flow, m)
           n   == Len(flow)
<1>1. /\ n \in Nat /\ DOMAIN flow = 1..n /\ DOMAIN new = 1..(n + 1)
      /\ \A i \in 1..n : new[i] = flow[i]
      /\ new[n + 1] = m
  OBVIOUS
<1>2. m.seq \in Nat
  BY DEF PDU
<1> HIDE DEF new, n
<1>3. ASSUME NEW i \in DOMAIN new, NEW k \in lo..(new[i].seq - 1)
      PROVE  \E j \in 1..(i - 1) : IsData(new[j], k)
  <2>1. CASE i = n + 1
    <3>1. k \in lo..(hi - 1)
      BY <1>1, <1>2, <1>3, <2>1
    <3>2. PICK j \in 1..n : IsData(flow[j], k)
      BY <1>1, <3>1 DEF Covers
    <3>3. j \in 1..(i - 1) /\ new[j] = flow[j]
      BY <1>1, <2>1
    <3>4. QED
      BY <3>2, <3>3
  <2>2. CASE i # n + 1
    <3>1. i \in 1..n /\ new[i] = flow[i]
      BY <1>1, <2>2
    <3>2. PICK j \in 1..(i - 1) : IsData(flow[j], k)
      BY <1>1, <1>3, <3>1 DEF InSequence
    <3>3. j \in 1..n
      BY <1>1, <3>1
    <3>4. QED
      BY <1>1, <3>2, <3>3
  <2>3. QED
    BY <2>1, <2>2
<1>4. ASSUME NEW k \in lo..(hi - 1)
      PROVE  \E j \in DOMAIN new : IsData(new[j], k)
  <2>1. PICK j \in 1..n : IsData(flow[j], k)
    BY <1>1 DEF Covers
  <2>2. j \in DOMAIN new /\ new[j] = flow[j]
    BY <1>1
  <2>3. QED
    BY <2>1, <2>2
<1>5. InSequence(new, lo) /\ Covers(new, lo, hi)
  BY <1>3, <1>4 DEF InSequence, Covers
<1>6. ASSUME IsData(m, hi) PROVE Covers(new, lo, hi + 1)
  <2> SUFFICES ASSUME NEW k \in lo..hi
               PROVE  \E j \in DOMAIN new : IsData(new[j], k)
    BY DEF Covers
  <2>1. CASE k = hi
    <3>1. n + 1 \in DOMAIN new
      BY <1>1
    <3>2. QED
      BY <1>1, <1>6, <2>1, <3>1
  <2>2. CASE k # hi
    <3>1. k \in lo..(hi - 1)
      BY <2>2
    <3>2. QED
      BY <1>4, <3>1
  <2>3. QED
    BY <2>1, <2>2
<1>7. QED
  BY <1>5, <1>6 DEF new

\* Taking the first datagram, once its number is behind.
LEMMA TakeInSequence ==
  ASSUME NEW flow \in Seq(PDU), NEW rest \in Seq(PDU), Behind(rest, flow),
         Len(flow) >= 1, NEW lo \in Nat, NEW lo2 \in Nat, NEW hi \in Nat,
         lo <= lo2, flow[1].seq < lo2,
         InSequence(flow, lo), Covers(flow, lo, hi)
  PROVE  InSequence(rest, lo2) /\ Covers(rest, lo2, hi)
<1> DEFINE n == Len(flow)
<1>1. /\ n \in Nat /\ DOMAIN flow = 1..n /\ DOMAIN rest = 1..Len(rest)
      /\ \A i \in 1..n : flow[i].seq \in Nat
  <2>1. /\ n \in Nat /\ DOMAIN flow = 1..n /\ DOMAIN rest = 1..Len(rest)
        /\ \A i \in 1..n : flow[i] \in PDU
    OBVIOUS
  <2>2. \A m \in PDU : m.seq \in Nat
    BY DEF PDU
  <2>3. QED
    BY <2>1, <2>2
<1>2. CASE rest = flow
  <2>1. \A h \in Int : \A k \in lo2..h : k \in lo..h
    OBVIOUS
  <2>2. \A i \in 1..n : flow[i].seq - 1 \in Int
    BY <1>1
  <2>3. hi - 1 \in Int
    OBVIOUS
  <2> HIDE DEF n
  <2>4. InSequence(flow, lo2)
    BY <1>1, <2>1, <2>2 DEF InSequence
  <2>5. Covers(flow, lo2, hi)
    BY <2>1, <2>3 DEF Covers
  <2>6. QED
    BY <1>2, <2>4, <2>5
<1>3. CASE /\ Len(rest) = n - 1
           /\ \A j \in 1..Len(rest) : rest[j] = flow[j + 1]
  <2> HIDE DEF n
  <2>1. ASSUME NEW k \in Nat, lo2 <= k, NEW j \in 1..n, IsData(flow[j], k)
        PROVE  j - 1 \in 1..(n - 1) /\ IsData(rest[j - 1], k)
    <3>1. j # 1
      BY <1>1, <2>1 DEF IsData
    <3>2. j - 1 \in 1..(n - 1) /\ (j - 1) + 1 = j
      BY <1>1, <3>1
    <3>3. rest[j - 1] = flow[j]
      BY <1>3, <3>2
    <3>4. QED
      BY <2>1, <3>2, <3>3
  <2>2. ASSUME NEW i \in 1..(n - 1), NEW k \in lo2..(rest[i].seq - 1)
        PROVE  \E j \in 1..(i - 1) : IsData(rest[j], k)
    <3>1. i + 1 \in 1..n /\ rest[i] = flow[i + 1]
      BY <1>1, <1>3
    <3>2. k \in lo..(flow[i + 1].seq - 1) /\ k \in Nat /\ lo2 <= k
      BY <1>1, <3>1
    <3>3. PICK j \in 1..((i + 1) - 1) : IsData(flow[j], k)
      BY <1>1, <3>1, <3>2 DEF InSequence
    <3>4. j \in 1..n
      BY <1>1, <3>1
    <3>5. j - 1 \in 1..(n - 1) /\ IsData(rest[j - 1], k)
      BY <2>1, <3>2, <3>3, <3>4
    <3>6. j - 1 \in 1..(i - 1)
      BY <1>1, <3>5
    <3>7. QED
      BY <3>5, <3>6
  <2>3. ASSUME NEW k \in lo2..(hi - 1)
        PROVE  \E j \in 1..(n - 1) : IsData(rest[j], k)
    <3>1. k \in lo..(hi - 1) /\ k \in Nat /\ lo2 <= k
      OBVIOUS
    <3>2. PICK j \in 1..n : IsData(flow[j], k)
      BY <1>1, <3>1 DEF Covers
    <3>3. QED
      BY <2>1, <3>1, <3>2
  <2>4. DOMAIN rest = 1..(n - 1)
    BY <1>1, <1>3
  <2>5. InSequence(rest, lo2)
    BY <2>2, <2>4 DEF InSequence
  <2>6. Covers(rest, lo2, hi)
    BY <2>3, <2>4 DEF Covers
  <2>7. QED
    BY <2>5, <2>6
<1>4. QED
  BY <1>2, <1>3 DEF Behind

-------------------------------------------------------------------------------
\* What is on its way to an rcopy that has not finished, when the child's next
\* number is `next'.
Sent(m, next) ==
  \/ m.flag \in DataFlags /\ m.payload = m.seq /\ m.seq < next
  \/ m.flag = EOF /\ m.seq = next /\ m.seq = FileChunks + 1

FlowOK ==
  /\ expected <= sequenceNum \/ expected = 1
  /\ \A m \in Range(toClient) : Sent(m, sequenceNum)
  /\ InSequence(toClient, expected)
  /\ Covers(toClient, expected, sequenceNum)

\* The inductive invariant: rcopy never leaves IN_ORDER, so it never uses its
\* buffer and never sends an SREJ, and the flow holds, in sequence, everything it
\* has not written.  So nothing can be missing in front of the EOF.
NoLossInv ==
  /\ transferState \in {"IN_ORDER", "DONE"}
  /\ DOMAIN buffer = {}
  /\ expected >= 1
  /\ outFile = FirstChunks(expected - 1)
  /\ \A m \in Range(toServer) : m.flag # SREJ
  /\ childState \in {"WAIT_ON_EOF_ACK", "RESEND_EOF"} => sequenceNum = FileChunks + 1
  /\ transferState = "IN_ORDER" => FlowOK
  /\ transferState = "DONE" => expected = FileChunks + 1

LEMMA InitNoLossInv ==
  ASSUME NoLoss, Init
  PROVE  NoLossInv
<1>1. /\ transferState = "IN_ORDER" /\ expected = 1 /\ buffer = <<>> /\ outFile = <<>>
      /\ toClient = <<>> /\ sequenceNum = 0 /\ childState = "WRITE_FILE_OK_ACK"
  BY DEF Init, RcopyInit, ServerInit
<1>2. outFile = FirstChunks(expected - 1) /\ DOMAIN buffer = {}
  BY <1>1 DEF FirstChunks
<1>3. ASSUME NEW x \in Range(toServer) PROVE x.flag # SREJ
  <2> DEFINE m == createPDU(0, FILE_OK_ACK, NULL)
  <2>1. m \in PDU /\ m.flag = FILE_OK_ACK
    BY DEF createPDU, PDU, FILE_OK_ACK, NULL
  <2>2. PICK t \in Transmissions(<<>>, m) : toServer = t.flow
    BY DEF Init
  <2> HIDE DEF m
  <2>3. <<>> \in Seq(PDU) /\ Range(<<>>) = {} /\ "flip" \notin FaultKinds
    BY DEF Range, NoLoss
  <2>4. Range(toServer) \subseteq {m}
    BY <2>1, <2>2, <2>3, TransmissionsAdd
  <2>5. QED
    BY <1>3, <2>1, <2>4, FlagsDiffer
<1>4. /\ \A m \in Range(toClient) : Sent(m, sequenceNum)
      /\ InSequence(toClient, expected)
      /\ Covers(toClient, expected, sequenceNum)
  BY <1>1 DEF Range, InSequence, Covers
<1>5. QED
  BY <1>1, <1>2, <1>3, <1>4 DEF NoLossInv, FlowOK

\* What a step of the child does to the flow and to the number, without an SREJ.
ChildSends ==
  \/ /\ toClient' = toClient
     /\ sequenceNum' = sequenceNum \/ (sequenceNum = 0 /\ sequenceNum' = 1)
  \/ /\ sequenceNum >= 1 /\ sequenceNum' = sequenceNum + 1
     /\ toClient' = Append(toClient, createPDU(sequenceNum, DATA, sequenceNum))
  \/ /\ sequenceNum' = sequenceNum
     /\ \E s, p : toClient' = Append(toClient, createPDU(s, TIMEOUT_DATA, p))
  \/ /\ sequenceNum' = sequenceNum /\ sequenceNum = FileChunks + 1
     /\ toClient' = Append(toClient, createPDU(sequenceNum, EOF, NULL))

LEMMA NoLossChild ==
  ASSUME NoLoss, IndInv, NoLossInv, ServerNext
  PROVE  /\ ChildSends
         /\ childState' \in {"WAIT_ON_EOF_ACK", "RESEND_EOF"} => sequenceNum' = FileChunks + 1
<1>1. /\ toServer \in Seq(PDU) /\ sequenceNum \in Nat
      /\ sequenceNum \in 0..(FileChunks + 1) /\ FileChunks \in Nat
  BY ServerFacts DEF IndInv
<1>2. childState \in {"WAIT_ON_EOF_ACK", "RESEND_EOF"} => sequenceNum = FileChunks + 1
  BY DEF NoLossInv
<1>3. CASE RecvFileOkAck
  <2>1. sequenceNum = 0
    BY <1>3 DEF RecvFileOkAck, IndInv, ServerInv
  <2>2. QED
    BY <1>3, <2>1 DEF RecvFileOkAck, ChildSends
<1>4. CASE SendData
  <2>1. childState = "SEND_DATA" /\ childState' = "DRAIN" /\ sequenceNum' = sequenceNum + 1
    BY <1>4 DEF SendData
  <2>2. sequenceNum >= 1
    BY <2>1 DEF IndInv, ServerInv, SendingStates
  <2>3. toClient' = Append(toClient, createPDU(sequenceNum, DATA, sequenceNum))
    BY <1>4, NoLossSends DEF SendData
  <2>4. QED
    BY <2>1, <2>2, <2>3 DEF ChildSends
<1>5. CASE RecvWhileDraining \/ RecvWhileFull
  <2>1. PICK d \in Deliveries(toServer) : wait_on_ack_state(d.msg, d.cost)
    BY <1>5 DEF RecvWhileDraining, RecvWhileFull
  <2>2. d.msg.flag # SREJ
    BY <1>1, <2>1, DeliveriesTake DEF NoLossInv
  <2>3. UNCHANGED <<childState, toClient>>
    BY <2>1, <2>2 DEF wait_on_ack_state
  <2>4. /\ sequenceNum' = sequenceNum
        /\ childState \notin {"WAIT_ON_EOF_ACK", "RESEND_EOF"}
    BY <1>5 DEF RecvWhileDraining, RecvWhileFull
  <2>5. QED
    BY <2>3, <2>4 DEF ChildSends
<1>6. CASE TimeoutWhileFull
  <2> DEFINE entry == window.entries[ResentSlot(window)]
             s == entry.sequenceNum
             p == entry.packet
  <2>1. SendToClient(createPDU(s, TIMEOUT_DATA, p), PollTimeoutCost)
    BY <1>6 DEF TimeoutWhileFull
  <2> HIDE DEF s, p
  <2>2. toClient' = Append(toClient, createPDU(s, TIMEOUT_DATA, p))
    BY <2>1, NoLossSends
  <2>3. sequenceNum' = sequenceNum /\ childState' \in {"SEND_DATA", "DONE"}
    BY <1>6 DEF TimeoutWhileFull
  <2>4. QED
    BY <2>2, <2>3 DEF ChildSends
<1>7. CASE SendEof
  <2>1. sequenceNum > FileChunks /\ sequenceNum' = sequenceNum
    BY <1>7 DEF SendEof, FileRead
  <2>2. sequenceNum = FileChunks + 1
    BY <1>1, <2>1
  <2>3. toClient' = Append(toClient, createPDU(sequenceNum, EOF, NULL))
    BY <1>7, NoLossSends DEF SendEof
  <2>4. QED
    BY <2>1, <2>2, <2>3 DEF ChildSends
<1>8. CASE resend_eof_state
  <2>1. sequenceNum = FileChunks + 1 /\ sequenceNum' = sequenceNum
    BY <1>2, <1>8 DEF resend_eof_state
  <2>2. \/ toClient' = toClient
        \/ toClient' = Append(toClient, createPDU(sequenceNum, EOF, NULL))
    BY <1>8, NoLossSends DEF resend_eof_state
  <2>3. QED
    BY <2>1, <2>2 DEF ChildSends
<1>9. CASE FileOkAckTimeout \/ DrainEnds \/ RecvEofAck \/ EofAckTimeout \/ CleanUp
  <2>1. /\ toClient' = toClient /\ sequenceNum' = sequenceNum
        /\ childState' \in {"WAIT_ON_EOF_ACK", "RESEND_EOF"} => childState = "WAIT_ON_EOF_ACK"
    BY <1>9 DEF FileOkAckTimeout, DrainEnds, RecvEofAck, EofAckTimeout, CleanUp, netVars
  <2>2. QED
    BY <1>2, <2>1 DEF ChildSends
<1>10. QED
  BY <1>3, <1>4, <1>5, <1>6, <1>7, <1>8, <1>9 DEF ServerNext

\* A datagram that the child appends, not ahead of its numbers.
LEMMA AppendedFlowOK ==
  ASSUME IndInv, IndInv', FlowOK, expected' = expected, NEW m \in PDU,
         toClient' = Append(toClient, m), m.seq <= sequenceNum, Sent(m, sequenceNum'),
         \/ sequenceNum' = sequenceNum
         \/ sequenceNum' = sequenceNum + 1 /\ IsData(m, sequenceNum)
  PROVE  FlowOK'
<1>1. /\ toClient \in Seq(PDU) /\ sequenceNum \in Nat /\ expected \in Nat
      /\ sequenceNum' \in 0..(FileChunks + 1) /\ FileChunks \in Nat
  BY ServerFacts, ServerAssumption DEF IndInv, RcopyTypeOK, ServerInv
<1>2. Range(toClient') = Range(toClient) \cup {m}
  BY <1>1, AppendRange
<1>3. ASSUME NEW x \in Range(toClient) PROVE Sent(x, sequenceNum')
  <2>1. Sent(x, sequenceNum) /\ x \in PDU
    BY <1>1, <1>3 DEF FlowOK, Range
  <2>2. x.seq \in Nat
    BY <2>1 DEF PDU
  <2>3. sequenceNum <= sequenceNum'
    BY <1>1
  <2>4. sequenceNum = FileChunks + 1 => sequenceNum' = sequenceNum
    BY <1>1
  <2>5. QED
    BY <1>1, <2>1, <2>2, <2>3, <2>4 DEF Sent
<1>4. /\ InSequence(toClient', expected)
      /\ Covers(toClient', expected, sequenceNum')
  BY <1>1, AppendInSequence DEF FlowOK
<1>5. expected <= sequenceNum' \/ expected = 1
  BY <1>1 DEF FlowOK
<1>6. QED
  BY <1>2, <1>3, <1>4, <1>5 DEF FlowOK

LEMMA ServerStepNoLoss ==
  ASSUME NoLoss, IndInv, IndInv', NoLossInv, ServerStep
  PROVE  NoLossInv'
<1>1. /\ ChildSends
      /\ childState' \in {"WAIT_ON_EOF_ACK", "RESEND_EOF"} => sequenceNum' = FileChunks + 1
  BY NoLossChild DEF ServerStep
<1>2. UNCHANGED <<transferState, expected, highest, buffer, outFile>>
  BY DEF ServerStep, rcopyVars
<1>3. "flip" \notin FaultKinds
  BY DEF NoLoss
<1>4. ChildEffect
  BY <1>3, ServerNextStep DEF ServerStep, IndInv, ChildStep
<1>5. \A m \in Range(toServer') : m.flag # SREJ
  BY <1>4 DEF ChildEffect, NoLossInv
<1>6. /\ toClient \in Seq(PDU) /\ toClient' \in Seq(PDU)
      /\ sequenceNum \in Nat /\ sequenceNum' \in 0..(FileChunks + 1)
      /\ expected \in Nat /\ expected >= 1 /\ FileChunks \in Nat
  BY ServerFacts, ServerAssumption
     DEF IndInv, RcopyTypeOK, NoLossInv, ServerInv, NetTypeOK
<1>7. ASSUME transferState = "IN_ORDER" PROVE FlowOK'
  <2>1. FlowOK
    BY <1>7 DEF NoLossInv
  <2>2. CASE /\ toClient' = toClient
             /\ sequenceNum' = sequenceNum \/ (sequenceNum = 0 /\ sequenceNum' = 1)
    <3>1. \A m \in Range(toClient) : m.seq \in Nat
      <4>1. \A m \in Range(toClient) : m \in PDU
        BY <1>6 DEF Range
      <4>2. QED
        BY <4>1 DEF PDU
    <3>2. \A m \in Range(toClient') : Sent(m, sequenceNum')
      BY <1>6, <2>1, <2>2, <3>1 DEF FlowOK, Sent
    <3>3. Covers(toClient', expected, sequenceNum')
      <4>1. CASE sequenceNum' = sequenceNum
        BY <2>1, <2>2, <4>1 DEF FlowOK
      <4>2. CASE sequenceNum' = 1
        <5>1. expected..(1 - 1) = {}
          BY <1>6
        <5>2. QED
          BY <4>2, <5>1 DEF Covers
      <4>3. QED
        BY <2>2, <4>1, <4>2
    <3>4. QED
      BY <1>2, <1>6, <2>1, <2>2, <3>2, <3>3 DEF FlowOK
  <2>3. CASE /\ sequenceNum >= 1 /\ sequenceNum' = sequenceNum + 1
             /\ toClient' = Append(toClient, createPDU(sequenceNum, DATA, sequenceNum))
    <3> DEFINE new == createPDU(sequenceNum, DATA, sequenceNum)
    <3>0. /\ new \in PDU /\ new.seq = sequenceNum /\ new.flag = DATA
          /\ new.payload = sequenceNum /\ toClient' = Append(toClient, new)
      <4>1. sequenceNum \in Nat /\ sequenceNum \in Int /\ DATA \in Nat
        BY <1>6, FlagsDiffer
      <4>2. QED
        BY <2>3, <4>1, createPDUType
    <3> HIDE DEF new
    <3>1. PICK m \in PDU : /\ m.seq = sequenceNum /\ m.flag = DATA
                           /\ m.payload = sequenceNum /\ toClient' = Append(toClient, m)
      BY <3>0
    <3>3. Sent(m, sequenceNum') /\ IsData(m, sequenceNum)
      BY <1>6, <2>3, <3>1, FlagsDiffer DEF Sent, IsData
    <3>4. QED
      BY <1>2, <1>6, <2>1, <2>3, <3>1, <3>3, AppendedFlowOK
  <2>4. CASE /\ sequenceNum' = sequenceNum
             /\ \E s, p : toClient' = Append(toClient, createPDU(s, TIMEOUT_DATA, p))
    <3>1. PICK s, p : toClient' = Append(toClient, createPDU(s, TIMEOUT_DATA, p))
      BY <2>4
    <3>2. PICK m : m = createPDU(s, TIMEOUT_DATA, p)
      OBVIOUS
    <3>3. toClient' = Append(toClient, m) /\ m.flag = TIMEOUT_DATA
      BY <3>1, <3>2 DEF createPDU
    <3>4. m \in Range(toClient') /\ m \in PDU
      <4>1. Len(toClient) + 1 \in DOMAIN toClient' /\ toClient'[Len(toClient) + 1] = m
        BY <1>6, <3>3
      <4>2. QED
        BY <1>6, <4>1 DEF Range
    <3>5. m.flag \in DataFlags /\ m.flag # EOF
      BY <3>3, FlagsDiffer
    <3>6. m.payload = m.seq /\ m.seq < sequenceNum
      <4>1. CASE m \in Range(toClient)
        BY <2>1, <3>5, <4>1 DEF FlowOK, Sent
      <4>2. CASE FromChild(m)
        <5>1. m.seq \in 1..(sequenceNum' - 1) /\ m.payload = m.seq
          BY <3>5, <4>2 DEF FromChild, NoLossInv
        <5>2. QED
          BY <1>6, <2>4, <5>1
      <4>3. QED
        BY <1>4, <3>4, <4>1, <4>2 DEF ChildEffect
    <3>7. Sent(m, sequenceNum') /\ m.seq <= sequenceNum
      <4>1. m.seq \in Nat
        BY <3>4 DEF PDU
      <4>2. QED
        BY <1>6, <2>4, <3>5, <3>6, <4>1 DEF Sent
    <3>8. QED
      BY <1>2, <2>1, <2>4, <3>3, <3>4, <3>7, AppendedFlowOK
  <2>5. CASE /\ sequenceNum' = sequenceNum /\ sequenceNum = FileChunks + 1
             /\ toClient' = Append(toClient, createPDU(sequenceNum, EOF, NULL))
    <3> DEFINE new == createPDU(sequenceNum, EOF, NULL)
    <3>1. /\ new \in PDU /\ new.seq = sequenceNum /\ new.flag = EOF
          /\ toClient' = Append(toClient, new)
      <4>1. sequenceNum \in Nat /\ EOF \in Nat /\ NULL \in Int
        BY <1>6, FlagsDiffer DEF NULL
      <4>2. QED
        BY <2>5, <4>1, createPDUType
    <3> HIDE DEF new
    <3>2. PICK m \in PDU : /\ m.seq = sequenceNum /\ m.flag = EOF
                           /\ toClient' = Append(toClient, m)
      BY <3>1
    <3>4. Sent(m, sequenceNum') /\ m.seq <= sequenceNum
      BY <1>6, <2>5, <3>2 DEF Sent
    <3>5. QED
      BY <1>2, <2>1, <2>5, <3>2, <3>4, AppendedFlowOK
  <2>6. QED
    BY <1>1, <2>2, <2>3, <2>4, <2>5 DEF ChildSends
<1>8. QED
  BY <1>1, <1>2, <1>5, <1>7 DEF NoLossInv

\* rcopy takes the first datagram, which is never ahead of what it expects.
LEMMA RcopyStepNoLoss ==
  ASSUME NoLoss, IndInv, IndInv', NoLossInv, RcopyStep
  PROVE  NoLossInv' /\ transferState = "IN_ORDER" /\ expected <= expected'
<1>1. transferState = "IN_ORDER" /\ FlowOK
  BY DEF RcopyStep, RcopyNext, RecvData, RecvEof, RecvOther, NoLossInv
<1>2. UNCHANGED <<childState, sequenceNum>>
  BY DEF RcopyStep, serverVars
<1>3. /\ toClient \in Seq(PDU) /\ toClient' \in Seq(PDU)
      /\ sequenceNum \in Nat /\ FileChunks \in Nat
      /\ expected \in Nat /\ expected >= 1 /\ outFile = FirstChunks(expected - 1)
      /\ DOMAIN buffer = {}
  BY ServerFacts DEF IndInv, RcopyTypeOK, NoLossInv, NetTypeOK
<1>4. PICK d \in Deliveries(toClient) :
        /\ toClient' = d.rest
        /\ \/ /\ d.msg.flag \in DataFlags
              /\ InOrder(d.msg, d.cost) \/ OutOfOrder(d.msg, d.cost) \/ FlushState(d.cost)
           \/ d.msg.flag = EOF /\ Flush(FlushCount) /\ transferState' = "DONE"
           \/ d.msg.flag \notin DataFlags \cup {EOF}
  BY DEF RcopyStep, RcopyNext, RecvData, RecvEof, RecvOther
<1>5. PICK m : m = d.msg
  OBVIOUS
<1>6. /\ Len(toClient) >= 1 /\ m = toClient[1] /\ Behind(toClient', toClient)
      /\ m \in PDU /\ m.seq \in Nat /\ m \in Range(toClient)
      /\ Range(toClient') \subseteq Range(toClient)
  <2>1. Len(toClient) >= 1 /\ m = toClient[1] /\ Behind(toClient', toClient)
    BY <1>3, <1>4, <1>5, NoLossDelivers
  <2>2. m \in PDU /\ m \in Range(toClient) /\ Range(toClient') \subseteq Range(toClient)
    BY <1>3, <1>4, <1>5, DeliveriesTake
  <2>3. QED
    BY <2>1, <2>2 DEF PDU
<1>7. m.seq <= expected
  <2> SUFFICES ASSUME m.seq > expected PROVE FALSE
    BY <1>3, <1>6
  <2>1. 1 \in DOMAIN toClient
    BY <1>3, <1>6
  <2>2. expected \in expected..(toClient[1].seq - 1)
    BY <1>3, <1>6
  <2>3. \E j \in 1..(1 - 1) : IsData(toClient[j], expected)
    BY <1>1, <2>1, <2>2 DEF FlowOK, InSequence
  <2>4. QED
    BY <2>3
<1>8. Sent(m, sequenceNum)
  BY <1>1, <1>6 DEF FlowOK
<1>9. ASSUME transferState' # "OUT_OF_ORDER"
      PROVE  \A x \in Range(toServer') : x.flag # SREJ
  <2>1. "flip" \notin FaultKinds
    BY DEF NoLoss
  <2>2. \A x \in Range(toServer') : x \in Range(toServer) \/ Reply(x)
    BY <2>1, RcopyNextType DEF RcopyStep, IndInv, RcopyTypeStep, Answered
  <2>3. QED
    BY <1>9, <2>2 DEF Reply, NoLossInv
<1>10. CASE m.flag \in DataFlags
  <2>1. m.payload = m.seq /\ m.seq < sequenceNum /\ m.flag # EOF
    BY <1>8, <1>10, FlagsDiffer DEF Sent
  <2>2. InOrder(m, d.cost)
    BY <1>1, <1>4, <1>5, <1>10, <2>1 DEF OutOfOrder, FlushState
  <2>3. \/ /\ m.seq = expected /\ WriteExpected(m)
           /\ UNCHANGED transferState
        \/ m.seq < expected /\ UNCHANGED rcopyVars
    BY <1>3, <1>6, <1>7, <2>2 DEF InOrder
  <2>4. /\ expected' \in Nat /\ expected <= expected' /\ m.seq < expected'
        /\ expected' <= sequenceNum \/ expected' = 1
        /\ transferState' = "IN_ORDER" /\ buffer' = buffer
    BY <1>1, <1>3, <1>6, <2>1, <2>3 DEF WriteExpected, rcopyVars, FlowOK
  <2>5. outFile' = FirstChunks(expected' - 1)
    <3>1. CASE m.seq = expected /\ WriteExpected(m)
      BY <1>3, <1>6, <2>1, <3>1, WriteExpectedGrows DEF IndInv
    <3>2. CASE UNCHANGED rcopyVars
      BY <1>3, <3>2 DEF rcopyVars
    <3>3. QED
      BY <2>3, <3>1, <3>2
  <2>6. InSequence(toClient', expected') /\ Covers(toClient', expected', sequenceNum)
    <3>1. PICK e \in Nat : e = expected'
      BY <2>4
    <3>2. expected <= e /\ toClient[1].seq < e
      BY <1>6, <2>4, <3>1
    <3>3. InSequence(toClient', e) /\ Covers(toClient', e, sequenceNum)
      BY <1>1, <1>3, <1>6, <3>2, TakeInSequence DEF FlowOK
    <3>4. QED
      BY <3>1, <3>3
  <2>7. FlowOK'
    BY <1>1, <1>2, <1>6, <2>4, <2>6 DEF FlowOK
  <2>8. expected' >= 1 /\ DOMAIN buffer' = {}
    BY <1>3, <2>4
  <2>9. NoLossInv'
    BY <1>2, <1>9, <2>4, <2>5, <2>7, <2>8 DEF NoLossInv
  <2>10. QED
    BY <1>1, <2>4, <2>9
<1>11. CASE m.flag = EOF
  <2>1. m.flag \notin DataFlags /\ m.seq = sequenceNum /\ m.seq = FileChunks + 1
    BY <1>8, <1>11, FlagsDiffer DEF Sent
  <2>2. expected = FileChunks + 1
    BY <1>1, <1>3, <1>7, <2>1 DEF FlowOK
  <2>3. Flush(FlushCount) /\ transferState' = "DONE"
    BY <1>4, <1>5, <1>11, <2>1
  <2>4. FlushCount = 0
    <3>1. /\ FlushCount \in Nat
          /\ \A k \in 1..FlushCount : Slot(expected + k - 1) \in DOMAIN buffer
      BY <2>3, FlushType DEF IndInv
    <3>2. FlushCount >= 1 => 1 \in 1..FlushCount
      BY <3>1
    <3>3. QED
      BY <1>3, <3>1, <3>2
  <2>5. /\ expected' = expected /\ DOMAIN buffer' = {}
        /\ outFile' = outFile \o [k \in 1..0 |-> buffer[Slot(expected + k - 1)]]
    BY <1>3, <2>3, <2>4 DEF Flush
  <2>6. outFile' = FirstChunks(expected' - 1)
    <3> DEFINE w == [k \in 1..0 |-> buffer[Slot(expected + k - 1)]]
    <3>1. w \in [1..0 -> Int] /\ \A k \in 1..0 : w[k] = expected + k - 1
      OBVIOUS
    <3>2. 0 \in Nat /\ expected + 0 - 1 = expected - 1
      BY <1>3
    <3>3. outFile' = outFile \o w
      BY <2>5
    <3> HIDE DEF w
    <3>4. FirstChunks(expected - 1) \o w = FirstChunks(expected + 0 - 1)
      BY <1>3, <3>1, PrefixGrows
    <3>5. QED
      BY <1>3, <2>5, <3>2, <3>3, <3>4
  <2>7. NoLossInv'
    BY <1>2, <1>3, <1>9, <2>2, <2>3, <2>5, <2>6 DEF NoLossInv
  <2>8. QED
    BY <1>1, <1>3, <2>5, <2>7
<1>12. QED
  BY <1>8, <1>10, <1>11 DEF Sent

LEMMA NextNoLossInv == NoLoss /\ IndInv /\ IndInv' /\ NoLossInv /\ [Next]_vars => NoLossInv'
<1> SUFFICES ASSUME NoLoss, IndInv, IndInv', NoLossInv, [Next]_vars PROVE NoLossInv'
  OBVIOUS
<1>1. CASE ServerStep
  BY <1>1, ServerStepNoLoss
<1>2. CASE RcopyStep
  BY <1>2, RcopyStepNoLoss
<1>3. CASE ClientPortClosed
  BY <1>3 DEF ClientPortClosed, serverVars, rcopyVars, NoLossInv
<1>4. CASE ServerPortClosed
  <2>1. Range(<<>>) = {}
    BY DEF Range
  <2>2. FlowOK => FlowOK'
    BY <1>4 DEF ServerPortClosed, serverVars, rcopyVars, FlowOK
  <2>3. QED
    BY <1>4, <2>1, <2>2 DEF ServerPortClosed, serverVars, rcopyVars, NoLossInv
<1>5. CASE UNCHANGED vars
  BY <1>5 DEF vars, netVars, serverVars, rcopyVars, NoLossInv, FlowOK
<1>6. QED
  BY <1>1, <1>2, <1>3, <1>4, <1>5 DEF Next

LEMMA NoLossInvHolds ==
  ASSUME NoLoss
  PROVE  Spec => []NoLossInv
<1>1. Init => NoLossInv
  BY InitNoLossInv
<1>2. IndInv /\ IndInv' /\ NoLossInv /\ [Next]_vars => NoLossInv'
  BY NextNoLossInv
<1>3. QED
  BY <1>1, <1>2, IndInvHolds, PTL DEF Spec

\* When the network loses, damages and reorders nothing, what rcopy has closed on
\* the EOF is the whole file, however often datagrams are repeated and polls time
\* out, and with a child's window of any size: the child sends its EOF after the
\* last chunk, so it arrives after every chunk.
THEOREM CompleteWithoutLoss ==
  ASSUME FaultKinds \subseteq {"dup", "delay"}
  PROVE  Spec => []CompleteWhenDone
<1>1. NoLossInv => CompleteWhenDone
  <2> SUFFICES ASSUME NoLossInv, transferState = "DONE"
               PROVE  outFile = [i \in 1..FileChunks |-> i]
    BY DEF CompleteWhenDone
  <2>1. outFile = FirstChunks((FileChunks + 1) - 1)
    BY DEF NoLossInv
  <2>2. (FileChunks + 1) - 1 = FileChunks
    BY ServerAssumption
  <2>3. QED
    BY <2>1, <2>2 DEF FirstChunks
<1>2. Spec => []NoLossInv
  BY NoLossInvHolds DEF NoLoss
<1>3. QED
  BY <1>1, <1>2, PTL

\* One step of rcopy: some more chunks, or all of them and the close.
LEMMA RcopyWholeStep ==
  ASSUME NoLoss, IndInv, IndInv', NoLossInv, RcopyStep
  PROVE  [Copy!Write \/ Copy!CloseWhole]_(Copy!copyVars)
<1>1. NoLossInv' /\ transferState = "IN_ORDER" /\ expected <= expected'
  BY RcopyStepNoLoss
<1>2. /\ FileChunks \in Nat /\ expected \in Nat /\ expected >= 1
      /\ outFile = FirstChunks(expected - 1)
  BY ServerAssumption DEF IndInv, RcopyTypeOK, NoLossInv
<1>3. PICK n \in Nat : n = expected' - 1
  <2>1. PICK e : e = expected'
    OBVIOUS
  <2>2. e \in Nat /\ e >= 1
    BY <1>1, <2>1 DEF IndInv, RcopyTypeOK, NoLossInv
  <2>3. e - 1 \in Nat
    BY <2>2
  <2>4. QED
    BY <2>1, <2>3
<1>4. /\ expected - 1 <= n /\ expected - 1 \in Nat
      /\ outFile' = Copy!FirstChunks(n) /\ Len(outFile) = expected - 1
  <2>1. expected - 1 <= n /\ expected - 1 \in Nat
    BY <1>1, <1>2, <1>3 DEF IndInv, RcopyTypeOK
  <2>2. outFile' = Copy!FirstChunks(n)
    BY <1>1, <1>3 DEF NoLossInv, FirstChunks, Copy!FirstChunks
  <2>3. QED
    BY <1>2, <2>1, <2>2 DEF FirstChunks
<1>5. CASE transferState' = "DONE"
  <2>1. n = FileChunks
    BY <1>1, <1>2, <1>3, <1>5 DEF NoLossInv
  <2>2. n \in Len(outFile)..FileChunks
    BY <1>2, <1>4, <2>1
  <2>3. Copy!CloseWhole
    BY <1>1, <1>4, <1>5, <2>1, <2>2 DEF Copy!CloseWhole, Copy!Close
  <2>4. QED
    BY <2>3
<1>6. CASE transferState' # "DONE" /\ n = expected - 1
  <2>1. outFile' = outFile
    BY <1>2, <1>4, <1>6 DEF FirstChunks, Copy!FirstChunks
  <2>2. QED
    BY <1>1, <1>6, <2>1 DEF Copy!copyVars
<1>7. CASE transferState' # "DONE" /\ n # expected - 1
  <2>1. transferState' = "IN_ORDER" /\ FlowOK'
    BY <1>1, <1>7 DEF NoLossInv
  <2>2. expected' <= sequenceNum' \/ expected' = 1
    BY <2>1 DEF FlowOK
  <2>3. sequenceNum' \in 0..(FileChunks + 1) /\ expected' \in Nat
    BY DEF IndInv, ServerInv, RcopyTypeOK
  <2>4. n <= FileChunks
    <3>1. PICK e, s : e = expected' /\ s = sequenceNum'
      OBVIOUS
    <3>2. /\ e \in Nat /\ s \in 0..(FileChunks + 1) /\ n = e - 1
          /\ e <= s \/ e = 1
      BY <1>3, <2>2, <2>3, <3>1
    <3>3. QED
      BY <1>2, <3>2
  <2>5. n \in (Len(outFile) + 1)..FileChunks
    BY <1>2, <1>4, <1>7, <2>4
  <2>6. Copy!Write
    BY <1>1, <1>4, <2>1, <2>5 DEF Copy!Write
  <2>7. QED
    BY <2>6
<1>8. QED
  BY <1>5, <1>6, <1>7

\* The safety of CopyIsWhole: when nothing is lost, damaged or overtaken, rcopy's
\* output file implements a copy that is closed only when every chunk is in it.
\* That it is closed in the end is the fairness of Copy!WholeSpec.
THEOREM OutFileImplementsWholeCopy ==
  ASSUME FaultKinds \subseteq {"dup", "delay"}
  PROVE  Spec => Copy!WholeSafety
<1>0. NoLoss
  BY DEF NoLoss
<1>1. Init => Copy!CopyInit
  BY InitCopy
<1>2. IndInv /\ IndInv' /\ NoLossInv /\ [Next]_vars
        => [Copy!Write \/ Copy!CloseWhole]_(Copy!copyVars)
  <2> SUFFICES ASSUME IndInv, IndInv', NoLossInv, [Next]_vars
               PROVE  [Copy!Write \/ Copy!CloseWhole]_(Copy!copyVars)
    OBVIOUS
  <2>1. CASE RcopyStep
    BY <1>0, <2>1, RcopyWholeStep
  <2>2. CASE UNCHANGED rcopyVars
    BY <2>2 DEF rcopyVars, Copy!copyVars
  <2>3. QED
    BY <2>1, <2>2 DEF Next, ServerStep, ClientPortClosed, ServerPortClosed, vars
<1>3. Spec => []NoLossInv
  BY <1>0, NoLossInvHolds
<1>4. QED
  BY <1>1, <1>2, <1>3, IndInvHolds, PTL DEF Spec, Copy!WholeSafety
===============================================================================
