------------------------------- MODULE Transfer -------------------------------
(***************************************************************************)
(* One file transfer: a server child and rcopy over a faulty network, from *)
(* the file-OK acknowledgement on.                                         *)
(***************************************************************************)
EXTENDS Server, Rcopy

vars == <<netVars, serverVars, rcopyVars>>

TypeOK == NetTypeOK /\ ServerTypeOK /\ RcopyTypeOK

\* rcopy has sent its file-OK acknowledgement, once.
Init ==
  /\ ServerInit
  /\ RcopyInit
  /\ toClient = <<>>
  /\ \E t \in Transmissions(<<>>, createPDU(0, FILE_OK_ACK, NULL)) :
       /\ toServer = t.flow
       /\ faults = t.cost
       /\ t.cost <= MaxFaults

ServerStep == ServerNext /\ UNCHANGED rcopyVars
RcopyStep  == RcopyNext /\ UNCHANGED serverVars

\* The kernel drops what arrives for a socket that is closed.
ClientPortClosed ==
  /\ transferState = "DONE"
  /\ toClient # <<>>
  /\ toClient' = <<>>
  /\ UNCHANGED <<toServer, faults, serverVars, rcopyVars>>

ServerPortClosed ==
  /\ childState \in {"EXITED", "CRASHED"}
  /\ toServer # <<>>
  /\ toServer' = <<>>
  /\ UNCHANGED <<toClient, faults, serverVars, rcopyVars>>

Next == ServerStep \/ RcopyStep \/ ClientPortClosed \/ ServerPortClosed

Spec == Init /\ [][Next]_vars

\* Both processes run, and the network delivers: a poll or recvfrom() that has
\* a datagram returns, and one that has none times out.
Fairness ==
  /\ WF_vars(ServerStep)
  /\ WF_vars(RcopyStep)
  /\ WF_vars(ClientPortClosed)
  /\ WF_vars(ServerPortClosed)

FairSpec == Spec /\ Fairness

-------------------------------------------------------------------------------
(***************************************************************************)
(* Safety.                                                                 *)
(***************************************************************************)
\* The oldest sequence number the window holds (sequenceNum if it is empty).
Base == sequenceNum - window.ValidCount

\* The window holds exactly Base..sequenceNum-1, each in the slot of its
\* number, so the slot of the next packet is free whenever the window is not
\* full: CircularQueue_insert, whose -1 send_data_state ignores, never fails.
WindowContiguous ==
  /\ \A s \in Base..(sequenceNum - 1) :
       /\ window.entries[s % ServerWindow].valid
       /\ window.entries[s % ServerWindow].sequenceNum = s
  /\ \A i \in ValidSlots(window) :
       /\ window.entries[i].sequenceNum \in Base..(sequenceNum - 1)
       /\ i = window.entries[i].sequenceNum % ServerWindow

\* What rcopy has not yet written the child still holds, whatever RRs were
\* lost, repeated or late: an SREJ for rcopy's next packet can be answered.
MissingIsHeld ==
  childState # "EXITED" =>
    \A s \in expected..(sequenceNum - 1) : s \in Outstanding(window)

\* Flow control: the child is never more than its window ahead of rcopy.
WithinWindow == sequenceNum <= expected + ServerWindow

\* The output file is the first expected-1 chunks of the file, in order: no
\* chunk is skipped, repeated, or taken from an aliased slot of either ring.
PrefixWritten == outFile = [i \in 1..(expected - 1) |-> i]

\* A data packet that rcopy can still write or buffer carries the chunk of its
\* own number.  (CircularQueue_get also returns entries of other packets: an
\* old SREJ makes the child send a newer chunk under the old number.)
NoMislabelledData ==
  \A i \in DOMAIN toClient :
    toClient[i].flag \in DataFlags /\ toClient[i].seq >= expected =>
      toClient[i].payload = toClient[i].seq

\* The receive loop's three states agree with its two counters and its buffer:
\* in order, nothing is buffered or known beyond `expected'; out of order, the
\* expected packet is neither buffered nor aliased by a buffered one; and what
\* is buffered lies between the counters, in its own slot.
BufferAgreesWithState ==
  /\ transferState = "IN_ORDER" => highest = expected - 1 /\ DOMAIN buffer = {}
  /\ transferState = "OUT_OF_ORDER" =>
       expected <= highest /\ Slot(expected) \notin DOMAIN buffer
  /\ \A i \in DOMAIN buffer : \E s \in expected..highest :
       i = Slot(s) /\ buffer[i] = s

\* No acknowledgement on its way releases a packet rcopy has not written.
AcksAreEarned ==
  \A i \in DOMAIN toServer : toServer[i].flag = RR => toServer[i].seq <= expected

\* What rcopy has closed is the whole file.
CompleteWhenDone ==
  transferState = "DONE" => outFile = [i \in 1..FileChunks |-> i]

(***************************************************************************)
(* Action properties.                                                      *)
(***************************************************************************)
\* A timeout resends the oldest packet of the window.
TimeoutResendsOldest ==
  [][timeoutCount' = timeoutCount + 1 =>
       window.entries[ResentSlot(window)].sequenceNum = Base]_vars

\* rcopy's EOF acknowledgement, undamaged and for the right number, ends the
\* child's wait.
EofAckEndsTransfer ==
  [][/\ childState = "WAIT_ON_EOF_ACK"
     /\ toServer # <<>> /\ toServer' = Tail(toServer)
     /\ Head(toServer) = createPDU(sequenceNum, EOF_ACK, NULL)
     => childState' = "DONE"]_vars

\* The child takes no datagram for an EOF acknowledgement before rcopy has
\* closed the file: neither what is left over from the transfer (an RR may
\* have the EOF's number) nor a damaged datagram ends its wait.
EofAckMeansClosed ==
  [][childState = "WAIT_ON_EOF_ACK" /\ childState' = "DONE" =>
       transferState = "DONE"]_vars

(***************************************************************************)
(* Liveness.                                                               *)
(***************************************************************************)
\* However the network behaves, the child process ends.
ChildEnds == <>(childState \in {"EXITED", "CRASHED"})

\* rcopy ends.
RcopyEnds == <>(transferState = "DONE")
===============================================================================
