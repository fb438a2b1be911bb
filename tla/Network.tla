------------------------------- MODULE Network --------------------------------
(***************************************************************************)
(* The two UDP flows between a server child and rcopy, including what      *)
(* sendtoErr() of the CPE464 library does to a datagram.  A flow is the    *)
(* sequence of datagrams on their way.  The network is FIFO and reliable   *)
(* but for at most MaxFaults faults of the kinds in FaultKinds:            *)
(*   "drop"     a datagram is lost when it is sent                         *)
(*   "flip"     one bit of a datagram is changed when it is sent           *)
(*   "dup"      a datagram is delivered and stays on its way               *)
(*   "reorder"  a datagram overtakes those sent before it                  *)
(*   "delay"    a poll times out although a datagram is still on its way   *)
(***************************************************************************)
EXTENDS WireFormat, Sequences, SequencesExt

CONSTANTS
  FaultKinds, \* the faults that can happen
  MaxFaults,  \* bound: how many faults happen in one behaviour
  FlipBits    \* bound: the bits of a sequence number that can be flipped,
              \* each given by its weight (1, 2, 4, ...)

ASSUME FaultAssumption ==
  /\ FaultKinds \subseteq {"drop", "flip", "dup", "reorder", "delay"}
  /\ MaxFaults \in Nat
  /\ FlipBits \subseteq Nat \ {0}

VARIABLES
  toClient,   \* datagrams on their way from the child to rcopy
  toServer,   \* datagrams on their way from rcopy to the child
  faults      \* how many faults have happened

netVars == <<toClient, toServer, faults>>

NetTypeOK ==
  /\ toClient \in Seq(PDU)
  /\ toServer \in Seq(PDU)
  /\ faults \in 0..MaxFaults

\* a with the bit of this weight changed; the weights of a byte's bits.
FlipBit(a, weight) ==
  IF (a \div weight) % 2 = 0 THEN a + weight ELSE a - weight

ByteBits == {1, 2, 4, 8, 16, 32, 64, 128}

\* Every PDU that m can become when one of its bits is flipped.  Flags that no
\* program tests for are all represented by 0.
Corruptions(m) ==
  LET bad == [m EXCEPT !.intact = FALSE]
  IN  {bad, [bad EXCEPT !.payload = Garbage], [bad EXCEPT !.flag = 0]}
      \cup {[bad EXCEPT !.flag = f] : f \in Flags \cap {FlipBit(m.flag, w) : w \in ByteBits}}
      \cup {[bad EXCEPT !.seq = FlipBit(m.seq, w)] : w \in FlipBits}

\* What sending m can make of a flow, and the faults it takes.
Transmissions(flow, m) ==
  {[flow |-> Append(flow, m), cost |-> 0]}
  \cup {[flow |-> flow, cost |-> 1] : k \in FaultKinds \cap {"drop"}}
  \cup {[flow |-> Append(flow, c), cost |-> 1] :
          c \in IF "flip" \in FaultKinds THEN Corruptions(m) ELSE {}}

\* The datagrams a flow can deliver next, what is left of the flow, and the
\* faults it takes.
Deliveries(flow) ==
  {[msg  |-> flow[i],
    rest |-> IF again THEN flow ELSE RemoveAt(flow, i),
    cost |-> (IF i > 1 THEN 1 ELSE 0) + (IF again THEN 1 ELSE 0)] :
     i \in {j \in DOMAIN flow : j = 1 \/ "reorder" \in FaultKinds},
     again \in {FALSE, "dup" \in FaultKinds}}

Charge(cost) ==
  /\ faults + cost <= MaxFaults
  /\ faults' = faults + cost

\* sendtoErr() towards rcopy and towards the child, after a receipt that took
\* `paid' faults; and a handler that sends nothing.
SendToClient(m, paid) ==
  \E t \in Transmissions(toClient, m) : toClient' = t.flow /\ Charge(paid + t.cost)

SendToServer(m, paid) ==
  \E t \in Transmissions(toServer, m) : toServer' = t.flow /\ Charge(paid + t.cost)

\* pollCall(1000) of the child returns -1.  A second is long against a round
\* trip, so without a "delay" fault nothing is on its way in either direction.
PollTimeoutCost == IF toClient = <<>> /\ toServer = <<>> THEN 0 ELSE 1
PollTimesOut == PollTimeoutCost = 0 \/ "delay" \in FaultKinds
===============================================================================
