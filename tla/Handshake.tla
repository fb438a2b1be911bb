------------------------------ MODULE Handshake -------------------------------
(***************************************************************************)
(* How a transfer begins: rcopy's requests, the server process that forks  *)
(* a child for each of them, and the answers, up to the file-OK            *)
(* acknowledgement with which module Transfer starts.  Processes have      *)
(* descriptor tables, because both programs rely on the kernel's giving    *)
(* out the lowest free descriptor.  Locals of a function that has returned *)
(* (count, socketNum) are reset.                                           *)
(***************************************************************************)
EXTENDS PduFlags, PollSet, Functions

CONSTANTS
  Clients,      \* the rcopy processes
  Pids,         \* bound: the process ids the kernel gives to children
  Files,        \* the names that fopen() finds on the server
  MAX_RETRIES,  \* how often rcopy sends one request (10 in the program)
  MAX_TIMEOUTS, \* the 10 of the child's write_file_ok_ack_state
  StdinHungUp,  \* the other end of the programs' standard input is gone
  FaultKinds,   \* the faults that can happen, see Send, Receive and TimesOut
  MaxFaults     \* bound: how many faults happen in one behaviour

\* The name rcopy asks for, and what a flipped bit makes of it.
Names == {"asked", "other"}

ASSUME HandshakeAssumption ==
  /\ Pids \subseteq Nat
  /\ Files \subseteq Names
  /\ MAX_RETRIES \in Nat \ {0} /\ MAX_TIMEOUTS \in Nat \ {0}
  /\ StdinHungUp \in BOOLEAN
  /\ FaultKinds \subseteq {"drop", "flip", "dup", "delay"}
  /\ MaxFaults \in Nat

VARIABLES
  client,   \* each rcopy: its state, descriptors and retry counter
  child,    \* the server's child processes by pid, zombies included
  sigchld,  \* a SIGCHLD is pending in the server process
  net,      \* the datagrams on their way, without order
  faults    \* how many faults have happened

vars == <<client, child, sigchld, net, faults>>

-------------------------------------------------------------------------------
(***************************************************************************)
(* Descriptors and ports.                                                  *)
(***************************************************************************)
\* What a descriptor refers to: a port of this machine's sockets, or one of
FILE    == 0   \* a file or terminal
UNBOUND == -1  \* a socket that has not been given a port

ServerPort == 1
Stdio      == [fd \in 0..2 |-> FILE]

FreeDescriptor(fds) == Min((0..Cardinality(DOMAIN fds)) \ DOMAIN fds)

\* open() and socket() take the lowest free descriptor.
Open(fds, object) ==
  [fd \in DOMAIN fds \cup {FreeDescriptor(fds)} |->
     IF fd \in DOMAIN fds THEN fds[fd] ELSE object]

\* close() of a descriptor that is not open changes nothing.
Close(fds, fd) == Restrict(fds, DOMAIN fds \ {fd})

\* networks.c: a socket bound to a port, and one that has none before it sends.
udpServerSetup(fds, port)   == Open(fds, port)
setupUdpClientToServer(fds) == Open(fds, UNBOUND)

\* The first socket of a program is its descriptor 3.
MainSocketNum == FreeDescriptor(Stdio)
ParentFds     == udpServerSetup(Stdio, ServerPort)

\* processFile opens a second one and keeps its number.
ProcessFileFds   == setupUdpClientToServer(setupUdpClientToServer(Stdio))
ProcessSocketNum == FreeDescriptor(setupUdpClientToServer(Stdio))

\* A new poll set with one socket, as every state that polls makes itself one.
Watch(set, socketNum) == addToPollSet(setupPollSet(set), socketNum)

\* What pollCall() returns to process r when `readable' can be read.
Polled(r, readable) ==
  pollCall(r.poll, DOMAIN r.fds, readable, IF StdinHungUp THEN {0} ELSE {})

\* The kernel does not give out a port that is in use, or to which a datagram
\* or a child's answers can still come.
UsedPorts ==
  {ServerPort}
  \cup (UNION {Range(client[c].fds) \cup {client[c].server} : c \in Clients})
  \cup (UNION {Range(child[p].fds) \cup {child[p].peer} : p \in DOMAIN child})
  \cup (UNION {{m.src, m.dst} : m \in net})

FreshPort == Min((1..(Cardinality(UsedPorts) + 1)) \ UsedPorts)

OpenPorts ==
  {ServerPort}
  \cup (UNION {Range(client[c].fds) : c \in Clients})
  \cup (UNION {Range(child[p].fds) : p \in DOMAIN child})

-------------------------------------------------------------------------------
(***************************************************************************)
(* Datagrams.                                                              *)
(***************************************************************************)
Datagram(src, dst, flag, name) ==
  [src |-> src, dst |-> dst, flag |-> flag, name |-> name]

\* No checksum is verified on these PDUs.  Of a flipped bit only the flag and
\* the name asked for matter; no flag is one bit away from an expected one that
\* the same process could receive.
Flipped(m) ==
  {[m EXCEPT !.flag = 0]}
  \cup (IF m.flag = FILENAME THEN {[m EXCEPT !.name = "other"]} ELSE {})

\* A dead process remembers no request.
NoRequest == Datagram(UNBOUND, UNBOUND, 0, "asked")

Charge(cost) ==
  /\ faults + cost <= MaxFaults
  /\ faults' = faults + cost

\* sendtoErr() of m, when `rest' is on its way and `paid' faults were taken.
Send(m, rest, paid) ==
  \/ net' = rest \cup {m} /\ Charge(paid)
  \/ "drop" \in FaultKinds /\ net' = rest /\ Charge(paid + 1)
  \/ "flip" \in FaultKinds /\ Charge(paid + 1)
     /\ \E bad \in Flipped(m) : net' = rest \cup {bad}

\* What a receipt of m leaves on its way, with the faults it takes.
Receipts(m) ==
  {[rest |-> net \ {m}, cost |-> 0]}
  \cup {[rest |-> net, cost |-> 1] : k \in FaultKinds \cap {"dup"}}

\* A one-second poll on this port times out; it is a fault if something that
\* would end it is on its way.
TimesOut(port) ==
  LET cost == IF \/ \E m \in net : port \in {m.src, m.dst}
                 \/ \E p \in DOMAIN child :
                      child[p].state = "FILENAME" /\ child[p].peer = port
              THEN 1 ELSE 0
  IN  /\ cost = 1 => "delay" \in FaultKinds
      /\ Charge(cost)

-------------------------------------------------------------------------------
(***************************************************************************)
(* rcopy.                                                                  *)
(***************************************************************************)
\* The state of processFile; POLLING is inside wait_on_file_ok_state.
ClientStates ==
  {"START", "WAIT_ON_FILE_OK", "POLLING", "WAIT_ON_DATA", "PROCESS_TRANSFER",
   "EXITED"}

InitialClient ==
  [state     |-> "START",
   fds       |-> ProcessFileFds,
   socketNum |-> ProcessSocketNum, \* the local of wait_on_file_ok_state
   poll      |-> NoPollSet,
   count     |-> 0,
   server    |-> UNBOUND]          \* to which the acknowledgement was sent

\* main() returns.
Exited(c) == [InitialClient EXCEPT !.state = "EXITED", !.fds = <<>>,
                                   !.server = client[c].server]

\* The socket that start_state opens is never used and never closed.
start_state(c) ==
  /\ client[c].state = "START"
  /\ client' = [client EXCEPT
                  ![c].state = "WAIT_ON_FILE_OK",
                  ![c].fds = setupUdpClientToServer(@)]
  /\ UNCHANGED <<child, sigchld, net, faults>>

\* Mutant: the socket of the last round is not closed first.
Reopened_NotClosed(r) == r.fds

Reopened(r) == Close(r.fds, r.socketNum)

\* The head of the loop: a new socket for every request.
SendRequest(c) ==
  /\ client[c].state = "WAIT_ON_FILE_OK"
  /\ client[c].count < MAX_RETRIES
  /\ LET closed == Reopened(client[c])
         socket == FreeDescriptor(closed)
         port   == FreshPort
     IN  /\ client' = [client EXCEPT
                         ![c].state = "POLLING",
                         ![c].socketNum = socket,
                         ![c].poll = Watch(@, socket),
                         ![c].fds = [setupUdpClientToServer(closed)
                                       EXCEPT ![socket] = port]]
         /\ Send(Datagram(port, ServerPort, FILENAME, "asked"), net, 0)
  /\ UNCHANGED <<child, sigchld>>

\* setupUdpClientToServer() exits when it gets no socket or no address for the
\* host name, which it looks up again for every request.
SetupFails(c) ==
  /\ \/ client[c].state = "START"
     \/ client[c].state = "WAIT_ON_FILE_OK" /\ client[c].count < MAX_RETRIES
  /\ client' = [client EXCEPT ![c] = Exited(c)]
  /\ UNCHANGED <<child, sigchld, net, faults>>

OutOfRetries(c) ==
  /\ client[c].state = "WAIT_ON_FILE_OK"
  /\ client[c].count >= MAX_RETRIES
  /\ client' = [client EXCEPT ![c] = Exited(c)]
  /\ UNCHANGED <<child, sigchld, net, faults>>

RequestTimeout(c) ==
  /\ client[c].state = "POLLING"
  /\ Polled(client[c], {}) = -1
  /\ TimesOut(client[c].fds[client[c].socketNum])
  /\ client' = [client EXCEPT
                  ![c].state = "WAIT_ON_FILE_OK",
                  ![c].count = @ + 1,
                  ![c].fds = Close(@, client[c].socketNum)]
  /\ UNCHANGED <<child, sigchld, net>>

\* Whatever arrives first ends the poll; recvfrom() would wait for it too.  An answer other than file-OK makes
\* processFile call wait_on_file_ok_state again, with a count of zero and the
\* descriptor that processFile knows.
RecvAnswer(c) ==
  /\ client[c].state = "POLLING"
  /\ Polled(client[c], {client[c].socketNum}) # -1
  /\ \E m \in net : \E r \in Receipts(m) :
       /\ m.dst = client[c].fds[client[c].socketNum]
       /\ \/ /\ m.flag = FILE_OK
             /\ client' = [client EXCEPT
                             ![c].state = "WAIT_ON_DATA",
                             ![c].fds = Open(@, FILE),
                             ![c].count = 0,
                             ![c].socketNum = ProcessSocketNum,
                             ![c].server = m.src]
             /\ Send(Datagram(m.dst, m.src, FILE_OK_ACK, "asked"), r.rest, r.cost)
          \/ /\ m.flag = FILE_OK   \* fopen() of the output fails
             /\ client' = [client EXCEPT ![c] = Exited(c)]
             /\ net' = r.rest /\ Charge(r.cost)
          \/ /\ m.flag # FILE_OK
             /\ client' = [client EXCEPT
                             ![c].state = "WAIT_ON_FILE_OK",
                             ![c].count = 0,
                             ![c].socketNum = ProcessSocketNum,
                             ![c].fds = Close(@, client[c].socketNum)]
             /\ net' = r.rest /\ Charge(r.cost)
  /\ UNCHANGED <<child, sigchld>>

\* The output is opened once more and the buffer allocated; either may fail.
wait_on_data_state(c) ==
  /\ client[c].state = "WAIT_ON_DATA"
  /\ \/ client' = [client EXCEPT ![c].state = "PROCESS_TRANSFER",
                                 ![c].fds = Open(@, FILE)]
     \/ client' = [client EXCEPT ![c] = Exited(c)]
  /\ UNCHANGED <<child, sigchld, net, faults>>

\* process_transfer_state reads processFile's descriptor.  What is left over
\* from the requests it ignores; the rest of it is module Rcopy.
ReadOn(c) ==
  /\ client[c].state = "PROCESS_TRANSFER"
  /\ \E m \in net : \E r \in Receipts(m) :
       /\ m.dst = client[c].fds[ProcessSocketNum]
       /\ net' = r.rest /\ Charge(r.cost)
  /\ UNCHANGED <<client, child, sigchld>>

TransferEnds(c) ==
  /\ client[c].state = "PROCESS_TRANSFER"
  /\ client' = [client EXCEPT ![c] = Exited(c)]
  /\ UNCHANGED <<child, sigchld, net, faults>>

ClientStep(c) ==
  \/ start_state(c)    \/ SendRequest(c)  \/ OutOfRetries(c)
  \/ RequestTimeout(c) \/ RecvAnswer(c)   \/ wait_on_data_state(c)
  \/ SetupFails(c)     \/ ReadOn(c)

-------------------------------------------------------------------------------
(***************************************************************************)
(* The server and its children.                                            *)
(***************************************************************************)
\* The STATE of processClient up to SEND_DATA, in which module Server takes
\* over; PROCESS_SERVER is processServer's loop, into which the child returns.
ChildStates ==
  {"FILENAME", "WRITE_FILE_OK_ACK", "SEND_DATA", "DONE", "PROCESS_SERVER",
   "ZOMBIE"}

\* fork() copies the descriptor table and the request just received.
Forked(fds, m) ==
  [state       |-> "FILENAME",
   fds         |-> fds,
   peer        |-> m.src,   \* clientAddr
   name        |-> m.name,
   childSocket |-> 0,       \* ServerInfo info = {0}
   file        |-> 0,
   windowReady |-> FALSE,   \* CircularQueue_init has been called
   poll        |-> NoPollSet,
   count       |-> 0]

\* The descriptor tables with which some process is in processServer's loop
\* and can receive there.
Listeners ==
  {ParentFds}
  \cup {child[p].fds : p \in {q \in DOMAIN child :
          child[q].state = "PROCESS_SERVER" /\ MainSocketNum \in DOMAIN child[q].fds}}

\* Any number of requests, from one rcopy too, each get a child.
processServer ==
  /\ \E fds \in Listeners, m \in net : \E r \in Receipts(m) :
       /\ m.dst = fds[MainSocketNum]
       /\ net' = r.rest /\ Charge(r.cost)
       /\ \/ /\ m.flag = FILENAME
             /\ Pids \ DOMAIN child # {}
             /\ LET pid == Min(Pids \ DOMAIN child)
                IN  child' = [p \in DOMAIN child \cup {pid} |->
                                IF p = pid THEN Forked(fds, m) ELSE child[p]]
          \/ m.flag # FILENAME /\ UNCHANGED child
  /\ UNCHANGED <<client, sigchld>>

\* Mutant: one waitpid() per signal.
Reaped_One(dead) == {Min(dead)}

Reaped(dead) == dead

\* The SIGCHLD handler of the server; signals that come together are one.
handleZombies ==
  /\ sigchld
  /\ sigchld' = FALSE
  /\ child' = Restrict(child, DOMAIN child \
                 Reaped({p \in DOMAIN child : child[p].state = "ZOMBIE"}))
  /\ UNCHANGED <<client, net, faults>>

\* Process p exits or crashes: what remains of it is a zombie.
Dead(p) ==
  /\ child' = [child EXCEPT ![p] = [Forked(<<>>, NoRequest) EXCEPT !.state = "ZOMBIE"]]
  /\ sigchld' = TRUE

\* Mutant: the server's socket stays open in the child.
WithoutMainSocket_Kept(fds) == fds

\* close(socketNum)
WithoutMainSocket(fds) == Close(fds, MainSocketNum)

\* Mutant: file-OK is sent before fopen()'s result is looked at.
Answer_AlwaysOk(name) == FILE_OK

\* Mutant: the test of fopen()'s result is inverted.
Answer_Inverted(name) == IF name \in Files THEN FILE_ERROR ELSE FILE_OK

Answer(name) == IF name \in Files THEN FILE_OK ELSE FILE_ERROR

\* Mutant: the file pointer is not passed back in the ServerInfo.
SavedFile_Lost(found, file) == 0

\* info->file
SavedFile(found, file) == IF found THEN file ELSE 0

\* filename_state: a socket of the child's own, fopen(), and the answer; then
\* the poll set that write_file_ok_ack_state starts with.
filename_state(p) ==
  /\ child[p].state = "FILENAME"
  /\ LET closed == WithoutMainSocket(child[p].fds)
         port   == FreshPort
         bound  == udpServerSetup(closed, port)
         found  == child[p].name \in Files
     IN  /\ child' = [child EXCEPT
                        ![p].state = IF found THEN "WRITE_FILE_OK_ACK" ELSE "DONE",
                        ![p].childSocket = FreeDescriptor(closed),
                        ![p].file = SavedFile(found, FreeDescriptor(bound)),
                        ![p].poll = IF found THEN Watch(@, FreeDescriptor(closed)) ELSE @,
                        ![p].fds = IF found THEN Open(bound, FILE) ELSE bound]
         /\ Send(Datagram(port, child[p].peer, Answer(child[p].name), "asked"), net, 0)
  /\ UNCHANGED <<client, sigchld>>

\* udpServerSetup() exits when it gets no socket or no port.
ChildSetupFails(p) ==
  /\ child[p].state = "FILENAME"
  /\ Dead(p)
  /\ UNCHANGED <<client, net, faults>>

\* Mutant: whatever arrives is taken for the acknowledgement.
IsFileOkAck_Any(m) == TRUE

IsFileOkAck(m) == m.flag = FILE_OK_ACK

\* write_file_ok_ack_state and the CircularQueue_init that follows it.  Who
\* sends something, acknowledgement or not, becomes the child's client.
write_file_ok_ack_state(p) ==
  /\ child[p].state = "WRITE_FILE_OK_ACK"
  /\ Polled(child[p], {child[p].childSocket}) # -1
  /\ \E m \in net : \E r \in Receipts(m) :
       /\ m.dst = child[p].fds[child[p].childSocket]
       /\ net' = r.rest /\ Charge(r.cost)
       /\ child' = IF IsFileOkAck(m)
                   THEN [child EXCEPT ![p].peer = m.src,
                                      ![p].state = "SEND_DATA",
                                      ![p].count = 0,
                                      ![p].windowReady = TRUE]
                   ELSE [child EXCEPT ![p].peer = m.src]
  /\ UNCHANGED <<client, sigchld>>

\* Mutant: one timeout too many.
GivesUp_Late(count) == count > MAX_TIMEOUTS

GivesUp(count) == count >= MAX_TIMEOUTS

FileOkAckTimeout(p) ==
  /\ child[p].state = "WRITE_FILE_OK_ACK"
  /\ Polled(child[p], {}) = -1
  /\ TimesOut(child[p].fds[child[p].childSocket])
  /\ LET count == child[p].count + 1
     IN  child' = [child EXCEPT
                     ![p].count = IF GivesUp(count) THEN 0 ELSE count,
                     ![p].state = IF GivesUp(count) THEN "DONE" ELSE @]
  /\ UNCHANGED <<client, sigchld, net>>

\* The transfer, module Server: it ends (ChildEnds there), maybe by a crash.
Serve(p) ==
  /\ child[p].state = "SEND_DATA"
  /\ \/ child' = [child EXCEPT ![p].state = "DONE"] /\ UNCHANGED sigchld
     \/ Dead(p)
  /\ UNCHANGED <<client, net, faults>>

\* The end of processClient.  The queue is freed also if it was never
\* initialised, after which anything can happen; fclose(NULL) is a crash.
CleanUp(p) ==
  /\ child[p].state = "DONE"
  /\ \/ /\ child[p].file # 0
        /\ child' = [child EXCEPT
                       ![p].state = "PROCESS_SERVER",
                       ![p].fds = Close(Close(@, child[p].file),
                                        child[p].childSocket)]
        /\ UNCHANGED sigchld
     \/ /\ child[p].file = 0 \/ ~child[p].windowReady
        /\ Dead(p)
  /\ UNCHANGED <<client, net, faults>>

\* recvfrom() on a closed descriptor fails, and safeRecvfrom() exits.
RecvFails(p) ==
  /\ child[p].state = "PROCESS_SERVER"
  /\ MainSocketNum \notin DOMAIN child[p].fds
  /\ Dead(p)
  /\ UNCHANGED <<client, net, faults>>

ChildStep(p) ==
  \/ filename_state(p) \/ write_file_ok_ack_state(p) \/ FileOkAckTimeout(p)
  \/ Serve(p)          \/ CleanUp(p)                 \/ RecvFails(p)
  \/ ChildSetupFails(p)

-------------------------------------------------------------------------------
\* The kernel drops what arrives for a port that is not open.
PortClosed ==
  /\ \E m \in net : m.dst \notin OpenPorts /\ net' = net \ {m}
  /\ UNCHANGED <<client, child, sigchld, faults>>

Init ==
  /\ client = [c \in Clients |-> InitialClient]
  /\ child = <<>>
  /\ sigchld = FALSE
  /\ net = {}
  /\ faults = 0

\* Everything but the end of a transfer on rcopy's side.
Step ==
  \/ \E c \in Clients : ClientStep(c)
  \/ \E p \in DOMAIN child : ChildStep(p)
  \/ processServer
  \/ handleZombies
  \/ PortClosed

Next == Step \/ \E c \in Clients : TransferEnds(c)

Spec == Init /\ [][Next]_vars

\* As long as some process can run, or the kernel can deliver a datagram or a
\* signal, something of that happens.  That a transfer ends on rcopy's side is
\* not assumed.
Fairness == WF_vars(Step)

FairSpec == Spec /\ Fairness

-------------------------------------------------------------------------------
(***************************************************************************)
(* Properties.                                                             *)
(***************************************************************************)
Descriptors == Nat
Objects     == {FILE, UNBOUND} \cup (Nat \ {0})

\* A descriptor table: a function from some descriptors to what they refer to.
IsTable(fds) == DOMAIN fds \subseteq Descriptors /\ Range(fds) \subseteq Objects

\* Types, and the limits of the retry counters of wait_on_file_ok_state and
\* write_file_ok_ack_state; a child in filename_state still has the server's
\* socket.
HandshakeTypeOK ==
  /\ \A c \in Clients :
       /\ client[c].state \in ClientStates
       /\ IsTable(client[c].fds)
       /\ client[c].count \in 0..MAX_RETRIES
       /\ client[c].server \in Objects
       /\ client[c].state = "POLLING" => client[c].socketNum \in DOMAIN client[c].fds
  /\ DOMAIN child \subseteq Pids
  /\ \A p \in DOMAIN child :
       /\ child[p].state \in ChildStates
       /\ IsTable(child[p].fds)
       /\ child[p].count \in 0..(MAX_TIMEOUTS - 1)
       /\ child[p].state = "FILENAME" => MainSocketNum \in DOMAIN child[p].fds
  /\ \A m \in net : {m.src, m.dst} \subseteq Nat /\ m.name \in Names
  /\ faults \in 0..MaxFaults

\* A child that sends data sends it where rcopy reads: the rcopy that
\* acknowledged this child receives on a descriptor that is still the socket
\* of the request, though processFile's number for it was given out for
\* another socket before, and no other child serves that rcopy.
ServedSocketIsRead ==
  \A p \in DOMAIN child : child[p].state = "SEND_DATA" =>
    \E c \in Clients :
      /\ client[c].server = child[p].fds[child[p].childSocket]
      /\ \/ /\ client[c].state \in {"WAIT_ON_DATA", "PROCESS_TRANSFER"}
            /\ client[c].fds[ProcessSocketNum] = child[p].peer
         \/ client[c].state = "EXITED"

\* A child that returns from processClient into processServer's loop never
\* takes a request there: the descriptor that loop reads was closed as the
\* server's socket, given out again as the child's own, and closed as that.
ReturnedChildIsDeaf ==
  \A p \in DOMAIN child :
    child[p].state = "PROCESS_SERVER" => MainSocketNum \notin DOMAIN child[p].fds

\* A process that polls asks for its own socket and nothing else: pollCall()
\* returns that socket's number when it can be read and -1 when it cannot, it
\* looks at no entry beyond the array, although setupPollSet() makes the array
\* small again and leaves maxFileDescriptor as it is, and setting it up once
\* more, as wait_on_ack_state does for every acknowledgement, changes nothing.
PollsItsSocket(r, socketNum) ==
  /\ InBounds(r.poll)
  /\ pollCall(r.poll, DOMAIN r.fds, {socketNum}, {}) = socketNum
  /\ pollCall(r.poll, DOMAIN r.fds, DOMAIN r.fds \ {socketNum}, {}) = -1
  /\ Watch(r.poll, socketNum) = r.poll

PollersWatchTheirSocket ==
  /\ \A c \in Clients : client[c].state = "POLLING" =>
       PollsItsSocket(client[c], client[c].socketNum)
  /\ \A p \in DOMAIN child : child[p].state \in {"WRITE_FILE_OK_ACK", "SEND_DATA"} =>
       PollsItsSocket(child[p], child[p].childSocket)

\* A child that ran a transfer cleans up what it has: it neither frees a queue
\* that was never initialised nor closes a file it does not have (either may
\* kill a child that nobody acknowledged), and it leaves no descriptor open.
TransferCleansUp ==
  [][\A p \in DOMAIN child :
       child[p].state = "DONE" /\ child[p].windowReady /\ child'[p] # child[p] =>
         /\ child'[p].state = "PROCESS_SERVER"
         /\ DOMAIN child'[p].fds = DOMAIN Stdio]_vars

\* rcopy empties its output file only for a child that has the file open and
\* waits for the acknowledgement: not for a refusal, nor for an answer that
\* belongs to an earlier request.  (A child waits for MAX_TIMEOUTS seconds, a
\* request for one: MaxFaults < MAX_TIMEOUTS stands for that.)
AckFindsItsChild ==
  [][\A c \in Clients :
       client[c].state = "POLLING" /\ client'[c].state = "WAIT_ON_DATA" =>
         \E p \in DOMAIN child :
           /\ child[p].state = "WRITE_FILE_OK_ACK"
           /\ child[p].fds[child[p].childSocket] = client'[c].server
           /\ child[p].fds[child[p].file] = FILE
           /\ client[c].fds[client[c].socketNum] = child[p].peer]_vars

\* A request for a file that is there ends: in a transfer or with rcopy's exit.
RequestsEnd ==
  \A c \in Clients : <>(client[c].state \in {"PROCESS_TRANSFER", "EXITED"})

\* No child is left waiting for an rcopy that went away, and none remains a
\* zombie, although the signals of several deaths may be one: again and again
\* the server is alone.
ChildrenAreReaped == []<>(DOMAIN child = {})
===============================================================================
