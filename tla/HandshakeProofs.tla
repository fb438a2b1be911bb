---------------------------- MODULE HandshakeProofs ----------------------------
(***************************************************************************)
(* Proofs about module Handshake, for any number of rcopy processes, any   *)
(* pids, retry limits and faults.  First the kernel's descriptor tables    *)
(* and free ports, and pollLib's set; then the inductive invariant: what   *)
(* every process has open in each of its states, and who can have sent     *)
(* what to whom.                                                           *)
(***************************************************************************)
EXTENDS Handshake, Induction

-------------------------------------------------------------------------------
(***************************************************************************)
(* The kernel: lowest free descriptors, fresh ports, the next pid.         *)
(***************************************************************************)
\* A set of naturals that is not empty has a minimum.
LEMMA MinOfNaturals ==
  ASSUME NEW S \in SUBSET Nat, S # {}
  PROVE  Min(S) \in S /\ \A n \in S : Min(S) <= n
  BY LeastNatural DEF Min

\* All descriptors below n are open and n is not: it is the next one.
Lowest(fds, n) ==
  /\ IsFiniteSet(DOMAIN fds) /\ DOMAIN fds \subseteq Nat
  /\ n \in Nat \ DOMAIN fds /\ 0..(n - 1) \subseteq DOMAIN fds

LEMMA LowestFree ==
  ASSUME NEW fds, NEW n, Lowest(fds, n)
  PROVE  FreeDescriptor(fds) = n
<1>0. /\ IsFiniteSet(DOMAIN fds) /\ DOMAIN fds \subseteq Nat
      /\ n \in Nat /\ n \notin DOMAIN fds /\ 0..(n - 1) \subseteq DOMAIN fds
  BY DEF Lowest
<1> DEFINE k == Cardinality(DOMAIN fds)
           free == (0..k) \ DOMAIN fds
<1>1. k \in Nat
  BY <1>0, FS_CardinalityType
<1>2. 0 \in Int /\ n - 1 \in Int
  BY <1>0
<1>3. Cardinality(0..(n - 1)) = n
  BY <1>0, <1>2, FS_Interval
<1>4. n <= k
  BY <1>0, <1>3, FS_Subset
<1>5. n \in free /\ \A i \in free : n <= i
  BY <1>0, <1>1, <1>4
<1>6. Min(free) \in free /\ \A i \in free : Min(free) <= i
  BY <1>5, <1>1, MinOfNaturals
<1>7. Min(free) = n
  BY <1>0, <1>5, <1>6, <1>1
<1>8. QED
  BY <1>7 DEF FreeDescriptor

\* Descriptor tables.
Tables == UNION {[open -> Objects] : open \in SUBSET Nat}

LEMMA TableFacts ==
  ASSUME NEW fds
  PROVE  fds \in Tables <=> /\ fds = [fd \in DOMAIN fds |-> fds[fd]]
                            /\ DOMAIN fds \subseteq Nat
                            /\ \A fd \in DOMAIN fds : fds[fd] \in Objects
<1>1. ASSUME fds \in Tables
      PROVE  /\ fds = [fd \in DOMAIN fds |-> fds[fd]]
             /\ DOMAIN fds \subseteq Nat
             /\ \A fd \in DOMAIN fds : fds[fd] \in Objects
  <2>1. PICK open \in SUBSET Nat : fds \in [open -> Objects]
    BY <1>1 DEF Tables
  <2>2. QED
    BY <2>1
<1>2. ASSUME fds = [fd \in DOMAIN fds |-> fds[fd]], DOMAIN fds \subseteq Nat,
             \A fd \in DOMAIN fds : fds[fd] \in Objects
      PROVE  fds \in Tables
  <2>1. fds \in [DOMAIN fds -> Objects]
    BY <1>2
  <2>2. QED
    BY <1>2, <2>1 DEF Tables
<1>3. QED
  BY <1>1, <1>2

\* What open() and socket() do: the new table has descriptor n for the object,
\* and nothing else is changed.
Adds(fds, n, object, opened) ==
  /\ opened \in Tables
  /\ DOMAIN opened = DOMAIN fds \cup {n}
  /\ opened[n] = object
  /\ \A fd \in DOMAIN fds : opened[fd] = fds[fd]
  /\ Range(opened) \subseteq Range(fds) \cup {object}

LEMMA OpenAdds ==
  ASSUME NEW fds \in Tables, NEW object \in Objects, NEW n, Lowest(fds, n)
  PROVE  Adds(fds, n, object, Open(fds, object))
<1>1. n \in Nat /\ n \notin DOMAIN fds
  BY DEF Lowest
<1>2. Open(fds, object) = [fd \in DOMAIN fds \cup {n} |->
                             IF fd \in DOMAIN fds THEN fds[fd] ELSE object]
  BY LowestFree DEF Open
<1> DEFINE opened == Open(fds, object)
<1>3. /\ DOMAIN opened = DOMAIN fds \cup {n}
      /\ opened[n] = object
      /\ \A fd \in DOMAIN fds : opened[fd] = fds[fd]
      /\ opened = [fd \in DOMAIN opened |-> opened[fd]]
  BY <1>1, <1>2
<1> HIDE DEF opened
<1>4. opened \in Tables
  BY <1>1, <1>3, TableFacts
<1>5. Range(opened) \subseteq Range(fds) \cup {object}
  BY <1>3 DEF Range
<1>6. QED
  BY <1>3, <1>4, <1>5 DEF opened, Adds

\* What close() does: descriptor n is gone, and nothing else is changed.
Removes(fds, n, closed) ==
  /\ closed \in Tables
  /\ DOMAIN closed = DOMAIN fds \ {n}
  /\ \A fd \in DOMAIN fds \ {n} : closed[fd] = fds[fd]
  /\ Range(closed) \subseteq Range(fds)

LEMMA CloseRemoves ==
  ASSUME NEW fds \in Tables, NEW n
  PROVE  Removes(fds, n, Close(fds, n))
<1> DEFINE closed == Close(fds, n)
<1>1. closed = [fd \in DOMAIN fds \ {n} |-> fds[fd]]
  BY DEF Close, Restrict
<1>2. /\ DOMAIN closed = DOMAIN fds \ {n}
      /\ \A fd \in DOMAIN fds \ {n} : closed[fd] = fds[fd]
      /\ closed = [fd \in DOMAIN closed |-> closed[fd]]
  BY <1>1
<1> HIDE DEF closed
<1>3. closed \in Tables
  BY <1>2, TableFacts
<1>4. Range(closed) \subseteq Range(fds)
  BY <1>2 DEF Range
<1>5. QED
  BY <1>2, <1>3, <1>4 DEF closed, Removes

\* The tables in which the programs open something.
LEMMA NextDescriptors ==
  ASSUME NEW fds \in Tables
  PROVE  /\ DOMAIN fds = 0..2 => Lowest(fds, 3)
         /\ DOMAIN fds = 0..3 => Lowest(fds, 4)
         /\ DOMAIN fds = 0..4 => Lowest(fds, 5)
         /\ DOMAIN fds = 0..5 => Lowest(fds, 6)
         /\ DOMAIN fds = 0..6 => Lowest(fds, 7)
         /\ DOMAIN fds = (0..5) \ {4} => Lowest(fds, 4)
<1>1. ASSUME NEW k \in Nat, DOMAIN fds = 0..k PROVE Lowest(fds, k + 1)
  <2>1. 0 \in Int /\ k \in Int
    OBVIOUS
  <2>2. IsFiniteSet(DOMAIN fds)
    BY <1>1, <2>1, FS_Interval
  <2>3. QED
    BY <1>1, <2>2 DEF Lowest
<1>2. ASSUME DOMAIN fds = (0..5) \ {4} PROVE Lowest(fds, 4)
  <2>1. 0 \in Int /\ 5 \in Int
    OBVIOUS
  <2>2. IsFiniteSet(0..5)
    BY <2>1, FS_Interval
  <2>3. IsFiniteSet(DOMAIN fds)
    BY <1>2, <2>2, FS_RemoveElement
  <2>4. QED
    BY <1>2, <2>3 DEF Lowest
<1>3. /\ DOMAIN fds = 0..2 => Lowest(fds, 2 + 1)
      /\ DOMAIN fds = 0..3 => Lowest(fds, 3 + 1)
      /\ DOMAIN fds = 0..4 => Lowest(fds, 4 + 1)
      /\ DOMAIN fds = 0..5 => Lowest(fds, 5 + 1)
      /\ DOMAIN fds = 0..6 => Lowest(fds, 6 + 1)
  BY <1>1
<1>4. QED
  BY <1>2, <1>3

\* The tables that the programs start with.
LEMMA FirstTables ==
  /\ MainSocketNum = 3 /\ ProcessSocketNum = 4
  /\ Stdio \in Tables /\ DOMAIN Stdio = 0..2
  /\ ParentFds \in Tables /\ DOMAIN ParentFds = 0..3
  /\ ParentFds[3] = ServerPort /\ ParentFds[0] = FILE
  /\ Range(ParentFds) \subseteq {FILE, ServerPort}
  /\ ProcessFileFds \in Tables /\ DOMAIN ProcessFileFds = 0..4
  /\ Range(ProcessFileFds) \subseteq {FILE, UNBOUND}
<1> DEFINE one == setupUdpClientToServer(Stdio)
<1>1. /\ Stdio \in Tables /\ DOMAIN Stdio = 0..2 /\ Stdio[0] = FILE
      /\ Range(Stdio) \subseteq {FILE}
  BY TableFacts DEF Stdio, Objects, FILE, Range
<1>2. ServerPort \in Objects /\ UNBOUND \in Objects
  BY DEF ServerPort, UNBOUND, Objects
<1>3. /\ MainSocketNum = 3
      /\ ParentFds \in Tables /\ DOMAIN ParentFds = 0..3
      /\ ParentFds[3] = ServerPort /\ ParentFds[0] = FILE
      /\ Range(ParentFds) \subseteq {FILE, ServerPort}
  <2>1. Lowest(Stdio, 3)
    BY <1>1, NextDescriptors
  <2>2. MainSocketNum = 3
    BY <2>1, LowestFree DEF MainSocketNum
  <2>3. Adds(Stdio, 3, ServerPort, ParentFds)
    BY <1>1, <1>2, <2>1, OpenAdds DEF ParentFds, udpServerSetup
  <2>4. QED
    BY <1>1, <2>2, <2>3 DEF Adds
<1>4. /\ one \in Tables /\ DOMAIN one = 0..3
      /\ Range(one) \subseteq {FILE, UNBOUND}
  <2>1. Lowest(Stdio, 3)
    BY <1>1, NextDescriptors
  <2>2. Adds(Stdio, 3, UNBOUND, one)
    BY <1>1, <1>2, <2>1, OpenAdds DEF setupUdpClientToServer
  <2>3. QED
    BY <1>1, <2>2 DEF Adds
<1>5. ProcessSocketNum = FreeDescriptor(one) /\ ProcessFileFds = Open(one, UNBOUND)
  BY DEF ProcessSocketNum, ProcessFileFds, setupUdpClientToServer
<1> HIDE DEF one
<1>6. Lowest(one, 4)
  BY <1>4, NextDescriptors
<1>7. Adds(one, 4, UNBOUND, ProcessFileFds)
  BY <1>2, <1>4, <1>5, <1>6, OpenAdds
<1>8. /\ ProcessSocketNum = 4
      /\ ProcessFileFds \in Tables /\ DOMAIN ProcessFileFds = 0..4
      /\ Range(ProcessFileFds) \subseteq {FILE, UNBOUND}
  BY <1>4, <1>5, <1>6, <1>7, LowestFree DEF Adds
<1>9. QED
  BY <1>1, <1>3, <1>8

\* While finitely many ports are in use the kernel has one that is not.
LEMMA FreshPortIsFresh ==
  ASSUME IsFiniteSet(UsedPorts)
  PROVE  FreshPort \in Nat \ {0} /\ FreshPort \notin UsedPorts
<1> DEFINE k == Cardinality(UsedPorts)
           free == (1..(k + 1)) \ UsedPorts
<1>1. k \in Nat
  BY FS_CardinalityType
<1> HIDE DEF k
<1>2. 1 \in Int /\ k + 1 \in Int
  BY <1>1
<1>3. Cardinality(1..(k + 1)) = k + 1
  BY <1>1, <1>2, FS_Interval
<1>4. free # {}
  <2> SUFFICES ASSUME 1..(k + 1) \in SUBSET UsedPorts PROVE FALSE
    OBVIOUS
  <2>1. Cardinality(1..(k + 1)) <= k
    BY FS_Subset DEF k
  <2>2. QED
    BY <1>1, <1>3, <2>1
<1>5. free \in SUBSET Nat
  BY <1>1
<1>6. Min(free) \in free
  BY <1>4, <1>5, MinOfNaturals
<1>7. FreshPort = Min(free)
  BY DEF FreshPort, k
<1>8. QED
  BY <1>1, <1>6, <1>7

-------------------------------------------------------------------------------
(***************************************************************************)
(* pollLib: a set that was set up for one socket, however often.           *)
(***************************************************************************)
WatchSize(socketNum) ==
  IF socketNum >= POLL_SET_SIZE THEN socketNum + POLL_SET_SIZE ELSE POLL_SET_SIZE

WatchOf(socketNum) ==
  [events             |-> [i \in 0..(WatchSize(socketNum) - 1) |->
                             IF i = socketNum THEN POLLIN ELSE 0],
   maxFileDescriptor  |-> socketNum + 1,
   currentPollSetSize |-> WatchSize(socketNum)]

\* The maxFileDescriptor that setupPollSet() keeps does no harm when it is 0 or
\* comes from the same socket.
LEMMA WatchFrom ==
  ASSUME NEW events, NEW max, NEW size, NEW s \in Nat, max \in {0, s + 1}
  PROVE  Watch([events |-> events, maxFileDescriptor |-> max,
                currentPollSetSize |-> size], s) = WatchOf(s)
<1> DEFINE set == [events |-> events, maxFileDescriptor |-> max,
                   currentPollSetSize |-> size]
           zeros == [i \in 0..(POLL_SET_SIZE - 1) |-> 0]
           fresh == [events |-> zeros, maxFileDescriptor |-> max,
                     currentPollSetSize |-> POLL_SET_SIZE]
           wide  == [i \in 0..(WatchSize(s) - 1) |-> 0]
           grown == [events |-> wide, maxFileDescriptor |-> max,
                     currentPollSetSize |-> WatchSize(s)]
<1>0. POLL_SET_SIZE \in Nat \ {0}
  BY PollSetSizeAssumption
<1>1. setupPollSet(set) = fresh
  <2>1. setupPollSet(set) = [set EXCEPT !.currentPollSetSize = POLL_SET_SIZE,
                                        !.events = zeros]
    BY DEF setupPollSet
  <2> HIDE DEF zeros
  <2>2. QED
    BY <2>1
<1>2. GrownFor(fresh, s) = grown
  <2>1. CASE s >= POLL_SET_SIZE
    <3> DEFINE n == s + POLL_SET_SIZE
               f == [i \in 0..(n - 1) |-> IF i < POLL_SET_SIZE THEN zeros[i] ELSE 0]
    <3>1. WatchSize(s) = n /\ GrownFor(fresh, s) = growPollSet(fresh, n)
      BY <2>1 DEF WatchSize, GrownFor
    <3>2. growPollSet(fresh, n) =
            [events |-> f, maxFileDescriptor |-> max, currentPollSetSize |-> n]
      <4>1. growPollSet(fresh, n) =
              [fresh EXCEPT !.currentPollSetSize = n,
                            !.events = [i \in 0..(n - 1) |->
                               IF i < fresh.currentPollSetSize THEN @[i] ELSE 0]]
        BY DEF growPollSet
      <4>2. growPollSet(fresh, n) = [fresh EXCEPT !.currentPollSetSize = n,
                                                  !.events = f]
        BY <4>1
      <4> HIDE DEF f, zeros
      <4>3. QED
        BY <4>2
    <3>3. f = [i \in 0..(n - 1) |-> 0]
      BY <1>0
    <3>4. QED
      BY <3>1, <3>2, <3>3
  <2>2. CASE ~(s >= POLL_SET_SIZE)
    BY <2>2 DEF WatchSize, GrownFor
  <2>3. QED
    BY <2>1, <2>2
<1>3. Max({max, s + 1}) = s + 1
  <2>1. \A x \in {max, s + 1} :
          (\A y \in {max, s + 1} : x >= y) <=> x = s + 1
    OBVIOUS
  <2>2. QED
    BY <2>1 DEF Max
<1>4. [wide EXCEPT ![s] = POLLIN] =
        [i \in 0..(WatchSize(s) - 1) |-> IF i = s THEN POLLIN ELSE 0]
  OBVIOUS
<1>5. Watch(set, s) = [grown EXCEPT !.maxFileDescriptor = Max({@, s + 1}),
                                    !.events[s] = POLLIN]
  BY <1>1, <1>2 DEF Watch, addToPollSet
<1> HIDE DEF wide
<1>6. Watch(set, s) = [events |-> [wide EXCEPT ![s] = POLLIN],
                       maxFileDescriptor |-> Max({max, s + 1}),
                       currentPollSetSize |-> WatchSize(s)]
  BY <1>5
<1>7. QED
  BY <1>3, <1>4, <1>6 DEF WatchOf

\* Watching a socket once more changes nothing.
LEMMA WatchAgain ==
  ASSUME NEW s \in Nat
  PROVE  /\ Watch(NoPollSet, s) = WatchOf(s)
         /\ Watch(Watch(NoPollSet, s), s) = Watch(NoPollSet, s)
<1>1. Watch(NoPollSet, s) = WatchOf(s)
  BY WatchFrom DEF NoPollSet
<1>2. Watch(WatchOf(s), s) = WatchOf(s)
  BY WatchFrom DEF WatchOf
<1>3. QED
  BY <1>1, <1>2

\* Such a set reports its socket when that can be read and is silent when only
\* other descriptors can.
LEMMA WatchedSocketIsPolled ==
  ASSUME NEW s \in Nat, NEW r, r.poll = Watch(NoPollSet, s),
         0 \in DOMAIN r.fds, s \in DOMAIN r.fds
  PROVE  PollsItsSocket(r, s)
<1> DEFINE w == WatchOf(s)
           open == DOMAIN r.fds
<1>1. r.poll = w
  BY WatchAgain
<1>2. Watch(r.poll, s) = r.poll
  BY WatchAgain
<1>3. /\ w.maxFileDescriptor = s + 1 /\ w.currentPollSetSize = WatchSize(s)
      /\ \A i \in 0..s : w.events[i] = IF i = s THEN POLLIN ELSE 0
      /\ s + 1 <= WatchSize(s)
  BY PollSetSizeAssumption DEF WatchOf, WatchSize
<1>4. InBounds(r.poll)
  BY <1>1, <1>3 DEF InBounds
<1> HIDE DEF w, open
<1>5. PollEvents(w, open, {s}, {}) = {s}
  BY <1>3 DEF PollEvents, POLLIN, open
<1>6. PollEvents(w, open, open \ {s}, {}) = {}
  BY <1>3 DEF PollEvents, POLLIN, open
<1>7. Min({s}) = s
  BY DEF Min
<1>8. pollCall(w, open, {s}, {}) = s /\ pollCall(w, open, open \ {s}, {}) = -1
  BY <1>5, <1>6, <1>7 DEF pollCall
<1>9. QED
  BY <1>1, <1>2, <1>4, <1>8 DEF PollsItsSocket, open

-------------------------------------------------------------------------------
(***************************************************************************)
(* The inductive invariant.                                                *)
(***************************************************************************)
Ports == Nat \ {0}

ClientRecord ==
  [state     : ClientStates,
   fds       : Tables,
   socketNum : {ProcessSocketNum},
   poll      : {NoPollSet, Watch(NoPollSet, ProcessSocketNum)},
   count     : 0..MAX_RETRIES,
   server    : Objects]

\* What rcopy has open in each state: processFile's number is free or is the
\* socket of the latest request, whichever round it was.
ClientTable(state, open) ==
  /\ state = "START" => open = 0..4
  /\ state = "WAIT_ON_FILE_OK" => open \in {0..5, (0..5) \ {4}}
  /\ state = "POLLING" => open = 0..5
  /\ state = "WAIT_ON_DATA" => open = 0..6
  /\ state = "PROCESS_TRANSFER" => open = 0..7
  /\ state = "EXITED" => open = {}

HasRequestPort(state) == state \in {"POLLING", "WAIT_ON_DATA", "PROCESS_TRANSFER"}

ClientOK(r) ==
  /\ r \in ClientRecord
  /\ ClientTable(r.state, DOMAIN r.fds)
  /\ HasRequestPort(r.state) => r.fds[ProcessSocketNum] \in Ports \ {ServerPort}
  /\ r.state = "POLLING" => r.count < MAX_RETRIES
                            /\ r.poll = Watch(NoPollSet, ProcessSocketNum)

ChildRecord ==
  [state       : ChildStates,
   fds         : Tables,
   peer        : Objects,
   name        : Names,
   childSocket : {0, MainSocketNum},
   file        : {0, 4},
   windowReady : BOOLEAN,
   poll        : {NoPollSet, Watch(NoPollSet, MainSocketNum)},
   count       : 0..(MAX_TIMEOUTS - 1)]

\* A child has the server's table, then its own socket in the place of the
\* server's and the file behind it, then neither.
ChildOK(r) ==
  /\ r \in ChildRecord
  /\ r.state = "FILENAME" => /\ r.fds = ParentFds
                             /\ r.count = 0 /\ ~r.windowReady
                             /\ r.poll = NoPollSet
  /\ r.state \in {"WRITE_FILE_OK_ACK", "SEND_DATA"} =>
       /\ r.childSocket = MainSocketNum /\ r.file = 4
       /\ DOMAIN r.fds = 0..4
       /\ r.fds[MainSocketNum] \in Ports \ {ServerPort}
       /\ r.fds[4] = FILE
       /\ r.poll = Watch(NoPollSet, MainSocketNum)
  /\ r.state = "WRITE_FILE_OK_ACK" => ~r.windowReady
  /\ r.state = "DONE" =>
       /\ r.childSocket = MainSocketNum
       /\ \/ r.file = 4 /\ DOMAIN r.fds = 0..4
          \/ r.file = 0 /\ DOMAIN r.fds = 0..3 /\ ~r.windowReady
  /\ r.state = "PROCESS_SERVER" => DOMAIN r.fds = 0..2
  /\ r.state # "ZOMBIE" => r.peer \in Ports \ {ServerPort}

MessageOK(m) ==
  m \in [src : Ports \ {ServerPort}, dst : Ports, flag : Nat, name : Names]

\* Every process by itself, every datagram by itself, and finitely many ports
\* in use, so that there is always a fresh one.
TableInv ==
  /\ client \in [Clients -> ClientRecord]
  /\ \A c \in Clients : ClientOK(client[c])
  /\ child \in [DOMAIN child -> ChildRecord]
  /\ DOMAIN child \subseteq Pids
  /\ \A p \in DOMAIN child : ChildOK(child[p])
  /\ \A m \in net : MessageOK(m)
  /\ faults \in 0..MaxFaults
  /\ IsFiniteSet(UsedPorts)

\* An acknowledgement on its way was sent by an rcopy that has since kept the
\* socket of its request, or has exited.
ServesAt(port, peer) ==
  \E c \in Clients :
    /\ client[c].server = port
    /\ \/ /\ client[c].state \in {"WAIT_ON_DATA", "PROCESS_TRANSFER"}
          /\ client[c].fds[ProcessSocketNum] = peer
       \/ client[c].state = "EXITED"

ServedInv ==
  /\ \A m \in net : m.flag = FILE_OK_ACK => ServesAt(m.dst, m.src)
  /\ \A p \in DOMAIN child : child[p].state = "SEND_DATA" =>
       ServesAt(child[p].fds[MainSocketNum], child[p].peer)

Polls(c)      == client[c].state = "POLLING"
Awaits(p)     == child[p].state = "WRITE_FILE_OK_ACK"
ClientPort(c) == client[c].fds[ProcessSocketNum]
ChildPort(p)  == child[p].fds[MainSocketNum]

\* No two requests have the same port, and a child's port is never that of a
\* client.
PortsApart ==
  /\ \A c, d \in Clients :
       Polls(c) /\ Polls(d) /\ ClientPort(c) = ClientPort(d) => c = d
  /\ \A p, q \in DOMAIN child :
       Awaits(p) /\ child[q].state # "ZOMBIE" => ChildPort(p) # child[q].peer
  /\ \A p \in DOMAIN child, m \in net :
       Awaits(p) /\ m.dst = ServerPort => ChildPort(p) # m.src

\* What comes to a child that awaits the acknowledgement comes from the client
\* of its request, its file-OK goes there, and an rcopy that has acknowledged
\* polls no more.
LettersMatch ==
  /\ \A p \in DOMAIN child, m \in net :
       Awaits(p) /\ m.dst = ChildPort(p) => m.src = child[p].peer
  /\ \A p \in DOMAIN child, m \in net :
       Awaits(p) /\ m.src = ChildPort(p) /\ m.flag = FILE_OK => m.dst = child[p].peer
  /\ \A c \in Clients, m \in net :
       Polls(c) /\ m.flag = FILE_OK_ACK => m.src # ClientPort(c)

\* A file-OK that some rcopy is polling for was sent by a child that still
\* waits: its timeouts since then were faults.
Offered(m) ==
  \E p \in DOMAIN child : /\ Awaits(p)
                          /\ ChildPort(p) = m.src
                          /\ child[p].count <= faults

OffersStand ==
  \A c \in Clients, m \in net :
    Polls(c) /\ m.flag = FILE_OK /\ m.dst = ClientPort(c) => Offered(m)

-------------------------------------------------------------------------------
(***************************************************************************)
(* What each action does to the processes, ports and datagrams.            *)
(***************************************************************************)
\* The ports a step can leave in use.
Known == UsedPorts \cup {FILE, UNBOUND, FreshPort}

NewClient(r) == ClientOK(r) /\ Range(r.fds) \cup {r.server} \subseteq Known
NewChild(r)  == ChildOK(r) /\ Range(r.fds) \cup {r.peer} \subseteq Known

NewMessage(m) == MessageOK(m) /\ {m.src, m.dst} \subseteq Known

\* At most client c changes, into r.
ClientBecomes(c, r) ==
  /\ NewClient(r)
  /\ client' \in [Clients -> ClientRecord]
  /\ client'[c] = r
  /\ \A d \in Clients \ {c} : client'[d] = client[d]

\* An rcopy that has acknowledged keeps its socket and its server, or exits.
KeepsServing(old, r) ==
  old.state \in {"WAIT_ON_DATA", "PROCESS_TRANSFER", "EXITED"} =>
    /\ r.server = old.server
    /\ \/ r.state = "EXITED"
       \/ /\ old.state # "EXITED"
          /\ r.state \in {"WAIT_ON_DATA", "PROCESS_TRANSFER"}
          /\ r.fds[ProcessSocketNum] = old.fds[ProcessSocketNum]

\* A step of rcopy that neither sends a request nor accepts an answer.
ClientQuiet(c) ==
  \E r : /\ ClientBecomes(c, r)
         /\ r.state \notin {"POLLING", "WAIT_ON_DATA"}
         /\ KeepsServing(client[c], r)

LEMMA ClientUpdate ==
  ASSUME TableInv, NEW c \in Clients, NEW r, NewClient(r),
         client' = [client EXCEPT ![c] = r]
  PROVE  ClientBecomes(c, r)
<1>1. r \in ClientRecord
  BY DEF NewClient, ClientOK
<1>2. client \in [Clients -> ClientRecord]
  BY DEF TableInv
<1>3. QED
  BY <1>1, <1>2 DEF ClientBecomes

LEMMA ClientFacts ==
  ASSUME TableInv, NEW c \in Clients
  PROVE  /\ client[c] \in ClientRecord /\ ClientOK(client[c])
         /\ client[c].fds \in Tables
         /\ Range(client[c].fds) \cup {client[c].server} \subseteq UsedPorts
         /\ UsedPorts \subseteq Known
         /\ {FILE, UNBOUND, FreshPort} \subseteq Known
         /\ FreshPort \in Ports \ {ServerPort}
         /\ FreshPort \notin UsedPorts
<1>1. ClientOK(client[c]) /\ client[c] \in ClientRecord
  BY DEF TableInv, ClientOK
<1>2. IsFiniteSet(UsedPorts) /\ ServerPort \in UsedPorts
  BY DEF TableInv, UsedPorts
<1>3. FreshPort \in Ports /\ FreshPort \notin UsedPorts
  BY <1>2, FreshPortIsFresh DEF Ports
<1>4. Range(client[c].fds) \cup {client[c].server} \subseteq UsedPorts
  BY DEF UsedPorts
<1>5. client[c].fds \in Tables
  BY <1>1 DEF ClientRecord
<1>6. QED
  BY <1>1, <1>2, <1>3, <1>4, <1>5 DEF Known

LEMMA StartEffect ==
  ASSUME TableInv, NEW c \in Clients, start_state(c)
  PROVE  ClientQuiet(c)
<1> DEFINE old == client[c]
           fds == Open(old.fds, UNBOUND)
           r   == [old EXCEPT !.state = "WAIT_ON_FILE_OK", !.fds = fds]
<1>1. old \in ClientRecord /\ old.fds \in Tables /\ DOMAIN old.fds = 0..4
  BY ClientFacts DEF start_state, ClientOK, ClientTable
<1>2. client' = [client EXCEPT ![c] = r]
  <2>1. client \in [Clients -> ClientRecord]
    BY DEF TableInv
  <2>2. client' = [client EXCEPT ![c].state = "WAIT_ON_FILE_OK",
                                 ![c].fds = Open(@, UNBOUND)]
    BY DEF start_state, setupUdpClientToServer
  <2>3. QED
    BY <2>1, <2>2 DEF ClientRecord
<1>3. Adds(old.fds, 5, UNBOUND, fds)
  BY <1>1, NextDescriptors, OpenAdds DEF Objects
<1> HIDE DEF fds
<1>4. /\ r \in ClientRecord /\ r.state = "WAIT_ON_FILE_OK" /\ r.fds = fds
      /\ r.server = old.server
  BY <1>1, <1>3 DEF ClientRecord, ClientStates, Adds
<1> HIDE DEF r
<1>5. ClientOK(r)
  BY <1>1, <1>3, <1>4 DEF ClientOK, ClientTable, HasRequestPort, Adds
<1>6. NewClient(r)
  BY <1>3, <1>4, <1>5, ClientFacts DEF NewClient, Adds
<1>7. KeepsServing(old, r)
  BY DEF KeepsServing, start_state
<1>8. ClientBecomes(c, r) /\ r.state \notin {"POLLING", "WAIT_ON_DATA"}
  BY <1>2, <1>4, <1>6, ClientUpdate
<1>9. QED
  BY <1>7, <1>8 DEF ClientQuiet
LEMMA EmptyTable == <<>> \in Tables /\ DOMAIN <<>> = {} /\ Range(<<>>) = {}
<1>1. DOMAIN <<>> = {} /\ <<>> = [fd \in {} |-> 0]
  OBVIOUS
<1>2. QED
  BY <1>1, TableFacts DEF Range

\* SetupFails, OutOfRetries, TransferEnds and the failures of fopen().
LEMMA ExitEffect ==
  ASSUME TableInv, NEW c \in Clients, client' = [client EXCEPT ![c] = Exited(c)]
  PROVE  ClientQuiet(c)
<1> DEFINE r == Exited(c)
<1>1. r = [state |-> "EXITED", fds |-> <<>>, socketNum |-> ProcessSocketNum,
           poll |-> NoPollSet, count |-> 0, server |-> client[c].server]
  <2> DEFINE none == <<>>
  <2>1. r = [InitialClient EXCEPT !.state = "EXITED", !.fds = none,
                                  !.server = client[c].server]
    BY DEF Exited
  <2> HIDE DEF none
  <2>2. r = [state |-> "EXITED", fds |-> none, socketNum |-> ProcessSocketNum,
             poll |-> NoPollSet, count |-> 0, server |-> client[c].server]
    BY <2>1 DEF InitialClient
  <2>3. QED
    BY <2>2 DEF none
<1>2. client[c].server \in Objects
  BY ClientFacts DEF ClientRecord
<1>3. 0 \in 0..MAX_RETRIES
  BY HandshakeAssumption
<1>4. r \in ClientRecord
  BY <1>1, <1>2, <1>3, EmptyTable DEF ClientRecord, ClientStates
<1> HIDE DEF r
<1>5. ClientOK(r)
  BY <1>1, <1>4, EmptyTable DEF ClientOK, ClientTable, HasRequestPort
<1>6. NewClient(r)
  BY <1>1, <1>5, EmptyTable, ClientFacts DEF NewClient
<1>7. KeepsServing(client[c], r) /\ r.state \notin {"POLLING", "WAIT_ON_DATA"}
  BY <1>1 DEF KeepsServing
<1>8. ClientBecomes(c, r)
  BY <1>6, ClientUpdate DEF r
<1>9. QED
  BY <1>7, <1>8 DEF ClientQuiet

\* The poll ends without file-OK: the socket of the request is closed.
LEMMA CloseEffect ==
  ASSUME TableInv, NEW c \in Clients, client[c].state = "POLLING",
         NEW count \in 0..MAX_RETRIES,
         client' = [client EXCEPT ![c] =
                      [client[c] EXCEPT !.state = "WAIT_ON_FILE_OK",
                                        !.count = count,
                                        !.socketNum = ProcessSocketNum,
                                        !.fds = Close(client[c].fds, ProcessSocketNum)]]
  PROVE  ClientQuiet(c)
<1> DEFINE old == client[c]
           fds == Close(old.fds, ProcessSocketNum)
           r   == [old EXCEPT !.state = "WAIT_ON_FILE_OK", !.count = count,
                              !.socketNum = ProcessSocketNum, !.fds = fds]
<1>1. /\ old \in ClientRecord /\ old.fds \in Tables /\ DOMAIN old.fds = 0..5
      /\ Range(old.fds) \cup {old.server} \subseteq Known
  BY ClientFacts DEF ClientOK, ClientTable
<1>2. /\ fds \in Tables /\ Range(fds) \subseteq Range(old.fds)
      /\ DOMAIN fds = (0..5) \ {4}
  <2>1. Removes(old.fds, ProcessSocketNum, fds)
    BY <1>1, CloseRemoves
  <2>2. QED
    BY <1>1, <2>1, FirstTables DEF Removes
<1> HIDE DEF fds
<1>3. /\ r \in ClientRecord /\ r.state = "WAIT_ON_FILE_OK" /\ r.fds = fds
      /\ r.server = old.server
  BY <1>1, <1>2 DEF ClientRecord, ClientStates
<1>4. client' = [client EXCEPT ![c] = r]
  BY DEF fds
<1> HIDE DEF r
<1>5. ClientOK(r)
  BY <1>2, <1>3 DEF ClientOK, ClientTable, HasRequestPort
<1>6. NewClient(r)
  BY <1>1, <1>2, <1>3, <1>5 DEF NewClient
<1>7. KeepsServing(old, r) /\ r.state \notin {"POLLING", "WAIT_ON_DATA"}
  BY <1>3 DEF KeepsServing
<1>8. ClientBecomes(c, r)
  BY <1>4, <1>6, ClientUpdate
<1>9. QED
  BY <1>7, <1>8 DEF ClientQuiet

LEMMA RequestTimeoutEffect ==
  ASSUME TableInv, NEW c \in Clients, RequestTimeout(c)
  PROVE  ClientQuiet(c)
<1> DEFINE old == client[c]
           k   == old.count + 1
<1>1. /\ old \in ClientRecord /\ old.state = "POLLING"
      /\ old.count \in 0..MAX_RETRIES /\ old.count < MAX_RETRIES
      /\ old.socketNum = ProcessSocketNum
  BY ClientFacts DEF RequestTimeout, ClientOK, ClientRecord
<1>2. k \in 0..MAX_RETRIES
  BY <1>1, HandshakeAssumption
<1>3. client \in [Clients -> ClientRecord]
  BY DEF TableInv
<1>4. client' = [client EXCEPT ![c].state = "WAIT_ON_FILE_OK",
                               ![c].count = k,
                               ![c].fds = Close(client[c].fds, old.socketNum)]
  BY <1>3 DEF RequestTimeout, ClientRecord
<1> HIDE DEF k
<1>5. client' = [client EXCEPT ![c] =
                      [client[c] EXCEPT !.state = "WAIT_ON_FILE_OK",
                                        !.count = k,
                                        !.socketNum = ProcessSocketNum,
                                        !.fds = Close(client[c].fds, ProcessSocketNum)]]
  BY <1>1, <1>3, <1>4 DEF ClientRecord
<1>6. QED
  BY <1>1, <1>2, <1>5, CloseEffect

\* wait_on_data_state opens the output once more.
LEMMA WaitOnDataEffect ==
  ASSUME TableInv, NEW c \in Clients, wait_on_data_state(c)
  PROVE  ClientQuiet(c)
<1>1. CASE client' = [client EXCEPT ![c] = Exited(c)]
  BY <1>1, ExitEffect
<1>2. CASE client' = [client EXCEPT ![c].state = "PROCESS_TRANSFER",
                                    ![c].fds = Open(@, FILE)]
  <2> DEFINE old == client[c]
             fds == Open(old.fds, FILE)
             r   == [old EXCEPT !.state = "PROCESS_TRANSFER", !.fds = fds]
  <2>1. /\ old \in ClientRecord /\ old.fds \in Tables /\ DOMAIN old.fds = 0..6
        /\ old.state = "WAIT_ON_DATA"
        /\ old.fds[4] \in Ports \ {ServerPort}
        /\ Range(old.fds) \cup {old.server} \subseteq Known /\ FILE \in Known
    BY ClientFacts, FirstTables
       DEF wait_on_data_state, ClientOK, ClientTable, HasRequestPort
  <2>2. client' = [client EXCEPT ![c] = r]
    <3>1. client \in [Clients -> ClientRecord]
      BY DEF TableInv
    <3>2. QED
      BY <1>2, <3>1 DEF ClientRecord
  <2>3. Adds(old.fds, 7, FILE, fds)
    BY <2>1, NextDescriptors, OpenAdds DEF Objects
  <2> HIDE DEF fds
  <2>4. /\ r \in ClientRecord /\ r.state = "PROCESS_TRANSFER" /\ r.fds = fds
        /\ r.server = old.server
    BY <2>1, <2>3 DEF ClientRecord, ClientStates, Adds
  <2> HIDE DEF r
  <2>5. fds[4] = old.fds[4] /\ DOMAIN fds = 0..7
    BY <2>1, <2>3 DEF Adds
  <2>6. ClientOK(r)
    BY <2>1, <2>4, <2>5, FirstTables DEF ClientOK, ClientTable, HasRequestPort
  <2>7. NewClient(r)
    BY <2>1, <2>3, <2>4, <2>6 DEF NewClient, Adds
  <2>8. KeepsServing(old, r) /\ r.state \notin {"POLLING", "WAIT_ON_DATA"}
    BY <2>1, <2>4, <2>5, FirstTables DEF KeepsServing
  <2>9. ClientBecomes(c, r)
    BY <2>2, <2>7, ClientUpdate
  <2>10. QED
    BY <2>8, <2>9 DEF ClientQuiet
<1>3. QED
  BY <1>1, <1>2 DEF wait_on_data_state

\* The head of the loop: whatever was open, processFile's number is the new
\* socket, with a port that nobody has used.
LEMMA SendRequestEffect ==
  ASSUME TableInv, NEW c \in Clients, SendRequest(c)
  PROVE  \E r : /\ ClientBecomes(c, r)
                /\ r.state = "POLLING" /\ r.fds[ProcessSocketNum] = FreshPort
<1> DEFINE old    == client[c]
           closed == Close(old.fds, old.socketNum)
           opened == Open(closed, UNBOUND)
           fds    == [opened EXCEPT ![4] = FreshPort]
           poll   == Watch(old.poll, 4)
           r      == [old EXCEPT !.state = "POLLING", !.socketNum = 4,
                                 !.poll = poll, !.fds = fds]
<1>1. /\ old \in ClientRecord /\ old.fds \in Tables
      /\ DOMAIN old.fds \in {0..5, (0..5) \ {4}}
      /\ old.socketNum = 4 /\ old.count < MAX_RETRIES
      /\ old.poll \in {NoPollSet, Watch(NoPollSet, 4)}
  BY ClientFacts, FirstTables DEF SendRequest, ClientOK, ClientTable, ClientRecord
<1>2. /\ closed \in Tables /\ DOMAIN closed = (0..5) \ {4}
      /\ Range(closed) \subseteq Range(old.fds)
  <2>1. Removes(old.fds, old.socketNum, closed)
    BY <1>1, CloseRemoves
  <2>2. QED
    BY <1>1, <2>1 DEF Removes
<1>3. FreeDescriptor(closed) = 4
  BY <1>2, NextDescriptors, LowestFree
<1>4. Adds(closed, 4, UNBOUND, opened)
  BY <1>2, NextDescriptors, OpenAdds DEF Objects
<1>5. client' = [client EXCEPT ![c] = r]
  <2>1. client \in [Clients -> ClientRecord]
    BY DEF TableInv
  <2>2. client' = [client EXCEPT ![c].state = "POLLING",
                                 ![c].socketNum = 4,
                                 ![c].poll = Watch(@, 4),
                                 ![c].fds = fds]
    BY <1>3 DEF SendRequest, Reopened, setupUdpClientToServer
  <2> HIDE DEF fds
  <2>3. QED
    BY <2>1, <2>2 DEF ClientRecord
<1>6. poll = Watch(NoPollSet, 4)
  BY <1>1, WatchAgain
<1> HIDE DEF opened, closed, poll
<1>7. FreshPort \in Ports \ {ServerPort} /\ FreshPort \in Objects
  BY ClientFacts DEF Ports, Objects
<1>8. /\ fds \in Tables /\ DOMAIN fds = 0..5 /\ fds[4] = FreshPort
      /\ Range(fds) \subseteq Range(old.fds) \cup {UNBOUND, FreshPort}
  <2>1. opened \in Tables /\ DOMAIN opened = 0..5 /\ opened \in [0..5 -> Objects]
    BY <1>2, <1>4, TableFacts DEF Adds
  <2>2. /\ fds \in [0..5 -> Objects] /\ fds[4] = FreshPort
        /\ \A fd \in (0..5) \ {4} : fds[fd] = opened[fd]
    BY <1>7, <2>1
  <2> HIDE DEF fds
  <2>3. fds \in Tables
    BY <1>7, <2>1, <2>2, TableFacts
  <2>4. Range(fds) \subseteq Range(opened) \cup {FreshPort}
    BY <2>1, <2>2 DEF Range
  <2>5. QED
    BY <1>2, <1>4, <2>2, <2>3, <2>4 DEF Adds
<1> HIDE DEF fds
<1>9. /\ r \in ClientRecord /\ r.state = "POLLING" /\ r.fds = fds
      /\ r.server = old.server /\ r.poll = poll /\ r.count = old.count
  BY <1>1, <1>6, <1>8, FirstTables DEF ClientRecord, ClientStates
<1> HIDE DEF r
<1>10. ClientOK(r)
  BY <1>1, <1>6, <1>7, <1>8, <1>9, FirstTables DEF ClientOK, ClientTable, HasRequestPort
<1>11. NewClient(r)
  BY <1>8, <1>9, <1>10, ClientFacts DEF NewClient
<1>12. ClientBecomes(c, r)
  BY <1>5, <1>11, ClientUpdate
<1>13. QED
  BY <1>8, <1>9, <1>12, FirstTables

\* file-OK: the output file comes behind the socket, which stays where it is.
AcceptsFrom(c, m) ==
  /\ m.dst = client[c].fds[client[c].socketNum]
  /\ client' = [client EXCEPT ![c].state = "WAIT_ON_DATA",
                              ![c].fds = Open(@, FILE),
                              ![c].count = 0,
                              ![c].socketNum = ProcessSocketNum,
                              ![c].server = m.src]

LEMMA AcceptEffect ==
  ASSUME TableInv, NEW c \in Clients, client[c].state = "POLLING",
         NEW m \in net, AcceptsFrom(c, m)
  PROVE  \E r : /\ ClientBecomes(c, r)
                /\ r.state = "WAIT_ON_DATA"
                /\ r.server = m.src
                /\ r.fds[ProcessSocketNum] = m.dst
                /\ m.dst = ClientPort(c)
<1> DEFINE old == client[c]
           fds == Open(old.fds, FILE)
           src == m.src
           r   == [old EXCEPT !.state = "WAIT_ON_DATA", !.fds = fds, !.count = 0,
                              !.socketNum = ProcessSocketNum, !.server = src]
<1>1. /\ old \in ClientRecord /\ old.fds \in Tables /\ DOMAIN old.fds = 0..5
      /\ old.socketNum = 4 /\ old.fds[4] \in Ports \ {ServerPort}
      /\ Range(old.fds) \subseteq Known /\ FILE \in Known
  BY ClientFacts, FirstTables DEF ClientOK, ClientTable, HasRequestPort, ClientRecord
<1>2. src \in Objects /\ src \in Known
  <2>1. MessageOK(m)
    BY DEF TableInv
  <2>2. src \in UsedPorts
    BY DEF UsedPorts
  <2>3. QED
    BY <2>1, <2>2 DEF MessageOK, Ports, Objects, Known
<1>3. m.dst = ClientPort(c) /\ m.dst = old.fds[4]
  BY <1>1, FirstTables DEF AcceptsFrom, ClientPort
<1>4. client' = [client EXCEPT ![c] = r]
  <2>1. client \in [Clients -> ClientRecord]
    BY DEF TableInv
  <2>2. QED
    BY <2>1 DEF ClientRecord, AcceptsFrom
<1>5. Adds(old.fds, 6, FILE, fds)
  BY <1>1, NextDescriptors, OpenAdds DEF Objects
<1> HIDE DEF fds, src
<1>6. 0 \in 0..MAX_RETRIES
  BY HandshakeAssumption
<1>7. /\ r \in ClientRecord /\ r.state = "WAIT_ON_DATA" /\ r.fds = fds
      /\ r.server = src
  BY <1>1, <1>2, <1>5, <1>6 DEF ClientRecord, ClientStates, Adds
<1> HIDE DEF r
<1>8. fds[4] = old.fds[4] /\ DOMAIN fds = 0..6
  BY <1>1, <1>5 DEF Adds
<1>9. ClientOK(r)
  BY <1>1, <1>7, <1>8, FirstTables DEF ClientOK, ClientTable, HasRequestPort
<1>10. NewClient(r)
  BY <1>1, <1>2, <1>5, <1>7, <1>9 DEF NewClient, Adds
<1>11. ClientBecomes(c, r)
  BY <1>4, <1>10, ClientUpdate
<1>12. QED
  BY <1>3, <1>7, <1>8, <1>11, FirstTables DEF src

\* Any other answer: processFile starts over.
RefusedBy(c) ==
  client' = [client EXCEPT ![c].state = "WAIT_ON_FILE_OK",
                           ![c].count = 0,
                           ![c].socketNum = ProcessSocketNum,
                           ![c].fds = Close(@, client[c].socketNum)]

LEMMA RefuseEffect ==
  ASSUME TableInv, NEW c \in Clients, client[c].state = "POLLING", RefusedBy(c)
  PROVE  ClientQuiet(c)
<1>1. client[c].socketNum = ProcessSocketNum
  BY ClientFacts DEF ClientRecord
<1>2. client \in [Clients -> ClientRecord]
  BY DEF TableInv
<1>3. client' = [client EXCEPT ![c] =
                   [client[c] EXCEPT !.state = "WAIT_ON_FILE_OK",
                                     !.count = 0,
                                     !.socketNum = ProcessSocketNum,
                                     !.fds = Close(client[c].fds, ProcessSocketNum)]]
  BY <1>1, <1>2 DEF ClientRecord, RefusedBy
<1>4. 0 \in 0..MAX_RETRIES
  BY HandshakeAssumption
<1>5. QED
  BY <1>3, <1>4, CloseEffect

-------------------------------------------------------------------------------
\* Faults are only added, and no more than the bound.
LEMMA ChargeAdds ==
  ASSUME TableInv, NEW cost \in Nat, Charge(cost)
  PROVE  faults' \in 0..MaxFaults /\ faults' = faults + cost /\ faults \in Nat
  BY HandshakeAssumption DEF TableInv, Charge

LEMMA ReceiptTakes ==
  ASSUME NEW m, NEW r \in Receipts(m)
  PROVE  r.rest \subseteq net /\ r.cost \in Nat
  BY DEF Receipts

\* Datagram x is m, or m with a flipped bit.
Sent(x, m) ==
  MessageOK(x) /\ x.src = m.src /\ x.dst = m.dst /\ x.flag \in {m.flag, 0}

LEMMA SendAdds ==
  ASSUME TableInv, NEW m, MessageOK(m), NEW rest, NEW paid \in Nat,
         Send(m, rest, paid)
  PROVE  /\ \A x \in net' : x \in rest \/ Sent(x, m)
         /\ faults' \in 0..MaxFaults /\ faults <= faults'
<1>1. paid + 1 \in Nat
  OBVIOUS
<1>2. Charge(paid) \/ Charge(paid + 1)
  BY DEF Send
<1>3. faults' \in 0..MaxFaults /\ faults <= faults'
  BY <1>1, <1>2, ChargeAdds
<1>4. Sent(m, m)
  BY DEF Sent
<1>5. ASSUME NEW bad \in Flipped(m) PROVE Sent(bad, m)
  <2>1. MessageOK(bad) /\ bad.src = m.src /\ bad.dst = m.dst /\ bad.flag \in {m.flag, 0}
    BY <1>5 DEF Flipped, MessageOK, Names
  <2>2. QED
    BY <2>1 DEF Sent
<1>6. \/ net' = rest \cup {m} \/ net' = rest
      \/ \E bad \in Flipped(m) : net' = rest \cup {bad}
  BY DEF Send
<1>7. QED
  BY <1>3, <1>4, <1>5, <1>6

-------------------------------------------------------------------------------
\* Only child p changes, into r.
ChildBecomes(p, r) ==
  /\ NewChild(r)
  /\ DOMAIN child' = DOMAIN child
  /\ child' \in [DOMAIN child -> ChildRecord]
  /\ child'[p] = r
  /\ \A q \in DOMAIN child \ {p} : child'[q] = child[q]

LEMMA ChildUpdate ==
  ASSUME TableInv, NEW p \in DOMAIN child, NEW r, NewChild(r),
         child' = [child EXCEPT ![p] = r]
  PROVE  ChildBecomes(p, r)
<1>1. r \in ChildRecord
  BY DEF NewChild, ChildOK
<1>2. child \in [DOMAIN child -> ChildRecord]
  BY DEF TableInv
<1>3. QED
  BY <1>1, <1>2 DEF ChildBecomes

LEMMA ChildFacts ==
  ASSUME TableInv
  PROVE  /\ \A p \in DOMAIN child :
              /\ child[p] \in ChildRecord /\ ChildOK(child[p])
              /\ child[p].fds \in Tables
              /\ Range(child[p].fds) \cup {child[p].peer} \subseteq UsedPorts
         /\ \A m \in net : MessageOK(m) /\ {m.src, m.dst} \subseteq UsedPorts
         /\ UsedPorts \subseteq Known
         /\ {FILE, UNBOUND, FreshPort} \subseteq Known
         /\ FreshPort \in Ports \ {ServerPort} /\ FreshPort \in Objects
         /\ FreshPort \notin UsedPorts
<1>1. \A p \in DOMAIN child : ChildOK(child[p]) /\ child[p] \in ChildRecord
  BY DEF TableInv, ChildOK
<1>2. IsFiniteSet(UsedPorts) /\ ServerPort \in UsedPorts
  BY DEF TableInv, UsedPorts
<1>3. FreshPort \in Ports /\ FreshPort \notin UsedPorts
  BY <1>2, FreshPortIsFresh DEF Ports
<1>4. /\ \A p \in DOMAIN child :
           Range(child[p].fds) \cup {child[p].peer} \subseteq UsedPorts
      /\ \A m \in net : {m.src, m.dst} \subseteq UsedPorts
  BY DEF UsedPorts
<1>5. \A p \in DOMAIN child : child[p].fds \in Tables
  BY <1>1 DEF ChildRecord
<1>6. \A m \in net : MessageOK(m)
  BY DEF TableInv
<1>7. QED
  BY <1>1, <1>2, <1>3, <1>4, <1>5, <1>6 DEF Known, Ports, Objects

\* A process that dies leaves a record without descriptors.
LEMMA DeadEffect ==
  ASSUME TableInv, NEW p \in DOMAIN child, Dead(p)
  PROVE  \E r : ChildBecomes(p, r) /\ r.state = "ZOMBIE"
<1> DEFINE none == <<>>
           r == [Forked(none, NoRequest) EXCEPT !.state = "ZOMBIE"]
<1>1. child' = [child EXCEPT ![p] = r]
  BY DEF Dead
<1>2. none \in Tables /\ Range(none) = {} /\ DOMAIN none = {}
  BY EmptyTable
<1> HIDE DEF none
<1>3. NoRequest.src = UNBOUND /\ NoRequest.name = "asked"
  BY DEF NoRequest, Datagram
<1>4. 0 \in 0..(MAX_TIMEOUTS - 1)
  BY HandshakeAssumption
<1>5. r \in ChildRecord
  BY <1>2, <1>3, <1>4 DEF ChildRecord, ChildStates, Names, Objects, Forked
<1>6. r.state = "ZOMBIE" /\ r.fds = none /\ r.peer = UNBOUND
  BY <1>3 DEF Forked
<1> HIDE DEF r
<1>7. ChildOK(r)
  BY <1>2, <1>5, <1>6 DEF ChildOK
<1>8. NewChild(r)
  BY <1>2, <1>6, <1>7, ChildFacts DEF NewChild
<1>9. ChildBecomes(p, r)
  BY <1>1, <1>8, ChildUpdate
<1>10. QED
  BY <1>6, <1>9

\* filename_state: the child's socket takes the place of the server's, with a
\* port that nobody has used, and the file comes behind it.
LEMMA FilenameEffect ==
  ASSUME TableInv, NEW p \in DOMAIN child, filename_state(p)
  PROVE  \E r : /\ ChildBecomes(p, r)
                /\ r.state = IF child[p].name \in Files THEN "WRITE_FILE_OK_ACK"
                                                        ELSE "DONE"
                /\ r.fds[MainSocketNum] = FreshPort
                /\ r.peer = child[p].peer /\ r.count = 0
<1> DEFINE old    == child[p]
           closed == Close(old.fds, 3)
           bound  == Open(closed, FreshPort)
           opened == Open(bound, FILE)
           found  == old.name \in Files
           fds    == IF found THEN opened ELSE bound
           poll   == IF found THEN Watch(old.poll, 3) ELSE old.poll
           state  == IF found THEN "WRITE_FILE_OK_ACK" ELSE "DONE"
           file   == IF found THEN 4 ELSE 0
           r      == [old EXCEPT !.state = state, !.childSocket = 3,
                                 !.file = file, !.poll = poll, !.fds = fds]
<1>1. /\ old \in ChildRecord /\ old.fds = ParentFds /\ old.count = 0
      /\ ~old.windowReady /\ old.poll = NoPollSet
      /\ old.state = "FILENAME" /\ old.peer \in Ports \ {ServerPort}
  BY ChildFacts DEF filename_state, ChildOK
<1>2. /\ old.fds \in Tables /\ DOMAIN old.fds = 0..3
  BY <1>1, FirstTables
<1>3. /\ closed \in Tables /\ DOMAIN closed = 0..2
      /\ Range(closed) \subseteq Range(old.fds)
  <2>1. Removes(old.fds, 3, closed)
    BY <1>2, CloseRemoves
  <2>2. QED
    BY <1>2, <2>1 DEF Removes
<1>4. FreeDescriptor(closed) = 3 /\ Adds(closed, 3, FreshPort, bound)
  BY <1>3, ChildFacts, NextDescriptors, LowestFree, OpenAdds
<1>5. bound \in Tables /\ DOMAIN bound = 0..3 /\ bound[3] = FreshPort
  BY <1>3, <1>4 DEF Adds
<1>6. FreeDescriptor(bound) = 4 /\ Adds(bound, 4, FILE, opened)
  BY <1>5, NextDescriptors, LowestFree, OpenAdds DEF Objects
<1>7. child' = [child EXCEPT ![p] = r]
  <2>1. child \in [DOMAIN child -> ChildRecord]
    BY DEF TableInv
  <2>2. WithoutMainSocket(old.fds) = closed
    BY FirstTables DEF WithoutMainSocket
  <2>3. child' = [child EXCEPT
                    ![p].state = state,
                    ![p].childSocket = 3,
                    ![p].file = file,
                    ![p].poll = IF found THEN Watch(@, 3) ELSE @,
                    ![p].fds = fds]
    BY <1>4, <1>6, <2>2 DEF filename_state, udpServerSetup, SavedFile
  <2> HIDE DEF fds, file, state, closed, bound, opened, found
  <2>4. QED
    BY <2>1, <2>3 DEF ChildRecord
<1> HIDE DEF closed, bound, opened
<1>8. /\ opened \in Tables /\ DOMAIN opened = 0..4
      /\ opened[3] = FreshPort /\ opened[4] = FILE
      /\ Range(opened) \subseteq Range(bound) \cup {FILE}
  BY <1>5, <1>6 DEF Adds
<1>9. Range(fds) \subseteq Known
  <2>1. Range(bound) \subseteq Range(old.fds) \cup {FreshPort}
    BY <1>3, <1>4 DEF Adds
  <2>2. QED
    BY <1>8, <2>1, ChildFacts
<1>10. fds \in Tables /\ fds[3] = FreshPort /\ poll \in {NoPollSet, Watch(NoPollSet, 3)}
  BY <1>1, <1>5, <1>8
<1>11. found => DOMAIN fds = 0..4 /\ fds[4] = FILE /\ poll = Watch(NoPollSet, 3)
  BY <1>1, <1>8
<1>12. ~found => DOMAIN fds = 0..3
  BY <1>5
<1> HIDE DEF fds, poll
<1>13. /\ state \in {"WRITE_FILE_OK_ACK", "DONE"} /\ file \in {0, 4}
       /\ found => state = "WRITE_FILE_OK_ACK" /\ file = 4
       /\ ~found => state = "DONE" /\ file = 0
  OBVIOUS
<1> HIDE DEF state, file, found
<1>14. /\ r \in ChildRecord /\ r.state = state /\ r.fds = fds /\ r.file = file
       /\ r.poll = poll /\ r.childSocket = 3 /\ r.peer = old.peer
       /\ r.count = old.count /\ r.windowReady = old.windowReady
  <2>1. state \in ChildStates
    BY <1>13 DEF ChildStates
  <2>2. /\ poll \in {NoPollSet, Watch(NoPollSet, MainSocketNum)}
        /\ 3 \in {0, MainSocketNum}
    BY <1>10, FirstTables
  <2>3. QED
    BY <1>1, <1>10, <1>13, <2>1, <2>2 DEF ChildRecord
<1> HIDE DEF r
<1>15. ChildOK(r)
  BY <1>1, <1>10, <1>11, <1>12, <1>13, <1>14, FirstTables, ChildFacts DEF ChildOK
<1>16. NewChild(r)
  BY <1>9, <1>14, <1>15, ChildFacts DEF NewChild
<1>17. ChildBecomes(p, r)
  BY <1>7, <1>16, ChildUpdate
<1>18. QED
  BY <1>1, <1>10, <1>14, <1>17, FirstTables DEF state, found

\* A child in write_file_ok_ack_state receives m.
LEMMA AckEffect ==
  ASSUME TableInv, NEW p \in DOMAIN child, Awaits(p), NEW m \in net,
         child' = IF IsFileOkAck(m)
                  THEN [child EXCEPT ![p].peer = m.src,
                                     ![p].state = "SEND_DATA",
                                     ![p].count = 0,
                                     ![p].windowReady = TRUE]
                  ELSE [child EXCEPT ![p].peer = m.src]
  PROVE  \E r : /\ ChildBecomes(p, r)
                /\ r.fds = child[p].fds /\ r.peer = m.src
                /\ IsFileOkAck(m) => r.state = "SEND_DATA"
                /\ ~IsFileOkAck(m) => r.state = "WRITE_FILE_OK_ACK"
                                      /\ r.count = child[p].count
<1> DEFINE old == child[p]
           src == m.src
<1>1. /\ old \in ChildRecord /\ ChildOK(old) /\ old.state = "WRITE_FILE_OK_ACK"
      /\ old.fds \in Tables /\ Range(old.fds) \cup {old.peer} \subseteq Known
      /\ child \in [DOMAIN child -> ChildRecord]
  BY ChildFacts DEF Awaits, TableInv
<1>2. src \in Ports \ {ServerPort} /\ src \in Objects /\ src \in Known
  BY ChildFacts DEF MessageOK, Ports, Objects
<1> HIDE DEF src
<1>3. CASE IsFileOkAck(m)
  <2> DEFINE r == [old EXCEPT !.peer = src, !.state = "SEND_DATA", !.count = 0,
                              !.windowReady = TRUE]
  <2>1. child' = [child EXCEPT ![p] = r]
    BY <1>1, <1>3 DEF ChildRecord, src
  <2>2. 0 \in 0..(MAX_TIMEOUTS - 1)
    BY HandshakeAssumption
  <2>3. /\ r \in ChildRecord /\ r.state = "SEND_DATA" /\ r.fds = old.fds
        /\ r.peer = src /\ r.childSocket = old.childSocket /\ r.file = old.file
        /\ r.poll = old.poll
    BY <1>1, <1>2, <2>2 DEF ChildRecord, ChildStates
  <2> HIDE DEF r
  <2>4. ChildOK(r)
    BY <1>1, <1>2, <2>3 DEF ChildOK
  <2>5. NewChild(r)
    BY <1>1, <1>2, <2>3, <2>4 DEF NewChild
  <2>6. ChildBecomes(p, r)
    BY <2>1, <2>5, ChildUpdate
  <2>7. QED
    BY <1>3, <2>3, <2>6 DEF src
<1>4. CASE ~IsFileOkAck(m)
  <2> DEFINE r == [old EXCEPT !.peer = src]
  <2>1. child' = [child EXCEPT ![p] = r]
    BY <1>1, <1>4 DEF ChildRecord, src
  <2>2. /\ r \in ChildRecord /\ r.state = old.state /\ r.fds = old.fds
        /\ r.peer = src /\ r.childSocket = old.childSocket /\ r.file = old.file
        /\ r.poll = old.poll /\ r.count = old.count
        /\ r.windowReady = old.windowReady
    BY <1>1, <1>2 DEF ChildRecord
  <2> HIDE DEF r
  <2>3. ChildOK(r)
    BY <1>1, <1>2, <2>2 DEF ChildOK
  <2>4. NewChild(r)
    BY <1>1, <1>2, <2>2, <2>3 DEF NewChild
  <2>5. ChildBecomes(p, r)
    BY <2>1, <2>4, ChildUpdate
  <2>6. QED
    BY <1>1, <1>4, <2>2, <2>5 DEF src
<1>5. QED
  BY <1>3, <1>4

\* A timeout in write_file_ok_ack_state: the last one ends the wait.
LEMMA FileOkAckTimeoutEffect ==
  ASSUME TableInv, NEW p \in DOMAIN child, FileOkAckTimeout(p)
  PROVE  \E r : /\ ChildBecomes(p, r)
                /\ r.fds = child[p].fds /\ r.peer = child[p].peer
                /\ IF child[p].count + 1 < MAX_TIMEOUTS
                   THEN r.state = "WRITE_FILE_OK_ACK" /\ r.count = child[p].count + 1
                   ELSE r.state = "DONE"
<1> DEFINE old   == child[p]
           more  == ~GivesUp(old.count + 1)
           count == IF more THEN old.count + 1 ELSE 0
           state == IF more THEN old.state ELSE "DONE"
           r     == [old EXCEPT !.count = count, !.state = state]
<1>1. /\ old \in ChildRecord /\ ChildOK(old) /\ old.state = "WRITE_FILE_OK_ACK"
      /\ old.fds \in Tables /\ Range(old.fds) \cup {old.peer} \subseteq Known
      /\ child \in [DOMAIN child -> ChildRecord]
  BY ChildFacts DEF FileOkAckTimeout, TableInv
<1>2. old.count \in 0..(MAX_TIMEOUTS - 1) /\ MAX_TIMEOUTS \in Nat \ {0}
  BY <1>1, HandshakeAssumption DEF ChildRecord
<1>3. more <=> old.count + 1 < MAX_TIMEOUTS
  BY <1>2 DEF GivesUp
<1>4. child' = [child EXCEPT ![p] = r]
  <2>1. child' = [child EXCEPT
                    ![p].count = count,
                    ![p].state = IF GivesUp(old.count + 1) THEN "DONE" ELSE @]
    BY DEF FileOkAckTimeout
  <2> HIDE DEF count
  <2>2. QED
    BY <1>1, <2>1 DEF ChildRecord
<1>5. /\ count \in 0..(MAX_TIMEOUTS - 1) /\ state \in {"WRITE_FILE_OK_ACK", "DONE"}
      /\ more => count = old.count + 1 /\ state = "WRITE_FILE_OK_ACK"
      /\ ~more => state = "DONE"
  BY <1>1, <1>2, <1>3
<1> HIDE DEF count, state, more
<1>6. /\ r \in ChildRecord /\ r.state = state /\ r.fds = old.fds
      /\ r.peer = old.peer /\ r.childSocket = old.childSocket /\ r.file = old.file
      /\ r.poll = old.poll /\ r.count = count
      /\ r.windowReady = old.windowReady
  BY <1>1, <1>5 DEF ChildRecord, ChildStates
<1> HIDE DEF r
<1>7. ChildOK(r)
  BY <1>1, <1>5, <1>6 DEF ChildOK
<1>8. NewChild(r)
  BY <1>1, <1>6, <1>7 DEF NewChild
<1>9. ChildBecomes(p, r)
  BY <1>4, <1>8, ChildUpdate
<1>10. QED
  BY <1>3, <1>5, <1>6, <1>9

\* A child that no longer is in write_file_ok_ack_state or SEND_DATA.
ChildQuiet(p) ==
  \E r : /\ ChildBecomes(p, r)
         /\ r.state \in {"DONE", "PROCESS_SERVER", "ZOMBIE"}
         /\ r.state # "ZOMBIE" => r.peer = child[p].peer
         /\ child[p].state = "DONE" /\ child[p].windowReady =>
              r.state = "PROCESS_SERVER" /\ DOMAIN r.fds = 0..2

LEMMA ServeEffect ==
  ASSUME TableInv, NEW p \in DOMAIN child, Serve(p)
  PROVE  ChildQuiet(p)
<1>1. CASE Dead(p)
  BY <1>1, DeadEffect DEF ChildQuiet, Serve
<1>2. CASE child' = [child EXCEPT ![p].state = "DONE"]
  <2> DEFINE old == child[p]
             r   == [old EXCEPT !.state = "DONE"]
  <2>1. /\ old \in ChildRecord /\ ChildOK(old) /\ old.state = "SEND_DATA"
        /\ old.fds \in Tables /\ Range(old.fds) \cup {old.peer} \subseteq Known
        /\ child \in [DOMAIN child -> ChildRecord]
    BY ChildFacts DEF Serve, TableInv
  <2>2. child' = [child EXCEPT ![p] = r]
    BY <1>2, <2>1 DEF ChildRecord
  <2>3. /\ r \in ChildRecord /\ r.state = "DONE" /\ r.fds = old.fds
        /\ r.peer = old.peer /\ r.childSocket = old.childSocket /\ r.file = old.file
    BY <2>1 DEF ChildRecord, ChildStates
  <2> HIDE DEF r
  <2>4. ChildOK(r)
    BY <2>1, <2>3 DEF ChildOK
  <2>5. NewChild(r)
    BY <2>1, <2>3, <2>4 DEF NewChild
  <2>6. ChildBecomes(p, r)
    BY <2>2, <2>5, ChildUpdate
  <2>7. QED
    BY <2>1, <2>3, <2>6 DEF ChildQuiet
<1>3. QED
  BY <1>1, <1>2 DEF Serve

\* The end of processClient: both descriptors are closed, if there is a file.
LEMMA CloseBothEffect ==
  ASSUME TableInv, NEW p \in DOMAIN child, child[p].state = "DONE",
         child[p].file # 0,
         child' = [child EXCEPT
                     ![p].state = "PROCESS_SERVER",
                     ![p].fds = Close(Close(@, child[p].file), child[p].childSocket)]
  PROVE  \E r : /\ ChildBecomes(p, r)
                /\ r.state = "PROCESS_SERVER" /\ DOMAIN r.fds = 0..2
                /\ r.peer = child[p].peer
<1> DEFINE old == child[p]
           one == Close(old.fds, 4)
           fds == Close(one, 3)
           r   == [old EXCEPT !.state = "PROCESS_SERVER", !.fds = fds]
<1>1. /\ old \in ChildRecord /\ ChildOK(old)
      /\ old.fds \in Tables /\ Range(old.fds) \cup {old.peer} \subseteq Known
      /\ child \in [DOMAIN child -> ChildRecord]
  BY ChildFacts DEF TableInv
<1>2. old.file = 4 /\ old.childSocket = 3 /\ DOMAIN old.fds = 0..4
  BY <1>1, FirstTables DEF ChildOK
<1>3. child' = [child EXCEPT ![p] = r]
  BY <1>1, <1>2 DEF ChildRecord
<1>4. Removes(old.fds, 4, one)
  BY <1>1, CloseRemoves
<1>5. Removes(one, 3, fds)
  BY <1>4, CloseRemoves DEF Removes
<1> HIDE DEF one, fds
<1>6. fds \in Tables /\ DOMAIN fds = 0..2 /\ Range(fds) \subseteq Known
  BY <1>1, <1>2, <1>4, <1>5 DEF Removes
<1>7. /\ r \in ChildRecord /\ r.state = "PROCESS_SERVER" /\ r.fds = fds
      /\ r.peer = old.peer
  BY <1>1, <1>6 DEF ChildRecord, ChildStates
<1> HIDE DEF r
<1>8. ChildOK(r)
  BY <1>1, <1>6, <1>7 DEF ChildOK
<1>9. NewChild(r)
  BY <1>1, <1>6, <1>7, <1>8 DEF NewChild
<1>10. ChildBecomes(p, r)
  BY <1>3, <1>9, ChildUpdate
<1>11. QED
  BY <1>6, <1>7, <1>10

LEMMA CleanUpEffect ==
  ASSUME TableInv, NEW p \in DOMAIN child, CleanUp(p)
  PROVE  ChildQuiet(p)
<1>1. CASE Dead(p) /\ (child[p].file = 0 \/ ~child[p].windowReady)
  <2>1. ~child[p].windowReady
    BY <1>1, ChildFacts DEF ChildOK, CleanUp
  <2>2. QED
    BY <1>1, <2>1, DeadEffect DEF ChildQuiet
<1>2. CASE ~(Dead(p) /\ (child[p].file = 0 \/ ~child[p].windowReady))
  BY <1>2, CloseBothEffect DEF CleanUp, ChildQuiet
<1>3. QED
  BY <1>1, <1>2

\* processServer forks: of the descriptor tables with which the loop is run only
\* the server's own has a socket to receive from.
LEMMA OnlyServerListens ==
  ASSUME TableInv
  PROVE  Listeners = {ParentFds}
<1>1. ASSUME NEW p \in DOMAIN child, child[p].state = "PROCESS_SERVER"
      PROVE  MainSocketNum \notin DOMAIN child[p].fds
  BY <1>1, ChildFacts, FirstTables DEF ChildOK
<1>2. QED
  BY <1>1 DEF Listeners

LEMMA ForkEffect ==
  ASSUME TableInv, NEW m \in net, Pids \ DOMAIN child # {}, NEW pid,
         pid = Min(Pids \ DOMAIN child),
         child' = [p \in DOMAIN child \cup {pid} |->
                     IF p = pid THEN Forked(ParentFds, m) ELSE child[p]]
  PROVE  /\ pid \in Pids /\ pid \notin DOMAIN child
         /\ DOMAIN child' = DOMAIN child \cup {pid}
         /\ child' \in [DOMAIN child' -> ChildRecord]
         /\ NewChild(child'[pid])
         /\ child'[pid].state = "FILENAME" /\ child'[pid].peer = m.src
         /\ \A p \in DOMAIN child : child'[p] = child[p]
<1> DEFINE r == Forked(ParentFds, m)
<1>1. pid \in Pids /\ pid \notin DOMAIN child
  BY MinOfNaturals, HandshakeAssumption
<1>2. MessageOK(m) /\ m.src \in Known
  BY ChildFacts
<1>3. 0 \in 0..(MAX_TIMEOUTS - 1)
  BY HandshakeAssumption
<1>4. m.src \in Ports \ {ServerPort} /\ m.src \in Objects /\ m.name \in Names
  BY <1>2 DEF MessageOK, Ports, Objects
<1>5. r \in ChildRecord
  BY <1>3, <1>4, FirstTables DEF ChildRecord, ChildStates, Forked
<1>6. /\ r.state = "FILENAME" /\ r.fds = ParentFds /\ r.peer = m.src
      /\ r.count = 0 /\ r.poll = NoPollSet
  BY DEF Forked
<1>7. ~r.windowReady
  BY DEF Forked
<1> HIDE DEF r
<1>8. ChildOK(r)
  BY <1>4, <1>5, <1>6, <1>7 DEF ChildOK
<1>9. ServerPort \in Known
  BY DEF Known, UsedPorts
<1>10. NewChild(r)
  BY <1>2, <1>6, <1>8, <1>9, FirstTables, ChildFacts DEF NewChild
<1>11. /\ DOMAIN child' = DOMAIN child \cup {pid} /\ child'[pid] = r
       /\ \A p \in DOMAIN child : child'[p] = child[p]
       /\ child' = [p \in DOMAIN child' |-> child'[p]]
  BY <1>1 DEF r
<1>12. \A p \in DOMAIN child' : child'[p] \in ChildRecord
  BY <1>5, <1>11, ChildFacts
<1>13. QED
  BY <1>1, <1>6, <1>10, <1>11, <1>12

-------------------------------------------------------------------------------
(***************************************************************************)
(* The kinds of steps.                                                     *)
(***************************************************************************)
\* Datagram x has been sent from src to dst, with this flag or, by a flip, none.
Letter(x, src, dst, flag) ==
  MessageOK(x) /\ x.src = src /\ x.dst = dst /\ x.flag \in {flag, 0}

FaultsGrow == faults <= faults' /\ faults' \in 0..MaxFaults

\* rcopy sends nothing and does not poll after the step.
ClientRests ==
  /\ child' = child /\ net' \subseteq net /\ FaultsGrow
  /\ client' = client \/ \E c \in Clients : ClientQuiet(c)

Requests(c) ==
  /\ child' = child /\ FaultsGrow
  /\ client[c].state = "WAIT_ON_FILE_OK"
  /\ \E r : /\ ClientBecomes(c, r)
            /\ r.state = "POLLING" /\ r.fds[ProcessSocketNum] = FreshPort
  /\ \A x \in net' : x \in net \/ Letter(x, FreshPort, ServerPort, FILENAME)

Accepts(c, m) ==
  /\ child' = child /\ FaultsGrow
  /\ Polls(c) /\ m \in net /\ m.flag = FILE_OK /\ m.dst = ClientPort(c)
  /\ \E r : /\ ClientBecomes(c, r)
            /\ r.state = "WAIT_ON_DATA"
            /\ r.server = m.src /\ r.fds[ProcessSocketNum] = m.dst
  /\ \A x \in net' : x \in net \/ Letter(x, m.dst, m.src, FILE_OK_ACK)

Answers(p) ==
  /\ client' = client /\ FaultsGrow
  /\ child[p].state = "FILENAME"
  /\ \E r : /\ ChildBecomes(p, r)
            /\ r.state = IF child[p].name \in Files THEN "WRITE_FILE_OK_ACK"
                                                    ELSE "DONE"
            /\ r.fds[MainSocketNum] = FreshPort
            /\ r.peer = child[p].peer /\ r.count = 0
  /\ \A x \in net' : x \in net \/ Letter(x, FreshPort, child[p].peer,
                                          Answer(child[p].name))

Hears(p, m) ==
  /\ client' = client /\ net' \subseteq net /\ FaultsGrow
  /\ Awaits(p) /\ m \in net /\ m.dst = ChildPort(p)
  /\ \E r : /\ ChildBecomes(p, r)
            /\ r.fds = child[p].fds /\ r.peer = m.src
            /\ IsFileOkAck(m) => r.state = "SEND_DATA"
            /\ ~IsFileOkAck(m) => r.state = "WRITE_FILE_OK_ACK"
                                  /\ r.count = child[p].count

Waits(p) ==
  /\ client' = client /\ net' = net /\ FaultsGrow
  /\ Awaits(p) /\ TimesOut(ChildPort(p))
  /\ \E r : /\ ChildBecomes(p, r)
            /\ r.fds = child[p].fds /\ r.peer = child[p].peer
            /\ IF child[p].count + 1 < MAX_TIMEOUTS
               THEN r.state = "WRITE_FILE_OK_ACK" /\ r.count = child[p].count + 1
               ELSE r.state = "DONE"

ChildRests(p) ==
  /\ client' = client /\ net' = net /\ faults' = faults
  /\ ~Awaits(p) /\ child[p].state # "ZOMBIE"
  /\ ChildQuiet(p)

Forks(pid, m) ==
  /\ client' = client /\ net' \subseteq net /\ FaultsGrow
  /\ m \in net /\ m.dst = ServerPort
  /\ pid \in Pids /\ pid \notin DOMAIN child
  /\ DOMAIN child' = DOMAIN child \cup {pid}
  /\ child' \in [DOMAIN child' -> ChildRecord]
  /\ NewChild(child'[pid])
  /\ child'[pid].state = "FILENAME" /\ child'[pid].peer = m.src
  /\ \A p \in DOMAIN child : child'[p] = child[p]

Reaps ==
  /\ client' = client /\ net' = net /\ faults' = faults
  /\ DOMAIN child' \subseteq DOMAIN child
  /\ child' \in [DOMAIN child' -> ChildRecord]
  /\ \A p \in DOMAIN child' : child'[p] = child[p]
  /\ \A p \in DOMAIN child : child[p].state # "ZOMBIE" => p \in DOMAIN child'

LEMMA RecvAnswerKind ==
  ASSUME TableInv, NEW c \in Clients, RecvAnswer(c)
  PROVE  ClientRests \/ \E m : Accepts(c, m)
<1> DEFINE Received(m, r) ==
        /\ m.dst = client[c].fds[client[c].socketNum]
        /\ \/ /\ m.flag = FILE_OK
              /\ AcceptsFrom(c, m)
              /\ Send(Datagram(m.dst, m.src, FILE_OK_ACK, "asked"), r.rest, r.cost)
           \/ /\ client' = [client EXCEPT ![c] = Exited(c)]
              /\ net' = r.rest /\ Charge(r.cost)
           \/ /\ RefusedBy(c)
              /\ net' = r.rest /\ Charge(r.cost)
<1>0. PICK m \in net : \E r \in Receipts(m) : Received(m, r)
  BY DEF RecvAnswer, AcceptsFrom, RefusedBy
<1>1. PICK r \in Receipts(m) : Received(m, r)
  BY <1>0
<1>2. client[c].state = "POLLING" /\ child' = child
  BY DEF RecvAnswer
<1>3. r.rest \subseteq net /\ r.cost \in Nat
  BY ReceiptTakes
<1>4. CASE net' = r.rest /\ Charge(r.cost)
           /\ (client' = [client EXCEPT ![c] = Exited(c)] \/ RefusedBy(c))
  <2>1. faults' \in 0..MaxFaults /\ faults' = faults + r.cost /\ faults \in Nat
    BY <1>3, <1>4, ChargeAdds
  <2>2. FaultsGrow /\ net' \subseteq net
    BY <1>3, <1>4, <2>1 DEF FaultsGrow
  <2>3. ClientQuiet(c)
    BY <1>2, <1>4, ExitEffect, RefuseEffect
  <2>4. QED
    BY <1>2, <2>2, <2>3 DEF ClientRests
<1>5. CASE /\ m.flag = FILE_OK
           /\ AcceptsFrom(c, m)
           /\ Send(Datagram(m.dst, m.src, FILE_OK_ACK, "asked"), r.rest, r.cost)
  <2> DEFINE d == Datagram(m.dst, m.src, FILE_OK_ACK, "asked")
  <2>1. \E s : /\ ClientBecomes(c, s)
               /\ s.state = "WAIT_ON_DATA"
               /\ s.server = m.src
               /\ s.fds[ProcessSocketNum] = m.dst
               /\ m.dst = ClientPort(c)
    BY <1>2, <1>5, AcceptEffect
  <2>2. m.src \in Ports /\ m.dst \in Ports \ {ServerPort}
    <3>1. ClientPort(c) \in Ports \ {ServerPort}
      BY <1>2, ClientFacts DEF ClientOK, HasRequestPort, ClientPort
    <3>2. MessageOK(m)
      BY DEF TableInv
    <3>3. QED
      BY <2>1, <3>1, <3>2 DEF MessageOK
  <2>3. MessageOK(d) /\ d.src = m.dst /\ d.dst = m.src /\ d.flag = FILE_OK_ACK
    BY <2>2 DEF MessageOK, Datagram, FILE_OK_ACK, Names
  <2> HIDE DEF d
  <2>4. /\ \A x \in net' : x \in r.rest \/ Sent(x, d)
        /\ faults' \in 0..MaxFaults /\ faults <= faults'
    BY <1>3, <1>5, <2>3, SendAdds DEF d
  <2>5. \A x \in net' : x \in net \/ Letter(x, m.dst, m.src, FILE_OK_ACK)
    BY <1>3, <2>3, <2>4 DEF Sent, Letter
  <2>6. Accepts(c, m)
    BY <1>2, <1>5, <2>1, <2>4, <2>5 DEF Accepts, FaultsGrow, Polls
  <2>7. QED
    BY <2>6
<1>6. QED
  BY <1>1, <1>4, <1>5

LEMMA SendRequestKind ==
  ASSUME TableInv, NEW c \in Clients, SendRequest(c)
  PROVE  Requests(c)
<1> DEFINE d == Datagram(FreshPort, ServerPort, FILENAME, "asked")
<1>1. child' = child /\ client[c].state = "WAIT_ON_FILE_OK" /\ Send(d, net, 0)
  BY DEF SendRequest
<1>2. MessageOK(d) /\ d.src = FreshPort /\ d.dst = ServerPort /\ d.flag = FILENAME
  BY ClientFacts DEF MessageOK, Datagram, FILENAME, Names, Ports, ServerPort
<1> HIDE DEF d
<1>3. /\ \A x \in net' : x \in net \/ Sent(x, d)
      /\ faults' \in 0..MaxFaults /\ faults <= faults'
  BY <1>1, <1>2, SendAdds
<1>4. \A x \in net' : x \in net \/ Letter(x, FreshPort, ServerPort, FILENAME)
  BY <1>2, <1>3 DEF Sent, Letter
<1>5. QED
  BY <1>1, <1>3, <1>4, SendRequestEffect DEF Requests, FaultsGrow

LEMMA FilenameKind ==
  ASSUME TableInv, NEW p \in DOMAIN child, filename_state(p)
  PROVE  Answers(p)
<1> DEFINE flag == Answer(child[p].name)
           d    == Datagram(FreshPort, child[p].peer, flag, "asked")
<1>1. client' = client /\ child[p].state = "FILENAME" /\ Send(d, net, 0)
  BY DEF filename_state
<1>2. flag \in Nat
  BY DEF Answer, FILE_OK, FILE_ERROR
<1> HIDE DEF flag
<1>3. child[p].peer \in Ports
  BY <1>1, ChildFacts DEF ChildOK
<1>4. MessageOK(d) /\ d.src = FreshPort /\ d.dst = child[p].peer /\ d.flag = flag
  BY <1>2, <1>3, ChildFacts DEF MessageOK, Datagram, Names
<1> HIDE DEF d
<1>5. /\ \A x \in net' : x \in net \/ Sent(x, d)
      /\ faults' \in 0..MaxFaults /\ faults <= faults'
  BY <1>1, <1>4, SendAdds
<1>6. \A x \in net' : x \in net \/ Letter(x, FreshPort, child[p].peer, flag)
  BY <1>4, <1>5 DEF Sent, Letter
<1>7. QED
  BY <1>1, <1>5, <1>6, FilenameEffect DEF Answers, FaultsGrow, flag

LEMMA HearsKind ==
  ASSUME TableInv, NEW p \in DOMAIN child, write_file_ok_ack_state(p)
  PROVE  \E m : Hears(p, m)
<1> DEFINE Heard(m) == child' = IF IsFileOkAck(m)
                                THEN [child EXCEPT ![p].peer = m.src,
                                                   ![p].state = "SEND_DATA",
                                                   ![p].count = 0,
                                                   ![p].windowReady = TRUE]
                                ELSE [child EXCEPT ![p].peer = m.src]
<1>1. PICK m \in net : \E r \in Receipts(m) :
        /\ m.dst = child[p].fds[child[p].childSocket]
        /\ net' = r.rest /\ Charge(r.cost)
        /\ Heard(m)
  BY DEF write_file_ok_ack_state
<1>2. PICK r \in Receipts(m) : net' = r.rest /\ Charge(r.cost)
  BY <1>1
<1>3. client' = client /\ Awaits(p)
  BY DEF write_file_ok_ack_state, Awaits
<1>4. m.dst = ChildPort(p)
  BY <1>1, <1>3, ChildFacts DEF ChildOK, ChildPort, Awaits
<1>5. r.rest \subseteq net /\ r.cost \in Nat
  BY ReceiptTakes
<1>6. faults' \in 0..MaxFaults /\ faults' = faults + r.cost /\ faults \in Nat
  BY <1>2, <1>5, ChargeAdds
<1>7. FaultsGrow
  BY <1>5, <1>6 DEF FaultsGrow
<1>8. Hears(p, m)
  BY <1>1, <1>2, <1>3, <1>4, <1>5, <1>7, AckEffect DEF Hears
<1>9. QED
  BY <1>8

LEMMA WaitsKind ==
  ASSUME TableInv, NEW p \in DOMAIN child, FileOkAckTimeout(p)
  PROVE  Waits(p)
<1>1. /\ client' = client /\ net' = net /\ Awaits(p)
      /\ TimesOut(child[p].fds[child[p].childSocket])
  BY DEF FileOkAckTimeout, Awaits
<1>2. TimesOut(ChildPort(p))
  <2>1. child[p].childSocket = MainSocketNum
    BY <1>1, ChildFacts DEF ChildOK, Awaits
  <2>2. QED
    BY <1>1, <2>1 DEF ChildPort
<1>3. FaultsGrow
  <2>1. PICK cost \in Nat : Charge(cost)
    BY <1>2 DEF TimesOut
  <2>2. faults' \in 0..MaxFaults /\ faults' = faults + cost /\ faults \in Nat
    BY <2>1, ChargeAdds
  <2>3. QED
    BY <2>2 DEF FaultsGrow
<1>4. QED
  BY <1>1, <1>2, <1>3, FileOkAckTimeoutEffect DEF Waits

LEMMA ServerKind ==
  ASSUME TableInv, processServer
  PROVE  ClientRests \/ \E pid, m : Forks(pid, m)
<1> DEFINE pid == Min(Pids \ DOMAIN child)
           Taken(fds, m) ==
             \/ /\ Pids \ DOMAIN child # {}
                /\ child' = [p \in DOMAIN child \cup {pid} |->
                               IF p = pid THEN Forked(fds, m) ELSE child[p]]
             \/ child' = child
<1>1. PICK m \in net : \E r \in Receipts(m) :
        /\ m.dst = ParentFds[MainSocketNum]
        /\ net' = r.rest /\ Charge(r.cost)
        /\ Taken(ParentFds, m)
  BY OnlyServerListens DEF processServer
<1>2. PICK r \in Receipts(m) : net' = r.rest /\ Charge(r.cost)
  BY <1>1
<1>3. client' = client
  BY DEF processServer
<1>4. m.dst = ServerPort
  BY <1>1, FirstTables
<1>5. r.rest \subseteq net /\ r.cost \in Nat
  BY ReceiptTakes
<1>6. faults' \in 0..MaxFaults /\ faults' = faults + r.cost /\ faults \in Nat
  BY <1>2, <1>5, ChargeAdds
<1>7. FaultsGrow /\ net' \subseteq net
  BY <1>2, <1>5, <1>6 DEF FaultsGrow
<1>8. CASE child' = child
  BY <1>3, <1>7, <1>8 DEF ClientRests
<1>9. CASE /\ Pids \ DOMAIN child # {}
           /\ child' = [p \in DOMAIN child \cup {pid} |->
                          IF p = pid THEN Forked(ParentFds, m) ELSE child[p]]
  <2>1. PICK q : q = pid
    OBVIOUS
  <2>2. child' = [p \in DOMAIN child \cup {q} |->
                    IF p = q THEN Forked(ParentFds, m) ELSE child[p]]
    BY <1>9, <2>1
  <2>3. /\ q \in Pids /\ q \notin DOMAIN child
        /\ DOMAIN child' = DOMAIN child \cup {q}
        /\ child' \in [DOMAIN child' -> ChildRecord]
        /\ NewChild(child'[q])
        /\ child'[q].state = "FILENAME" /\ child'[q].peer = m.src
        /\ \A p \in DOMAIN child : child'[p] = child[p]
    BY <1>9, <2>1, <2>2, ForkEffect
  <2>4. Forks(q, m)
    BY <1>3, <1>4, <1>7, <2>3 DEF Forks
  <2>5. QED
    BY <2>4
<1>10. QED
  BY <1>1, <1>8, <1>9

LEMMA ZombiesKind ==
  ASSUME TableInv, handleZombies
  PROVE  Reaps
<1> DEFINE dead == {p \in DOMAIN child : child[p].state = "ZOMBIE"}
<1>1. child' = [p \in DOMAIN child \ dead |-> child[p]]
  BY DEF handleZombies, Reaped, Restrict
<1>2. child \in [DOMAIN child -> ChildRecord]
  BY DEF TableInv
<1>3. client' = client /\ net' = net /\ faults' = faults
  BY DEF handleZombies
<1>4. QED
  BY <1>1, <1>2, <1>3 DEF Reaps

LEMMA ClientKind ==
  ASSUME TableInv, NEW c \in Clients, ClientStep(c) \/ TransferEnds(c)
  PROVE  ClientRests \/ Requests(c) \/ \E m : Accepts(c, m)
<1>1. faults \in Nat /\ faults \in 0..MaxFaults
  BY HandshakeAssumption DEF TableInv
<1>0. ASSUME ClientQuiet(c), child' = child, net' = net, faults' = faults
      PROVE  ClientRests
  BY <1>0, <1>1 DEF ClientRests, FaultsGrow
<1>2. CASE start_state(c)
  <2>1. ClientQuiet(c)
    BY <1>2, StartEffect DEF start_state
  <2>2. QED
    BY <1>0, <1>2, <2>1 DEF start_state
<1>3. CASE SendRequest(c)
  BY <1>3, SendRequestKind
<1>4. CASE OutOfRetries(c)
  <2>1. ClientQuiet(c)
    BY <1>4, ExitEffect DEF OutOfRetries
  <2>2. QED
    BY <1>0, <1>4, <2>1 DEF OutOfRetries
<1>5. CASE SetupFails(c)
  <2>1. ClientQuiet(c)
    BY <1>5, ExitEffect DEF SetupFails
  <2>2. QED
    BY <1>0, <1>5, <2>1 DEF SetupFails
<1>6. CASE TransferEnds(c)
  <2>1. ClientQuiet(c)
    BY <1>6, ExitEffect DEF TransferEnds
  <2>2. QED
    BY <1>0, <1>6, <2>1 DEF TransferEnds
<1>7. CASE wait_on_data_state(c)
  <2>1. ClientQuiet(c)
    BY <1>7, WaitOnDataEffect DEF wait_on_data_state
  <2>2. QED
    BY <1>0, <1>7, <2>1 DEF wait_on_data_state
<1>8. CASE RecvAnswer(c)
  BY <1>8, RecvAnswerKind
<1>9. CASE RequestTimeout(c)
  <2>1. PICK cost \in Nat : Charge(cost)
    BY <1>9 DEF RequestTimeout, TimesOut
  <2>2. faults' \in 0..MaxFaults /\ faults' = faults + cost
    BY <2>1, ChargeAdds
  <2>3. FaultsGrow
    BY <1>1, <2>2 DEF FaultsGrow
  <2>4. QED
    BY <1>9, <2>3, RequestTimeoutEffect DEF RequestTimeout, ClientRests
<1>10. CASE ReadOn(c)
  <2>1. PICK m \in net : \E r \in Receipts(m) : net' = r.rest /\ Charge(r.cost)
    BY <1>10 DEF ReadOn
  <2>2. PICK r \in Receipts(m) : net' = r.rest /\ Charge(r.cost)
    BY <2>1
  <2>3. r.rest \subseteq net /\ r.cost \in Nat
    BY ReceiptTakes
  <2>4. faults' \in 0..MaxFaults /\ faults' = faults + r.cost
    BY <2>2, <2>3, ChargeAdds
  <2>5. FaultsGrow
    BY <1>1, <2>3, <2>4 DEF FaultsGrow
  <2>6. QED
    BY <1>10, <2>2, <2>3, <2>5 DEF ReadOn, ClientRests
<1>11. QED
  BY <1>2, <1>3, <1>4, <1>5, <1>6, <1>7, <1>8, <1>9, <1>10 DEF ClientStep

LEMMA ChildKind ==
  ASSUME TableInv, NEW p \in DOMAIN child, ChildStep(p)
  PROVE  Answers(p) \/ Waits(p) \/ ChildRests(p) \/ \E m : Hears(p, m)
<1>1. ASSUME Dead(p), child[p].state # "DONE" PROVE ChildQuiet(p)
  BY <1>1, DeadEffect DEF ChildQuiet
<1>2. CASE filename_state(p)
  BY <1>2, FilenameKind
<1>3. CASE write_file_ok_ack_state(p)
  BY <1>3, HearsKind
<1>4. CASE FileOkAckTimeout(p)
  BY <1>4, WaitsKind
<1>5. CASE Serve(p)
  BY <1>5, ServeEffect DEF Serve, ChildRests, Awaits
<1>6. CASE CleanUp(p)
  BY <1>6, CleanUpEffect DEF CleanUp, ChildRests, Awaits
<1>7. CASE RecvFails(p)
  BY <1>1, <1>7 DEF RecvFails, ChildRests, Awaits
<1>8. CASE ChildSetupFails(p)
  BY <1>1, <1>8 DEF ChildSetupFails, ChildRests, Awaits
<1>9. QED
  BY <1>2, <1>3, <1>4, <1>5, <1>6, <1>7, <1>8 DEF ChildStep

\* Every step is one of these kinds.
LEMMA StepKinds ==
  ASSUME TableInv, [Next]_vars
  PROVE  \/ ClientRests \/ Reaps
         \/ \E c \in Clients : Requests(c) \/ \E m : Accepts(c, m)
         \/ \E p \in DOMAIN child :
              Answers(p) \/ Waits(p) \/ ChildRests(p) \/ \E m : Hears(p, m)
         \/ \E pid, m : Forks(pid, m)
<1>1. faults \in Nat /\ faults \in 0..MaxFaults
  BY HandshakeAssumption DEF TableInv
<1>2. CASE UNCHANGED vars
  BY <1>1, <1>2 DEF vars, ClientRests, FaultsGrow
<1>3. CASE PortClosed
  BY <1>1, <1>3 DEF PortClosed, ClientRests, FaultsGrow
<1>4. ASSUME NEW c \in Clients, ClientStep(c) \/ TransferEnds(c)
      PROVE  ClientRests \/ Requests(c) \/ \E m : Accepts(c, m)
  BY <1>4, ClientKind
<1>5. ASSUME NEW p \in DOMAIN child, ChildStep(p)
      PROVE  Answers(p) \/ Waits(p) \/ ChildRests(p) \/ \E m : Hears(p, m)
  BY <1>5, ChildKind
<1>6. CASE processServer
  BY <1>6, ServerKind
<1>7. CASE handleZombies
  BY <1>7, ZombiesKind
<1>8. QED
  BY <1>2, <1>3, <1>4, <1>5, <1>6, <1>7 DEF Next, Step

-------------------------------------------------------------------------------
(***************************************************************************)
(* Every process and every datagram by itself.                             *)
(***************************************************************************)
TableStep ==
  /\ client' \in [Clients -> ClientRecord]
  /\ \A c \in Clients : client'[c] = client[c] \/ NewClient(client'[c])
  /\ child' \in [DOMAIN child' -> ChildRecord] /\ DOMAIN child' \subseteq Pids
  /\ \A p \in DOMAIN child' : \/ p \in DOMAIN child /\ child'[p] = child[p]
                              \/ NewChild(child'[p])
  /\ \A m \in net' : m \in net \/ NewMessage(m)
  /\ faults' \in 0..MaxFaults

LEMMA TableStepKeeps ==
  ASSUME TableInv, TableStep
  PROVE  TableInv'
<1>1. \A c \in Clients : ClientOK(client'[c])
  BY DEF TableInv, TableStep, NewClient
<1>2. \A p \in DOMAIN child' : ChildOK(child'[p])
  BY DEF TableInv, TableStep, NewChild
<1>3. \A m \in net' : MessageOK(m)
  BY DEF TableInv, TableStep, NewMessage
<1>4. IsFiniteSet(UsedPorts')
  <2>1. \A c \in Clients :
          Range(client'[c].fds) \cup {client'[c].server} \subseteq Known
    BY ClientFacts DEF TableStep, NewClient
  <2>2. \A p \in DOMAIN child' :
          Range(child'[p].fds) \cup {child'[p].peer} \subseteq Known
    BY ChildFacts DEF TableStep, NewChild
  <2>3. \A m \in net' : {m.src, m.dst} \subseteq Known
    BY ChildFacts DEF TableStep, NewMessage
  <2>4. ServerPort \in Known
    BY DEF Known, UsedPorts
  <2>5. UsedPorts' \subseteq Known
    BY <2>1, <2>2, <2>3, <2>4 DEF UsedPorts
  <2>6. IsFiniteSet(Known)
    <3>1. IsFiniteSet(UsedPorts)
      BY DEF TableInv
    <3>2. IsFiniteSet(UsedPorts \cup {FILE})
      BY <3>1, FS_AddElement
    <3>3. IsFiniteSet((UsedPorts \cup {FILE}) \cup {UNBOUND})
      BY <3>2, FS_AddElement
    <3>4. IsFiniteSet(((UsedPorts \cup {FILE}) \cup {UNBOUND}) \cup {FreshPort})
      BY <3>3, FS_AddElement
    <3>5. Known = ((UsedPorts \cup {FILE}) \cup {UNBOUND}) \cup {FreshPort}
      BY DEF Known
    <3>6. QED
      BY <3>4, <3>5
  <2>7. QED
    BY <2>5, <2>6, FS_Subset
<1>5. QED
  BY <1>1, <1>2, <1>3, <1>4 DEF TableInv, TableStep

LEMMA InitTableInv == Init => TableInv
<1> SUFFICES ASSUME Init PROVE TableInv
  OBVIOUS
<1> DEFINE r == InitialClient
<1>1. client = [c \in Clients |-> r] /\ net = {} /\ faults = 0
  BY DEF Init
<1>2. child = <<>> /\ DOMAIN child = {} /\ child \in [DOMAIN child -> ChildRecord]
  <2>1. <<>> \in [{} -> ChildRecord] /\ DOMAIN <<>> = {}
    OBVIOUS
  <2>2. QED
    BY <2>1 DEF Init
<1>3. /\ r.state = "START" /\ r.fds = ProcessFileFds /\ r.server = UNBOUND
      /\ r \in ClientRecord
  <2>1. 0 \in 0..MAX_RETRIES
    BY HandshakeAssumption
  <2>2. QED
    BY <2>1, FirstTables DEF InitialClient, ClientRecord, ClientStates, Objects
<1> HIDE DEF r
<1>4. ClientOK(r)
  BY <1>3, FirstTables DEF ClientOK, ClientTable, HasRequestPort
<1>5. IsFiniteSet(UsedPorts)
  <2> DEFINE three == (({ServerPort} \cup {FILE}) \cup {UNBOUND})
  <2>1. IsFiniteSet({ServerPort})
    BY FS_Singleton
  <2>2. IsFiniteSet({ServerPort} \cup {FILE})
    BY <2>1, FS_AddElement
  <2>3. IsFiniteSet(three)
    BY <2>2, FS_AddElement
  <2>4. \A c \in Clients :
          Range(client[c].fds) \cup {client[c].server} \subseteq three
    BY <1>1, <1>3, FirstTables
  <2>5. UsedPorts \subseteq three
    BY <1>1, <1>2, <2>4 DEF UsedPorts
  <2>6. QED
    BY <2>3, <2>5, FS_Subset
<1>6. faults \in 0..MaxFaults
  BY <1>1, HandshakeAssumption
<1>7. QED
  BY <1>1, <1>2, <1>3, <1>4, <1>5, <1>6 DEF TableInv

LEMMA NextTableInv == TableInv /\ [Next]_vars => TableInv'
<1> SUFFICES ASSUME TableInv, [Next]_vars PROVE TableStep
  BY TableStepKeeps
<1>0. /\ client \in [Clients -> ClientRecord]
      /\ child \in [DOMAIN child -> ChildRecord] /\ DOMAIN child \subseteq Pids
      /\ faults \in 0..MaxFaults
  BY DEF TableInv
<1>1. ASSUME NEW c \in Clients, NEW r, ClientBecomes(c, r)
      PROVE  /\ client' \in [Clients -> ClientRecord]
             /\ \A d \in Clients : client'[d] = client[d] \/ NewClient(client'[d])
  BY <1>1 DEF ClientBecomes
<1>2. ASSUME NEW p \in DOMAIN child, NEW r, ChildBecomes(p, r)
      PROVE  /\ child' \in [DOMAIN child' -> ChildRecord]
             /\ DOMAIN child' \subseteq Pids
             /\ \A q \in DOMAIN child' : \/ q \in DOMAIN child /\ child'[q] = child[q]
                                         \/ NewChild(child'[q])
  BY <1>0, <1>2 DEF ChildBecomes
<1>3. ASSUME NEW x, NEW src \in Known, NEW dst \in Known, NEW flag,
             Letter(x, src, dst, flag)
      PROVE  NewMessage(x)
  BY <1>3 DEF Letter, NewMessage
<1>4. /\ FreshPort \in Known /\ ServerPort \in Known
      /\ \A m \in net : m.src \in Known /\ m.dst \in Known
      /\ \A p \in DOMAIN child : child[p].peer \in Known
  BY ChildFacts DEF Known, UsedPorts
<1>5. CASE ClientRests
  BY <1>0, <1>1, <1>5 DEF ClientRests, ClientQuiet, TableStep, FaultsGrow
<1>6. CASE Reaps
  BY <1>0, <1>6 DEF Reaps, TableStep
<1>7. ASSUME NEW c \in Clients, Requests(c) PROVE TableStep
  <2>1. \A x \in net' : x \in net \/ NewMessage(x)
    BY <1>3, <1>4, <1>7 DEF Requests
  <2>2. QED
    BY <1>0, <1>1, <1>7, <2>1 DEF Requests, TableStep, FaultsGrow
<1>8. ASSUME NEW c \in Clients, NEW m, Accepts(c, m) PROVE TableStep
  <2>1. \A x \in net' : x \in net \/ NewMessage(x)
    BY <1>3, <1>4, <1>8 DEF Accepts
  <2>2. QED
    BY <1>0, <1>1, <1>8, <2>1 DEF Accepts, TableStep, FaultsGrow
<1>9. ASSUME NEW p \in DOMAIN child, Answers(p) PROVE TableStep
  <2>1. \A x \in net' : x \in net \/ NewMessage(x)
    BY <1>3, <1>4, <1>9 DEF Answers
  <2>2. QED
    BY <1>0, <1>2, <1>9, <2>1 DEF Answers, TableStep, FaultsGrow
<1>10. ASSUME NEW p \in DOMAIN child, NEW m, Hears(p, m) PROVE TableStep
  BY <1>0, <1>2, <1>10 DEF Hears, TableStep, FaultsGrow
<1>11. ASSUME NEW p \in DOMAIN child, Waits(p) PROVE TableStep
  BY <1>0, <1>2, <1>11 DEF Waits, TableStep, FaultsGrow
<1>12. ASSUME NEW p \in DOMAIN child, ChildRests(p) PROVE TableStep
  BY <1>0, <1>2, <1>12 DEF ChildRests, ChildQuiet, TableStep
<1>13. ASSUME NEW pid, NEW m, Forks(pid, m) PROVE TableStep
  BY <1>0, <1>13 DEF Forks, TableStep, FaultsGrow
<1>14. QED
  BY <1>5, <1>6, <1>7, <1>8, <1>9, <1>10, <1>11, <1>12, <1>13, StepKinds

\* Every process keeps the descriptor table, the poll set and the counters
\* that its state calls for, whichever processes fail and whatever is lost,
\* and the kernel always finds a fresh port.
LEMMA TableInvHolds == Spec => []TableInv
<1>1. Init => TableInv
  BY InitTableInv
<1>2. TableInv /\ [Next]_vars => TableInv'
  BY NextTableInv
<1>3. QED
  BY <1>1, <1>2, PTL DEF Spec

\* Types, and the limits of both retry counters, for every number of rcopys.
THEOREM HandshakeTypeCorrect == Spec => []HandshakeTypeOK
<1>1. TableInv => HandshakeTypeOK
  <2> SUFFICES ASSUME TableInv PROVE HandshakeTypeOK
    OBVIOUS
  <2>1. \A fds \in Tables : IsTable(fds)
    BY TableFacts DEF IsTable, Descriptors, Range
  <2>2. ASSUME NEW c \in Clients
        PROVE  /\ client[c].state \in ClientStates
               /\ IsTable(client[c].fds)
               /\ client[c].count \in 0..MAX_RETRIES
               /\ client[c].server \in Objects
               /\ client[c].state = "POLLING" =>
                    client[c].socketNum \in DOMAIN client[c].fds
    BY <2>1, <2>2, ClientFacts, FirstTables DEF ClientRecord, ClientOK, ClientTable
  <2>3. ASSUME NEW p \in DOMAIN child
        PROVE  /\ child[p].state \in ChildStates
               /\ IsTable(child[p].fds)
               /\ child[p].count \in 0..(MAX_TIMEOUTS - 1)
               /\ child[p].state = "FILENAME" => MainSocketNum \in DOMAIN child[p].fds
    BY <2>1, <2>3, ChildFacts, FirstTables DEF ChildRecord, ChildOK
  <2>4. \A m \in net : {m.src, m.dst} \subseteq Nat /\ m.name \in Names
    BY ChildFacts DEF MessageOK, Ports
  <2>5. DOMAIN child \subseteq Pids /\ faults \in 0..MaxFaults
    BY DEF TableInv
  <2>6. QED
    BY <2>2, <2>3, <2>4, <2>5 DEF HandshakeTypeOK
<1>2. QED
  BY <1>1, TableInvHolds, PTL

\* The descriptor that processServer's loop reads is closed in every child that
\* returns into it, whichever way its transfer went.
THEOREM ReturnedChildrenAreDeaf == Spec => []ReturnedChildIsDeaf
<1>1. TableInv => ReturnedChildIsDeaf
  <2> SUFFICES ASSUME TableInv PROVE ReturnedChildIsDeaf
    OBVIOUS
  <2>1. QED
    BY ChildFacts, FirstTables DEF ReturnedChildIsDeaf, ChildOK
<1>2. QED
  BY <1>1, TableInvHolds, PTL

\* pollCall() is asked for the process's own socket and nothing else, for every
\* POLL_SET_SIZE, in every round.
THEOREM PollersPollTheirSocket == Spec => []PollersWatchTheirSocket
<1>1. TableInv => PollersWatchTheirSocket
  <2> SUFFICES ASSUME TableInv PROVE PollersWatchTheirSocket
    OBVIOUS
  <2>1. ASSUME NEW c \in Clients, client[c].state = "POLLING"
        PROVE  PollsItsSocket(client[c], client[c].socketNum)
    <3>1. /\ client[c].socketNum = 4 /\ client[c].poll = Watch(NoPollSet, 4)
          /\ 0 \in DOMAIN client[c].fds /\ 4 \in DOMAIN client[c].fds
      BY <2>1, ClientFacts, FirstTables DEF ClientOK, ClientTable, ClientRecord
    <3>2. QED
      BY <3>1, WatchedSocketIsPolled
  <2>2. ASSUME NEW p \in DOMAIN child,
               child[p].state \in {"WRITE_FILE_OK_ACK", "SEND_DATA"}
        PROVE  PollsItsSocket(child[p], child[p].childSocket)
    <3>1. /\ child[p].childSocket = 3 /\ child[p].poll = Watch(NoPollSet, 3)
          /\ 0 \in DOMAIN child[p].fds /\ 3 \in DOMAIN child[p].fds
      BY <2>2, ChildFacts, FirstTables DEF ChildOK
    <3>2. QED
      BY <3>1, WatchedSocketIsPolled
  <2>3. QED
    BY <2>1, <2>2 DEF PollersWatchTheirSocket
<1>2. QED
  BY <1>1, TableInvHolds, PTL

-------------------------------------------------------------------------------
(***************************************************************************)
(* A child that sends data sends it where rcopy reads.                     *)
(***************************************************************************)
LEMMA ServingLasts ==
  ASSUME NEW c \in Clients, NEW r, ClientBecomes(c, r), KeepsServing(client[c], r),
         NEW port, NEW peer, ServesAt(port, peer)
  PROVE  ServesAt(port, peer)'
<1>1. PICK d \in Clients :
        /\ client[d].server = port
        /\ \/ /\ client[d].state \in {"WAIT_ON_DATA", "PROCESS_TRANSFER"}
              /\ client[d].fds[ProcessSocketNum] = peer
           \/ client[d].state = "EXITED"
  BY DEF ServesAt
<1>2. CASE d = c
  <2>1. /\ client'[d].server = port
        /\ \/ /\ client'[d].state \in {"WAIT_ON_DATA", "PROCESS_TRANSFER"}
              /\ client'[d].fds[ProcessSocketNum] = peer
           \/ client'[d].state = "EXITED"
    BY <1>1, <1>2 DEF ClientBecomes, KeepsServing
  <2>2. QED
    BY <2>1 DEF ServesAt
<1>3. CASE d # c
  <2>1. client'[d] = client[d]
    BY <1>3 DEF ClientBecomes
  <2>2. QED
    BY <1>1, <2>1 DEF ServesAt
<1>4. QED
  BY <1>2, <1>3

\* Steps after which everybody still is served where he was.
LEMMA ServingStep ==
  ASSUME TableInv, [Next]_vars, NEW port, NEW peer, ServesAt(port, peer)
  PROVE  ServesAt(port, peer)'
<1>1. CASE client' = client
  BY <1>1 DEF ServesAt
<1>2. CASE ClientRests
  BY <1>1, <1>2, ServingLasts DEF ClientRests, ClientQuiet
<1>3. ASSUME NEW c \in Clients, Requests(c) PROVE ServesAt(port, peer)'
  BY <1>3, ServingLasts DEF Requests, KeepsServing
<1>4. ASSUME NEW c \in Clients, NEW m, Accepts(c, m) PROVE ServesAt(port, peer)'
  BY <1>4, ServingLasts DEF Accepts, KeepsServing, Polls
<1>5. QED
  BY <1>1, <1>2, <1>3, <1>4, StepKinds
     DEF Reaps, Answers, Waits, ChildRests, Hears, Forks

LEMMA InitServedInv == Init => ServedInv
<1> SUFFICES ASSUME Init PROVE ServedInv
  OBVIOUS
<1>1. net = {} /\ DOMAIN child = {}
  BY DEF Init
<1>2. QED
  BY <1>1 DEF ServedInv

\* Steps that add no acknowledgement and bring no child to SEND_DATA.
LEMMA NothingNewServed ==
  ASSUME TableInv, ServedInv, [Next]_vars,
         \A m \in net' : m.flag = FILE_OK_ACK => m \in net,
         \A p \in DOMAIN child' : child'[p].state = "SEND_DATA" =>
            p \in DOMAIN child /\ child'[p] = child[p]
  PROVE  ServedInv'
<1>1. \A m \in net' : m.flag = FILE_OK_ACK => ServesAt(m.dst, m.src)'
  BY ServingStep DEF ServedInv
<1>2. ASSUME NEW p \in DOMAIN child', child'[p].state = "SEND_DATA"
      PROVE  ServesAt(child[p].fds[MainSocketNum], child[p].peer)'
  <2>1. PICK port, peer : port = child'[p].fds[MainSocketNum] /\ peer = child'[p].peer
    OBVIOUS
  <2>2. ServesAt(port, peer)
    BY <1>2, <2>1 DEF ServedInv
  <2>3. ServesAt(port, peer)'
    BY <2>2, ServingStep
  <2>4. QED
    BY <2>1, <2>3
<1>3. QED
  BY <1>1, <1>2 DEF ServedInv

LEMMA NextServedInv == TableInv /\ ServedInv /\ [Next]_vars => ServedInv'
<1> SUFFICES ASSUME TableInv, ServedInv, [Next]_vars PROVE ServedInv'
  OBVIOUS
<1>1. CASE ClientRests \/ Reaps
  BY <1>1, NothingNewServed DEF ClientRests, Reaps
<1>2. ASSUME NEW c \in Clients, Requests(c) PROVE ServedInv'
  BY <1>2, NothingNewServed DEF Requests, Letter, FILENAME, FILE_OK_ACK
<1>3. ASSUME NEW c \in Clients, NEW m, Accepts(c, m) PROVE ServedInv'
  <2>1. ASSUME NEW x \in net', x.flag = FILE_OK_ACK, x \notin net
        PROVE  ServesAt(x.dst, x.src)'
    <3>1. x.src = m.dst /\ x.dst = m.src
      BY <1>3, <2>1 DEF Accepts, Letter
    <3>2. /\ client'[c].server = m.src /\ client'[c].state = "WAIT_ON_DATA"
          /\ client'[c].fds[ProcessSocketNum] = m.dst
      BY <1>3 DEF Accepts, ClientBecomes
    <3>3. QED
      BY <3>1, <3>2 DEF ServesAt
  <2>2. ASSUME NEW x \in net, x.flag = FILE_OK_ACK PROVE ServesAt(x.dst, x.src)'
    BY <2>2, ServingStep DEF ServedInv
  <2>3. ASSUME NEW p \in DOMAIN child', child'[p].state = "SEND_DATA"
        PROVE  ServesAt(child[p].fds[MainSocketNum], child[p].peer)'
    <3>1. PICK port, peer : port = child[p].fds[MainSocketNum] /\ peer = child[p].peer
      OBVIOUS
    <3>2. child' = child
      BY <1>3 DEF Accepts
    <3>3. ServesAt(port, peer)
      BY <2>3, <3>1, <3>2 DEF ServedInv
    <3>4. ServesAt(port, peer)'
      BY <3>3, ServingStep
    <3>5. QED
      BY <3>1, <3>2, <3>4
  <2>4. QED
    BY <2>1, <2>2, <2>3 DEF ServedInv
<1>4. ASSUME NEW p \in DOMAIN child, Answers(p) PROVE ServedInv'
  <2>1. Answer(child[p].name) # FILE_OK_ACK
    BY DEF Answer, FILE_OK, FILE_ERROR, FILE_OK_ACK
  <2>2. \A x \in net' : x.flag = FILE_OK_ACK => x \in net
    BY <1>4, <2>1 DEF Answers, Letter, FILE_OK_ACK
  <2>3. \A q \in DOMAIN child' : child'[q].state = "SEND_DATA" =>
          q \in DOMAIN child /\ child'[q] = child[q]
    BY <1>4 DEF Answers, ChildBecomes
  <2>4. QED
    BY <2>2, <2>3, NothingNewServed
<1>5. ASSUME NEW p \in DOMAIN child, Waits(p) \/ ChildRests(p) PROVE ServedInv'
  <2>1. net' = net
    BY <1>5 DEF Waits, ChildRests
  <2>2. \A q \in DOMAIN child' : child'[q].state = "SEND_DATA" =>
          q \in DOMAIN child /\ child'[q] = child[q]
    BY <1>5 DEF Waits, ChildRests, ChildQuiet, ChildBecomes
  <2>3. QED
    BY <2>1, <2>2, NothingNewServed
<1>6. ASSUME NEW p \in DOMAIN child, NEW m, Hears(p, m) PROVE ServedInv'
  <2>1. net' \subseteq net /\ client' = client /\ DOMAIN child' = DOMAIN child
    BY <1>6 DEF Hears, ChildBecomes
  <2>2. \A x \in net' : x.flag = FILE_OK_ACK => ServesAt(x.dst, x.src)'
    BY <2>1, ServingStep DEF ServedInv
  <2>3. ASSUME NEW q \in DOMAIN child, child'[q].state = "SEND_DATA"
        PROVE  ServesAt(child[q].fds[MainSocketNum], child[q].peer)'
    <3>1. PICK port, peer : port = child'[q].fds[MainSocketNum] /\ peer = child'[q].peer
      OBVIOUS
    <3>2. ServesAt(port, peer)
      <4>1. CASE q = p
        <5>1. m \in net /\ m.flag = FILE_OK_ACK /\ port = m.dst /\ peer = m.src
          BY <1>6, <2>3, <3>1, <4>1 DEF Hears, ChildBecomes, IsFileOkAck, ChildPort
        <5>2. QED
          BY <5>1 DEF ServedInv
      <4>2. CASE q # p
        BY <1>6, <2>3, <3>1, <4>2 DEF Hears, ChildBecomes, ServedInv
      <4>3. QED
        BY <4>1, <4>2
    <3>3. ServesAt(port, peer)'
      BY <3>2, ServingStep
    <3>4. QED
      BY <3>1, <3>3
  <2>4. QED
    BY <2>1, <2>2, <2>3 DEF ServedInv
<1>7. ASSUME NEW pid, NEW m, Forks(pid, m) PROVE ServedInv'
  BY <1>7, NothingNewServed DEF Forks
<1>8. QED
  BY <1>1, <1>2, <1>3, <1>4, <1>5, <1>6, <1>7, StepKinds

\* The client that a child sends data to reads on the socket of its request,
\* although processFile's number for it was given out several times.
THEOREM ServedSocketsAreRead == Spec => []ServedSocketIsRead
<1>1. TableInv /\ ServedInv => ServedSocketIsRead
  <2> SUFFICES ASSUME TableInv, ServedInv PROVE ServedSocketIsRead
    OBVIOUS
  <2>1. ASSUME NEW p \in DOMAIN child, child[p].state = "SEND_DATA"
        PROVE  child[p].childSocket = MainSocketNum
    BY <2>1, ChildFacts DEF ChildOK
  <2>2. QED
    BY <2>1 DEF ServedSocketIsRead, ServedInv, ServesAt
<1>2. Init => TableInv /\ ServedInv
  BY InitTableInv, InitServedInv
<1>3. TableInv /\ ServedInv /\ [Next]_vars => (TableInv /\ ServedInv)'
  BY NextTableInv, NextServedInv
<1>4. QED
  BY <1>1, <1>2, <1>3, PTL DEF Spec

-------------------------------------------------------------------------------
(***************************************************************************)
(* An acknowledgement finds the child that it answers.                     *)
(***************************************************************************)
RouteInv == PortsApart /\ LettersMatch

\* A step that makes nobody poll or await on a new port, and sends nothing; a
\* new child has a client whose request was on its way.
NothingNew ==
  /\ \A c \in Clients : client'[c].state = "POLLING" =>
       Polls(c) /\ client'[c].fds[ProcessSocketNum] = ClientPort(c)
  /\ \A p \in DOMAIN child' : child'[p].state = "WRITE_FILE_OK_ACK" =>
       /\ p \in DOMAIN child /\ Awaits(p)
       /\ child'[p].fds[MainSocketNum] = ChildPort(p)
       /\ child'[p].peer = child[p].peer
  /\ \A q \in DOMAIN child' : child'[q].state # "ZOMBIE" =>
       \/ /\ q \in DOMAIN child /\ child[q].state # "ZOMBIE"
          /\ child'[q].peer = child[q].peer
       \/ \E m \in net : m.dst = ServerPort /\ child'[q].peer = m.src
  /\ net' \subseteq net

LEMMA NothingNewRouted ==
  ASSUME RouteInv, NothingNew
  PROVE  RouteInv'
<1>1. PortsApart'
  <2>1. \A c, d \in Clients :
          Polls(c)' /\ Polls(d)' /\ ClientPort(c)' = ClientPort(d)' => c = d
    BY DEF RouteInv, PortsApart, NothingNew, Polls, ClientPort
  <2>2. \A p, q \in DOMAIN child' :
          Awaits(p)' /\ child'[q].state # "ZOMBIE" => ChildPort(p)' # child'[q].peer
    BY DEF RouteInv, PortsApart, NothingNew, Awaits, ChildPort
  <2>3. \A p \in DOMAIN child', m \in net' :
          Awaits(p)' /\ m.dst = ServerPort => ChildPort(p)' # m.src
    BY DEF RouteInv, PortsApart, NothingNew, Awaits, ChildPort
  <2>4. QED
    BY <2>1, <2>2, <2>3 DEF PortsApart
<1>2. LettersMatch'
  <2>1. \A p \in DOMAIN child', m \in net' :
          Awaits(p)' =>
            /\ m.dst = ChildPort(p)' => m.src = child'[p].peer
            /\ m.src = ChildPort(p)' /\ m.flag = FILE_OK => m.dst = child'[p].peer
    BY DEF RouteInv, LettersMatch, NothingNew, Awaits, ChildPort
  <2>2. \A c \in Clients, m \in net' :
          Polls(c)' /\ m.flag = FILE_OK_ACK => m.src # ClientPort(c)'
    BY DEF RouteInv, LettersMatch, NothingNew, Polls, ClientPort
  <2>3. QED
    BY <2>1, <2>2 DEF LettersMatch
<1>3. QED
  BY <1>1, <1>2 DEF RouteInv

LEMMA InitRouteInv == Init => RouteInv
<1> SUFFICES ASSUME Init PROVE RouteInv
  OBVIOUS
<1>1. net = {} /\ DOMAIN child = {}
  BY DEF Init
<1>2. \A c \in Clients : ~Polls(c)
  BY DEF Init, InitialClient, Polls
<1>3. QED
  BY <1>1, <1>2 DEF RouteInv, PortsApart, LettersMatch

LEMMA RestingRouted ==
  ASSUME TableInv, RouteInv
  PROVE  /\ ClientRests => NothingNew
         /\ Reaps => NothingNew
         /\ \A p \in DOMAIN child : Waits(p) \/ ChildRests(p) => NothingNew
         /\ \A p \in DOMAIN child : \A m : Hears(p, m) => NothingNew
         /\ \A pid, m : Forks(pid, m) => NothingNew
<1>1. ASSUME ClientRests PROVE NothingNew
  <2>1. \A c \in Clients : client'[c].state = "POLLING" =>
          Polls(c) /\ client'[c].fds[ProcessSocketNum] = ClientPort(c)
    BY <1>1 DEF ClientRests, ClientQuiet, ClientBecomes, Polls, ClientPort
  <2>2. QED
    BY <1>1, <2>1 DEF ClientRests, NothingNew, Awaits, ChildPort
<1>2. ASSUME Reaps PROVE NothingNew
  BY <1>2 DEF Reaps, NothingNew, Awaits, ChildPort, Polls, ClientPort
<1>3. ASSUME NEW p \in DOMAIN child, NEW r, ChildBecomes(p, r),
             client' = client, net' \subseteq net,
             child[p].state # "ZOMBIE",
             r.state # "ZOMBIE" => r.peer = child[p].peer,
             r.state = "WRITE_FILE_OK_ACK" =>
               Awaits(p) /\ r.fds[MainSocketNum] = ChildPort(p)
      PROVE  NothingNew
  BY <1>3 DEF ChildBecomes, NothingNew, Awaits, ChildPort, Polls, ClientPort
<1>4. ASSUME NEW p \in DOMAIN child, Waits(p) PROVE NothingNew
  BY <1>3, <1>4 DEF Waits, Awaits, ChildPort
<1>5. ASSUME NEW p \in DOMAIN child, ChildRests(p) PROVE NothingNew
  BY <1>3, <1>5 DEF ChildRests, ChildQuiet
<1>6. ASSUME NEW p \in DOMAIN child, NEW m, Hears(p, m) PROVE NothingNew
  <2>1. m.src = child[p].peer
    BY <1>6 DEF Hears, RouteInv, LettersMatch
  <2>2. QED
    BY <1>3, <1>6, <2>1 DEF Hears, Awaits, ChildPort
<1>7. ASSUME NEW pid, NEW m, Forks(pid, m) PROVE NothingNew
  BY <1>7 DEF Forks, NothingNew, Awaits, ChildPort, Polls, ClientPort
<1>8. QED
  BY <1>1, <1>2, <1>4, <1>5, <1>6, <1>7

\* Whoever polls or awaits has its port in use.
LEMMA PortsInUse ==
  ASSUME TableInv
  PROVE  /\ ServerPort \in UsedPorts
         /\ \A c \in Clients : Polls(c) => ClientPort(c) \in UsedPorts
         /\ \A p \in DOMAIN child : Awaits(p) =>
              ChildPort(p) \in UsedPorts /\ ChildPort(p) # ServerPort
<1>1. ServerPort \in UsedPorts
  BY DEF UsedPorts
<1>2. ASSUME NEW c \in Clients, Polls(c) PROVE ClientPort(c) \in UsedPorts
  <2>1. ProcessSocketNum \in DOMAIN client[c].fds
    BY <1>2, ClientFacts, FirstTables DEF ClientOK, ClientTable, Polls
  <2>2. ClientPort(c) \in Range(client[c].fds)
    BY <2>1 DEF Range, ClientPort
  <2>3. QED
    BY <2>2, ClientFacts
<1>3. ASSUME NEW p \in DOMAIN child, Awaits(p)
      PROVE  ChildPort(p) \in UsedPorts /\ ChildPort(p) # ServerPort
  <2>1. MainSocketNum \in DOMAIN child[p].fds /\ ChildPort(p) # ServerPort
    BY <1>3, ChildFacts, FirstTables DEF ChildOK, Awaits, ChildPort
  <2>2. ChildPort(p) \in Range(child[p].fds)
    BY <2>1 DEF Range, ChildPort
  <2>3. QED
    BY <2>1, <2>2, ChildFacts
<1>4. QED
  BY <1>1, <1>2, <1>3

LEMMA RequestRouted ==
  ASSUME TableInv, RouteInv, NEW c \in Clients, Requests(c)
  PROVE  RouteInv'
<1>1. /\ child' = child
      /\ client'[c].fds[ProcessSocketNum] = FreshPort
      /\ \A d \in Clients \ {c} : client'[d] = client[d]
      /\ \A x \in net' : x \in net \/ Letter(x, FreshPort, ServerPort, FILENAME)
  BY DEF Requests, ClientBecomes
<1>2. /\ FreshPort \notin UsedPorts
      /\ \A d \in Clients : Polls(d) => ClientPort(d) \in UsedPorts
      /\ \A p \in DOMAIN child : Awaits(p) =>
           ChildPort(p) \in UsedPorts /\ ChildPort(p) # ServerPort
      /\ \A m \in net : m.src \in UsedPorts
  BY PortsInUse, ChildFacts
<1>3. PortsApart'
  <2>1. \A a, b \in Clients :
          Polls(a)' /\ Polls(b)' /\ ClientPort(a)' = ClientPort(b)' => a = b
    BY <1>1, <1>2 DEF RouteInv, PortsApart, Polls, ClientPort
  <2>2. \A p, q \in DOMAIN child' :
          Awaits(p)' /\ child'[q].state # "ZOMBIE" => ChildPort(p)' # child'[q].peer
    BY <1>1 DEF RouteInv, PortsApart, Awaits, ChildPort
  <2>3. \A p \in DOMAIN child', m \in net' :
          Awaits(p)' /\ m.dst = ServerPort => ChildPort(p)' # m.src
    BY <1>1, <1>2 DEF RouteInv, PortsApart, Awaits, ChildPort, Letter
  <2>4. QED
    BY <2>1, <2>2, <2>3 DEF PortsApart
<1>4. LettersMatch'
  <2>1. \A p \in DOMAIN child', m \in net' :
          Awaits(p)' =>
            /\ m.dst = ChildPort(p)' => m.src = child'[p].peer
            /\ m.src = ChildPort(p)' /\ m.flag = FILE_OK => m.dst = child'[p].peer
    BY <1>1, <1>2 DEF RouteInv, LettersMatch, Awaits, ChildPort, Letter
  <2>2. \A d \in Clients, m \in net' :
          Polls(d)' /\ m.flag = FILE_OK_ACK => m.src # ClientPort(d)'
    <3> SUFFICES ASSUME NEW d \in Clients, NEW m \in net', Polls(d)',
                        m.flag = FILE_OK_ACK
                 PROVE  m.src # ClientPort(d)'
      OBVIOUS
    <3>1. m \in net
      BY <1>1 DEF Letter, FILENAME, FILE_OK_ACK
    <3>2. CASE d = c
      BY <1>1, <1>2, <3>1, <3>2 DEF ClientPort
    <3>3. CASE d # c
      BY <1>1, <3>1, <3>3 DEF RouteInv, LettersMatch, Polls, ClientPort
    <3>4. QED
      BY <3>2, <3>3
  <2>3. QED
    BY <2>1, <2>2 DEF LettersMatch
<1>5. QED
  BY <1>3, <1>4 DEF RouteInv

LEMMA AcceptRouted ==
  ASSUME TableInv, RouteInv, NEW c \in Clients, NEW m, Accepts(c, m)
  PROVE  RouteInv'
<1>1. /\ child' = child /\ ~Polls(c)'
      /\ \A d \in Clients \ {c} : client'[d] = client[d]
      /\ \A x \in net' : x \in net \/ Letter(x, m.dst, m.src, FILE_OK_ACK)
      /\ Polls(c) /\ m \in net /\ m.flag = FILE_OK /\ m.dst = ClientPort(c)
  BY DEF Accepts, ClientBecomes, Polls
<1>2. m.src # ServerPort
  BY <1>1, ChildFacts DEF MessageOK
<1>3. PortsApart'
  <2>1. \A a, b \in Clients :
          Polls(a)' /\ Polls(b)' /\ ClientPort(a)' = ClientPort(b)' => a = b
    BY <1>1 DEF RouteInv, PortsApart, Polls, ClientPort
  <2>2. \A p, q \in DOMAIN child' :
          Awaits(p)' /\ child'[q].state # "ZOMBIE" => ChildPort(p)' # child'[q].peer
    BY <1>1 DEF RouteInv, PortsApart, Awaits, ChildPort
  <2>3. \A p \in DOMAIN child', x \in net' :
          Awaits(p)' /\ x.dst = ServerPort => ChildPort(p)' # x.src
    BY <1>1, <1>2 DEF RouteInv, PortsApart, Awaits, ChildPort, Letter
  <2>4. QED
    BY <2>1, <2>2, <2>3 DEF PortsApart
<1>4. LettersMatch'
  <2>1. ASSUME NEW p \in DOMAIN child', NEW x \in net', Awaits(p)'
        PROVE  /\ x.dst = ChildPort(p)' => x.src = child'[p].peer
               /\ x.src = ChildPort(p)' /\ x.flag = FILE_OK => x.dst = child'[p].peer
    <3>1. p \in DOMAIN child /\ Awaits(p) /\ ChildPort(p)' = ChildPort(p)
          /\ child'[p].peer = child[p].peer
      BY <1>1, <2>1 DEF Awaits, ChildPort
    <3>2. CASE x \in net
      BY <3>1, <3>2 DEF RouteInv, LettersMatch
    <3>3. CASE Letter(x, m.dst, m.src, FILE_OK_ACK)
      BY <1>1, <3>1, <3>3
         DEF RouteInv, LettersMatch, Letter, FILE_OK, FILE_OK_ACK
    <3>4. QED
      BY <1>1, <3>2, <3>3
  <2>2. \A d \in Clients, x \in net' :
          Polls(d)' /\ x.flag = FILE_OK_ACK => x.src # ClientPort(d)'
    <3> SUFFICES ASSUME NEW d \in Clients, NEW x \in net', Polls(d)',
                        x.flag = FILE_OK_ACK
                 PROVE  x.src # ClientPort(d)'
      OBVIOUS
    <3>1. d # c /\ Polls(d) /\ ClientPort(d)' = ClientPort(d)
      BY <1>1 DEF Polls, ClientPort
    <3>2. CASE x \in net
      BY <3>1, <3>2 DEF RouteInv, LettersMatch
    <3>3. CASE Letter(x, m.dst, m.src, FILE_OK_ACK)
      BY <1>1, <3>1, <3>3 DEF RouteInv, PortsApart, Letter
    <3>4. QED
      BY <1>1, <3>2, <3>3
  <2>3. QED
    BY <2>1, <2>2 DEF LettersMatch
<1>5. QED
  BY <1>3, <1>4 DEF RouteInv

LEMMA AnswerRouted ==
  ASSUME TableInv, RouteInv, NEW p \in DOMAIN child, Answers(p)
  PROVE  RouteInv'
<1>1. /\ client' = client /\ DOMAIN child' = DOMAIN child
      /\ child'[p].fds[MainSocketNum] = FreshPort
      /\ child'[p].peer = child[p].peer
      /\ \A q \in DOMAIN child \ {p} : child'[q] = child[q]
      /\ child[p].state = "FILENAME" /\ child'[p].state # "ZOMBIE"
      /\ \A x \in net' : x \in net \/ Letter(x, FreshPort, child[p].peer,
                                             Answer(child[p].name))
  BY DEF Answers, ChildBecomes
<1>2. /\ FreshPort \notin UsedPorts /\ ServerPort \in UsedPorts
      /\ \A q \in DOMAIN child : child[q].peer \in UsedPorts
      /\ \A q \in DOMAIN child : Awaits(q) => ChildPort(q) \in UsedPorts
      /\ \A m \in net : m.src \in UsedPorts /\ m.dst \in UsedPorts
  BY PortsInUse, ChildFacts
<1>3. child[p].peer # ServerPort
  BY <1>1, ChildFacts DEF ChildOK
<1>4. Answer(child[p].name) # FILE_OK_ACK
  BY DEF Answer, FILE_OK, FILE_ERROR, FILE_OK_ACK
<1>5. PortsApart'
  <2>1. \A a, b \in Clients :
          Polls(a)' /\ Polls(b)' /\ ClientPort(a)' = ClientPort(b)' => a = b
    BY <1>1 DEF RouteInv, PortsApart, Polls, ClientPort
  <2>2. \A q, s \in DOMAIN child' :
          Awaits(q)' /\ child'[s].state # "ZOMBIE" => ChildPort(q)' # child'[s].peer
    BY <1>1, <1>2 DEF RouteInv, PortsApart, Awaits, ChildPort
  <2>3. \A q \in DOMAIN child', x \in net' :
          Awaits(q)' /\ x.dst = ServerPort => ChildPort(q)' # x.src
    BY <1>1, <1>2, <1>3 DEF RouteInv, PortsApart, Awaits, ChildPort, Letter
  <2>4. QED
    BY <2>1, <2>2, <2>3 DEF PortsApart
<1>6. LettersMatch'
  <2>1. ASSUME NEW q \in DOMAIN child', NEW x \in net', Awaits(q)'
        PROVE  /\ x.dst = ChildPort(q)' => x.src = child'[q].peer
               /\ x.src = ChildPort(q)' /\ x.flag = FILE_OK => x.dst = child'[q].peer
    <3>1. CASE q = p
      <4>1. ChildPort(q)' = FreshPort /\ child'[q].peer = child[p].peer
        BY <1>1, <3>1 DEF ChildPort
      <4>2. CASE x \in net
        BY <1>2, <4>1, <4>2
      <4>3. CASE Letter(x, FreshPort, child[p].peer, Answer(child[p].name))
        BY <1>2, <4>1, <4>3 DEF Letter
      <4>4. QED
        BY <1>1, <4>2, <4>3
    <3>2. CASE q # p
      <4>1. q \in DOMAIN child /\ Awaits(q) /\ ChildPort(q)' = ChildPort(q)
            /\ child'[q].peer = child[q].peer
        BY <1>1, <2>1, <3>2 DEF Awaits, ChildPort
      <4>2. CASE x \in net
        BY <4>1, <4>2 DEF RouteInv, LettersMatch
      <4>3. CASE Letter(x, FreshPort, child[p].peer, Answer(child[p].name))
        BY <1>1, <1>2, <4>1, <4>3 DEF RouteInv, PortsApart, Letter
      <4>4. QED
        BY <1>1, <4>2, <4>3
    <3>3. QED
      BY <3>1, <3>2
  <2>2. \A d \in Clients, x \in net' :
          Polls(d)' /\ x.flag = FILE_OK_ACK => x.src # ClientPort(d)'
    <3>1. \A x \in net' : x.flag = FILE_OK_ACK => x \in net
      BY <1>1, <1>4 DEF Letter, FILE_OK_ACK
    <3>2. QED
      BY <1>1, <3>1 DEF RouteInv, LettersMatch, Polls, ClientPort
  <2>3. QED
    BY <2>1, <2>2 DEF LettersMatch
<1>7. QED
  BY <1>5, <1>6 DEF RouteInv

LEMMA NextRouteInv == TableInv /\ RouteInv /\ [Next]_vars => RouteInv'
<1> SUFFICES ASSUME TableInv, RouteInv, [Next]_vars PROVE RouteInv'
  OBVIOUS
<1>1. CASE NothingNew
  BY <1>1, NothingNewRouted
<1>2. ASSUME NEW c \in Clients, Requests(c) PROVE RouteInv'
  BY <1>2, RequestRouted
<1>3. ASSUME NEW c \in Clients, NEW m, Accepts(c, m) PROVE RouteInv'
  BY <1>3, AcceptRouted
<1>4. ASSUME NEW p \in DOMAIN child, Answers(p) PROVE RouteInv'
  BY <1>4, AnswerRouted
<1>5. QED
  BY <1>1, <1>2, <1>3, <1>4, RestingRouted, StepKinds

\* An offer stands as long as its child waits.
LEMMA OfferLasts ==
  ASSUME NEW p \in DOMAIN child, p \in DOMAIN child', NEW m,
         child'[p].state = "WRITE_FILE_OK_ACK",
         child'[p].fds[MainSocketNum] = m.src,
         child'[p].count <= faults'
  PROVE  Offered(m)'
  BY DEF Offered, Awaits, ChildPort

LEMMA InitOffersStand == Init => OffersStand
<1> SUFFICES ASSUME Init PROVE OffersStand
  OBVIOUS
<1>1. net = {}
  BY DEF Init
<1>2. QED
  BY <1>1 DEF OffersStand

\* A child whose file-OK is on its way does not give up: each of its timeouts
\* is a fault, and there are fewer of those than it waits for.
LEMMA OfferStep ==
  ASSUME MaxFaults < MAX_TIMEOUTS, TableInv, RouteInv, [Next]_vars,
         NEW c \in Clients, Polls(c),
         NEW m \in net, m.flag = FILE_OK, m.dst = ClientPort(c), Offered(m)
  PROVE  Offered(m)'
<1>1. PICK p \in DOMAIN child : /\ Awaits(p)
                                /\ ChildPort(p) = m.src
                                /\ child[p].count <= faults
  BY DEF Offered
<1>2. child[p].state = "WRITE_FILE_OK_ACK" /\ child[p].fds[MainSocketNum] = m.src
  BY <1>1 DEF Awaits, ChildPort
<1>3. /\ child[p].count \in Nat /\ faults \in Nat
      /\ MaxFaults \in Nat /\ MAX_TIMEOUTS \in Nat
  BY ChildFacts, HandshakeAssumption DEF ChildRecord, TableInv
<1>4. ASSUME p \in DOMAIN child', child'[p] = child[p], faults' \in Nat, faults <= faults'
      PROVE  Offered(m)'
  BY <1>1, <1>2, <1>3, <1>4, OfferLasts
<1>5. FaultsGrow => faults' \in Nat /\ faults <= faults'
  BY <1>3 DEF FaultsGrow
<1>6. CASE ClientRests
  BY <1>4, <1>5, <1>6 DEF ClientRests
<1>7. CASE Reaps
  BY <1>2, <1>3, <1>4, <1>7 DEF Reaps
<1>8. ASSUME NEW d \in Clients, Requests(d) \/ \E x : Accepts(d, x)
      PROVE  Offered(m)'
  BY <1>4, <1>5, <1>8 DEF Requests, Accepts
<1>9. ASSUME NEW pid, NEW x, Forks(pid, x) PROVE Offered(m)'
  BY <1>4, <1>5, <1>9 DEF Forks
<1>10. ASSUME NEW q \in DOMAIN child, Answers(q) PROVE Offered(m)'
  <2>1. p # q
    BY <1>2, <1>10 DEF Answers
  <2>2. QED
    BY <1>4, <1>5, <1>10, <2>1 DEF Answers, ChildBecomes
<1>11. ASSUME NEW q \in DOMAIN child, ChildRests(q) PROVE Offered(m)'
  <2>1. p # q
    BY <1>1, <1>11 DEF ChildRests
  <2>2. QED
    BY <1>3, <1>4, <1>11, <2>1 DEF ChildRests, ChildQuiet, ChildBecomes
<1>12. ASSUME NEW q \in DOMAIN child, Waits(q) PROVE Offered(m)'
  <2>1. CASE q # p
    BY <1>4, <1>5, <1>12, <2>1 DEF Waits, ChildBecomes
  <2>2. CASE q = p
    <3>1. faults' = faults + 1 /\ faults' <= MaxFaults
      <4>1. \E x \in net : ChildPort(p) \in {x.src, x.dst}
        BY <1>1
      <4>2. Charge(1)
        BY <1>12, <2>2, <4>1 DEF Waits, TimesOut
      <4>3. QED
        BY <1>3, <4>2 DEF Charge
    <3>2. child[p].count + 1 < MAX_TIMEOUTS
      BY <1>1, <1>3, <3>1
    <3>3. /\ p \in DOMAIN child' /\ child'[p].fds = child[p].fds
          /\ child'[p].state = "WRITE_FILE_OK_ACK"
          /\ child'[p].count = child[p].count + 1
      BY <1>12, <2>2, <3>2 DEF Waits, ChildBecomes
    <3>4. child'[p].count <= faults'
      BY <1>1, <1>3, <3>1, <3>3
    <3>5. QED
      BY <1>2, <3>3, <3>4, OfferLasts
  <2>3. QED
    BY <2>1, <2>2
<1>13. ASSUME NEW q \in DOMAIN child, NEW x, Hears(q, x) PROVE Offered(m)'
  <2>1. CASE q # p
    BY <1>4, <1>5, <1>13, <2>1 DEF Hears, ChildBecomes
  <2>2. CASE q = p
    <3>1. x \in net /\ x.dst = ChildPort(p)
      BY <1>13, <2>2 DEF Hears
    <3>2. x.src = child[p].peer /\ m.dst = child[p].peer
      BY <1>1, <3>1 DEF RouteInv, LettersMatch
    <3>3. ~IsFileOkAck(x)
      BY <3>1, <3>2 DEF RouteInv, LettersMatch, IsFileOkAck
    <3>4. /\ p \in DOMAIN child' /\ child'[p].fds = child[p].fds
          /\ child'[p].state = "WRITE_FILE_OK_ACK"
          /\ child'[p].count = child[p].count
      BY <1>13, <2>2, <3>3 DEF Hears, ChildBecomes
    <3>5. faults' \in Nat /\ faults <= faults'
      BY <1>5, <1>13 DEF Hears
    <3>6. child'[p].count <= faults'
      BY <1>1, <1>3, <3>4, <3>5
    <3>7. QED
      BY <1>2, <3>4, <3>6, OfferLasts
  <2>3. QED
    BY <2>1, <2>2
<1>14. QED
  BY <1>6, <1>7, <1>8, <1>9, <1>10, <1>11, <1>12, <1>13, StepKinds

LEMMA NextOffersStand ==
  ASSUME MaxFaults < MAX_TIMEOUTS
  PROVE  TableInv /\ RouteInv /\ OffersStand /\ [Next]_vars => OffersStand'
<1> SUFFICES ASSUME TableInv, RouteInv, OffersStand, [Next]_vars,
                    NEW c \in Clients, NEW m \in net',
                    Polls(c)', m.flag = FILE_OK, m.dst = ClientPort(c)'
             PROVE  Offered(m)'
  BY DEF OffersStand
<1>1. ASSUME m \in net, Polls(c), ClientPort(c)' = ClientPort(c)
      PROVE  Offered(m)'
  BY <1>1, OfferStep DEF OffersStand
<1>2. CASE NothingNew
  BY <1>1, <1>2 DEF NothingNew, Polls, ClientPort
<1>3. ASSUME NEW d \in Clients, Requests(d) PROVE Offered(m)'
  <2>1. m \in net
    BY <1>3 DEF Requests, Letter, FILENAME, FILE_OK
  <2>2. CASE d = c
    <3>1. ClientPort(c)' = FreshPort
      BY <1>3, <2>2 DEF Requests, ClientBecomes, ClientPort
    <3>2. QED
      BY <2>1, <3>1, ChildFacts
  <2>3. CASE d # c
    BY <1>1, <1>3, <2>1, <2>3 DEF Requests, ClientBecomes, Polls, ClientPort
  <2>4. QED
    BY <2>2, <2>3
<1>4. ASSUME NEW d \in Clients, NEW x, Accepts(d, x) PROVE Offered(m)'
  <2>1. m \in net
    BY <1>4 DEF Accepts, Letter, FILE_OK_ACK, FILE_OK
  <2>2. d # c
    BY <1>4 DEF Accepts, ClientBecomes, Polls
  <2>3. QED
    BY <1>1, <1>4, <2>1, <2>2 DEF Accepts, ClientBecomes, Polls, ClientPort
<1>5. ASSUME NEW p \in DOMAIN child, Answers(p) PROVE Offered(m)'
  <2>1. CASE m \in net
    BY <1>1, <1>5, <2>1 DEF Answers, Polls, ClientPort
  <2>2. CASE Letter(m, FreshPort, child[p].peer, Answer(child[p].name))
    <3>1. m.src = FreshPort /\ child[p].name \in Files
      BY <2>2 DEF Letter, Answer, FILE_OK, FILE_ERROR
    <3>2. /\ p \in DOMAIN child' /\ child'[p].state = "WRITE_FILE_OK_ACK"
          /\ child'[p].fds[MainSocketNum] = FreshPort /\ child'[p].count = 0
      BY <1>5, <3>1 DEF Answers, ChildBecomes
    <3>3. 0 <= faults'
      BY <1>5, HandshakeAssumption DEF Answers, FaultsGrow
    <3>4. QED
      BY <3>1, <3>2, <3>3, OfferLasts
  <2>3. QED
    BY <1>5, <2>1, <2>2 DEF Answers
<1>6. QED
  BY <1>2, <1>3, <1>4, <1>5, RestingRouted, StepKinds

\* rcopy empties its output file only for a child that has the file open and
\* waits for rcopy's acknowledgement, if fewer polls are late than the child
\* waits for; with any other faults, and any number of rcopys and children.
THEOREM AcksFindTheirChild ==
  ASSUME MaxFaults < MAX_TIMEOUTS
  PROVE  Spec => AckFindsItsChild
<1> DEFINE Inv == TableInv /\ RouteInv /\ OffersStand
           Found(c) ==
             client[c].state = "POLLING" /\ client'[c].state = "WAIT_ON_DATA" =>
               \E p \in DOMAIN child :
                 /\ child[p].state = "WRITE_FILE_OK_ACK"
                 /\ child[p].fds[child[p].childSocket] = client'[c].server
                 /\ child[p].fds[child[p].file] = FILE
                 /\ client[c].fds[client[c].socketNum] = child[p].peer
<1>1. Init => Inv
  BY InitTableInv, InitRouteInv, InitOffersStand
<1>2. Inv /\ [Next]_vars => Inv'
  BY NextTableInv, NextRouteInv, NextOffersStand
<1>3. Inv /\ [Next]_vars => [\A c \in Clients : Found(c)]_vars
  <2> SUFFICES ASSUME TableInv, RouteInv, OffersStand, [Next]_vars,
                      NEW c \in Clients,
                      client[c].state = "POLLING", client'[c].state = "WAIT_ON_DATA"
               PROVE  \E p \in DOMAIN child :
                        /\ child[p].state = "WRITE_FILE_OK_ACK"
                        /\ child[p].fds[child[p].childSocket] = client'[c].server
                        /\ child[p].fds[child[p].file] = FILE
                        /\ client[c].fds[client[c].socketNum] = child[p].peer
    OBVIOUS
  <2>1. client'[c] # client[c]
    OBVIOUS
  <2>2. \E m : Accepts(c, m)
    <3>1. ~ClientRests
      BY <2>1 DEF ClientRests, ClientQuiet, ClientBecomes
    <3>2. ASSUME NEW d \in Clients PROVE ~Requests(d)
      BY <2>1 DEF Requests, ClientBecomes
    <3>3. ASSUME NEW d \in Clients, NEW m, Accepts(d, m) PROVE d = c
      BY <2>1, <3>3 DEF Accepts, ClientBecomes
    <3>4. QED
      BY <2>1, <3>1, <3>2, <3>3, StepKinds
         DEF Reaps, Answers, Waits, ChildRests, Hears, Forks
  <2>3. PICK m : Accepts(c, m)
    BY <2>2
  <2>4. /\ m \in net /\ m.flag = FILE_OK /\ m.dst = ClientPort(c) /\ Polls(c)
        /\ client'[c].server = m.src
    BY <2>3 DEF Accepts, ClientBecomes
  <2>5. PICK p \in DOMAIN child : Awaits(p) /\ ChildPort(p) = m.src
    BY <2>4 DEF OffersStand, Offered
  <2>6. m.dst = child[p].peer
    BY <2>4, <2>5 DEF RouteInv, LettersMatch
  <2>7. /\ child[p].childSocket = MainSocketNum /\ child[p].file = 4
        /\ child[p].fds[4] = FILE
    BY <2>5, ChildFacts DEF ChildOK, Awaits
  <2>8. client[c].socketNum = ProcessSocketNum
    BY ClientFacts DEF ClientRecord
  <2>9. QED
    BY <2>4, <2>5, <2>6, <2>7, <2>8 DEF Awaits, ChildPort, ClientPort
<1>4. QED
  BY <1>1, <1>2, <1>3, PTL DEF Spec, AckFindsItsChild

\* The end of processClient after a transfer: nothing is freed or closed that
\* the child does not have, and nothing but the standard streams stays open.
THEOREM TransfersCleanUp == Spec => TransferCleansUp
<1> DEFINE Clean ==
      \A p \in DOMAIN child :
        child[p].state = "DONE" /\ child[p].windowReady /\ child'[p] # child[p] =>
          /\ child'[p].state = "PROCESS_SERVER"
          /\ DOMAIN child'[p].fds = DOMAIN Stdio
<1>1. TableInv /\ [Next]_vars => [Clean]_vars
  <2> SUFFICES ASSUME TableInv, [Next]_vars, NEW p \in DOMAIN child,
                      child[p].state = "DONE", child[p].windowReady,
                      child'[p] # child[p]
               PROVE  /\ child'[p].state = "PROCESS_SERVER"
                      /\ DOMAIN child'[p].fds = DOMAIN Stdio
    OBVIOUS
  <2>1. ~Reaps /\ child' # child /\ ~ \E pid, m : Forks(pid, m)
    BY DEF Reaps, Forks
  <2>2. ASSUME NEW q \in DOMAIN child,
               Answers(q) \/ Waits(q) \/ \E m : Hears(q, m)
        PROVE  FALSE
    BY <2>2 DEF Answers, Waits, Hears, ChildBecomes, Awaits
  <2>3. PICK q \in DOMAIN child : ChildRests(q)
    BY <2>1, <2>2, StepKinds DEF ClientRests, Requests, Accepts
  <2>4. q = p
    BY <2>3 DEF ChildRests, ChildQuiet, ChildBecomes
  <2>5. child'[p].state = "PROCESS_SERVER" /\ DOMAIN child'[p].fds = 0..2
    BY <2>3, <2>4 DEF ChildRests, ChildQuiet, ChildBecomes
  <2>6. QED
    BY <2>5, FirstTables
<1>2. QED
  BY <1>1, TableInvHolds, PTL DEF Spec, TransferCleansUp
===============================================================================
