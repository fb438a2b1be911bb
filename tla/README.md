# Remote file copy over UDP: TLA+ models and proofs

`rcopy` fetches a file from `server` over UDP. The program has its own sliding
window with receiver-ready (RR) and selective-reject (SREJ) acknowledgements,
retransmission, and an end-of-file exchange; the sockets go through a library
that drops datagrams and flips bits on purpose. This directory models the
requests, the transfer and the bytes on the wire, checks them with TLC on small instances, and proves with TLAPS what
holds for every window size, file, chunk size and number of faults.

Line numbers below are those of `src/Workspace/`.

## 1. The system

### Components, their state and operations

| Component | State | Operations | Model |
|---|---|---|---|
| Circular queue (`circularQueue.c`) | `entries[i].{packet, sequenceNum, valid}`, `WindowSize`, `ValidCount` | init, insert, get, remove, is_full, is_empty, clear, free | `CircularQueue`, `CircularQueueUse` |
| Server child (`server.c` 131-192, 260-492) | `STATE`, the queue, `sequenceNum`, `count`, `timeoutCount`, `ServerInfo.{eofSeq, eofResendCount}` | the state functions of the transfer | `Server` |
| rcopy, transfer (`rcopy.c` 239-389, `functions.c` 96-145) | `TRANSFER_STATE`, `ReceiveInfo.{expected, highest, buffer}`, the output file | `process_transfer_state` (IN_ORDER, OUT_OF_ORDER, FLUSH), `buffer_packet`, `send_rr`, `send_srej`, `send_eof_ack_state` | `Rcopy` |
| PDU format (`functions.c` 22-54, `checksum.h`) | none | `createPDU`, `in_cksum`, byte order of the fields | `WireFormat`, `Codec`, `DataPath` |
| Socket set-up (`networks.c` 144-210) | descriptors, ports | `udpServerSetup`, `setupUdpClientToServer`, and their failure | `Handshake`; the TCP functions are not modelled |
| Sockets and their error library (declared in `cpe464.h`) | datagrams on their way | `sendtoErr`, `recvfrom` | `Network` (external) |
| Poll library (`pollLib.c`) | `pollFileDescriptors`, `maxFileDescriptor`, `currentPollSetSize` | setup, add, remove, poll, grow | `PollSet`, used by `Handshake`; neither program calls remove |
| Server parent, request handling (`server.c` 65-128, 195-257) | listening socket, children, SIGCHLD | fork per request, open the file, answer, reap | `Handshake` |
| rcopy, request handling (`rcopy.c` 54-237) | retry counter, descriptors | request, wait for the answer, acknowledge it | `Handshake` |
| Name lookup, `safeUtil.c` | none | wrappers of library calls | not modelled |
| `myClient.c`, `myServer.c` | none shared | a TCP echo example | not modelled, used by neither program |

### How they interact

The parent receives a request, forks, and the child opens a socket of its own;
from then on one child and one rcopy exchange datagrams:

```
 server child                          rcopy
   file-OK (9)         ------->        opens the output file
                       <-------        file-OK acknowledgement (34), sent once
   data (16/17/18, n)  ------->        writes, buffers or ignores
                       <-------        RR (5, expected) or SREJ (6, expected)
   EOF (10, n)         ------->        flushes, closes the file
                       <-------        EOF acknowledgement (35, n), sent once, exits
```

The child polls with a timeout (one second, or zero after each packet sent);
rcopy blocks in `recvfrom()` without one. Nothing is shared but the two flows.

### What is hard

* **Ordering and loss.** RRs are cumulative and may be late or repeated; an SREJ
  may be stale when it is answered; three kinds of data packet carry the same
  chunk; the EOF goes out while data is still outstanding.
* **Two rings.** Both sides reuse slots modulo their window. `insert` refuses a
  taken slot and its caller ignores that; `get` returns entries that do not match.
* **Two counters and three states** in rcopy's loop, with a flush that happens one
  datagram late.
* **Timeouts and retries.** Three loops of ten tries in the child, none in rcopy.
* **Byte order.** The window size, the buffer size and the checksum are each
  converted at one end only.
* **The poll set.** It is set up anew for every wait, keeps the highest descriptor
  of earlier ones, grows by reallocation, and its unused entries name descriptor 0.
* **Processes.** A fork per request, also per repeated request; a child that
  returns into its parent's loop.

### What makes each component correct

* Queue: the count equals the valid entries, a packet is owned by exactly the
  valid entries, what was inserted and not removed is found again; under the
  child's discipline it is a sliding window.
* Child: `insert` never fails, what rcopy lacks is still held, the window limits
  how far it runs ahead, it ends.
* rcopy: the output is the beginning of the file, states, counters and buffer
  agree, it acknowledges only what is written, nothing that it reads is lost.
* Poll set: `poll()` is given no entry past the array, and it watches exactly the
  socket its caller then reads.
* Bytes: the chunks put together are the file, whatever chunk size arrived; a
  packet carries the bytes of its number; the checksum finds every flipped bit.
* Both: the copy is complete when it is closed, the last acknowledgement is
  recognised and nothing else is taken for it, both processes end.

`PROJECT.json` lists every hazard at its line, with the property that watches it, and a note where no property watches
all of it.

## 2. The modules

| Module | Role |
|---|---|
| `PduFlags` | the flag bytes |
| `WireFormat` | the PDU as a record, byte order of the window field, the checksum of a PDU without payload |
| `Network` | the two flows, and the faults: drop, flip, dup, reorder, delay |
| `CircularQueue` | the ring, one operator per C function |
| `Server` | the child: variables, one action per state function or per place where it waits |
| `Rcopy` | the receive loop: one action per kind of datagram, one operator per case of the switch |
| `Transfer` | child, rcopy and network composed; fairness; the properties |
| `FileCopy`, `SendWindow` | abstract specifications: what a copy promises (`PrefixSpec`; `WholeSafety` and `WholeSpec` where nothing is lost); what a sliding window promises, over a set |
| `MCTransfer` | the instance TLC runs, with the refinement mappings to the two |
| `CircularQueueUse` | the ring driven by every sequence of calls |
| `PollSet` | `pollLib`: the array indexed by descriptor, one operator per C function, and `poll()` |
| `Handshake` | rcopy's requests, the server process, its children from `fork()` to zombie, with descriptor tables, poll sets, ports and signals |
| `Codec` | PDUs as bytes: `createPDU`, `in_cksum`, the receivers' fields and tests |
| `DataPath` | the request's sizes, the chunks and the copy as bytes, one datagram at a time; checks `WireFormat` against `Codec` |
| `MCDataPath` | the instance of `DataPath` TLC runs: names and files of a few lengths |
| `Induction` | division with remainder, least elements, induction up to a bound, and the existence of a loop's run, without operator parameters |
| `CircularQueueProofs` | slots, least elements; what the ring's operations do to it |
| `CircularQueueUseProofs` | theorems about `CircularQueueUse` |
| `ServerProofs` | lemmas about the network and about the child |
| `TransferProofs` | lemmas about rcopy; theorems about `Transfer` |
| `RefinementProofs` | the refinements of `MCTransfer`; the transfer without losses |
| `HandshakeProofs` | theorems about `Handshake`, with lemmas about descriptor tables, ports and `PollSet` |
| `DataPathProofs` | theorems about `DataPath`, with lemmas about `Codec`'s sums, bytes and PDUs |

### Correspondence

**Data.** Chunk *i* of the file is represented by *i*; a payload is a chunk,
`NULL`, or `Garbage` (a bit was flipped in it). A PDU is its number, flag, payload and `intact`,
which says whether the checksum field agrees with the rest. The only place in the
program that looks at a checksum is `wait_on_eof_ack_state`, and there the model
computes it (`in_cksum`, `ChecksumAccepted`).

**Atomicity.** One action is what a process does from one receipt (or timeout) to
the next: handlers touch only their own state and the flows, so finer steps
would only interleave with the arrival of datagrams they do not read. Exceptions
are the places where a poll sits inside a function: `send_data_state` is split
at its `pollCall`s into `SendData`, `DrainEnds`, `RecvWhileDraining`, `RecvWhileFull`,
`TimeoutWhileFull`, `SendEof`, and `childState` distinguishes the top of its loops
(`SEND_DATA`) from the drain loop (`DRAIN`). The removal loop of
`wait_on_ack_state` is one operator (`RemoveBelow`); `CircularQueueUse` writes the
loop over `CircularQueue_remove` as a recursive function (`RemoveLoop`), and the two are
checked and proved equal.

**rcopy's buffer** is a partial function from slots to payloads: the entries with
`valid` set. The number stored in an entry and the packet's length are never
read and are left out.
`FlushCount` is how far the flush loop gets.

**Faults.** `MaxFaults` bounds them for TLC. A poll times out for free only when
both flows are empty: a second is long against a round trip; otherwise it costs a
fault of kind "delay". Drops, flips and delays are the error library's and the
network's, duplication and reordering are UDP's.

**Undefined behaviour.** A child that gives up before `SEND_DATA` frees a queue it
never initialised (server.c 177): `CleanUp` lets it exit or crash. Answering an
SREJ from an entry whose packet is `NULL` copies from address 7: the child crashes.

**Handshake.** `client[c]` is one rcopy: the state of `processFile`, its descriptor table, the
locals `socketNum` and `count` of `wait_on_file_ok_state`. `child[p]` is one child process: its `STATE`,
its descriptor table, `ServerInfo.{clientAddr, childSocket, file}`. Descriptors are modelled
because both programs depend on `socket()` returning the lowest free one. `processFile` keeps the
number of a socket that `wait_on_file_ok_state` closes (the argument is passed by value); the
new socket gets the same number, so `wait_on_data_state` reads the right one. A child closes the
server's socket and its own gets that number; when it returns into `processServer`'s loop,
that number is closed and `safeRecvfrom` exits. The datagrams on their way are a set without order: a
process sends each of these PDUs at most once per socket. `SEND_DATA` and `PROCESS_TRANSFER` stand for
module `Transfer`, whose `Init` is the moment after rcopy's acknowledgement. A poll that
times out although something for or from its port is on its way is a fault. The kernel is taken not
to give out a port to which datagrams or a child's answers may still come. `signal()` has BSD
semantics (the Makefile's `-std=gnu99`), so SIGCHLD does not interrupt `recvfrom()`; `fork()` succeeds.
`fclose(NULL)`, where a refused child ends (server.c 189), is a crash. Either side's socket set-up
may fail at any time, name lookup included: the process then exits (`SetupFails`, `ChildSetupFails`).

**Poll set.** An entry is represented by its `events`: entry *i* is either descriptor *i* with
`POLLIN` or, as `calloc` and `growPollSet` leave it, descriptor 0 with no events. `setupPollSet` makes a new array and
keeps `maxFileDescriptor`. The program's `POLL_SET_SIZE` of 10 is 2 in the run, so that every
process grows its set. `StdinHungUp` says whether descriptor 0 reports a hang-up, which
`poll()` does without being asked; it is FALSE in the run (see "Also seen").

**DataPath.** One rcopy and one child, one datagram on its way at a time, none lost: everything that
order and loss can do is in `Transfer`, the opening of the files in `Handshake`. What is kept is the
arithmetic of bytes: both sizes of the request are used as they came off the wire, after `ntohs()`
was computed and overwritten (server.c 251-255); `fread` of that many bytes; the numbers and
checksums of the PDUs. Only the request can be damaged here, because what a damaged request does to
the sizes is the open question; damage to data and acknowledgements is in `Transfer`
and, for the checksum, in `ChecksumFindsFlip`. `UNDEFINED` is what follows a write past an array: a chunk
longer than `MAXBUF`, or the terminator of a name of `FILENAME_SIZE` bytes. `MAXBUF` (1400), `FILENAME_SIZE` (100), the names
and the files are constants; names and files are any sequences of bytes, of which `MCDataPath` takes a few lengths. `WireFormatIsExact` ties this module to the others: their `htons` and `ChecksumAccepted` give
what the bytes give.

### Left out of the model, inside the modelled parts

* `malloc`, `fork` and the output file's `fopen` do not fail; `recvfrom` fails only on a closed
  descriptor (`RecvFails`).
* In `Transfer`, a window argument that is a multiple of 65536 (`WindowAssumption`). It makes the child's window
  zero, which is always full: in `DataPath` such a child never sends a chunk.
* `ByteBase` scales the byte down so that the exchange of the window's bytes shows
  with small windows: with base 2, window 3 stays 3 and window 1 becomes 2.
* In `Transfer` the size of a chunk and in `Handshake` the request's two sizes: they are in `DataPath`.
* `printPDU`, which neither program calls, apart from its test of the checksum (`ChecksumIsZero`); the usage messages and the debugging output;
  of `checkArgs` the tests of the number of arguments and of the error rate.

## 3. What is checked

`CHECK_DEADLOCK FALSE` everywhere but for the queue: the system stops when both processes have ended.

| Run | Checks | Shows |
|---|---|---|
| `copy` | `TypeOK`, `MissingIsHeld`, `WithinWindow`, `PrefixWritten`, `NoMislabelledData`, `BufferAgreesWithState`, `AcksAreEarned`, `CopyIsPrefix`, `EofAckMeansClosed` | Window 3 at both ends, 34 chunks, three faults out of drop, dup, reorder, delay. 416,697 states. |
| `child` | `WindowContiguous`, `RingIsSendWindow`, `ChildEnds` | Window 1 in rcopy, 2 in the child, 5 chunks, two faults of any kind including flips of three bits of a number. 32,294 states. |
| `no_loss` | `CopyIsWhole` | No loss and fewer timeouts than the limit: the copy is closed complete. 1,775 states. |
| `queue` | `UseTypeOK`, `CountIsValid`, `HoldsInserted`, `PacketsOwned`, `RemoveBelowIsTheLoop` | All call sequences over rings of one, two and three slots, with numbers from 0 to 6. 221 states. |
| `request` | `HandshakeTypeOK`, `ServedSocketIsRead`, `ReturnedChildIsDeaf`, `PollersWatchTheirSocket`, `AckFindsItsChild`, `TransferCleansUp`, `RequestsEnd`, `ChildrenAreReaped` | One rcopy that tries twice, up to three children at once, two faults out of drop, flip, dup, delay, and any socket set-up may fail. 272,260 states. |
| `bytes` | `WholeFileCopied`, `ChunkOfItsNumber`, `ChecksumFindsFlip`, `WireFormatIsExact` | Three windows, seven buffer sizes, files of five lengths, any one bit of the request flipped. 93,564 states. |

**Bounds.** 34 chunks in a window of three use every slot of both rings many times, so
that wrapping, a full window, an aliased slot and a released one all occur, with
retransmissions of each kind. Three faults are enough for a loss whose repair is
itself lost or overtaken. 34 chunks are also the least for which the EOF's number (35) passes
the child's checksum test, so that the run reaches a finished exchange. `MAX_TIMEOUTS`
is 10 in the program and 2 or 3 here: only that there is a limit matters.
In `request` two faults produce two children for one request, a child of an abandoned request, a late answer,
a refusal of a damaged request, and children that die together; they are fewer than the child's
timeouts because a request lasts one second and the child waits ten.
In `bytes` the buffer sizes are those that arrive as 0 (0), as 1, 2 and 3 (256, 512, 768), as more than the file holds (1, which
arrives as 256), as more than the array holds (257, which stays 257), and truncated to 16 bits (66560, which is sent as 1024 and
arrives as 4); the file lengths are zero, one below, at and above the array's size, and one whose end of file
passes the checksum test with chunks of one byte.

**Fairness** (`FairSpec`): weak fairness of the child's steps, of rcopy's steps and of
the kernel's discarding of datagrams for closed ports. Each process runs on its own and is only
ever blocked in a poll or receive that returns when a datagram is there, or in a
poll that times out; the flows are finite and the faults bounded, so this is what
the operating system provides. No single branch is assumed fair. In
`Handshake` the only assumption is that the system does not stop while some step other than the end of rcopy's
transfer is possible (`WF_vars(Step)`): every behaviour is finite, so nobody needs a fairness of his own.
That rcopy's transfer ends is not assumed (`rcopy_hangs`), that a child's ends is `ChildEnds`.

**Abstract specifications.** `CopyIsPrefix` maps `outFile` and `transferState = "DONE"` to a
`FileCopy` that only grows along the file; `CopyIsWhole` in addition requires
that it is closed whole, and in the end. `RingIsSendWindow` maps the ring to the set of numbers it
holds and the child's steps to `SendNext` and `Release` of `SendWindow`.

### Where the code and its documentation disagree

Six runs expect a violation; each states what the documentation or a comment says.

| Run | Property | What the code does |
|---|---|---|
| `truncated_copy` | `CompleteWhenDone` | The EOF follows the last chunk at once (server.c 369) and rcopy closes on any EOF (rcopy.c 297-313): a chunk lost near the end is missing for good. |
| `resend_by_index` | `TimeoutResendsOldest` | The timeout resends the first valid slot by index (server.c 343), not the oldest packet. Only an SREJ can then get the oldest one resent. |
| `eof_ack_checksum` | `EofAckEndsTransfer` | The child compares `ntohs(checksum)` with a checksum that was sent in host order (server.c 456): the acknowledgement passes only for EOF numbers that are 35 modulo 257. |
| `rcopy_hangs` | `RcopyEnds` | The file-OK acknowledgement is sent once (rcopy.c 217-223), then rcopy blocks without a timeout. |
| `window_swapped` | `PrefixWritten` | The converted window size is overwritten by the unconverted one (server.c 254): two packets of one window share a slot of rcopy's buffer and a wrong chunk is written. |
| `chunk_size` | `FixedSizePackets` | The same for the buffer size (server.c 255): a buffer size of 2 is used as 512. |

Also seen. A late SREJ, for a number below the window whose slot is empty, is answered from the packet
`CircularQueue_get` returns all the same (circularQueue.c 52): `NULL`, and the child crashes. `Transfer` reaches
this crash without damaged datagrams too, with windows of three and four faults (an SREJ overtaken by the RRs sent after it), which
is one more than `copy` explores; in `child` a flipped bit causes it. With a hung-up standard input `pollCall` returns descriptor 0 at once, since the unused
entries of the set name it: rcopy and the child then block in a receive without a timeout, and with `StdinHungUp = TRUE`
`RequestsEnd` fails. A buffer size of 0, or a multiple of 65536, gives an empty copy without an error; one of 1000 is used as 59395, more
than the payload array holds. A name of 100 bytes, which rcopy accepts, has its terminator written past the child's array
(server.c 227). A window of 65536 becomes zero and nothing is ever sent. Further, data packets are written without their checksum being
verified (rcopy.c 316), so a flipped payload bit reaches the file, and a request with a flipped bit in
its name is answered for that name; the data packet whose arrival triggers rcopy's flush is itself
dropped (rcopy.c 349); a refused request (flag 33) is repeated for ever,
since the retry counter starts again (rcopy.c 230): `RequestsEnd` holds for a file that is
there and would fail with `Files = {}`; a refused child ends in `fclose(NULL)` (server.c 189); the output
is opened twice (rcopy.c 210, 254); `setupPollSet` is called again without the old set being freed (`PollersWatchTheirSocket` shows that nothing worse comes of it).

## 4. What is proved

Every theorem holds for all values of the constants that satisfy the models' named assumptions
(`ByteBaseAssumption`, `WindowArgAssumption`, `WindowAssumption`, `FaultAssumption`, `ServerAssumption`,
`UseAssumption`, `HandshakeAssumption`, `PollSetSizeAssumption`, `DataPathAssumption`): any window, file, chunk size,
retry limits, poll set size, number of rcopys, children and faults.

| Theorem | Statement | Under |
|---|---|---|
| `TransferProofs` | | |
| `TypeCorrect` | `Spec => []TypeOK` | no more |
| `WindowStaysContiguous` | `Spec => []WindowContiguous` | no more: flipped bits included |
| `EofAckIsTheEnd` | `Spec => EofAckMeansClosed` | no more: flipped bits included |
| `CopyIsAPrefix` | `Spec => []PrefixWritten` | (*) |
| `MissingStaysHeld` | `Spec => []MissingIsHeld` | (*) |
| `FlowControl` | `Spec => []WithinWindow` | (*) |
| `BufferAgrees` | `Spec => []BufferAgreesWithState` | (*) |
| `DataIsLabelled` | `Spec => []NoMislabelledData` | (*) |
| `AcksStayEarned` | `Spec => []AcksAreEarned` | (*) |
| `RefinementProofs` | | |
| `RingImplementsWindow` | `Spec => RingIsSendWindow` | no more: flipped bits included |
| `OutFileImplementsCopy` | `Spec => CopyIsPrefix` | (*) |
| `CompleteWithoutLoss` | `Spec => []CompleteWhenDone` | `FaultKinds \subseteq {"dup", "delay"}` |
| `OutFileImplementsWholeCopy` | `Spec => Copy!WholeSafety` | `FaultKinds \subseteq {"dup", "delay"}` |
| `CircularQueueUseProofs` | | |
| `UseTypeCorrect` | `UseSpec => []UseTypeOK` | no more |
| `CountStaysValid` | `UseSpec => []CountIsValid` | no more |
| `InsertedIsHeld` | `UseSpec => []HoldsInserted` | no more |
| `PacketsStayOwned` | `UseSpec => []PacketsOwned` | no more |
| `LoopIsRemoveBelow` | `RemoveLoop(q, ack) = RemoveBelow(q, ack)` | a ring whose count is right |
| `LoopStaysRemoveBelow` | `UseSpec => []RemoveBelowIsTheLoop` | no more |
| `HandshakeProofs` | | |
| `HandshakeTypeCorrect` | `Spec => []HandshakeTypeOK` | no more |
| `ReturnedChildrenAreDeaf` | `Spec => []ReturnedChildIsDeaf` | no more |
| `PollersPollTheirSocket` | `Spec => []PollersWatchTheirSocket` | no more |
| `ServedSocketsAreRead` | `Spec => []ServedSocketIsRead` | no more |
| `AcksFindTheirChild` | `Spec => AckFindsItsChild` | `MaxFaults < MAX_TIMEOUTS` |
| `TransfersCleanUp` | `Spec => TransferCleansUp` | no more |
| `DataPathProofs` | | |
| `ChunksHaveTheirNumber` | `Spec => []ChunkOfItsNumber` | `NumbersFit` |
| `FileIsWhole` | `Spec => []WholeFileCopied` | `NumbersFit` |
| `FlipsAreFound` | `Spec => []ChecksumFindsFlip` | `NumbersFit`, `DatagramsFit` |
| `WireFormatHolds` | `Spec => []WireFormatIsExact` | `NumbersFit` |

(*) `ServerWindow <= WindowArg` and `"flip" \notin FaultKinds`. Both are needed:
`window_swapped` violates `PrefixWritten` without the first, and no data checksum
is verified. The first is what the code's exchange of the bytes leaves of "both
windows are equal": it holds for windows such as 257 and 512, and it fails for 1..255, which
is why `window_swapped` matters in practice.

`MaxFaults < MAX_TIMEOUTS` is needed too: a child whose ten polls have all timed out gives up, and its
file-OK may still be on its way.

`FaultKinds \subseteq {"dup", "delay"}`: datagrams may be repeated and polls may time out as often as one
likes, nothing is lost, damaged or overtaken. `truncated_copy` violates `CompleteWhenDone` with one loss; the
windows need not be equal.

`NumbersFit`: every file is shorter than 2^32 - 1 bytes, so that its packets, of at least one byte each, are numbered in the 32
bits of the header. After that many packets the program's number starts again at zero, and the property no longer says what it
means. `DatagramsFit`: `MAXBUF + 7` and `FILENAME_SIZE + 11` are below 65536; the program's arrays have 1400 and 100 bytes. It
keeps the words of a PDU few enough that `in_cksum`'s two folds carry every overflow back.

### The argument: the transfer

1. *Rings* (`CircularQueueProofs`). `RingHolds(q, W, lo, hi)` says that the ring
   holds the numbers `lo..hi-1`, each with its chunk in slot `s % W`, and nothing else. Numbers
   less than `W` apart have different slots (`SlotsDiffer`), so the next number's
   slot is free unless the ring is full: `RingInsert`. The removal loop for `ack` leaves
   `RingHolds(q, W, max(lo, min(ack, hi)), hi)`: `RingRelease`, where the count is right because
   the released slots are as many as the released numbers (`SlotsOfInterval`).
2. *Network* (`ServerProofs`). Deliveries and transmissions make up no datagram:
   invariants about "every datagram on its way" only need to look at what is sent.
3. *Child* (`ServerProofs`). `ServerInv` is inductive on its own, whatever arrives. It
   strengthens the type invariant by `RingHolds`, by `sequenceNum >= 1` while data is sent
   (the removal loop starts at 1), and by strict bounds of the counters while their
   loops run. `ChildEffect` is what rcopy can see of a step: the numbers grow, the
   oldest one moves only because of an RR above it, and a data packet carries its own
   chunk unless it answers an SREJ for a number that is no longer held.
4. *rcopy* (`TransferProofs`). The flush count exists (`LeastNatural`), so the flush only touches
   buffered slots; an RR or SREJ that is sent carries `expected'`.
5. *Copy* (`TransferProofs`). `CopyInv` is a circle that has to be closed all at once: RRs on their way
   are not above `expected`, so the ring's low end is not either; so an SREJ, whose number
   is at most `expected`, is answered with the right chunk or with a packet rcopy will
   ignore; so data packets rcopy can use carry their own chunk; and as all numbers from
   `expected` up to the child's next one are less than rcopy's window apart, two
   buffered packets never share a slot, the flush writes the right ones, and what is
   acknowledged is written.
6. *End of file.* For `EofAckIsTheEnd` the invariant is that an undamaged EOF acknowledgement is on its way only once rcopy
   is done (`EofAckTrue`); a flip makes none, since it leaves the checksum field wrong, so `CopyInv` is not needed.
7. *Refinement* (`RefinementProofs`). Under `ServerInv` the abstract set of held numbers is the interval
   `LowEnd..sequenceNum-1` (`HeldIsInterval`). So an insert is `SendNext`, whose guard is that the ring was not
   full; an RR that releases something is `Release`, with the number before the new low end
   as its witness; the other steps of the child leave number, set and phase alone. For `FileCopy`, `CopyInv` says that
   what is written is a beginning of the file before and after the step, so it is enough that the step lengthens it, or
   closes it, and that no step writes after the file is closed.
8. *No loss* (`RefinementProofs`). Without losses and overtaking the flow to rcopy is in sequence: every number below that of
   a datagram on its way is already written or in front of it (`InSequence`), and nothing sent is missing (`Covers`). A repeated or resent packet keeps it so,
   because its number is below the child's next one. Hence rcopy never leaves `IN_ORDER`, its buffer stays empty, and the
   EOF, whose number is one more than the last chunk's, arrives when every chunk is written. None of this needs
   `CopyInv`, so the windows may differ. `NoLossInv` was model-checked on three instances before it was proved.

The invariants `ServerInv`, `RcopyInv` and `CopyInv` imply the properties above; the theorems add
that implication and `PTL`.

### The argument: the ring on its own

`HoldsSet(q, W, held)` is `RingHolds` without the interval: every valid entry is for a number of `held`, in the slot of its number, and
every number of `held` has one, and an entry has a packet exactly when it is valid; `Counted(q)` says that the count is the
number of valid entries. `UseInv`, which puts these together for a queue in use and for a freed one, is inductive as a whole:
whether an insert is refused depends on `is_full`, which reads the count, and the count is decremented without a
test. `LoopIsRemoveBelow` says that the loop's ring after each pass is `RemoveBelow` of that pass's number.
The loop is a recursive function on `0..ack`; that such a function exists and satisfies its equation (`LoopRuns`), and
induction over the passes (`InductionUpTo`, for a set of numbers that contains 0 and with each of its numbers the next), are
in `Induction`, both from the least element of a set of naturals. It is why `RemoveBelow` may stand for the
loop in the proofs about the transfer.

### The argument: requests

The proof goes in three layers.

1. *Kernel and library.* Sets of naturals have a minimum, so `socket()` and `fopen()` get the
   descriptor the code counts on (`LowestFree`, `OpenAdds`, `CloseRemoves`); a fresh port exists while finitely many are used; setting up
   a poll set again for the same socket gives the same set (`WatchOf`).
2. *Steps.* For each action a lemma says what becomes of the process (`FilenameEffect`, `AckEffect`, ...), and `StepKinds` sums
   them up: in every step some rcopy rests, requests or accepts; or a child answers, hears, waits or rests; or the
   server forks or reaps. What follows only looks at these nine kinds.
3. *Invariants.* `TableInv` says what each process has open in each of its states, for instance that `processFile`'s number 4 is free or is the
   latest request's socket, and that a returned child has only the standard descriptors, and that the ports in use are
   finite. It gives the type, `ReturnedChildIsDeaf`, `PollersWatchTheirSocket` and `TransferCleansUp`. `ServedInv` adds that
   an acknowledgement on its way comes from an rcopy that has kept its socket since, or has exited. `RouteInv` says that
   ports of different requests and children are apart and that whatever reaches a waiting child comes from its own
   client. `OffersStand` says that the child behind a file-OK that somebody polls for still waits and has counted no more timeouts than there
   were faults: a timeout with the file-OK on its way is one. The four were model-checked, with one rcopy and
   with two, before they were proved.

### The argument: the bytes

1. *Sums.* `WordSum`, the loop of `in_cksum`, is a recursive function on the positions of a PDU; by `LoopRuns` and `InductionUpTo` it
   is a sum with a known bound (`WordSumBounds`) in which one byte changed counts by its weight, 256 or 1 (`WordSumUpdate`).
   The two folds keep the sum modulo 65535 (`ComplementOfSum`), so a PDU with its checksum filled in sums to zero modulo 65535
   (`ChecksumOfPdu`). One flipped bit changes the sum by a power of two below 65536, which 65535 does not divide
   (`FlipChangesSum`).
2. *PDUs.* `PduParts`: number, flag and payload are read back as `createPDU` was given them, the number because it has
   four bytes (`NtohlHtonl`). The acknowledgement of an EOF is seven bytes whose sum is known (`AckSum`), and
   `ntohs` of a checksum is the checksum itself exactly when its two bytes are equal; since 65535 = 255 * 257 this is the residue 35
   modulo 257 (`AckResidue`).
3. *Chunks.* The file position is a function of the number: `Position(File, size, n)`. The chunk there is
   `Chunk(File, size, n)`, and the file up to one position with the next chunk is the file up to the next (`NextPrefix`).
4. *Invariant.* `BytesInv` says where the child's file position is, that the last packet put into the window is the PDU of the last number, which
   four kinds of PDU can be on their way, and that rcopy has every packet except perhaps that one. It was model-checked before it was
   proved, and holds under `NumbersFit`, whatever the request's damage made of the sizes. With an empty chunk
   size `Position` stays 0 and the copy is empty, otherwise the end of file means the position is the file's length.

### Only model-checked

Liveness, because TLAPS does neither liveness nor `ENABLED`: `ChildEnds`, `RequestsEnd`, `ChildrenAreReaped`, and of `CopyIsWhole`
its fairness, that the file is closed in the end (`OutFileImplementsWholeCopy` proves the rest). Every other property of a passing run is a theorem.

## 5. Not modelled

* `gethostbyname.c`: turns a host name into an address each time rcopy sets up a socket; it keeps no state, and its failure is `SetupFails`.
* `safeUtil.c`: library calls that exit on failure; the failures the programs can meet in the modelled
  parts appear where they are called.
* `networks.c`, the TCP functions: called only by `myClient.c` and `myServer.c`, an echo example
  that neither program uses or links with its own state.
* `removeFromPollSet`: called by neither program.
* `cpe464.h`: declarations of the error library, whose code is not in the repository; its behaviour is
  `Network`'s and `Handshake`'s faults.

## 6. Plan

In this order; all of it is done.

1. `WireFormat`, `Network`, `CircularQueue`, `Server`, `Rcopy`, `Transfer`: the transfer, with
   `FileCopy` and `SendWindow` as what it promises.
2. `CircularQueueUse`: the ring on its own.
3. `ServerProofs`, `TransferProofs`: types, the window, the copy.
4. `Handshake`: the server, its children and rcopy's requests.
5. `PollSet`: array size against the highest descriptor; what repeated set-up does.
6. `Codec`, `DataPath`: the checksum and the request's fields as bytes.
7. Proofs: refinement of `FileCopy` and `SendWindow` (safety), `EofAckMeansClosed`, the invariants of
   `CircularQueueUse`, and those of `Handshake` with `PollSet`.
8. Proofs about `DataPath`, for any file and any chunk size, and the removal loop itself.
9. The safety of `CopyIsWhole`: the transfer without losses.

What would come next: a file of more than 2^32 packets, whose numbers start again; and the TCP example, should it become part of
the program.
