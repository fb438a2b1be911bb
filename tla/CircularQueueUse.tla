--------------------------- MODULE CircularQueueUse ---------------------------
(***************************************************************************)
(* circularQueue.c on its own: one queue under every sequence of calls of  *)
(* its interface, also those the server does not make (inserting numbers   *)
(* out of order, into a full ring or a taken slot, removing what is not    *)
(* there).  The packet inserted under a number is named by that number.    *)
(***************************************************************************)
EXTENDS CircularQueue

CONSTANTS
  WindowSizes,  \* bound: the sizes the queue is initialised with
  MaxSeq        \* bound: the sequence numbers used are 0..MaxSeq

ASSUME UseAssumption == WindowSizes \subseteq Nat \ {0} /\ MaxSeq \in Nat

VARIABLES
  queue,
  inserted,   \* the numbers whose insert returned 0 and that are still held
  freed       \* CircularQueue_free was called; only init is legal

useVars == <<queue, inserted, freed>>

SeqNums == 0..MaxSeq

UseInit ==
  /\ \E size \in WindowSizes : queue = CircularQueue_init(size)
  /\ inserted = {}
  /\ freed = FALSE

InsertOne(s) ==
  /\ ~freed
  /\ queue' = CircularQueue_insert(queue, s, s + 1)
  /\ inserted' = IF queue' = queue THEN inserted ELSE inserted \cup {s}
  /\ UNCHANGED freed

RemoveOne(s) ==
  /\ ~freed
  /\ queue' = CircularQueue_remove(queue, s)
  /\ inserted' = inserted \ {s}
  /\ UNCHANGED freed

Clear ==
  /\ ~freed
  /\ queue' = CircularQueue_clear(queue)
  /\ inserted' = {}
  /\ UNCHANGED freed

Free ==
  /\ ~freed
  /\ queue' = CircularQueue_free(queue)
  /\ inserted' = {}
  /\ freed' = TRUE

Reuse ==
  /\ freed
  /\ \E size \in WindowSizes : queue' = CircularQueue_init(size)
  /\ freed' = FALSE
  /\ UNCHANGED inserted

UseNext ==
  \/ \E s \in SeqNums : InsertOne(s) \/ RemoveOne(s)
  \/ Clear \/ Free \/ Reuse

UseSpec == UseInit /\ [][UseNext]_useVars

-------------------------------------------------------------------------------
UseTypeOK ==
  /\ queue \in [entries    : [0..(queue.WindowSize - 1) -> QueueEntry],
                WindowSize : Nat,
                ValidCount : Nat]
  /\ inserted \subseteq SeqNums
  /\ freed \in BOOLEAN

\* ValidCount, which is_full and is_empty trust, never drifts from the flags
\* of the entries, whatever is inserted or removed in vain.
CountIsValid == queue.ValidCount = Cardinality(ValidSlots(queue))

\* The ring holds what was inserted and not removed, and nothing else; each
\* packet is found again under its own number.
HoldsInserted ==
  /\ Outstanding(queue) = inserted
  /\ \A s \in inserted :
       \E e \in CircularQueue_get(queue, s) : e.valid /\ e.packet = s + 1

\* Ownership of the malloc()ed packets: an entry points to one exactly when it
\* is valid, so that none is leaked, freed twice or used after it was freed.
PacketsOwned ==
  \A i \in DOMAIN queue.entries :
    queue.entries[i].valid <=> queue.entries[i].packet # NULL

\* wait_on_ack_state's loop for an RR: what has become of the ring when i has
\* reached ack.
RemoveLoop(q, ack) ==
  LET ring[i \in 0..ack] == IF i <= 1 THEN q ELSE CircularQueue_remove(ring[i - 1], i - 1)
  IN  ring[ack]

\* The loop, from 1 up to what an RR acknowledges, is what RemoveBelow computes
\* at once, in every state.
RemoveBelowIsTheLoop ==
  ~freed => \A ack \in 0..(MaxSeq + 1) : RemoveBelow(queue, ack) = RemoveLoop(queue, ack)
===============================================================================
