---------------------------- MODULE CircularQueue -----------------------------
(***************************************************************************)
(* circularQueue.c: the ring in which the child keeps the PDUs it has sent *)
(* and that rcopy has not acknowledged.  A queue is a record; an operation *)
(* that changes it returns the new queue.  The packet of an entry is the   *)
(* chunk it carries (the PDU's own sequence number is the entry's), or     *)
(* NULL; its length is left out.  malloc() does not fail.                  *)
(***************************************************************************)
EXTENDS WireFormat, FiniteSets

QueueEntry == [packet : Int, sequenceNum : Nat, valid : BOOLEAN]

\* calloc() zeroes every entry, the sequence number included.
CircularQueue_init(windowSize) ==
  [entries    |-> [i \in 0..(windowSize - 1) |->
                     [packet |-> NULL, sequenceNum |-> 0, valid |-> FALSE]],
   WindowSize |-> windowSize,
   ValidCount |-> 0]

ValidSlots(queue) == {i \in DOMAIN queue.entries : queue.entries[i].valid}

Outstanding(queue) == {queue.entries[i].sequenceNum : i \in ValidSlots(queue)}

IndexOf(queue, sequenceNum) == sequenceNum % queue.WindowSize

\* Mutant: off by one.
CircularQueue_is_full_Late(queue) == queue.ValidCount > queue.WindowSize

CircularQueue_is_full(queue) == queue.ValidCount >= queue.WindowSize

CircularQueue_is_empty(queue) == queue.ValidCount = 0

\* Mutant: the slot is not looked at.
CircularQueue_insert_Overwrites(queue, sequenceNum, packet) ==
  LET index == IndexOf(queue, sequenceNum)
  IN  IF CircularQueue_is_full(queue)
      THEN queue
      ELSE [queue EXCEPT
              !.entries[index] = [packet      |-> packet,
                                  sequenceNum |-> sequenceNum,
                                  valid       |-> TRUE],
              !.ValidCount = @ + 1]

\* Returns -1 (here: the same queue) when the ring is full or the slot taken.
CircularQueue_insert(queue, sequenceNum, packet) ==
  LET index == IndexOf(queue, sequenceNum)
  IN  IF CircularQueue_is_full(queue) \/ queue.entries[index].valid
      THEN queue
      ELSE [queue EXCEPT
              !.entries[index] = [packet      |-> packet,
                                  sequenceNum |-> sequenceNum,
                                  valid       |-> TRUE],
              !.ValidCount = @ + 1]

\* The entry returned, as a set that is empty when the function returns NULL.
\* The test is the source's: an entry that does NOT match is returned too.
CircularQueue_get(queue, sequenceNum) ==
  {e \in {queue.entries[IndexOf(queue, sequenceNum)]} :
     e.valid \/ e.sequenceNum # sequenceNum}

\* Mutant: an entry removed before is removed again.
CircularQueue_remove_Twice(queue, sequenceNum) ==
  LET index == IndexOf(queue, sequenceNum)
  IN  IF queue.entries[index].sequenceNum # sequenceNum
      THEN queue
      ELSE [queue EXCEPT
              !.entries[index].packet = NULL,
              !.entries[index].valid  = FALSE,
              !.ValidCount = IF @ > 0 THEN @ - 1 ELSE @]

\* Mutant: the packet pointer dangles.
CircularQueue_remove_Dangling(queue, sequenceNum) ==
  LET index == IndexOf(queue, sequenceNum)
      entry == queue.entries[index]
  IN  IF ~entry.valid \/ entry.sequenceNum # sequenceNum
      THEN queue
      ELSE [queue EXCEPT
              !.entries[index].valid = FALSE,
              !.ValidCount = @ - 1]

CircularQueue_remove(queue, sequenceNum) ==
  LET index == IndexOf(queue, sequenceNum)
      entry == queue.entries[index]
  IN  IF ~entry.valid \/ entry.sequenceNum # sequenceNum
      THEN queue
      ELSE [queue EXCEPT
              !.entries[index].packet = NULL,
              !.entries[index].valid  = FALSE,
              !.ValidCount = @ - 1]

\* Mutant: the loop runs to ack instead of ack - 1.
ReleasedBy_AckIncluded(queue, ack) ==
  {i \in ValidSlots(queue) : queue.entries[i].sequenceNum \in 1..ack}

\* Mutant: only the acknowledged number is removed, as the line that is
\* commented out in the source did.
ReleasedBy_AckOnly(queue, ack) ==
  {i \in ValidSlots(queue) : queue.entries[i].sequenceNum = ack}

\* The loop of wait_on_ack_state that removes 1, 2, ..., ack - 1 in turn.
ReleasedBy(queue, ack) ==
  {i \in ValidSlots(queue) :
     /\ queue.entries[i].sequenceNum \in 1..(ack - 1)
     /\ IndexOf(queue, queue.entries[i].sequenceNum) = i}

RemoveBelow(queue, ack) ==
  LET released == ReleasedBy(queue, ack)
  IN  [queue EXCEPT
         !.entries = [i \in DOMAIN queue.entries |->
                        IF i \in released
                        THEN [queue.entries[i] EXCEPT !.packet = NULL,
                                                      !.valid  = FALSE]
                        ELSE queue.entries[i]],
         !.ValidCount = @ - Cardinality(released)]

CircularQueue_clear(queue) ==
  [queue EXCEPT
     !.entries = [i \in DOMAIN queue.entries |->
                    IF queue.entries[i].valid
                    THEN [queue.entries[i] EXCEPT !.packet = NULL, !.valid = FALSE]
                    ELSE queue.entries[i]],
     !.ValidCount = 0]

\* Mutant: the size is kept.
CircularQueue_free_KeepsSize(queue) ==
  [CircularQueue_clear(queue) EXCEPT !.entries = <<>>]

\* The entries are freed; the count is the one clear() left.
CircularQueue_free(queue) ==
  [CircularQueue_clear(queue) EXCEPT !.entries = <<>>, !.WindowSize = 0]

===============================================================================
