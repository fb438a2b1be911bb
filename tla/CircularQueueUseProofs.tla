------------------------- MODULE CircularQueueUseProofs -------------------------
(***************************************************************************)
(* circularQueue.c on its own, for every size of the ring, every range of  *)
(* numbers and every sequence of calls; and the removal loop of            *)
(* wait_on_ack_state.                                                      *)
(***************************************************************************)
EXTENDS CircularQueueUse, CircularQueueProofs

\* An entry whose packet has been freed.
Emptied(e) == [e EXCEPT !.packet = NULL, !.valid = FALSE]

LEMMA EmptiedEntry ==
  ASSUME NEW e \in QueueEntry
  PROVE  /\ Emptied(e) \in QueueEntry /\ ~Emptied(e).valid /\ Emptied(e).packet = NULL
         /\ Emptied(e).sequenceNum = e.sequenceNum
<1> DEFINE f == [e EXCEPT !.packet = NULL]
<1>1. f \in QueueEntry /\ f.packet = NULL /\ f.sequenceNum = e.sequenceNum
  BY DEF QueueEntry, NULL
<1>2. Emptied(e) = [f EXCEPT !.valid = FALSE]
  BY DEF Emptied
<1> HIDE DEF f
<1>3. QED
  BY <1>1, <1>2 DEF QueueEntry

\* What the operations of the ring say of its parts.
LEMMA RingParts ==
  ASSUME NEW W \in Nat \ {0}, NEW q \in Ring(W)
  PROVE  /\ q.entries \in [0..(W - 1) -> QueueEntry] /\ DOMAIN q.entries = 0..(W - 1)
         /\ q.WindowSize = W /\ q.ValidCount \in Nat
         /\ \A s \in Nat : IndexOf(q, s) = SlotOf(W, s) /\ SlotOf(W, s) \in 0..(W - 1)
         /\ ValidSlots(q) = {i \in 0..(W - 1) : q.entries[i].valid}
         /\ IsFiniteSet(ValidSlots(q))
<1>1. /\ q.entries \in [0..(W - 1) -> QueueEntry] /\ DOMAIN q.entries = 0..(W - 1)
      /\ q.WindowSize = W /\ q.ValidCount \in Nat
  BY DEF Ring
<1>2. \A s \in Nat : IndexOf(q, s) = SlotOf(W, s) /\ SlotOf(W, s) \in 0..(W - 1)
  BY <1>1, SlotOfRange DEF IndexOf, SlotOf
<1>3. ValidSlots(q) = {i \in 0..(W - 1) : q.entries[i].valid}
  BY <1>1 DEF ValidSlots
<1>4. IsFiniteSet(0..(W - 1))
  <2>1. 0 \in Int /\ W - 1 \in Int
    OBVIOUS
  <2>2. QED
    BY <2>1, FS_Interval
<1>5. IsFiniteSet(ValidSlots(q))
  BY <1>3, <1>4, FS_Subset
<1>6. QED
  BY <1>1, <1>2, <1>3, <1>5

\* CircularQueue_remove empties the entry of the number, if it holds that.
LEMMA RemoveIsUpdate ==
  ASSUME NEW W \in Nat \ {0}, NEW q \in Ring(W), NEW s \in Nat
  PROVE  LET index == SlotOf(W, s)
             entry == q.entries[index]
         IN  CircularQueue_remove(q, s) =
               IF entry.valid /\ entry.sequenceNum = s
               THEN Updated(q, [q.entries EXCEPT ![index] = Emptied(entry)],
                            q.ValidCount - 1)
               ELSE q
<1> DEFINE index == SlotOf(W, s)
           entry == q.entries[index]
           f     == [entry EXCEPT !.packet = NULL]
           E1    == [q.entries EXCEPT ![index] = f]
           q1    == [q EXCEPT !.entries = E1]
           E2    == [E1 EXCEPT ![index] = [f EXCEPT !.valid = FALSE]]
           q2    == [q1 EXCEPT !.entries = E2]
           c     == q.ValidCount - 1
           E     == [q.entries EXCEPT ![index] = Emptied(entry)]
<1>1. /\ IndexOf(q, s) = index /\ index \in 0..(W - 1)
      /\ q.entries \in [0..(W - 1) -> QueueEntry] /\ entry \in QueueEntry
      /\ q.ValidCount \in Nat
  <2>1. /\ q.entries \in [0..(W - 1) -> QueueEntry] /\ q.ValidCount \in Nat
        /\ \A t \in Nat : IndexOf(q, t) = SlotOf(W, t) /\ SlotOf(W, t) \in 0..(W - 1)
    BY RingParts
  <2>2. QED
    BY <2>1
<1>2. E2 = E
  <2>1. Emptied(entry) = [f EXCEPT !.valid = FALSE]
    BY DEF Emptied
  <2> HIDE DEF entry, f, index
  <2>2. \A e1, e2 : [[q.entries EXCEPT ![index] = e1] EXCEPT ![index] = e2]
                     = [q.entries EXCEPT ![index] = e2]
    BY <1>1
  <2>3. QED
    BY <2>1, <2>2
<1>3. CASE entry.valid /\ entry.sequenceNum = s
  <2>1. q1.entries = E1 /\ q1.entries[index] = f
    BY <1>1 DEF Ring
  <2>2. CircularQueue_remove(q, s) = [q2 EXCEPT !.ValidCount = c]
    BY <1>1, <1>3, <2>1 DEF CircularQueue_remove
  <2>3. [q2 EXCEPT !.ValidCount = c] = Updated(q, E2, c)
    BY DEF Updated
  <2>4. QED
    BY <1>2, <1>3, <2>2, <2>3
<1>4. CASE ~(entry.valid /\ entry.sequenceNum = s)
  BY <1>1, <1>4 DEF CircularQueue_remove
<1>5. QED
  BY <1>3, <1>4

-------------------------------------------------------------------------------
(***************************************************************************)
(* The removal loop of wait_on_ack_state, number by number.                *)
(***************************************************************************)
\* The entries of q when those of the slots R have been removed.
Cleared(q, R) ==
  [i \in DOMAIN q.entries |-> IF i \in R THEN Emptied(q.entries[i]) ELSE q.entries[i]]

LEMMA ClearedEntries ==
  ASSUME NEW W \in Nat \ {0}, NEW q \in Ring(W), NEW R
  PROVE  Cleared(q, R) \in [0..(W - 1) -> QueueEntry]
<1>1. q.entries \in [0..(W - 1) -> QueueEntry] /\ DOMAIN q.entries = 0..(W - 1)
  BY RingParts
<1>2. \A i \in 0..(W - 1) : q.entries[i] \in QueueEntry /\ Emptied(q.entries[i]) \in QueueEntry
  BY <1>1, EmptiedEntry
<1>3. QED
  BY <1>1, <1>2 DEF Cleared

\* A queue whose count is right.
Counted(q) == q.ValidCount = Cardinality(ValidSlots(q))

LEMMA RemoveBelowIsUpdate ==
  ASSUME NEW W \in Nat \ {0}, NEW q \in Ring(W), Counted(q), NEW ack \in Nat
  PROVE  LET R == ReleasedBy(q, ack)
             n == q.ValidCount - Cardinality(R)
         IN  /\ IsFiniteSet(R) /\ Cardinality(R) \in Nat /\ n \in Nat
             /\ RemoveBelow(q, ack) = Updated(q, Cleared(q, R), n)
             /\ RemoveBelow(q, ack) \in Ring(W)
             /\ RemoveBelow(q, ack).entries = Cleared(q, R)
             /\ RemoveBelow(q, ack).ValidCount = n
<1> DEFINE R == ReleasedBy(q, ack)
           n == q.ValidCount - Cardinality(R)
<1>1. R \subseteq ValidSlots(q) /\ IsFiniteSet(ValidSlots(q)) /\ q.ValidCount \in Nat
  BY RingParts DEF ReleasedBy
<1>2. /\ IsFiniteSet(R) /\ Cardinality(R) \in Nat
      /\ Cardinality(R) <= Cardinality(ValidSlots(q))
  <2> HIDE DEF R
  <2>1. IsFiniteSet(R) /\ Cardinality(R) <= Cardinality(ValidSlots(q))
    BY <1>1, FS_Subset
  <2>2. QED
    BY <2>1, FS_CardinalityType
<1>3. n \in Nat
  BY <1>1, <1>2 DEF Counted
<1>4. RemoveBelow(q, ack) = Updated(q, Cleared(q, R), n)
  BY DEF RemoveBelow, Updated, Cleared, Emptied
<1>5. Cleared(q, R) \in [0..(W - 1) -> QueueEntry]
  BY ClearedEntries
<1> HIDE DEF R, n
<1>6. /\ RemoveBelow(q, ack) \in Ring(W)
      /\ RemoveBelow(q, ack).entries = Cleared(q, R)
      /\ RemoveBelow(q, ack).ValidCount = n
  BY <1>3, <1>4, <1>5, RingUpdate
<1>7. QED
  BY <1>2, <1>3, <1>4, <1>6 DEF R, n

\* Before its first round the loop has released nothing.
LEMMA RemoveBelowFirst ==
  ASSUME NEW W \in Nat \ {0}, NEW q \in Ring(W), Counted(q), NEW i \in {0, 1}
  PROVE  RemoveBelow(q, i) = q
<1> DEFINE R == ReleasedBy(q, i)
<1>1. R = {}
  BY DEF ReleasedBy
<1>2. Cardinality(R) = 0
  BY <1>1, FS_EmptySet
<1>3. /\ q.entries \in [0..(W - 1) -> QueueEntry] /\ DOMAIN q.entries = 0..(W - 1)
      /\ q.WindowSize = W /\ q.ValidCount \in Nat
  BY RingParts
<1>4. Cleared(q, R) = q.entries
  BY <1>1, <1>3 DEF Cleared
<1>5. q.ValidCount - Cardinality(R) = q.ValidCount
  BY <1>2, <1>3
<1>6. RemoveBelow(q, i) = Updated(q, q.entries, q.ValidCount)
  <2> HIDE DEF R
  <2>1. RemoveBelow(q, i) = Updated(q, Cleared(q, R), q.ValidCount - Cardinality(R))
    BY RemoveBelowIsUpdate DEF R
  <2>2. QED
    BY <1>4, <1>5, <2>1
<1>7. Updated(q, q.entries, q.ValidCount) = q
  BY DEF Updated, Ring
<1>8. QED
  BY <1>6, <1>7

\* The round for number ack releases that one more number.
LEMMA RemoveBelowNext ==
  ASSUME NEW W \in Nat \ {0}, NEW q \in Ring(W), Counted(q), NEW ack \in Nat \ {0}
  PROVE  CircularQueue_remove(RemoveBelow(q, ack), ack) = RemoveBelow(q, ack + 1)
<1> DEFINE R  == ReleasedBy(q, ack)
           R2 == ReleasedBy(q, ack + 1)
           b  == RemoveBelow(q, ack)
           x  == SlotOf(W, ack)
           n  == q.ValidCount - Cardinality(R)
           n2 == q.ValidCount - Cardinality(R2)
<1>1. /\ q.entries \in [0..(W - 1) -> QueueEntry] /\ DOMAIN q.entries = 0..(W - 1)
      /\ q.ValidCount \in Nat /\ x \in 0..(W - 1)
      /\ \A s \in Nat : IndexOf(q, s) = SlotOf(W, s)
      /\ ValidSlots(q) = {i \in 0..(W - 1) : q.entries[i].valid}
  BY RingParts
<1>2. \A i \in 0..(W - 1) : q.entries[i] \in QueueEntry /\ q.entries[i].sequenceNum \in Nat
  BY <1>1 DEF QueueEntry
<1>3. /\ IsFiniteSet(R) /\ Cardinality(R) \in Nat /\ n \in Nat
      /\ b = Updated(q, Cleared(q, R), n) /\ b \in Ring(W)
      /\ b.entries = Cleared(q, R) /\ b.ValidCount = n
  BY RemoveBelowIsUpdate
<1>4. RemoveBelow(q, ack + 1) = Updated(q, Cleared(q, R2), n2) /\ Cardinality(R2) \in Nat
  <2>1. ack + 1 \in Nat
    OBVIOUS
  <2>2. QED
    BY <2>1, RemoveBelowIsUpdate
<1>5. R = {i \in 0..(W - 1) : /\ q.entries[i].valid
                             /\ q.entries[i].sequenceNum \in 1..(ack - 1)
                             /\ SlotOf(W, q.entries[i].sequenceNum) = i}
  BY <1>1, <1>2 DEF ReleasedBy
<1>6. R2 = {i \in 0..(W - 1) : /\ q.entries[i].valid
                              /\ q.entries[i].sequenceNum \in 1..ack
                              /\ SlotOf(W, q.entries[i].sequenceNum) = i}
  BY <1>1, <1>2 DEF ReleasedBy
<1>7. CircularQueue_remove(b, ack) =
        IF b.entries[x].valid /\ b.entries[x].sequenceNum = ack
        THEN Updated(b, [b.entries EXCEPT ![x] = Emptied(b.entries[x])], b.ValidCount - 1)
        ELSE b
  <2>1. b \in Ring(W) /\ ack \in Nat
    BY <1>3
  <2> HIDE DEF b
  <2>2. QED
    BY <2>1, RemoveIsUpdate
<1>8. \A i \in 0..(W - 1) :
        Cleared(q, R)[i] = IF i \in R THEN Emptied(q.entries[i]) ELSE q.entries[i]
  BY <1>1 DEF Cleared
<1>9. \A i \in 0..(W - 1) : ~Emptied(q.entries[i]).valid
  BY <1>2, EmptiedEntry
<1> HIDE DEF R, R2, b, x, n, n2
<1>10. CASE q.entries[x].valid /\ q.entries[x].sequenceNum = ack
  <2>1. x \notin R /\ R2 = R \cup {x}
    <3>1. x \notin R
      BY <1>5, <1>10
    <3>2. \A i \in R2 : i \in R \/ i = x
      BY <1>2, <1>5, <1>6 DEF x
    <3>3. R \subseteq R2
      BY <1>2, <1>5, <1>6
    <3>4. x \in R2
      BY <1>1, <1>6, <1>10 DEF x
    <3>5. QED
      BY <3>1, <3>2, <3>3, <3>4
  <2>2. Cardinality(R2) = Cardinality(R) + 1
    BY <1>3, <2>1, FS_AddElement
  <2>3. n2 = n - 1
    BY <1>1, <1>3, <1>4, <2>2 DEF n, n2
  <2>4. b.entries[x] = q.entries[x]
    BY <1>1, <1>3, <1>8, <2>1
  <2>5. [b.entries EXCEPT ![x] = Emptied(q.entries[x])] = Cleared(q, R2)
    BY <1>1, <1>3, <2>1 DEF Cleared
  <2>6. CircularQueue_remove(b, ack) = Updated(b, Cleared(q, R2), n2)
    BY <1>3, <1>7, <1>10, <2>3, <2>4, <2>5
  <2>7. Updated(b, Cleared(q, R2), n2) = Updated(q, Cleared(q, R2), n2)
    BY <1>3 DEF Updated
  <2>8. QED
    BY <1>4, <2>6, <2>7 DEF b
<1>11. CASE ~(q.entries[x].valid /\ q.entries[x].sequenceNum = ack)
  <2>1. R2 = R
    <3>1. \A i \in R2 : i \in R
      BY <1>2, <1>5, <1>6, <1>11 DEF x
    <3>2. R \subseteq R2
      BY <1>2, <1>5, <1>6
    <3>3. QED
      BY <3>1, <3>2
  <2>2. ~(b.entries[x].valid /\ b.entries[x].sequenceNum = ack)
    BY <1>1, <1>3, <1>8, <1>9, <1>11
  <2>3. QED
    BY <1>3, <1>4, <1>7, <2>1, <2>2 DEF b, n, n2
<1>12. QED
  BY <1>10, <1>11

\* wait_on_ack_state's loop over CircularQueue_remove, from 1 up to ack - 1,
\* ends in what RemoveBelow computes at once, for every ring whose count is
\* right, whatever numbers it holds.
THEOREM LoopIsRemoveBelow ==
  ASSUME NEW W \in Nat \ {0}, NEW q \in Ring(W), Counted(q), NEW ack \in Nat
  PROVE  RemoveLoop(q, ack) = RemoveBelow(q, ack)
<1> DEFINE Rounds(g) == [i \in 0..ack |-> IF i <= 1 THEN q
                                          ELSE CircularQueue_remove(g[i - 1], i - 1)]
           run  == [i \in 0..ack |-> RemoveBelow(q, i)]
           ring == CHOOSE g : g = Rounds(g)
<1>1. run = Rounds(run)
  <2>1. ASSUME NEW i \in 0..ack, ~(i <= 1)
        PROVE  RemoveBelow(q, i) = CircularQueue_remove(run[i - 1], i - 1)
    <3>1. i - 1 \in 0..ack /\ i - 1 \in Nat \ {0} /\ (i - 1) + 1 = i
      BY <2>1
    <3>2. run[i - 1] = RemoveBelow(q, i - 1)
      BY <3>1
    <3>3. CircularQueue_remove(RemoveBelow(q, i - 1), i - 1) = RemoveBelow(q, (i - 1) + 1)
      BY <3>1, RemoveBelowNext
    <3>4. QED
      BY <3>1, <3>2, <3>3
  <2>2. \A i \in 0..ack : i <= 1 => RemoveBelow(q, i) = q
    BY RemoveBelowFirst
  <2>3. \A i \in 0..ack : run[i] = IF i <= 1 THEN q
                                   ELSE CircularQueue_remove(run[i - 1], i - 1)
    BY <2>1, <2>2
  <2> DEFINE r == run
  <2>4. r = [i \in 0..ack |-> r[i]]
    OBVIOUS
  <2> HIDE DEF run
  <2>5. QED
    BY <2>3, <2>4
<1>2. ring = Rounds(ring)
  <2> HIDE DEF run, Rounds
  <2>1. QED
    BY <1>1
<1>3. RemoveLoop(q, ack) = ring[ack]
  BY DEF RemoveLoop
<1> HIDE DEF ring
<1> DEFINE P == {k \in 0..ack : ring[k] = RemoveBelow(q, k)}
<1>4. \A k \in 0..ack : ring[k] = IF k <= 1 THEN q
                                  ELSE CircularQueue_remove(ring[k - 1], k - 1)
  BY <1>2
<1>5. 0 \in P
  BY <1>4, RemoveBelowFirst
<1>6. ASSUME NEW k \in 1..ack, k - 1 \in P PROVE k \in P
  <2>1. CASE k = 1
    BY <1>4, <2>1, RemoveBelowFirst
  <2>2. CASE k # 1
    <3>1. k - 1 \in Nat \ {0} /\ (k - 1) + 1 = k
      BY <2>2
    <3>2. CircularQueue_remove(RemoveBelow(q, k - 1), k - 1) = RemoveBelow(q, (k - 1) + 1)
      BY <3>1, RemoveBelowNext
    <3>3. QED
      BY <1>4, <1>6, <2>2, <3>1, <3>2
  <2>3. QED
    BY <2>1, <2>2
<1>7. \A k \in 0..ack : k \in P
  <2> HIDE DEF P
  <2>1. QED
    BY <1>5, <1>6, InductionUpTo
<1>8. QED
  BY <1>3, <1>7

-------------------------------------------------------------------------------
(***************************************************************************)
(* Every sequence of calls.                                                *)
(***************************************************************************)
\* The ring q of W slots holds the packets of the numbers in held: each in the
\* slot of its number, and nothing else; its count is right, and an entry that
\* is not valid owns no packet.
HoldsSet(q, W, held) ==
  /\ W \in Nat \ {0}
  /\ q \in Ring(W)
  /\ Counted(q)
  /\ \A i \in 0..(W - 1) : q.entries[i].valid <=> q.entries[i].packet # NULL
  /\ \A i \in 0..(W - 1) : q.entries[i].valid =>
       LET s == q.entries[i].sequenceNum
       IN  s \in held /\ i = SlotOf(W, s) /\ q.entries[i].packet = s + 1
  /\ \A s \in held :
       /\ s \in Nat
       /\ q.entries[SlotOf(W, s)].valid
       /\ q.entries[SlotOf(W, s)].sequenceNum = s

\* The inductive invariant.
UseInv ==
  /\ inserted \subseteq SeqNums
  /\ freed \in BOOLEAN
  /\ freed => /\ queue = [entries |-> <<>>, WindowSize |-> 0, ValidCount |-> 0]
              /\ inserted = {}
  /\ ~freed => HoldsSet(queue, queue.WindowSize, inserted)

LEMMA InitHolds ==
  ASSUME NEW W \in Nat \ {0}
  PROVE  /\ HoldsSet(CircularQueue_init(W), W, {})
         /\ CircularQueue_init(W).WindowSize = W
<1> DEFINE q == CircularQueue_init(W)
<1>1. q \in Ring(W) /\ q.WindowSize = W
  <2>1. RingHolds(q, W, 0, 0)
    BY RingInit
  <2>2. QED
    BY <2>1, RingCount
<1>2. \A i \in 0..(W - 1) : ~q.entries[i].valid /\ q.entries[i].packet = NULL
  BY DEF CircularQueue_init
<1>3. ValidSlots(q) = {} /\ q.ValidCount = 0
  <2>1. q.ValidCount = 0 /\ DOMAIN q.entries = 0..(W - 1)
    BY DEF CircularQueue_init
  <2>2. QED
    BY <1>2, <2>1 DEF ValidSlots
<1> HIDE DEF q
<1>4. Counted(q)
  BY <1>3, FS_EmptySet DEF Counted
<1>5. HoldsSet(q, W, {})
  BY <1>1, <1>2, <1>4 DEF HoldsSet
<1>6. QED
  BY <1>1, <1>5 DEF q

\* An insert is refused, or adds its number; the count tells which.
LEMMA InsertHolds ==
  ASSUME NEW W, NEW held, NEW q, HoldsSet(q, W, held), NEW s \in Nat
  PROVE  LET r == CircularQueue_insert(q, s, s + 1)
         IN  \/ r = q
             \/ r # q /\ r.WindowSize = W /\ HoldsSet(r, W, held \cup {s})
<1> DEFINE r   == CircularQueue_insert(q, s, s + 1)
           x   == SlotOf(W, s)
           new == [packet |-> s + 1, sequenceNum |-> s, valid |-> TRUE]
           E   == [q.entries EXCEPT ![x] = new]
           c   == q.ValidCount + 1
<1>1. W \in Nat \ {0} /\ q \in Ring(W) /\ Counted(q)
  BY DEF HoldsSet
<1>2. /\ q.entries \in [0..(W - 1) -> QueueEntry] /\ q.ValidCount \in Nat
      /\ IndexOf(q, s) = x /\ x \in 0..(W - 1)
      /\ ValidSlots(q) = {i \in 0..(W - 1) : q.entries[i].valid}
      /\ IsFiniteSet(ValidSlots(q))
  BY <1>1, RingParts
<1>3. CASE CircularQueue_is_full(q) \/ q.entries[x].valid
  BY <1>2, <1>3 DEF CircularQueue_insert
<1>4. CASE ~(CircularQueue_is_full(q) \/ q.entries[x].valid)
  <2>1. r = Updated(q, E, c)
    BY <1>2, <1>4 DEF CircularQueue_insert, Updated
  <2>2. new \in QueueEntry
    BY DEF QueueEntry
  <2>3. new.valid /\ new.sequenceNum = s /\ new.packet = s + 1 /\ s + 1 # NULL
    BY DEF NULL
  <2> HIDE DEF r, x, new
  <2>4. E \in [0..(W - 1) -> QueueEntry] /\ c \in Nat
    BY <1>2, <2>2
  <2>5. \A i \in 0..(W - 1) : E[i] = IF i = x THEN new ELSE q.entries[i]
    BY <1>2
  <2> HIDE DEF E, c
  <2>6. r \in Ring(W) /\ r.entries = E /\ r.ValidCount = c /\ r.WindowSize = W
    BY <1>1, <2>1, <2>4, RingUpdate
  <2>7. r # q
    BY <1>2, <2>6 DEF c
  <2>8. Counted(r)
    <3>1. ValidSlots(r) = {i \in 0..(W - 1) : E[i].valid}
      <4>1. W \in Nat \ {0} /\ r \in Ring(W)
        BY <1>1, <2>6
      <4>2. ValidSlots(r) = {i \in 0..(W - 1) : r.entries[i].valid}
        BY <4>1, RingParts
      <4>3. QED
        BY <2>6, <4>2
    <3>2. ValidSlots(r) = ValidSlots(q) \cup {x}
      <4>1. \A i \in 0..(W - 1) : E[i].valid <=> q.entries[i].valid \/ i = x
        BY <2>3, <2>5
      <4>2. QED
        BY <1>2, <3>1, <4>1
    <3>3. x \notin ValidSlots(q)
      BY <1>2, <1>4
    <3>4. Cardinality(ValidSlots(r)) = Cardinality(ValidSlots(q)) + 1
      BY <1>2, <3>2, <3>3, FS_AddElement
    <3>5. QED
      BY <1>1, <2>6, <3>4 DEF Counted, c
  <2>9. ASSUME NEW i \in 0..(W - 1)
        PROVE  /\ E[i].valid <=> E[i].packet # NULL
               /\ E[i].valid =>
                    /\ E[i].sequenceNum \in held \cup {s}
                    /\ i = SlotOf(W, E[i].sequenceNum)
                    /\ E[i].packet = E[i].sequenceNum + 1
    BY <2>3, <2>5 DEF HoldsSet, x
  <2>10. ASSUME NEW t \in held \cup {s}
         PROVE  t \in Nat /\ E[SlotOf(W, t)].valid /\ E[SlotOf(W, t)].sequenceNum = t
    <3>1. CASE SlotOf(W, t) = x
      <4>1. t = s
        BY <1>4, <3>1 DEF HoldsSet
      <4>2. QED
        BY <1>2, <2>3, <2>5, <3>1, <4>1
    <3>2. CASE SlotOf(W, t) # x
      <4>1. t \in held
        BY <3>2 DEF x
      <4>2. t \in Nat /\ SlotOf(W, t) \in 0..(W - 1)
        BY <1>1, <4>1, SlotOfRange DEF HoldsSet
      <4>3. QED
        BY <2>5, <3>2, <4>1, <4>2 DEF HoldsSet
    <3>3. QED
      BY <3>1, <3>2
  <2>11. HoldsSet(r, W, held \cup {s})
    BY <1>1, <2>6, <2>8, <2>9, <2>10 DEF HoldsSet
  <2>12. QED
    BY <2>6, <2>7, <2>11 DEF r
<1>5. QED
  BY <1>3, <1>4

\* A remove takes its number away, if it is there.
LEMMA RemoveHolds ==
  ASSUME NEW W, NEW held, NEW q, HoldsSet(q, W, held), NEW s \in Nat
  PROVE  /\ HoldsSet(CircularQueue_remove(q, s), W, held \ {s})
         /\ CircularQueue_remove(q, s).WindowSize = W
<1> DEFINE r == CircularQueue_remove(q, s)
           x == SlotOf(W, s)
           e == q.entries[x]
           E == [q.entries EXCEPT ![x] = Emptied(e)]
           c == q.ValidCount - 1
<1>1. W \in Nat \ {0} /\ q \in Ring(W) /\ Counted(q)
  BY DEF HoldsSet
<1>2. /\ q.entries \in [0..(W - 1) -> QueueEntry] /\ q.ValidCount \in Nat
      /\ q.WindowSize = W /\ x \in 0..(W - 1) /\ e \in QueueEntry
      /\ ValidSlots(q) = {i \in 0..(W - 1) : q.entries[i].valid}
      /\ IsFiniteSet(ValidSlots(q))
  BY <1>1, RingParts
<1>3. r = IF e.valid /\ e.sequenceNum = s THEN Updated(q, E, c) ELSE q
  BY <1>1, RemoveIsUpdate
<1>4. /\ Emptied(e) \in QueueEntry /\ ~Emptied(e).valid /\ Emptied(e).packet = NULL
  BY <1>2, EmptiedEntry
<1>5. CASE e.valid /\ e.sequenceNum = s
  <2>1. x \in ValidSlots(q)
    BY <1>2, <1>5
  <2>2. Cardinality(ValidSlots(q) \ {x}) = Cardinality(ValidSlots(q)) - 1
    BY <1>2, <2>1, FS_RemoveElement
  <2>3. c = Cardinality(ValidSlots(q) \ {x}) /\ c \in Nat
    <3>1. IsFiniteSet(ValidSlots(q) \ {x})
      BY <1>2, <2>1, FS_RemoveElement
    <3>2. Cardinality(ValidSlots(q) \ {x}) \in Nat
      BY <3>1, FS_CardinalityType
    <3>3. QED
      BY <1>1, <1>2, <2>2, <3>2 DEF Counted
  <2>4. r = Updated(q, E, c)
    BY <1>3, <1>5
  <2> HIDE DEF r, e, x
  <2>5. E \in [0..(W - 1) -> QueueEntry]
    BY <1>2, <1>4
  <2>6. \A i \in 0..(W - 1) : E[i] = IF i = x THEN Emptied(e) ELSE q.entries[i]
    BY <1>2
  <2> HIDE DEF E, c
  <2>7. r \in Ring(W) /\ r.entries = E /\ r.ValidCount = c /\ r.WindowSize = W
    BY <1>1, <2>3, <2>4, <2>5, RingUpdate
  <2>8. Counted(r)
    <3>1. ValidSlots(r) = {i \in 0..(W - 1) : E[i].valid}
      <4>1. W \in Nat \ {0} /\ r \in Ring(W)
        BY <1>1, <2>7
      <4>2. ValidSlots(r) = {i \in 0..(W - 1) : r.entries[i].valid}
        BY <4>1, RingParts
      <4>3. QED
        BY <2>7, <4>2
    <3>2. ValidSlots(r) = ValidSlots(q) \ {x}
      <4>1. \A i \in 0..(W - 1) : E[i].valid <=> q.entries[i].valid /\ i # x
        BY <1>4, <2>6
      <4>2. QED
        BY <1>2, <3>1, <4>1
    <3>3. QED
      BY <2>3, <2>7, <3>2 DEF Counted
  <2>9. ASSUME NEW i \in 0..(W - 1)
        PROVE  /\ E[i].valid <=> E[i].packet # NULL
               /\ E[i].valid =>
                    /\ E[i].sequenceNum \in held \ {s}
                    /\ i = SlotOf(W, E[i].sequenceNum)
                    /\ E[i].packet = E[i].sequenceNum + 1
    <3>1. CASE i = x
      BY <1>4, <2>6, <3>1
    <3>2. CASE i # x
      <4>1. E[i] = q.entries[i]
        BY <2>6, <3>2
      <4>2. E[i].valid => E[i].sequenceNum # s
        BY <3>2, <4>1 DEF HoldsSet, x
      <4>3. QED
        BY <4>1, <4>2 DEF HoldsSet
    <3>3. QED
      BY <3>1, <3>2
  <2>10. ASSUME NEW t \in held \ {s}
         PROVE  t \in Nat /\ E[SlotOf(W, t)].valid /\ E[SlotOf(W, t)].sequenceNum = t
    <3>1. /\ t \in Nat /\ SlotOf(W, t) \in 0..(W - 1)
          /\ q.entries[SlotOf(W, t)].valid /\ q.entries[SlotOf(W, t)].sequenceNum = t
      BY <1>1, SlotOfRange DEF HoldsSet
    <3>2. SlotOf(W, t) # x
      BY <1>5, <3>1 DEF e
    <3>3. QED
      BY <2>6, <3>1, <3>2
  <2>11. HoldsSet(r, W, held \ {s})
    BY <1>1, <2>7, <2>8, <2>9, <2>10 DEF HoldsSet
  <2>12. QED
    BY <2>7, <2>11 DEF r
<1>6. CASE ~(e.valid /\ e.sequenceNum = s)
  <2>1. s \notin held
    BY <1>6 DEF HoldsSet
  <2>2. r = q /\ held \ {s} = held
    BY <1>3, <1>6, <2>1
  <2>3. QED
    BY <1>2, <2>2
<1>7. QED
  BY <1>5, <1>6

\* clear() empties every entry, free() drops them all.
LEMMA ClearHolds ==
  ASSUME NEW W, NEW held, NEW q, HoldsSet(q, W, held)
  PROVE  /\ HoldsSet(CircularQueue_clear(q), W, {})
         /\ CircularQueue_clear(q).WindowSize = W
         /\ CircularQueue_free(q) = [entries |-> <<>>, WindowSize |-> 0, ValidCount |-> 0]
<1> DEFINE r == CircularQueue_clear(q)
           V == ValidSlots(q)
           E == Cleared(q, V)
<1>1. W \in Nat \ {0} /\ q \in Ring(W)
  BY DEF HoldsSet
<1>2. /\ q.entries \in [0..(W - 1) -> QueueEntry] /\ DOMAIN q.entries = 0..(W - 1)
      /\ V = {i \in 0..(W - 1) : q.entries[i].valid}
  BY <1>1, RingParts
<1>3. r = Updated(q, E, 0)
  BY <1>2 DEF CircularQueue_clear, Updated, Cleared, Emptied
<1>4. E \in [0..(W - 1) -> QueueEntry]
  BY <1>1, ClearedEntries
<1>5. \A i \in 0..(W - 1) : ~E[i].valid /\ E[i].packet = NULL
  <2> TAKE i \in 0..(W - 1)
  <2>1. E[i] = IF q.entries[i].valid THEN Emptied(q.entries[i]) ELSE q.entries[i]
    BY <1>2 DEF Cleared
  <2>2. q.entries[i] \in QueueEntry
    BY <1>2
  <2>3. ~Emptied(q.entries[i]).valid /\ Emptied(q.entries[i]).packet = NULL
    BY <2>2, EmptiedEntry
  <2>4. q.entries[i].valid <=> q.entries[i].packet # NULL
    BY DEF HoldsSet
  <2> HIDE DEF E, V
  <2>5. QED
    BY <2>1, <2>3, <2>4
<1> HIDE DEF r, E, V
<1>6. /\ r = [entries |-> E, WindowSize |-> W, ValidCount |-> 0]
      /\ r \in Ring(W) /\ r.entries = E /\ r.ValidCount = 0 /\ r.WindowSize = W
  BY <1>1, <1>3, <1>4, RingUpdate
<1>7. Counted(r)
  <2>1. ValidSlots(r) = {i \in 0..(W - 1) : E[i].valid}
    BY <1>1, <1>6, RingParts
  <2>2. ValidSlots(r) = {}
    BY <1>5, <2>1
  <2>3. QED
    BY <1>6, <2>2, FS_EmptySet DEF Counted
<1>8. HoldsSet(r, W, {})
  BY <1>1, <1>5, <1>6, <1>7 DEF HoldsSet
<1>9. CircularQueue_free(q) = [entries |-> <<>>, WindowSize |-> 0, ValidCount |-> 0]
  <2>1. CircularQueue_free(q) = [r EXCEPT !.entries = <<>>, !.WindowSize = 0]
    BY DEF CircularQueue_free, r
  <2>2. QED
    BY <1>6, <2>1
<1>10. QED
  BY <1>6, <1>8, <1>9 DEF r

LEMMA InitUseInv == UseInit => UseInv
<1> SUFFICES ASSUME UseInit PROVE UseInv
  OBVIOUS
<1>1. PICK size \in WindowSizes : queue = CircularQueue_init(size)
  BY DEF UseInit
<1>2. HoldsSet(queue, size, {}) /\ queue.WindowSize = size
  BY <1>1, InitHolds, UseAssumption
<1>3. QED
  BY <1>2 DEF UseInit, UseInv

LEMMA NextUseInv == UseInv /\ [UseNext]_useVars => UseInv'
<1> SUFFICES ASSUME UseInv, [UseNext]_useVars PROVE UseInv'
  OBVIOUS
<1> DEFINE W == queue.WindowSize
<1>1. SeqNums \subseteq Nat
  BY UseAssumption DEF SeqNums
<1>2. ASSUME NEW s \in SeqNums, InsertOne(s) PROVE UseInv'
  <2>1. ~freed /\ freed' = freed /\ HoldsSet(queue, W, inserted)
    BY <1>2 DEF InsertOne, UseInv
  <2>2. queue' = CircularQueue_insert(queue, s, s + 1)
    BY <1>2 DEF InsertOne
  <2>3. CASE queue' = queue
    BY <1>2, <2>1, <2>3 DEF InsertOne, UseInv
  <2>4. CASE queue' # queue
    <3>1. queue'.WindowSize = W /\ HoldsSet(queue', W, inserted \cup {s})
      <4>1. s \in Nat
        BY <1>1
      <4>2. QED
        BY <2>1, <2>2, <2>4, <4>1, InsertHolds
    <3>2. inserted' = inserted \cup {s}
      BY <1>2, <2>4 DEF InsertOne
    <3>3. QED
      BY <2>1, <3>1, <3>2 DEF UseInv
  <2>5. QED
    BY <2>3, <2>4
<1>3. ASSUME NEW s \in SeqNums, RemoveOne(s) PROVE UseInv'
  <2>1. ~freed /\ freed' = freed /\ HoldsSet(queue, W, inserted)
    BY <1>3 DEF RemoveOne, UseInv
  <2>2. queue' = CircularQueue_remove(queue, s) /\ inserted' = inserted \ {s}
    BY <1>3 DEF RemoveOne
  <2>3. queue'.WindowSize = W /\ HoldsSet(queue', W, inserted')
    <3>1. s \in Nat
      BY <1>1
    <3>2. QED
      BY <2>1, <2>2, <3>1, RemoveHolds
  <2>4. QED
    BY <2>1, <2>2, <2>3 DEF UseInv
<1>4. CASE Clear
  <2>1. ~freed /\ freed' = freed /\ HoldsSet(queue, W, inserted)
    BY <1>4 DEF Clear, UseInv
  <2>2. queue' = CircularQueue_clear(queue) /\ inserted' = {}
    BY <1>4 DEF Clear
  <2>3. queue'.WindowSize = W /\ HoldsSet(queue', W, inserted')
    BY <2>1, <2>2, ClearHolds
  <2>4. QED
    BY <2>1, <2>2, <2>3 DEF UseInv
<1>5. CASE Free
  <2>1. ~freed /\ freed' = TRUE /\ HoldsSet(queue, W, inserted)
    BY <1>5 DEF Free, UseInv
  <2>2. queue' = CircularQueue_free(queue) /\ inserted' = {}
    BY <1>5 DEF Free
  <2>3. queue' = [entries |-> <<>>, WindowSize |-> 0, ValidCount |-> 0]
    BY <2>1, <2>2, ClearHolds
  <2>4. QED
    BY <2>1, <2>2, <2>3 DEF UseInv
<1>6. CASE Reuse
  <2>1. freed /\ freed' = FALSE /\ inserted = {} /\ inserted' = inserted
    BY <1>6 DEF Reuse, UseInv
  <2>2. PICK size \in WindowSizes : queue' = CircularQueue_init(size)
    BY <1>6 DEF Reuse
  <2>3. HoldsSet(queue', size, {}) /\ queue'.WindowSize = size
    BY <2>2, InitHolds, UseAssumption
  <2>4. QED
    BY <2>1, <2>3 DEF UseInv
<1>7. CASE UNCHANGED useVars
  BY <1>7 DEF useVars, UseInv
<1>8. QED
  BY <1>2, <1>3, <1>4, <1>5, <1>6, <1>7 DEF UseNext

LEMMA UseInvHolds == UseSpec => []UseInv
  BY InitUseInv, NextUseInv, PTL DEF UseSpec

\* The queue stays a well-formed ring, its count a natural number, although
\* ValidCount is decremented without a test.
THEOREM UseTypeCorrect == UseSpec => []UseTypeOK
<1>1. UseInv => UseTypeOK
  <2> SUFFICES ASSUME UseInv PROVE UseTypeOK
    OBVIOUS
  <2>1. CASE freed
    <3>1. queue = [entries |-> <<>>, WindowSize |-> 0, ValidCount |-> 0]
      BY <2>1 DEF UseInv
    <3>2. <<>> \in [0..(0 - 1) -> QueueEntry]
      OBVIOUS
    <3>3. queue \in [entries    : [0..(queue.WindowSize - 1) -> QueueEntry],
                     WindowSize : Nat,
                     ValidCount : Nat]
      BY <3>1, <3>2
    <3>4. QED
      BY <3>3 DEF UseInv, UseTypeOK
  <2>2. CASE ~freed
    <3>1. queue \in Ring(queue.WindowSize) /\ queue.WindowSize \in Nat
      BY <2>2 DEF UseInv, HoldsSet
    <3>2. queue \in [entries    : [0..(queue.WindowSize - 1) -> QueueEntry],
                     WindowSize : Nat,
                     ValidCount : Nat]
      BY <3>1 DEF Ring
    <3>3. QED
      BY <3>2 DEF UseInv, UseTypeOK
  <2>3. QED
    BY <2>1, <2>2
<1>2. QED
  BY <1>1, UseInvHolds, PTL

\* ValidCount, which CircularQueue_is_full and _is_empty trust, is the number
\* of valid entries after every sequence of calls.
THEOREM CountStaysValid == UseSpec => []CountIsValid
<1>1. UseInv => CountIsValid
  <2> SUFFICES ASSUME UseInv PROVE CountIsValid
    OBVIOUS
  <2>1. CASE freed
    <3>1. queue = [entries |-> <<>>, WindowSize |-> 0, ValidCount |-> 0]
      BY <2>1 DEF UseInv
    <3>2. ValidSlots(queue) = {} /\ queue.ValidCount = 0
      BY <3>1 DEF ValidSlots
    <3>3. QED
      BY <3>2, FS_EmptySet DEF CountIsValid
  <2>2. CASE ~freed
    BY <2>2 DEF UseInv, HoldsSet, Counted, CountIsValid
  <2>3. QED
    BY <2>1, <2>2
<1>2. QED
  BY <1>1, UseInvHolds, PTL

\* The ring holds what was inserted and not removed, each packet is found
\* again under its own number, and an entry owns a packet exactly when it is
\* valid: nothing is leaked, freed twice or used after it was freed.
LEMMA UseInvContents == UseInv => HoldsInserted /\ PacketsOwned
<1> SUFFICES ASSUME UseInv PROVE HoldsInserted /\ PacketsOwned
  OBVIOUS
<1>1. CASE freed
  <2>1. queue = [entries |-> <<>>, WindowSize |-> 0, ValidCount |-> 0] /\ inserted = {}
    BY <1>1 DEF UseInv
  <2>2. DOMAIN queue.entries = {}
    BY <2>1
  <2>3. Outstanding(queue) = {}
    BY <2>2 DEF Outstanding, ValidSlots
  <2>4. QED
    BY <2>1, <2>2, <2>3 DEF HoldsInserted, PacketsOwned
<1>2. CASE ~freed
  <2> DEFINE W == queue.WindowSize
  <2>1. HoldsSet(queue, W, inserted) /\ W \in Nat \ {0} /\ queue \in Ring(W)
    BY <1>2 DEF UseInv, HoldsSet
  <2>2. /\ DOMAIN queue.entries = 0..(W - 1)
        /\ \A s \in Nat : IndexOf(queue, s) = SlotOf(W, s) /\ SlotOf(W, s) \in 0..(W - 1)
        /\ ValidSlots(queue) = {i \in 0..(W - 1) : queue.entries[i].valid}
    BY <2>1, RingParts
  <2>3. PacketsOwned
    BY <2>1, <2>2 DEF HoldsSet, PacketsOwned
  <2> HIDE DEF W
  <2>4. ASSUME NEW s \in inserted
        PROVE  /\ SlotOf(W, s) \in ValidSlots(queue)
               /\ queue.entries[SlotOf(W, s)].sequenceNum = s
               /\ queue.entries[SlotOf(W, s)].packet = s + 1
               /\ queue.entries[SlotOf(W, s)] \in CircularQueue_get(queue, s)
    <3>1. /\ s \in Nat /\ SlotOf(W, s) \in 0..(W - 1)
          /\ queue.entries[SlotOf(W, s)].valid
          /\ queue.entries[SlotOf(W, s)].sequenceNum = s
      BY <2>1, <2>2 DEF HoldsSet
    <3>2. queue.entries[SlotOf(W, s)].packet = s + 1
      BY <2>1, <3>1 DEF HoldsSet
    <3>3. queue.entries[SlotOf(W, s)] \in CircularQueue_get(queue, s)
      BY <2>2, <3>1 DEF CircularQueue_get
    <3>4. QED
      BY <2>2, <3>1, <3>2, <3>3
  <2>5. \A i \in ValidSlots(queue) : queue.entries[i].sequenceNum \in inserted
    BY <2>1, <2>2 DEF HoldsSet
  <2>6. Outstanding(queue) = inserted
    BY <2>4, <2>5 DEF Outstanding
  <2>7. \A s \in inserted :
          \E e \in CircularQueue_get(queue, s) : e.valid /\ e.packet = s + 1
    BY <2>2, <2>4
  <2>8. QED
    BY <2>3, <2>6, <2>7 DEF HoldsInserted
<1>3. QED
  BY <1>1, <1>2

\* What was inserted and not removed is found under its own number, and the
\* ring holds nothing else.
THEOREM InsertedIsHeld == UseSpec => []HoldsInserted
  BY UseInvContents, UseInvHolds, PTL

\* No packet is leaked, freed twice or used after it was freed.
THEOREM PacketsStayOwned == UseSpec => []PacketsOwned
  BY UseInvContents, UseInvHolds, PTL

\* In every state of the queue, the child's loop for an RR is RemoveBelow, by
\* which the models and the proofs of the transfer replace it.
THEOREM LoopStaysRemoveBelow == UseSpec => []RemoveBelowIsTheLoop
<1>1. UseInv => RemoveBelowIsTheLoop
  <2> SUFFICES ASSUME UseInv, ~freed, NEW ack \in 0..(MaxSeq + 1)
               PROVE  RemoveBelow(queue, ack) = RemoveLoop(queue, ack)
    BY DEF RemoveBelowIsTheLoop
  <2>1. ack \in Nat
    BY UseAssumption
  <2>2. /\ queue.WindowSize \in Nat \ {0} /\ queue \in Ring(queue.WindowSize)
        /\ Counted(queue)
    BY DEF UseInv, HoldsSet
  <2>3. QED
    BY <2>1, <2>2, LoopIsRemoveBelow
<1>2. QED
  BY <1>1, UseInvHolds, PTL
===============================================================================
