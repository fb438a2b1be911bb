-------------------------- MODULE CircularQueueProofs --------------------------
(***************************************************************************)
(* What circularQueue.c does when it is used as a sliding window: numbers  *)
(* are inserted one after the other and released from below.  First the    *)
(* facts about remainders and intervals that the proofs about this ring,   *)
(* and about rcopy's buffer, rest on.                                      *)
(***************************************************************************)
EXTENDS CircularQueue, Functions, Induction

\* The slot of a number in a ring of W slots.  The proofs keep this folded, so
\* that the provers see an uninterpreted operator and not a remainder.
SlotOf(W, s) == s % W

LEMMA MultipleStep ==
  ASSUME NEW W \in Nat \ {0}, NEW p \in Int, NEW q \in Int, p < q
  PROVE  W * q - W * p >= W
<1>1. W * (q - p) >= W * 1
  BY SMTT(20)
<1>2. QED
  BY <1>1, SMTT(20)

\* Numbers less than W apart fall into different slots of a ring of size W.
LEMMA SlotsDiffer ==
  ASSUME NEW W \in Nat \ {0}, NEW a \in Nat, NEW b \in Nat, a < b, b - a < W
  PROVE  SlotOf(W, a) # SlotOf(W, b)
<1> SUFFICES ASSUME a % W = b % W PROVE FALSE
  BY DEF SlotOf
<1> DEFINE p == a \div W
           q == b \div W
<1>1. /\ a = W * p + (a % W) /\ p \in Int /\ a % W \in 0..(W - 1)
      /\ b = W * q + (b % W) /\ q \in Int /\ b % W \in 0..(W - 1)
  BY DivMod
<1> HIDE DEF p, q
<1>2. W * p \in Int /\ W * q \in Int
  BY <1>1
<1>3. W * p < W * q /\ W * q - W * p < W
  BY <1>1, <1>2
<1>4. p < q
  <2>1. CASE q < p
    BY <2>1, <1>1, <1>2, <1>3, MultipleStep
  <2>2. CASE q = p
    BY <2>2, <1>3, <1>2
  <2>3. QED
    BY <2>1, <2>2, <1>1
<1>5. QED
  BY <1>1, <1>2, <1>3, <1>4, MultipleStep

\* The same for any two numbers of an interval no longer than the ring.
LEMMA SlotInjective ==
  ASSUME NEW W \in Nat \ {0}, NEW lo \in Nat, NEW hi \in Nat, hi - lo <= W,
         NEW a \in lo..(hi - 1), NEW b \in lo..(hi - 1), SlotOf(W, a) = SlotOf(W, b)
  PROVE  a = b
<1>1. a \in Nat /\ b \in Nat /\ b - a < W /\ a - b < W
  OBVIOUS
<1>2. CASE a < b
  BY <1>1, <1>2, SlotsDiffer
<1>3. CASE b < a
  BY <1>1, <1>3, SlotsDiffer
<1>4. QED
  BY <1>1, <1>2, <1>3

\* A slot is an index of the ring.
LEMMA SlotOfRange ==
  ASSUME NEW W \in Nat \ {0}, NEW a \in Nat
  PROVE  SlotOf(W, a) \in 0..(W - 1)
  BY DivMod DEF SlotOf

\* How many slots of the ring an interval of numbers takes.
LEMMA SlotsOfInterval ==
  ASSUME NEW W \in Nat \ {0}, NEW lo \in Nat, NEW hi \in Nat,
         lo <= hi, hi - lo <= W
  PROVE  /\ IsFiniteSet({SlotOf(W, s) : s \in lo..(hi - 1)})
         /\ Cardinality({SlotOf(W, s) : s \in lo..(hi - 1)}) = hi - lo
<1> DEFINE S == lo..(hi - 1)
           T == {SlotOf(W, s) : s \in S}
           f == [s \in S |-> SlotOf(W, s)]
<1>1. f \in Bijection(S, T)
  <2>1. f \in [S -> T]
    OBVIOUS
  <2>2. \A a, b \in S : f[a] = f[b] => a = b
    BY SlotInjective
  <2>3. \A t \in T : \E s \in S : f[s] = t
    OBVIOUS
  <2>4. QED
    BY <2>1, <2>2, <2>3 DEF Bijection, Injection, Surjection, IsInjective
<1>2. IsFiniteSet(S) /\ Cardinality(S) = hi - lo
  <2>1. lo \in Int /\ hi - 1 \in Int
    OBVIOUS
  <2>2. /\ IsFiniteSet(S)
        /\ Cardinality(S) = IF lo > hi - 1 THEN 0 ELSE hi - 1 - lo + 1
    BY <2>1, FS_Interval
  <2>3. QED
    BY <2>2
<1>3. ExistsBijection(S, T)
  BY <1>1 DEF ExistsBijection
<1>4. QED
  BY <1>2, <1>3, FS_Bijection

-------------------------------------------------------------------------------
\* A queue of W slots, as a record.
Ring(W) == [entries    : [0..(W - 1) -> QueueEntry],
            WindowSize : {W},
            ValidCount : Nat]

\* The ring q has W slots and holds the numbers lo..hi-1, each with its own
\* chunk in the slot of its number, and nothing else.
RingHolds(q, W, lo, hi) ==
  /\ lo \in Nat /\ hi \in Nat /\ lo <= hi /\ hi - lo <= W
  /\ q \in Ring(W)
  /\ q.entries \in [0..(W - 1) -> QueueEntry]
  /\ q.WindowSize = W
  /\ q.ValidCount = hi - lo
  /\ \A s \in lo..(hi - 1) :
       /\ q.entries[SlotOf(W, s)].valid
       /\ q.entries[SlotOf(W, s)].sequenceNum = s
       /\ q.entries[SlotOf(W, s)].packet = s
  /\ \A i \in 0..(W - 1) :
       q.entries[i].valid =>
         /\ q.entries[i].sequenceNum \in lo..(hi - 1)
         /\ i = SlotOf(W, q.entries[i].sequenceNum)

\* A ring with other entries and another count.
Updated(q, E, c) == [q EXCEPT !.entries = E, !.ValidCount = c]

LEMMA RingUpdate ==
  ASSUME NEW W \in Nat \ {0}, NEW q \in Ring(W),
         NEW E \in [0..(W - 1) -> QueueEntry], NEW c \in Int
  PROVE  /\ Updated(q, E, c) = [entries |-> E, WindowSize |-> W, ValidCount |-> c]
         /\ Updated(q, E, c).entries = E
         /\ Updated(q, E, c).WindowSize = W
         /\ Updated(q, E, c).ValidCount = c
         /\ c \in Nat => Updated(q, E, c) \in Ring(W)
<1> DEFINE Entries == [0..(W - 1) -> QueueEntry]
<1>1. q \in [entries : Entries, WindowSize : {W}, ValidCount : Nat] /\ E \in Entries
  BY DEF Ring
<1> HIDE DEF Entries
<1> DEFINE r == Updated(q, E, c)
<1>2. /\ r.entries = E /\ r.WindowSize = W /\ r.ValidCount = c
      /\ r \in [entries : Entries, WindowSize : {W}, ValidCount : Int]
      /\ c \in Nat => r \in [entries : Entries, WindowSize : {W}, ValidCount : Nat]
  BY <1>1 DEF Updated
<1> HIDE DEF r
<1>3. r = [entries |-> E, WindowSize |-> W, ValidCount |-> c]
  BY <1>2
<1>4. QED
  BY <1>2, <1>3 DEF Ring, Entries, r

\* A new ring holds nothing.
LEMMA RingInit ==
  ASSUME NEW W \in Nat \ {0}, NEW n \in Nat
  PROVE  RingHolds(CircularQueue_init(W), W, n, n)
  BY DEF RingHolds, Ring, CircularQueue_init, QueueEntry, NULL

\* What the ring's flags say of what it holds.
LEMMA RingContents ==
  ASSUME NEW W \in Nat \ {0}, NEW lo, NEW hi, NEW q, RingHolds(q, W, lo, hi)
  PROVE  /\ CircularQueue_is_full(q) <=> hi - lo = W
         /\ DOMAIN q.entries = 0..(W - 1)
         /\ ValidSlots(q) = {SlotOf(W, s) : s \in lo..(hi - 1)}
         /\ Outstanding(q) = lo..(hi - 1)
<1>1. CircularQueue_is_full(q) <=> hi - lo = W
  BY DEF RingHolds, CircularQueue_is_full
<1>2. DOMAIN q.entries = 0..(W - 1)
  BY DEF RingHolds
<1>3. \A s \in lo..(hi - 1) : SlotOf(W, s) \in 0..(W - 1)
  BY SlotOfRange DEF RingHolds
<1>4. ValidSlots(q) = {SlotOf(W, s) : s \in lo..(hi - 1)}
  <2>1. \A i \in ValidSlots(q) : \E s \in lo..(hi - 1) : i = SlotOf(W, s)
    BY <1>2 DEF RingHolds, ValidSlots
  <2>2. \A s \in lo..(hi - 1) : SlotOf(W, s) \in ValidSlots(q)
    BY <1>2, <1>3 DEF RingHolds, ValidSlots
  <2>3. QED
    BY <2>1, <2>2
<1>5. Outstanding(q) = lo..(hi - 1)
  BY <1>2, <1>3, <1>4 DEF RingHolds, Outstanding
<1>6. QED
  BY <1>1, <1>2, <1>4, <1>5

\* The slot of the next number is free as long as the ring is not full, so
\* inserting it succeeds.
LEMMA RingInsert ==
  ASSUME NEW W \in Nat \ {0}, NEW lo, NEW hi, NEW q, RingHolds(q, W, lo, hi),
         hi - lo < W
  PROVE  RingHolds(CircularQueue_insert(q, hi, hi), W, lo, hi + 1)
<1> DEFINE index == SlotOf(W, hi)
           new   == [packet |-> hi, sequenceNum |-> hi, valid |-> TRUE]
           E     == [q.entries EXCEPT ![index] = new]
           c     == q.ValidCount + 1
           r     == CircularQueue_insert(q, hi, hi)
<1>1. /\ lo \in Nat /\ hi \in Nat /\ lo <= hi
      /\ index \in 0..(W - 1)
      /\ q.entries \in [0..(W - 1) -> QueueEntry]
      /\ q.WindowSize = W /\ q.ValidCount = hi - lo
  BY SlotOfRange DEF RingHolds
<1>2. ~q.entries[index].valid
  <2> SUFFICES ASSUME q.entries[index].valid PROVE FALSE
    OBVIOUS
  <2> DEFINE s == q.entries[index].sequenceNum
  <2>1. s \in lo..(hi - 1) /\ SlotOf(W, s) = SlotOf(W, hi)
    BY <1>1 DEF RingHolds
  <2>2. s \in Nat /\ s < hi /\ hi - s < W
    BY <1>1, <2>1
  <2>3. QED
    BY <1>1, <2>1, <2>2, SlotsDiffer
<1>3. r = [q EXCEPT !.entries = E, !.ValidCount = c]
  <2>1. ~CircularQueue_is_full(q)
    BY <1>1 DEF CircularQueue_is_full
  <2>2. QED
    BY <1>1, <1>2, <2>1 DEF CircularQueue_insert, IndexOf, SlotOf
<1>4. /\ r.entries = E
      /\ new \in QueueEntry
      /\ r.WindowSize = W
      /\ r.ValidCount = hi + 1 - lo
      /\ r \in Ring(W)
  <2>1. new \in QueueEntry
    BY <1>1 DEF QueueEntry
  <2>2. q \in Ring(W)
    BY DEF RingHolds
  <2> HIDE DEF new, index, r
  <2>3. E \in [0..(W - 1) -> QueueEntry] /\ c \in Nat /\ c \in Int /\ c = hi + 1 - lo
    BY <1>1, <2>1
  <2> HIDE DEF E, c
  <2>4. r \in Ring(W) /\ r.entries = E /\ r.ValidCount = c /\ r.WindowSize = W
    <3>1. r = Updated(q, E, c)
      BY <1>3 DEF Updated
    <3>2. QED
      BY <2>2, <2>3, <3>1, RingUpdate
  <2>5. QED
    BY <2>1, <2>3, <2>4
<1> HIDE DEF r
<1>6. ASSUME NEW s \in lo..hi
      PROVE  /\ r.entries[SlotOf(W, s)].valid
             /\ r.entries[SlotOf(W, s)].sequenceNum = s
             /\ r.entries[SlotOf(W, s)].packet = s
  <2>1. CASE s = hi
    BY <1>1, <1>4, <2>1
  <2>2. CASE s < hi
    <3>1. s \in Nat /\ hi - s < W /\ s \in lo..(hi - 1)
      BY <1>1, <2>2
    <3>2. SlotOf(W, s) # index /\ SlotOf(W, s) \in 0..(W - 1)
      BY <1>1, <2>2, <3>1, SlotsDiffer, SlotOfRange
    <3>3. QED
      BY <1>1, <1>4, <3>1, <3>2 DEF RingHolds
  <2>3. QED
    BY <1>1, <2>1, <2>2
<1>7. ASSUME NEW i \in 0..(W - 1), r.entries[i].valid
      PROVE  /\ r.entries[i].sequenceNum \in lo..hi
             /\ i = SlotOf(W, r.entries[i].sequenceNum)
  <2>1. CASE i = index
    BY <1>1, <1>4, <2>1
  <2>2. CASE i # index
    BY <1>1, <1>4, <1>7, <2>2 DEF RingHolds
  <2>3. QED
    BY <2>1, <2>2
<1>8. (hi + 1) - 1 = hi
  BY <1>1
<1>9. QED
  BY <1>1, <1>4, <1>6, <1>7, <1>8 DEF RingHolds, r

\* An acknowledgement up to ack - 1 releases what the ring holds below ack.
Released(lo, hi, ack) == IF ack <= lo THEN lo ELSE IF ack <= hi THEN ack ELSE hi

LEMMA RingRelease ==
  ASSUME NEW W \in Nat \ {0}, NEW lo, NEW hi, NEW q, RingHolds(q, W, lo, hi),
         lo >= 1 \/ lo = hi, NEW ack \in Nat
  PROVE  RingHolds(RemoveBelow(q, ack), W, Released(lo, hi, ack), hi)
<1> DEFINE top     == Released(lo, hi, ack)
           gone    == ReleasedBy(q, ack)
           emptied == [i \in 0..(W - 1) |->
                         IF i \in gone
                         THEN [q.entries[i] EXCEPT !.packet = NULL, !.valid = FALSE]
                         ELSE q.entries[i]]
           left    == q.ValidCount - Cardinality(gone)
           r       == RemoveBelow(q, ack)
<1>1. /\ lo \in Nat /\ hi \in Nat /\ lo <= hi /\ hi - lo <= W
      /\ q \in Ring(W)
      /\ q.entries \in [0..(W - 1) -> QueueEntry]
      /\ DOMAIN q.entries = 0..(W - 1)
      /\ q.WindowSize = W /\ q.ValidCount = hi - lo
  BY DEF RingHolds
<1>2. top \in Nat /\ lo <= top /\ top <= hi
  BY <1>1 DEF Released
<1>3. \A s \in lo..(hi - 1) : s < ack <=> s < top
  BY <1>1 DEF Released
<1>4. gone = {SlotOf(W, s) : s \in lo..(top - 1)}
  <2>1. ASSUME NEW i \in gone
        PROVE  \E s \in lo..(top - 1) : i = SlotOf(W, s)
    <3> DEFINE s == q.entries[i].sequenceNum
    <3>1. i \in 0..(W - 1) /\ q.entries[i].valid /\ s \in 1..(ack - 1)
      BY <1>1 DEF ReleasedBy, ValidSlots
    <3>2. s \in lo..(hi - 1) /\ i = SlotOf(W, s)
      BY <3>1 DEF RingHolds
    <3>3. s < top
      BY <1>3, <3>1, <3>2
    <3>4. QED
      BY <1>1, <1>2, <3>2, <3>3
  <2>2. ASSUME NEW s \in lo..(top - 1)
        PROVE  SlotOf(W, s) \in gone
    <3>1. s \in lo..(hi - 1) /\ s \in Nat /\ s >= 1 /\ s < ack
      BY <1>1, <1>2, <1>3
    <3>2. /\ SlotOf(W, s) \in 0..(W - 1)
          /\ q.entries[SlotOf(W, s)].valid
          /\ q.entries[SlotOf(W, s)].sequenceNum = s
      BY <3>1, SlotOfRange DEF RingHolds
    <3>3. IndexOf(q, s) = SlotOf(W, s)
      BY <1>1 DEF IndexOf, SlotOf
    <3>4. QED
      BY <1>1, <3>1, <3>2, <3>3 DEF ReleasedBy, ValidSlots
  <2>3. QED
    BY <2>1, <2>2
<1>5. Cardinality(gone) = top - lo
  <2>1. top - lo <= W
    BY <1>1, <1>2
  <2> HIDE DEF gone, top
  <2>2. QED
    BY <1>1, <1>2, <1>4, <2>1, SlotsOfInterval
<1>6. r = [q EXCEPT !.entries = emptied, !.ValidCount = left]
  BY <1>1 DEF RemoveBelow
<1>7. emptied \in [0..(W - 1) -> QueueEntry]
  <2>1. \A e \in QueueEntry : [e EXCEPT !.packet = NULL, !.valid = FALSE] \in QueueEntry
    <3> TAKE e \in QueueEntry
    <3> DEFINE f == [e EXCEPT !.packet = NULL]
    <3>1. f \in QueueEntry
      BY DEF QueueEntry, NULL
    <3>2. [e EXCEPT !.packet = NULL, !.valid = FALSE] = [f EXCEPT !.valid = FALSE]
      OBVIOUS
    <3>3. QED
      BY <3>1, <3>2 DEF QueueEntry
  <2> HIDE DEF QueueEntry, gone
  <2>2. QED
    BY <1>1, <2>1
<1>8. left = hi - top /\ left \in Nat
  <2> DEFINE n     == q.ValidCount
             freed == Cardinality(gone)
  <2>1. left = n - freed /\ n = hi - lo /\ freed = top - lo
    BY <1>1, <1>5
  <2> HIDE DEF left, n, freed, top
  <2>2. QED
    BY <1>1, <1>2, <2>1
<1>9. r \in Ring(W) /\ r.entries = emptied /\ r.ValidCount = left /\ r.WindowSize = W
  <2> HIDE DEF r, emptied, left
  <2>1. r = Updated(q, emptied, left)
    BY <1>6 DEF Updated
  <2>2. QED
    BY <1>1, <1>7, <1>8, <2>1, RingUpdate
<1>10. ASSUME NEW s \in top..(hi - 1)
       PROVE  /\ emptied[SlotOf(W, s)].valid
              /\ emptied[SlotOf(W, s)].sequenceNum = s
              /\ emptied[SlotOf(W, s)].packet = s
  <2>1. s \in lo..(hi - 1) /\ SlotOf(W, s) \in 0..(W - 1)
    BY <1>1, <1>2, SlotOfRange
  <2>2. SlotOf(W, s) \notin gone
    <3> SUFFICES ASSUME NEW t \in lo..(top - 1), SlotOf(W, s) = SlotOf(W, t)
                 PROVE  FALSE
      BY <1>4
    <3>1. t \in lo..(hi - 1) /\ t # s
      BY <1>1, <1>2
    <3>2. QED
      BY <1>1, <2>1, <3>1, SlotInjective
  <2>3. QED
    BY <2>1, <2>2 DEF RingHolds
<1>11. ASSUME NEW i \in 0..(W - 1), emptied[i].valid
       PROVE  /\ emptied[i].sequenceNum \in top..(hi - 1)
              /\ i = SlotOf(W, emptied[i].sequenceNum)
  <2>1. i \notin gone
    BY <1>1, <1>11 DEF QueueEntry
  <2>2. emptied[i] = q.entries[i]
    BY <2>1
  <2> DEFINE s == q.entries[i].sequenceNum
  <2>3. s \in lo..(hi - 1) /\ i = SlotOf(W, s)
    BY <1>11, <2>2 DEF RingHolds
  <2>4. s >= top
    BY <1>1, <1>2, <1>4, <2>1, <2>3
  <2>5. QED
    BY <1>1, <1>2, <2>2, <2>3, <2>4
<1>12. hi - top <= W
  BY <1>1, <1>2
<1> HIDE DEF top, emptied, left, gone, r
<1>13. RingHolds(r, W, top, hi)
  BY <1>1, <1>2, <1>7, <1>8, <1>9, <1>10, <1>11, <1>12 DEF RingHolds
<1>14. QED
  BY <1>13 DEF r, top

\* The count of the ring is the length of the interval it holds.
LEMMA RingCount ==
  ASSUME NEW W \in Nat \ {0}, NEW lo, NEW hi, NEW q, RingHolds(q, W, lo, hi)
  PROVE  /\ lo = hi - q.ValidCount
         /\ lo \in Nat /\ hi \in Nat /\ lo <= hi /\ hi - lo <= W
         /\ q \in Ring(W) /\ q.WindowSize = W /\ q.ValidCount \in Nat
         /\ q.entries \in [0..(W - 1) -> QueueEntry]
<1>1. /\ lo \in Nat /\ hi \in Nat /\ lo <= hi /\ hi - lo <= W
      /\ q \in Ring(W) /\ q.WindowSize = W /\ q.ValidCount = hi - lo
      /\ q.entries \in [0..(W - 1) -> QueueEntry]
  BY DEF RingHolds
<1>2. QED
  BY <1>1

\* A number the ring holds is looked up with its own chunk.  Nothing is said of
\* the entries the lookup returns for other numbers, but that they are entries.
LEMMA RingGet ==
  ASSUME NEW W \in Nat \ {0}, NEW lo, NEW hi, NEW q, RingHolds(q, W, lo, hi),
         NEW s \in Nat, NEW entry \in CircularQueue_get(q, s)
  PROVE  entry.packet \in Int /\ (s \in lo..(hi - 1) => entry.packet = s)
<1>1. entry = q.entries[SlotOf(W, s)]
  <2>1. q.WindowSize = W
    BY RingCount
  <2>2. QED
    BY <2>1 DEF CircularQueue_get, IndexOf, SlotOf
<1>2. entry \in QueueEntry
  BY <1>1, SlotOfRange DEF RingHolds
<1>3. entry.packet \in Int
  BY <1>2 DEF QueueEntry
<1>4. s \in lo..(hi - 1) => entry.packet = s
  BY <1>1 DEF RingHolds
<1>5. QED
  BY <1>3, <1>4

===============================================================================
