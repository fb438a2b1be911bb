-------------------------------- MODULE PollSet --------------------------------
(***************************************************************************)
(* pollLib: the set of descriptors a process polls, an array indexed by    *)
(* descriptor number.  An entry is represented by its events: entry i is   *)
(* [fd i, POLLIN] once i was added and [fd 0, no events] before, so that   *)
(* an entry that was never added still names descriptor 0.                 *)
(***************************************************************************)
EXTENDS Integers, FiniteSets, FiniteSetsExt

CONSTANT POLL_SET_SIZE   \* 10 in the program

ASSUME PollSetSizeAssumption == POLL_SET_SIZE \in Nat \ {0}

POLLIN == 1

\* The three static variables before any call.
NoPollSet == [events             |-> <<>>,   \* pollFileDescriptors
              maxFileDescriptor  |-> 0,
              currentPollSetSize |-> 0]

\* A new array each time; maxFileDescriptor is kept.
setupPollSet(set) ==
  [set EXCEPT !.currentPollSetSize = POLL_SET_SIZE,
              !.events = [i \in 0..(POLL_SET_SIZE - 1) |-> 0]]

growPollSet(set, newSetSize) ==
  [set EXCEPT
     !.currentPollSetSize = newSetSize,
     !.events = [i \in 0..(newSetSize - 1) |->
                   IF i < set.currentPollSetSize THEN @[i] ELSE 0]]

GrownFor(set, socketNumber) ==
  IF socketNumber >= set.currentPollSetSize
  THEN growPollSet(set, socketNumber + POLL_SET_SIZE) ELSE set

\* Mutant: the number of entries that poll() looks at is one short.
addToPollSet_ShortMax(set, socketNumber) ==
  [GrownFor(set, socketNumber) EXCEPT
     !.maxFileDescriptor = Max({@, socketNumber}),
     !.events[socketNumber] = POLLIN]

addToPollSet(set, socketNumber) ==
  [GrownFor(set, socketNumber) EXCEPT
     !.maxFileDescriptor = Max({@, socketNumber + 1}),
     !.events[socketNumber] = POLLIN]

\* poll(), when the descriptors `open' are open, of which `readable' have
\* something to read and `hungUp' have lost their other end: the entries with
\* an event.  A closed or hung-up descriptor reports itself without being asked.
PollEvents(set, open, readable, hungUp) ==
  {i \in 0..(set.maxFileDescriptor - 1) :
     IF set.events[i] = POLLIN THEN i \notin open \/ i \in hungUp \cup readable
                               ELSE 0 \notin open \/ 0 \in hungUp}

\* The lowest entry with an event, or -1 for a timeout.
pollCall(set, open, readable, hungUp) ==
  LET events == PollEvents(set, open, readable, hungUp)
  IN  IF events = {} THEN -1 ELSE Min(events)

\* poll() is given no more entries than there are.
InBounds(set) == set.maxFileDescriptor <= set.currentPollSetSize
===============================================================================
