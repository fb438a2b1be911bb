------------------------------ MODULE SendWindow ------------------------------
(***************************************************************************)
(* What a sender's sliding window promises: numbers are first sent in      *)
(* order, each is held from then until everything up to it has been        *)
(* acknowledged, nothing is ever missing between two held numbers, and the *)
(* held ones never span more than Size.  There is no ring here, only a set.*)
(***************************************************************************)
EXTENDS Naturals

CONSTANT Size

VARIABLES
  open,   \* the window is in use
  next,   \* the next number to send
  held    \* the numbers sent and not yet acknowledged

windowVars == <<open, next, held>>

WindowInit == open = FALSE /\ next = 0 /\ held = {}

Open ==
  /\ ~open /\ next = 0
  /\ open' = TRUE /\ next' = 1
  /\ UNCHANGED held

SendNext ==
  /\ open
  /\ \A s \in held : next < s + Size
  /\ held' = held \cup {next}
  /\ next' = next + 1
  /\ UNCHANGED open

Release ==
  /\ open
  /\ \E ack \in held : held' = {s \in held : s > ack}
  /\ UNCHANGED <<open, next>>

Shut ==
  /\ open
  /\ open' = FALSE /\ held' = {}
  /\ UNCHANGED next

WindowSpec == WindowInit /\ [][Open \/ SendNext \/ Release \/ Shut]_windowVars
===============================================================================
