------------------------------ MODULE EthQueue ------------------------------
(***************************************************************************)
(* What NetLoop() relies on when it polls an Ethernet device with          *)
(* eth_rx(): a queue of received frames of bounded length.  A frame is its *)
(* number in the order of arrival, so that the oldest one is the least.    *)
(* Frames may be lost on the way in, but what is passed up comes once and, *)
(* while the queue is in order, oldest first.  Module Dc21x4x implements   *)
(* it.                                                                     *)
(***************************************************************************)
EXTENDS Naturals, FiniteSets

CONSTANT Capacity

VARIABLES
  queue,      \* the frames received and not yet passed up
  ordered,    \* FALSE: frames may come out in any order
  arrived,    \* the number of frames seen on the wire
  passed      \* the last frame passed up

vars == <<queue, ordered, arrived, passed>>

Init ==
  /\ queue = {}
  /\ ordered = TRUE
  /\ arrived = 0
  /\ passed = 0

\* A frame is queued, or lost.
Arrive ==
  /\ arrived' = arrived + 1
  /\ \/ /\ Cardinality(queue) < Capacity
        /\ queue' = queue \cup {arrived'}
     \/ UNCHANGED queue
  /\ UNCHANGED <<ordered, passed>>

\* A frame is passed up; it leaves the queue.
Deliver ==
  \E f \in queue :
    /\ ordered => \A g \in queue : f <= g
    /\ passed' = f
    /\ queue' = queue \ {f}
    /\ UNCHANGED <<ordered, arrived>>

\* The device is reinitialised: what was queued is gone.
Flush ==
  /\ queue' = {}
  /\ ordered' \in BOOLEAN
  /\ UNCHANGED <<arrived, passed>>

\* Out of order, a queued frame may also be lost.
Lose ==
  /\ ~ordered
  /\ \E f \in queue : queue' = queue \ {f}
  /\ UNCHANGED <<ordered, arrived, passed>>

Next == Arrive \/ Deliver \/ Flush \/ Lose

Spec == Init /\ [][Next]_vars

=============================================================================
