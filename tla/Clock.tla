-------------------------------- MODULE Clock -------------------------------
(* What the services share: the instances, and the wall clock they read     *)
(* with time.Now.  It starts at 1, so that 0 can stand for Go's zero time.  *)
EXTENDS Integers

CONSTANTS
    Instances,
    None,       \* no instance, no client, no lock, no job
    Strides,    \* how far the clock goes between two looks at it
    MaxTime     \* bound: the clock stops here

ASSUME ClockAssumption == MaxTime \in Nat \ {0} /\ Strides \subseteq Nat \ {0}

VARIABLE now

ClockInit == now = 1
Tick == \E d \in Strides : now + d <= MaxTime /\ now' = now + d
=============================================================================
