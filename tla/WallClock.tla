----------------------------- MODULE WallClock ------------------------------
(* The wall time that the components of one node read. *)
EXTENDS Integers

CONSTANT MaxTime    \* bound on the clock

ASSUME ClockAssumption == MaxTime \in Nat \ {0}

VARIABLE clock

Advance == clock < MaxTime /\ clock' = clock + 1
=============================================================================
