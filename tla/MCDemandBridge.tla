--------------------------- MODULE MCDemandBridge ---------------------------
(* A small instance of DemandBridge for TLC. *)
EXTENDS DemandBridge, TLC

CONSTANTS c1, c2, p1, p2, f1

\* Hashes that start with no zero or with one, depending on all that is hashed.
MCLeadingZeros(client, file, time, nonce) ==
    (nonce + time + (IF client = c1 THEN 1 ELSE 0)) % 2

\* The two components share only the clock, so nothing is lost by looking at
\* behaviours in which one of them is at rest.
MCOneAtATime == record = <<>> \/ network = {}
=============================================================================
