-------------------------- MODULE MCPublisherNode --------------------------
(* A small instance of PublisherNode for TLC. *)
EXTENDS PublisherNode, TLC

CONSTANTS p1, p2

\* Providers meet only in the tracker and the plan, so what several failures do to
\* one provider is explored with that provider alone, and two providers with one
\* failure.
MCPush(replication, found, mayPush, failures) ==
    [size |-> 49152, manifestBytes |-> 900, ChunkSize |-> 32768, replication |-> replication, found |-> found,
     authorized |-> mayPush, failures |-> failures]
MCBase == MCPush(2, <<p1>>, {p1}, 2)
MCScenarios ==
    {MCBase, MCPush(2, <<p1, p1>>, {p1}, 1), MCPush(2, <<>>, {p1}, 0)}
    \cup {MCPush(r, <<p1, p2>>, a, 1) : r \in 1 .. 2, a \in {{p1, p2}, {p1}}}
    \cup {[MCBase EXCEPT !.size = 0, !.failures = 0],
          [MCBase EXCEPT !.manifestBytes = 4194304, !.failures = 0],
          [MCBase EXCEPT !.size = 6291456, !.ChunkSize = 5242880, !.failures = 0]}
=============================================================================
