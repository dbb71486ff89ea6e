------------------------- MODULE MCTransferManager -------------------------
(* A small instance of TransferManager for TLC. *)
EXTENDS TransferManager, TLC

CONSTANTS p1, p2, k1, k2

MCChunkIDs == <<k1, k2>>
MCPeers == <<p1, p2>>
MCManifest == [size |-> 2097117, ok |-> TRUE]
MCReplicas ==
    {[chunks |-> {k1, k2}, manifest |-> MCManifest],
     [chunks |-> {k1}, manifest |-> MCManifest],
     [chunks |-> {k2}, manifest |-> [MCManifest EXCEPT !.size = @ + 1]],
     [chunks |-> {}, manifest |-> [MCManifest EXCEPT !.ok = FALSE]],
     [chunks |-> {}, manifest |-> NoManifest]}

\* What a source answers when it has no chunk does not depend on how the consumer
\* pays, and what a process resumes depends on neither: only a consumer with
\* tickets meets sources that lack chunks, or is stopped and resumed.  A process
\* that is left out is left out before it starts, so every download that is looked
\* at is followed to its end.
MCFull == \A p \in Sources : replicas[p].chunks = {k1, k2}
MCCases == (mode = "ticket" /\ (MCFull \/ proc.runs <= 1)) \/ (MCFull /\ proc.runs <= 1)
=============================================================================
