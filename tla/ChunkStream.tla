---------------------------- MODULE ChunkStream ----------------------------
(***************************************************************************)
(* One chunk-protocol stream from a consumer to each of its sources: the   *)
(* client's requests and tickets, the handler's answers, and the two       *)
(* ordered channels between them.  The protocol has no request numbers:    *)
(* an answer belongs to the request that is being waited for.              *)
(*                                                                         *)
(* A stream may be reset at any moment, a source may send data that does   *)
(* not hash to what was asked, and a consumer may be set up to send forged *)
(* tickets; faults bounds the first two.                                   *)
(***************************************************************************)
EXTENDS ChunkMessages, Sequences, FiniteSets

CONSTANTS
    Sources,        \* the peers a consumer downloads from
    ChunkIDs,       \* the chunks of the content, in the order of the manifest
    Replicas,       \* what a source may have: [chunks, manifest]
    NoManifest, NoChunk,
    Modes,          \* subset of {"ack", "ticket", "forged"}: how the consumer pays
    MaxFaults       \* bound on resets, corrupted chunks and failed writes

VARIABLES
    replicas,   \* source -> its chunks and its copy of the manifest
    mode,
    streams,    \* source -> the stream to it; owed counts the chunks the consumer
                \* verified on it less the tickets the source stored (history)
    faults

streamVars == <<replicas, mode, streams, faults>>

NoStream == [client |-> "closed", server |-> "closed",
             toServer |-> <<>>, toClient |-> <<>>, await |-> NoChunk, owed |-> 0]

StreamInit ==
    /\ replicas \in [Sources -> Replicas]
    /\ mode \in Modes
    /\ streams = [p \in Sources |-> NoStream]
    /\ faults = 0

Fault == faults < MaxFaults /\ faults' = faults + 1

-----------------------------------------------------------------------------
(* Tickets.  A signature is what was signed, by whom, and the recovery      *)
(* byte; a digest is the pair it hashes.                                    *)

Digest(domain, ticket) == <<domain, ticket>>
SignTicket(domain, ticket) ==
    LET v == 0 IN [by |-> ticket.Sender, of |-> Digest(domain, ticket), V |-> IF v < 27 THEN v + 27 ELSE v]
Tampered(sig) == [sig EXCEPT !.V = 255 - @]
RecoverSigner(domain, ticket, sig) ==
    LET v == IF sig.V >= 27 THEN sig.V - 27 ELSE sig.V
    IN IF v \in 0 .. 3 /\ sig.of = Digest(domain, ticket) THEN sig.by ELSE "nobody"
Verify(domain, ticket, sig, expected) == RecoverSigner(domain, ticket, sig) = expected

TicketGenerator(k) ==
    LET ticket == [Sender |-> "consumer", LocalIndex |-> k]
        sig == SignTicket("entropy", ticket)
    IN [Ticket |-> ticket, Signature |-> IF mode = "forged" THEN Tampered(sig) ELSE sig]

TicketHandler(signed) == Verify("entropy", signed.Ticket, signed.Signature, signed.Ticket.Sender)

-----------------------------------------------------------------------------
(* The handler *)

\* A write to a stream the client has closed is an error the handler ignores.
Reply(s, m) == IF s.client = "open" THEN [s EXCEPT !.toClient = Append(@, m)] ELSE s

handleRequestManifest(p, s, m) ==
    Reply(s, IF ~ParseRequestManifest(m) THEN BuildError("BAD_REQUEST")
             ELSE IF replicas[p].manifest = NoManifest THEN BuildError("CONTENT_NOT_FOUND")
             ELSE BuildManifest(m.Body, replicas[p].manifest))

\* Fault: the next request is read without waiting for the acknowledgement.
handleRequestChunk_NoWait(p, s, m, hash) ==
    IF ~ParseRequestChunk(m) THEN Reply(s, BuildError("BAD_REQUEST"))
    ELSE IF m.Body \notin replicas[p].chunks THEN Reply(s, BuildError("CHUNK_NOT_FOUND"))
    ELSE Reply(s, BuildChunk(m.Body, hash))

handleRequestChunk(p, s, m, hash) ==
    IF ~ParseRequestChunk(m) THEN Reply(s, BuildError("BAD_REQUEST"))
    ELSE IF m.Body \notin replicas[p].chunks THEN Reply(s, BuildError("CHUNK_NOT_FOUND"))
    ELSE [Reply(s, BuildChunk(m.Body, hash)) EXCEPT !.await = m.Body]

\* Fault: a ticket is taken for an acknowledgement.
Accepts_NoTicket(m) == FALSE

Accepts(m) == m.Type = "TICKET" /\ ParseTicket(m) /\ TicketHandler(m.Body)

\* The one message after a chunk; whatever it is, the handler goes back to its
\* loop.
awaitTicket(s, m) ==
    LET r == [s EXCEPT !.await = NoChunk]
    IN CASE Accepts(m) -> [r EXCEPT !.owed = @ - 1]
         [] m.Type = "TICKET" /\ ParseTicket(m) /\ ~TicketHandler(m.Body) ->
                Reply(r, BuildError("PERMISSION_DENIED"))
         [] OTHER -> r

Serve(p, s, m, hash) ==
    CASE s.await # NoChunk -> awaitTicket(s, m)
      [] s.await = NoChunk /\ m.Version # CurrentMessageVersion ->
            [Reply(s, BuildError("UNSUPPORTED_MESSAGE")) EXCEPT !.server = "closed"]
      [] s.await = NoChunk /\ m.Type = "REQUEST_MANIFEST" -> handleRequestManifest(p, s, m)
      [] s.await = NoChunk /\ m.Type = "REQUEST_CHUNK" -> handleRequestChunk(p, s, m, hash)
      [] OTHER -> Reply(s, BuildError("UNSUPPORTED_MESSAGE"))

handleStream(p) ==
    LET s == streams[p]
        m == Head(s.toServer)
        rest == [s EXCEPT !.toServer = Tail(@)]
    IN /\ s.server = "open" /\ s.toServer # <<>>
       /\ IF ReadMessage(m)
          THEN \E hash \in {m.Body, Garbage} :
                 /\ hash = Garbage =>
                        m.Type = "REQUEST_CHUNK" /\ s.await = NoChunk /\ m.Body \in replicas[p].chunks
                 /\ IF hash = Garbage THEN Fault ELSE UNCHANGED faults
                 /\ streams' = [streams EXCEPT ![p] = Serve(p, rest, m, hash)]
          ELSE /\ streams' = [streams EXCEPT ![p] = [rest EXCEPT !.server = "closed"]]
               /\ UNCHANGED faults
       /\ UNCHANGED <<replicas, mode>>

endStream(p) ==
    /\ streams[p].server = "open" /\ streams[p].client = "closed" /\ streams[p].toServer = <<>>
    /\ streams' = [streams EXCEPT ![p] = NoStream]
    /\ UNCHANGED <<replicas, mode, faults>>

-----------------------------------------------------------------------------
(* The client's side: operators its callers compose *)

OpenStream(p) == [NoStream EXCEPT !.client = "open", !.server = "open"]
Readable(s) == s.toClient # <<>> \/ s.client = "reset"
Closed(s) == IF s.client = "open" THEN [s EXCEPT !.client = "closed", !.toClient = <<>>] ELSE NoStream
Received(s) == [s EXCEPT !.toClient = IF @ = <<>> THEN @ ELSE Tail(@)]
Write(s, m) == IF s.client = "open" THEN [s EXCEPT !.toServer = Append(@, m)] ELSE s

Resolve(s, id) ==
    /\ s.client = "open"
    /\ LET m == Head(s.toClient)
       IN ReadMessage(m) /\ m.Type = "MANIFEST" /\ ParseManifest(m) /\ m.Body.id = id

\* Fault: the data is stored under the identifier that was asked for, unchecked.
HashMatches_Trusted(m, k) == TRUE

HashMatches(m, k) == m.Body.hash = k

\* What FetchChunk makes of the message it reads for chunk k.
FetchResult(s, k) ==
    IF s.client # "open" THEN "error"
    ELSE LET m == Head(s.toClient)
         IN CASE ~ReadMessage(m) -> "error"
              [] m.Type = "ERROR" -> IF ParseError(m) /\ m.Body.code = "CHUNK_NOT_FOUND" THEN "missing" ELSE "error"
              [] m.Type = "CHUNK" /\ ParseChunk(m) -> IF HashMatches(m, k) THEN "ok" ELSE "mismatch"
              [] OTHER -> "error"

Acknowledgement(k) ==
    IF mode = "ack" THEN BuildAck(k, 0) ELSE BuildTicket(TicketGenerator(k))

\* The answer is read, and the ticket, the acknowledgement or the complaint
\* written.
FetchChunk(s, k) ==
    LET result == FetchResult(s, k)
    IN CASE result = "ok" ->
              [Write(Received(s), Acknowledgement(k)) EXCEPT !.owed = IF mode = "ack" THEN @ ELSE @ + 1]
         [] result = "mismatch" -> Write(Received(s), BuildError("INTEGRITY_MISMATCH"))
         [] OTHER -> Received(s)

\* The connection is lost with everything under way on it.
Reset(p) ==
    /\ streams[p].client = "open"
    /\ Fault
    /\ streams' = [streams EXCEPT ![p] = [NoStream EXCEPT !.client = "reset"]]
    /\ UNCHANGED <<replicas, mode>>

StreamNext == \E p \in Sources : handleStream(p) \/ endStream(p) \/ Reset(p)
=============================================================================
