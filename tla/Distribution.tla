--------------------------- MODULE Distribution ---------------------------
(***************************************************************************)
(* Pushing a file to R providers per chunk: the placement plan, the        *)
(* tracker of replicas, and Distribute with one upload goroutine per       *)
(* provider, first for the plan and then for the failover rounds.  The     *)
(* tracker is read only when the goroutines of a round are done, so a      *)
(* goroutine takes an answer and sends its next message in one step.       *)
(***************************************************************************)
EXTENDS PushStream

CONSTANTS
    MaxRetriesPerChunk, FailoverRounds  \* DefaultUploaderConfig

ASSUME DistributionAssumption ==
    MaxRetriesPerChunk \in Nat \ {0} /\ FailoverRounds \in Nat /\ MaxStreams > FailoverRounds

VARIABLES
    manifest,   \* the chunks of the ingested file, as their headers
    local,      \* chunk -> how the publisher's own store has it: "good", "corrupt" or "missing"
    plan,       \* the PlacementPlan
    tracker,    \* chunk -> provider -> ReplicaState
    uploads,    \* provider -> its upload goroutine
    round       \* Distribute: the phase or failover round it is in

distVars == <<manifest, local, plan, tracker, uploads, round>>

NoUpload == [pc |-> "off", chunks |-> <<>>, todo |-> <<>>, attempt |-> 0, committed |-> 0]
NoPlan == [providers |-> <<>>, Replication |-> 0, manifestBytes |-> 0,
           ProviderChunks |-> [p \in Providers |-> <<>>], Assignments |-> <<>>]
ChunkIDs == [i \in DOMAIN manifest |-> i]

DistInit ==
    /\ manifest = <<>> /\ plan = NoPlan
    /\ local = [k \in Chunks |-> "good"]
    /\ tracker = [k \in Chunks |-> [p \in Providers |-> "Pending"]]
    /\ uploads = [p \in Providers |-> NoUpload]
    /\ round = [at |-> "off", number |-> 0, active |-> <<>>]

-----------------------------------------------------------------------------
(* The plan *)

\* Indexes count from 0, as in the code.
Target(providers, i, r) == providers[((i + r) % Len(providers)) + 1]

CanPlan(providers, replication) ==
    /\ providers # <<>> /\ replication > 0
    /\ replication <= Len(providers) /\ manifest # <<>>

PlanPlacement(providers, replication, manifestBytes) ==
    LET Assignments == [i \in DOMAIN manifest |->
                           [r \in 1 .. replication |-> Target(providers, i - 1, r - 1)]]
    IN  [providers |-> providers, Replication |-> replication, Assignments |-> Assignments,
         manifestBytes |-> manifestBytes, ProviderChunks |-> [p \in Providers |->
             FlattenSeq([i \in DOMAIN manifest |->
                 [j \in DOMAIN SelectSeq(Assignments[i], LAMBDA q : q = p) |-> i]])]]

-----------------------------------------------------------------------------
(* The tracker *)

SetStatus(t, ks, p, status) ==
    [k \in Chunks |-> IF k \in ks THEN [t[k] EXCEPT ![p] = status] ELSE t[k]]

\* Fault: a chunk that is being uploaded counts.
CommittedCount_Tried(k) == Cardinality({p \in Providers : tracker[k][p] # "Pending"})

CommittedCount(k) == Cardinality({p \in Providers : tracker[k][p] = "Committed"})

IsComplete == \A k \in ToSet(ChunkIDs) : CommittedCount(k) >= plan.Replication

-----------------------------------------------------------------------------
(* The push client and uploadToProvider *)

Stream(p) == Last(streams[p])
PutStream(p, s) == streams' = [streams EXCEPT ![p] = Append(Front(streams[p]), s)]
\* There is an answer to read, or the stream is over.
Readable(p) ==
    \/ Stream(p).toClient # <<>>
    \/ Stream(p).client = "closed"
    \/ Stream(p).server.pc = "gone"
Dead(p) == Stream(p).toClient = <<>>

CloseStream(s) == [s EXCEPT !.client = "closed", !.toClient = <<>>]
Sent(s, m) == IF s.server.pc = "gone" THEN s ELSE [s EXCEPT !.toServer = Append(@, m)]
Taken(s) == IF s.toClient = <<>> THEN s ELSE [s EXCEPT !.toClient = Tail(@)]
CipherSize(k) == manifest[k].CipherSize

ChunkMessage(k) == BuildPushChunk(k, CipherSize(k), local[k] = "good")
\* GetChunk reads it and WritePushMessage takes it.
Sendable(k) == local[k] # "missing" /\ WritePushMessage(ChunkMessage(k))

Done == [NoUpload EXCEPT !.pc = "done"]
Failed(p, ks) ==
    /\ uploads' = [uploads EXCEPT ![p] = Done]
    /\ tracker' = SetStatus(tracker, ks, p, "Failed")
    /\ UNCHANGED <<manifest, local, plan, round>>

\* NewClient, and SendManifest up to its answer.  A manifest that is too long is
\* not written, and the stream is closed again.
Connect(p) ==
    LET u == uploads[p]
        m == BuildPushManifest(u.chunks, plan.manifestBytes)
    IN /\ u.pc = "connect" /\ Len(streams[p]) < MaxStreams
       /\ IF WritePushMessage(m)
          THEN /\ streams' = [streams EXCEPT ![p] = Append(@, NewStream(p, m))]
               /\ uploads' = [uploads EXCEPT ![p] = [u EXCEPT !.pc = "manifest"]]
               /\ UNCHANGED <<manifest, local, plan, tracker, round>>
          ELSE Failed(p, ToSet(u.chunks)) /\ UNCHANGED streams
       /\ UNCHANGED <<files, authorized, pending, stored, dht, faults, harmed>>

ConnectFails(p) ==
    /\ uploads[p].pc = "connect" /\ Fault
    /\ Failed(p, ToSet(uploads[p].chunks))
    /\ UNCHANGED <<files, authorized, streams, pending, stored, dht, harmed>>

\* The goroutine goes on with the chunks of todo: the next one is sent, or the
\* batch is completed if every chunk was committed, or the stream is closed.
Proceed(p, s, todo, committed, t) ==
    LET whole == committed = Len(uploads[p].chunks)
    IN /\ tracker' = IF todo = <<>> THEN t ELSE SetStatus(t, {Head(todo)}, p, "Uploading")
       /\ uploads' = [uploads EXCEPT ![p] =
              IF todo # <<>>
              THEN [uploads[p] EXCEPT !.pc = "chunk", !.todo = todo, !.attempt = 1, !.committed = committed]
              ELSE IF whole THEN [uploads[p] EXCEPT !.pc = "batch", !.todo = <<>>, !.committed = committed]
              ELSE Done]
       /\ PutStream(p, IF todo # <<>> THEN Sent(s, ChunkMessage(Head(todo)))
                       ELSE IF whole THEN Sent(s, BuildPushBatchComplete)
                       ELSE CloseStream(s))
       /\ UNCHANGED <<manifest, local, plan, round>>
       /\ UNCHANGED <<files, authorized, pending, stored, dht, harmed>>

\* SendManifest's answer.  Chunks that cannot be read or written fail.
ManifestAnswer(p) ==
    LET s == Stream(p)
        chunks == uploads[p].chunks
        todo == SelectSeq(chunks, Sendable)
        unsent == {k \in ToSet(chunks) : ~Sendable(k)}
    IN /\ uploads[p].pc = "manifest" /\ Readable(p)
       /\ IF ~Dead(p) /\ Acknowledges(Head(s.toClient), "MANIFEST_ACK", 0)
          THEN Proceed(p, Taken(s), todo, 0, SetStatus(tracker, unsent, p, "Failed"))
          ELSE /\ Failed(p, ToSet(chunks))
               /\ PutStream(p, CloseStream(s))
               /\ UNCHANGED <<files, authorized, pending, stored, dht, harmed>>
       /\ UNCHANGED faults

\* Fault: the chunk an acknowledgement is for is not looked at.
SendChunkOK_AnyChunk(p) ==
    Stream(p).toClient # <<>> /\ Acknowledges(Head(Stream(p).toClient), "CHUNK_ACK", Head(Stream(p).toClient).Body.id)

SendChunkOK(p) ==
    Stream(p).toClient # <<>> /\ Acknowledges(Head(Stream(p).toClient), "CHUNK_ACK", Head(uploads[p].todo))

MayRetry(u) == u.attempt < MaxRetriesPerChunk

\* Fault: the attempts are not counted.
NextAttempt_Uncounted(u) == u

NextAttempt(u) == [u EXCEPT !.attempt = @ + 1]

\* An attempt failed: the chunk is sent again, or given up.
Retry(p, s) ==
    LET u == uploads[p]
    IN IF MayRetry(u)
       THEN /\ uploads' = [uploads EXCEPT ![p] = NextAttempt(u)]
            /\ PutStream(p, Sent(s, ChunkMessage(Head(u.todo))))
            /\ UNCHANGED <<manifest, local, plan, tracker, round>>
            /\ UNCHANGED <<files, authorized, pending, stored, dht, harmed>>
       ELSE Proceed(p, s, Tail(u.todo), u.committed, SetStatus(tracker, {Head(u.todo)}, p, "Failed"))

\* On a stream that is over every attempt of every chunk left fails.
SendChunk(p) ==
    LET s == Stream(p)
        u == uploads[p]
    IN /\ u.pc = "chunk" /\ Readable(p)
       /\ IF SendChunkOK(p)
          THEN Proceed(p, Taken(s), Tail(u.todo), u.committed + 1,
                       SetStatus(tracker, {Head(u.todo)}, p, "Committed"))
          ELSE IF Dead(p)
          THEN /\ Failed(p, ToSet(u.todo))
               /\ PutStream(p, CloseStream(s))
               /\ UNCHANGED <<files, authorized, pending, stored, dht, harmed>>
          ELSE Retry(p, Taken(s))
       /\ UNCHANGED faults

\* The deadline of a chunk passes; its answer may still come, and be read for
\* the next request.
SendChunkTimesOut(p) ==
    /\ uploads[p].pc = "chunk" /\ ~Readable(p) /\ Fault
    /\ Retry(p, Stream(p))

\* An answer of any kind, or none in time: an error is only logged.
SendBatchComplete(p) ==
    /\ uploads[p].pc = "batch"
    /\ \/ Readable(p) /\ UNCHANGED faults
       \/ ~Readable(p) /\ Fault
    /\ uploads' = [uploads EXCEPT ![p] = Done]
    /\ PutStream(p, CloseStream(Stream(p)))
    /\ UNCHANGED <<manifest, local, plan, tracker, round>>
    /\ UNCHANGED <<files, authorized, pending, stored, dht, harmed>>

\* The manifest is not acknowledged in time.
ManifestTimesOut(p) ==
    /\ uploads[p].pc = "manifest" /\ ~Readable(p) /\ Fault
    /\ Failed(p, ToSet(uploads[p].chunks))
    /\ PutStream(p, CloseStream(Stream(p)))
    /\ UNCHANGED <<files, authorized, pending, stored, dht, harmed>>

uploadToProvider(p) == Connect(p) \/ ManifestAnswer(p) \/ SendChunk(p) \/ SendBatchComplete(p)

-----------------------------------------------------------------------------
(* Distribute *)

Upload(chunks) ==
    uploads' = [p \in Providers |->
        IF chunks[p] = <<>> THEN NoUpload
        ELSE [NoUpload EXCEPT !.pc = "connect", !.chunks = chunks[p]]]

Assigned == {p \in Providers : plan.ProviderChunks[p] # <<>>}

\* Phase 1, or the manifest cannot be read.  The order of the active providers is
\* that of a map's iteration.
Distribute ==
    /\ round.at = "begin"
    /\ \/ /\ \E order \in SetToSeqs(Assigned) :
               round' = [at |-> "wait", number |-> 0, active |-> order]
          /\ Upload(plan.ProviderChunks) /\ UNCHANGED faults
       \/ Fault /\ round' = [round EXCEPT !.at = "error"] /\ UNCHANGED uploads
    /\ UNCHANGED <<manifest, local, plan, tracker>>
    /\ UNCHANGED <<files, authorized, streams, pending, stored, dht, harmed>>

Candidate(k, p) == tracker[k][p] # "Committed" /\ tracker[k][p] # "Uploading"

\* The providers chunk k is given to in a failover round.
Reassigned(k) ==
    LET needed == plan.Replication - CommittedCount(k)
        candidates == SelectSeq(round.active, LAMBDA p : Candidate(k, p))
    IN ToSet(SubSeq(candidates, 1, Min({needed, Len(candidates)})))

AllDone == \A p \in Providers : uploads[p].pc \in {"off", "done"}

\* The goroutines of a round are done: Distribute returns, or reassigns.
WaitGroup ==
    LET chunks == [p \in Providers |-> SelectSeq(ChunkIDs, LAMBDA k : p \in Reassigned(k))]
    IN /\ round.at = "wait" /\ AllDone
       /\ IF IsComplete \/ round.number = FailoverRounds \/ \A p \in Providers : chunks[p] = <<>>
          THEN /\ round' = [round EXCEPT !.at = IF IsComplete THEN "ok" ELSE "error"]
               /\ uploads' = [p \in Providers |-> NoUpload]
               /\ UNCHANGED tracker
          ELSE /\ round' = [round EXCEPT !.number = @ + 1]
               /\ tracker' = [k \in Chunks |-> [p \in Providers |->
                      IF k \in ToSet(chunks[p]) THEN "Pending" ELSE tracker[k][p]]]
               /\ Upload(chunks)
       /\ UNCHANGED <<manifest, local, plan, pushVars>>

Distributing == Distribute \/ WaitGroup
=============================================================================
