---------------------------- MODULE PushStream ----------------------------
(***************************************************************************)
(* The provider's end of the push protocol: the streams a publisher opens, *)
(* the handler goroutine of each, the pending session of the content, and  *)
(* what the provider keeps: chunks, the manifest, the announcement.        *)
(*                                                                         *)
(* A handler goes on with what it has read after the publisher has closed  *)
(* the stream, next to the handler of the stream opened after it.  Each    *)
(* stream carries one manifest, so a session is named by its stream.       *)
(***************************************************************************)
EXTENDS PushMessages, ChunkFiles, SequencesExt

VARIABLES
    authorized,     \* providers that take pushes from this publisher
    streams,        \* provider -> the streams opened to it
    pending,        \* provider -> the stream whose session is pending, or 0
    stored,         \* provider -> the manifest file: "none", "torn" or "whole"
    dht,            \* providers announced for the content
    faults,         \* failures of streams, disks and processes still to come at most
    harmed          \* providers that were stopped or whose disk failed

pushVars == <<files, authorized, streams, pending, stored, dht, faults, harmed>>

Fault == faults > 0 /\ faults' = faults - 1

Idle == [pc |-> "read", chunk |-> 0, session |-> 0, fd |-> 0]
NoSession == [expected |-> {}, committed |-> {}]

\* A stream to p with its first message.  handleStream's authorization comes
\* before anything is read.  A handler that has read a closed stream to its end
\* returns, which changes nothing.
NewStream(p, m) ==
    [client |-> "open", session |-> NoSession,
     toServer |-> IF p \in authorized THEN <<m>> ELSE <<>>,
     toClient |-> IF p \in authorized THEN <<>> ELSE <<BuildPushError("UNAUTHORIZED")>>,
     server |-> IF p \in authorized THEN Idle ELSE [Idle EXCEPT !.pc = "gone"]]

PushInit(mayFail, mayPush) ==
    /\ files = [p \in Providers |-> [k \in Chunks |-> NoFile]]
    /\ authorized = mayPush
    /\ streams = [p \in Providers |-> <<>>]
    /\ pending = [p \in Providers |-> 0]
    /\ stored = [p \in Providers |-> "none"]
    /\ dht = {} /\ faults = mayFail /\ harmed = {}

-----------------------------------------------------------------------------
(* Steps of a handler *)

At(p, n, pc) == n \in DOMAIN streams[p] /\ streams[p][n].server.pc = pc
Incoming(p, n) == Head(streams[p][n].toServer)
\* sessionsMu is held while the manifest is written.
Unlocked(p) == \A n \in DOMAIN streams[p] : ~At(p, n, "manifest")
Open(p, k) == {streams[p][n].server.fd : n \in {m \in DOMAIN streams[p] : streams[p][m].server.chunk = k}}

\* An answer nobody reads any more is dropped.
Replied(s, m) == IF s.client = "open" THEN [s EXCEPT !.toClient = Append(@, m)] ELSE s
Served(s) == [s EXCEPT !.toServer = Tail(@), !.server = Idle]
Ready(s) == [s EXCEPT !.server = Idle]
Gone(s) == [s EXCEPT !.server = [Idle EXCEPT !.pc = "gone"], !.toServer = <<>>]
GoTo(s, pc) == [s EXCEPT !.server = [s.server EXCEPT !.pc = pc]]
Put(p, n, s) == streams' = [streams EXCEPT ![p] = [streams[p] EXCEPT ![n] = s]]

Reads(p, n, type) ==
    /\ At(p, n, "read") /\ streams[p][n].toServer # <<>>
    /\ ReadPushMessage(Incoming(p, n)) /\ Incoming(p, n).Type = type

\* The session replaces one that is pending.
handlePushManifest(p, n) ==
    LET s == streams[p][n]
    IN /\ Reads(p, n, "MANIFEST") /\ ParsePushManifest(Incoming(p, n)) /\ Unlocked(p)
       /\ pending' = [pending EXCEPT ![p] = n]
       /\ Put(p, n, Replied([Served(s) EXCEPT !.session =
                                 [expected |-> ToSet(Incoming(p, n).Body.assigned), committed |-> {}]],
                            BuildPushManifestAck("OK")))
       /\ UNCHANGED <<files, authorized, stored, dht, faults, harmed>>

\* What the checks of a chunk come to.  Every chunk that is assigned is in the
\* manifest.
ChunkStatus(p, m) ==
    CASE pending[p] = 0 -> "NOT_IN_ASSIGNED_SET"
      [] m.Body.id \notin streams[p][pending[p]].session.expected -> "NOT_IN_ASSIGNED_SET"
      [] ~m.Body.genuine -> "HASH_MISMATCH"
      [] OTHER -> "OK"

\* The session is looked up under the lock and used after it.
handlePushChunk(p, n) ==
    LET s == streams[p][n]
        m == Incoming(p, n)
    IN /\ Reads(p, n, "CHUNK") /\ ParsePushChunk(m) /\ Unlocked(p)
       /\ Put(p, n, IF ChunkStatus(p, m) # "OK"
                    THEN Replied(Served(s), BuildPushChunkAck(m.Body.id, ChunkStatus(p, m)))
                    ELSE [Served(s) EXCEPT !.server =
                              [pc |-> "look", chunk |-> m.Body.id, session |-> pending[p], fd |-> 0]])
       /\ UNCHANGED <<files, authorized, pending, stored, dht, faults, harmed>>

\* Idempotence: a chunk that is there is not written again.
LookForChunk(p, n) ==
    LET s == streams[p][n]
    IN /\ At(p, n, "look")
       /\ Put(p, n, GoTo(s, IF HasChunk(p, s.server.chunk) THEN "commit" ELSE "create"))
       /\ UNCHANGED <<files, authorized, pending, stored, dht, faults, harmed>>

Store(p, k, f) == files' = [files EXCEPT ![p] = [files[p] EXCEPT ![k] = f]]
StoreFailed(p, n) ==
    Put(p, n, Replied(Ready(streams[p][n]), BuildPushChunkAck(streams[p][n].server.chunk, "IO_ERROR")))

PutChunkCreate(p, n) ==
    LET s == streams[p][n]
        k == s.server.chunk
    IN /\ At(p, n, "create")
       /\ Store(p, k, Create(files[p][k], n, Open(p, k)))
       /\ Put(p, n, [GoTo(s, "write") EXCEPT !.server.fd = Opened(files[p][k], Open(p, k))])
       /\ UNCHANGED <<authorized, pending, stored, dht, faults, harmed>>

PutChunkWrite(p, n) ==
    LET s == streams[p][n]
        k == s.server.chunk
    IN /\ At(p, n, "write")
       /\ Store(p, k, Write(files[p][k], n, s.server.fd))
       /\ Put(p, n, [GoTo(s, "rename") EXCEPT !.server.fd = 0])
       /\ UNCHANGED <<authorized, pending, stored, dht, faults, harmed>>

\* Another writer may have renamed the temporary file already.
PutChunkRename(p, n) ==
    LET s == streams[p][n]
        k == s.server.chunk
    IN /\ At(p, n, "rename")
       /\ IF CanRename(files[p][k])
          THEN Store(p, k, Rename(files[p][k])) /\ Put(p, n, GoTo(s, "commit"))
          ELSE StoreFailed(p, n) /\ UNCHANGED files
       /\ UNCHANGED <<authorized, pending, stored, dht, faults, harmed>>

\* The disk fails at Create, or at Write or Sync.
PutChunkFails(p, n) ==
    LET k == streams[p][n].server.chunk
    IN /\ At(p, n, "create") \/ At(p, n, "write")
       /\ Fault /\ harmed' = harmed \cup {p}
       /\ IF At(p, n, "write") THEN Store(p, k, RemoveTmp(files[p][k])) ELSE UNCHANGED files
       /\ StoreFailed(p, n)
       /\ UNCHANGED <<authorized, pending, stored, dht>>

\* The session may have been replaced or completed since it was looked up.
CommitChunk(p, n) ==
    LET s == streams[p][n]
        k == s.server.chunk
        o == s.server.session
        acked == Replied(Ready(s), BuildPushChunkAck(k, "OK"))
    IN /\ At(p, n, "commit") /\ Unlocked(p)
       /\ streams' = [streams EXCEPT ![p] =
              [[streams[p] EXCEPT ![n] = acked] EXCEPT ![o].session.committed = @ \cup {k}]]
       /\ UNCHANGED <<files, authorized, pending, stored, dht, faults, harmed>>

AllCommitted(session) == session.expected \subseteq session.committed

\* The manifest file is written in place: it is torn until the write is done.
ManifestFile(p, content) == stored' = [stored EXCEPT ![p] = content]

handlePushBatchComplete(p, n) ==
    LET s == streams[p][n]
        complete == pending[p] # 0 /\ AllCommitted(streams[p][pending[p]].session)
    IN /\ Reads(p, n, "BATCH_COMPLETE") /\ ParsePushBatchComplete(Incoming(p, n)) /\ Unlocked(p)
       /\ Put(p, n, IF complete THEN GoTo(Served(s), "manifest")
                    ELSE Replied(Served(s), BuildPushBatchCompleteAck("INCOMPLETE")))
       /\ IF complete THEN ManifestFile(p, "torn") ELSE UNCHANGED stored
       /\ UNCHANGED <<files, authorized, pending, dht, faults, harmed>>

PutManifestBytes(p, n) ==
    /\ At(p, n, "manifest")
    /\ \/ /\ ManifestFile(p, "whole")
          /\ pending' = [pending EXCEPT ![p] = 0]
          /\ Put(p, n, Replied(Ready(streams[p][n]), BuildPushBatchCompleteAck("OK")))
          /\ UNCHANGED <<faults, harmed>>
       \/ /\ Fault /\ harmed' = harmed \cup {p}
          /\ Put(p, n, Replied(Ready(streams[p][n]), BuildPushBatchCompleteAck("IO_ERROR")))
          /\ UNCHANGED <<stored, pending>>
    /\ UNCHANGED <<files, authorized, dht>>

handleStream(p) ==
    \E n \in DOMAIN streams[p] :
        \/ handlePushManifest(p, n)
        \/ handlePushChunk(p, n) \/ LookForChunk(p, n)
        \/ PutChunkCreate(p, n) \/ PutChunkWrite(p, n) \/ PutChunkRename(p, n) \/ CommitChunk(p, n)
        \/ handlePushBatchComplete(p, n) \/ PutManifestBytes(p, n)

\* Fault: content is announced once its manifest was received.
Announceable_Received(p) == pending[p] # 0 \/ stored[p] # "none"

\* The goroutine started by handlePushBatchComplete, and the republisher, announce
\* content whose manifest file exists.
Announceable(p) == stored[p] # "none"

Provide(p) ==
    /\ Announceable(p) /\ p \notin dht
    /\ dht' = dht \cup {p}
    /\ UNCHANGED <<files, authorized, streams, pending, stored, faults, harmed>>

-----------------------------------------------------------------------------
(* Failures *)

\* A stream breaks: its messages are lost, and the handler notices at its next
\* read.  The handler's own read deadline does the same.
Broken(s) == [s EXCEPT !.toServer = <<>>, !.toClient = <<>>, !.client = "closed"]

Reset(p) ==
    /\ Fault
    /\ \E n \in DOMAIN streams[p] :
         streams[p][n].client = "open" /\ Put(p, n, Broken(streams[p][n]))
    /\ UNCHANGED <<files, authorized, pending, stored, dht, harmed>>

\* The sessions and the handlers are in memory only.
StopAndStart(p) ==
    /\ Fault /\ harmed' = harmed \cup {p}
    /\ pending' = [pending EXCEPT ![p] = 0]
    /\ streams' = [streams EXCEPT ![p] = [n \in DOMAIN streams[p] |-> Gone(Broken(streams[p][n]))]]
    /\ files' = [files EXCEPT ![p] = [k \in Chunks |-> Restarted(files[p][k])]]
    /\ UNCHANGED <<authorized, stored, dht>>
=============================================================================
