--------------------------- MODULE PushMessages ---------------------------
(***************************************************************************)
(* The messages of the push protocol and their sizes on the wire.  A       *)
(* message is a record of what its payload says; Size is the number of     *)
(* bytes of that payload.  There is one content, so its identifier is not  *)
(* written down.                                                           *)
(***************************************************************************)
EXTENDS Integers, Sequences

CurrentPushVersion == 1
MaxMessageSize == 4 * 1024 * 1024
ContentIDSize == 32
ChunkHeaderSize == 2 + 32 + 4 + 8 + 4 + 4 + 12

PushMessage(type, size, body) ==
    [Version |-> CurrentPushVersion, Type |-> type, Size |-> size, Body |-> body]

\* What may be written, and what is read: the payload, the version and the type.
WritePushMessage(m) == m.Size + 3 <= MaxMessageSize
ReadPushMessage(m) == m.Size + 3 <= MaxMessageSize /\ m.Size + 3 >= 3

\* bytes: the length of the manifest as JSON.
BuildPushManifest(assigned, bytes) ==
    PushMessage("MANIFEST", ContentIDSize + 4 + 32 * Len(assigned) + bytes,
                [assigned |-> assigned])
\* genuine: the data hashes to the chunk's identifier.
BuildPushChunk(k, cipherSize, genuine) ==
    PushMessage("CHUNK", ContentIDSize + ChunkHeaderSize + cipherSize,
                [id |-> k, genuine |-> genuine])
BuildPushBatchComplete == PushMessage("BATCH_COMPLETE", ContentIDSize, [id |-> 0])
BuildPushManifestAck(status) == PushMessage("MANIFEST_ACK", 33, [id |-> 0, status |-> status])
BuildPushChunkAck(k, status) == PushMessage("CHUNK_ACK", 33, [id |-> k, status |-> status])
BuildPushBatchCompleteAck(status) ==
    PushMessage("BATCH_COMPLETE_ACK", 33, [id |-> 0, status |-> status])
BuildPushError(status) == PushMessage("ERROR", 1, [id |-> 0, status |-> status])

ParsePushManifest(m) == m.Size >= 36 /\ m.Size >= 36 + 32 * Len(m.Body.assigned)
ParsePushChunk(m) == m.Size >= 32 + ChunkHeaderSize
ParsePushBatchComplete(m) == m.Size = 32

\* Whether a sender takes m for the acknowledgement of its request for id.
Acknowledges(m, type, id) ==
    /\ m.Type = type
    /\ m.Size = 33
    /\ m.Body.id = id
    /\ m.Body.status = "OK"
=============================================================================
