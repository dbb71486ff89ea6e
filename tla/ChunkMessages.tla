--------------------------- MODULE ChunkMessages ---------------------------
(***************************************************************************)
(* The messages of the chunk protocol, their sizes on the wire and the     *)
(* three readers of the package: ReadMessage, which the client and the     *)
(* handler use, the frame decoder, and the validation of a payload.        *)
(*                                                                         *)
(* A message is a record of what its payload says; Size is the number of   *)
(* bytes of that payload.  Chunk data is named by what it hashes to.       *)
(***************************************************************************)
EXTENDS Integers

CONSTANTS
    Garbage,        \* what data that is no chunk of the file hashes to
    CipherSize,     \* bytes of an encrypted chunk
    TicketSize,     \* bytes of a signed ticket as JSON
    ErrorTextSize   \* bytes of the longest error text the handler sends

ASSUME MessageAssumption == {CipherSize, TicketSize, ErrorTextSize} \subseteq Nat \ {0}

CurrentMessageVersion == 1
HashSize == 32
ContentIDSize == 32
ChunkHeaderSize == 2 + 32 + 4 + 8 + 4 + 4 + 12
messageHeaderSize == 3
MaxFrameSize == 2 * 1024 * 1024
MaxMessagePayloadSize == MaxFrameSize - 3
MaxErrorMessageSize == 512

\* Fault: the acknowledgement without the byte of its status.
MaxPayloadSizeForMessage_NoStatus(type) ==
    IF type = "ACK" THEN HashSize ELSE MaxMessagePayloadSize

MaxPayloadSizeForMessage(type) ==
    CASE type \in {"REQUEST_MANIFEST", "REQUEST_CHUNK"} -> 512
      [] type \in {"MANIFEST", "CHUNK"} -> MaxMessagePayloadSize
      [] type = "ACK" -> HashSize + 1
      [] type = "TICKET" -> 4096
      [] type = "ERROR" -> MaxErrorMessageSize + 128
      [] OTHER -> 0

ErrorCodes ==
    {"CONTENT_NOT_FOUND", "CHUNK_NOT_FOUND", "INVALID_MANIFEST", "PERMISSION_DENIED",
     "INTERNAL", "INTEGRITY_MISMATCH", "BAD_REQUEST", "UNSUPPORTED_MESSAGE"}

-----------------------------------------------------------------------------
(* Builders *)

Message(type, size, body) ==
    [Version |-> CurrentMessageVersion, Type |-> type, Size |-> size, Body |-> body]

BuildRequestManifest(id) == Message("REQUEST_MANIFEST", ContentIDSize, id)
BuildManifest(id, m) == Message("MANIFEST", ContentIDSize + m.size, [id |-> id, data |-> m])
BuildRequestChunk(k) == Message("REQUEST_CHUNK", HashSize, k)
\* A chunk: its header, and data that hashes to hash.
BuildChunk(k, hash) ==
    Message("CHUNK", ChunkHeaderSize + CipherSize,
            [Version |-> 1, ID |-> k, CipherSize |-> CipherSize, hash |-> hash])
BuildAck(k, status) == Message("ACK", HashSize + 1, [id |-> k, status |-> status])
BuildTicket(signed) == Message("TICKET", TicketSize, signed)
BuildError(code) == Message("ERROR", 1 + ErrorTextSize, [code |-> code])

-----------------------------------------------------------------------------
(* Readers *)

\* WriteMessage puts any size on the wire; ReadMessage refuses a long frame
\* before it reads the envelope.
ReadMessage(m) == m.Size + messageHeaderSize <= 2 * 1024 * 1024

DecodeFrameHeader(m) ==
    LET max == MaxPayloadSizeForMessage(m.Type)
    IN m.Version = CurrentMessageVersion /\ max > 0 /\ m.Size # 0 /\ m.Size <= max
ReadFramePayload(type, size) ==
    /\ MaxPayloadSizeForMessage(type) > 0
    /\ size # 0 /\ size <= MaxPayloadSizeForMessage(type)
DecodeFrame(m) == DecodeFrameHeader(m) /\ ReadFramePayload(m.Type, m.Size)
DecodeExpectedFrame(m, type) == DecodeFrame(m) /\ m.Type = type

ParseRequestManifest(m) == m.Size = 32
ParseManifest(m) == m.Size >= 32
ParseRequestChunk(m) == m.Size = 32
ParseChunk(m) == m.Size >= ChunkHeaderSize
ParseTicket(m) == m.Size # 0
ParseError(m) == m.Size >= 1

ValidateRequestManifestPayload(m) == m.Size = ContentIDSize
ValidateManifestPayload(m) == m.Size >= ContentIDSize
ValidateRequestChunkPayload(m) == m.Size = HashSize
splitChunkPayload(m) == m.Size >= ChunkHeaderSize
\* The index is 32 bits wide, so its check against MaxSupportedChunkIndex never
\* fails.
ValidateChunkPayload(m) ==
    /\ splitChunkPayload(m)
    /\ m.Body.Version = CurrentMessageVersion
    /\ m.Body.CipherSize = m.Size - ChunkHeaderSize
    /\ m.Body.CipherSize # 0
ValidateAckPayload(m) == m.Size = HashSize + 1 /\ m.Body.status = 0
ValidateTicketPayload(m) == m.Size # 0 /\ m.Size <= 4096
ValidateErrorPayload(m) ==
    m.Size >= 1 /\ m.Body.code \in ErrorCodes /\ m.Size - 1 <= MaxErrorMessageSize

ValidateMessagePayload(m) ==
    /\ MaxPayloadSizeForMessage(m.Type) > 0
    /\ m.Size <= MaxPayloadSizeForMessage(m.Type)
    /\ CASE m.Type = "REQUEST_MANIFEST" -> ValidateRequestManifestPayload(m)
         [] m.Type = "MANIFEST" -> ValidateManifestPayload(m)
         [] m.Type = "REQUEST_CHUNK" -> ValidateRequestChunkPayload(m)
         [] m.Type = "CHUNK" -> ValidateChunkPayload(m)
         [] m.Type = "ACK" -> ValidateAckPayload(m)
         [] m.Type = "TICKET" -> ValidateTicketPayload(m)
         [] m.Type = "ERROR" -> ValidateErrorPayload(m)

ValidateMessage(m) == m.Version = CurrentMessageVersion /\ ValidateMessagePayload(m)

ValidateManifestForRequest(id, m) == ValidateManifestPayload(m) /\ m.Body.id = id
ValidateChunkForRequest(k, m) == ValidateChunkPayload(m) /\ m.Body.ID = k
=============================================================================
