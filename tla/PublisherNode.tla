--------------------------- MODULE PublisherNode ---------------------------
(***************************************************************************)
(* The publisher's program: the file is split, encrypted and stored, the   *)
(* providers are looked up, the chunks are placed and pushed, and then the *)
(* providers are challenged in rounds.  A provider that passes is sent a   *)
(* voucher, which it is not asked to acknowledge.                          *)
(***************************************************************************)
EXTENDS Distribution, MerkleTree

CONSTANTS
    Scenarios,              \* what is not up to the program, see Scenario
    ChallengeRounds,        \* the -challenge-rounds flag
    Unit,                   \* 0.025 ETH, and
    Uint64Modulus,          \* 2^64, in units of 10^15 wei
    NoTree, Garbage

\* The file, the length of its manifest and the flags -chunk-size (in bytes) and
\* -replication; the providers that -providers or the DHT gives and that can be
\* connected to, one of them twice if the flag names two of its addresses; those
\* that take pushes; and a bound on the failures.
Scenario ==
    [size : Nat, manifestBytes : Nat, ChunkSize : Nat \ {0}, replication : Nat, found : Seq(Providers),
     authorized : SUBSET Providers, failures : Nat]

ASSUME PublisherAssumption ==
    /\ Scenarios \subseteq Scenario
    /\ Unit \in Nat /\ Uint64Modulus \in Nat \ {0} /\ ChallengeRounds \in Nat

VARIABLES
    pub,        \* the program: its place, its flags, the round and target of the challenges
    trees,      \* provider -> the leaves of the tree its proof engine holds
    sent,       \* vouchers under way
    vouchers,   \* provider -> vouchers its handler has collected
    passed      \* history: provider -> the rounds it passed

nodeVars == <<pub, trees, sent, vouchers, passed>>
vars == <<pushVars, distVars, nodeVars>>

PublisherInit ==
    /\ DistInit
    /\ \E s \in Scenarios :
         /\ PushInit(s.failures, s.authorized)
         /\ pub = [pc |-> "ingest", given |-> s, targets |-> <<>>, round |-> 1, target |-> 1]
    /\ trees = [p \in Providers |-> NoTree]
    /\ sent = {} /\ vouchers = [p \in Providers |-> <<>>]
    /\ passed = [p \in Providers |-> {}]

Go(pc) == pub' = [pub EXCEPT !.pc = pc]

-----------------------------------------------------------------------------
(* Ingest *)

\* ReadFull is called until it returns less than a chunk; what it read is a
\* chunk unless it is nothing.
Split(size, ChunkSize) ==
    LET reads == [i \in 1 .. (size \div ChunkSize) + 1 |->
                     [Index |-> i - 1, Offset |-> (i - 1) * ChunkSize,
                      PlainSize |-> Min({ChunkSize, size - (i - 1) * ChunkSize})]]
    IN  SelectSeq(reads, LAMBDA h : h.PlainSize > 0)

\* The nonce depends on the index alone, and the key is fresh: no two chunks
\* have the same identifier, so a chunk is named by its place.
EncryptChunk(h) == [Index |-> h.Index, Offset |-> h.Offset, PlainSize |-> h.PlainSize,
                    CipherSize |-> h.PlainSize + 16]

Ingest ==
    /\ pub.pc = "ingest"
    /\ \/ /\ LET split == Split(pub.given.size, pub.given.ChunkSize)
             IN manifest' = [i \in DOMAIN split |-> EncryptChunk(split[i])]
          /\ Go("discover") /\ UNCHANGED faults
       \/ Fault /\ Go("fatal") /\ UNCHANGED manifest
    /\ UNCHANGED <<local, plan, tracker, uploads, round, trees, sent, vouchers, passed>>
    /\ UNCHANGED <<files, authorized, streams, pending, stored, dht, harmed>>

\* A chunk in the publisher's store is damaged or lost before it is pushed.
DamageLocal ==
    /\ round.at = "begin" /\ Fault
    /\ \E k \in DOMAIN manifest, how \in {"corrupt", "missing"} : local' = [local EXCEPT ![k] = how]
    /\ UNCHANGED <<manifest, plan, tracker, uploads, round, nodeVars>>
    /\ UNCHANGED <<files, authorized, streams, pending, stored, dht, harmed>>

\* The providers that could be connected to, the replication that many allow
\* for, and the plan; no provider, or no plan, ends the program.
DiscoverAndPlan ==
    /\ pub.pc = "discover"
    /\ LET targets == pub.given.found
           effective == Min({pub.given.replication, Len(targets)})
       IN IF CanPlan(targets, effective)
          THEN /\ pub' = [pub EXCEPT !.pc = "push", !.targets = targets]
               /\ plan' = PlanPlacement(targets, effective, pub.given.manifestBytes)
               /\ round' = [round EXCEPT !.at = "begin"]
          ELSE Go("fatal") /\ UNCHANGED <<plan, round>>
    /\ UNCHANGED <<manifest, local, tracker, uploads, trees, sent, vouchers, passed, pushVars>>

Pushed ==
    /\ pub.pc = "push" /\ round.at \in {"ok", "error"}
    /\ Go(IF round.at = "ok" THEN "challenge" ELSE "fatal")
    /\ UNCHANGED <<pushVars, distVars, trees, sent, vouchers, passed>>

-----------------------------------------------------------------------------
(* Challenges and vouchers *)

\* The identifiers as leaves of a tree.
LeafHashes == [i \in DOMAIN manifest |-> <<i>>]

\* The proof engine takes the tree it has, or else that of the stored manifest.
Leaves(p) == IF trees[p] = NoTree /\ stored[p] = "whole" THEN LeafHashes ELSE trees[p]

\* The index of the chunk the round asks a provider for, from 0.
ChallengedChunk(p) ==
    LET assigned == plan.ProviderChunks[p]
    IN IF assigned = <<>> THEN 0 ELSE assigned[((pub.round - 1) % Len(assigned)) + 1] - 1

\* HandleChallenge answers, and the publisher checks the Merkle proof alone.
Valid(p, idx) ==
    /\ Leaves(p) # NoTree /\ idx < Len(Leaves(p))
    /\ VerifyMerkleProof(Leaves(p)[idx + 1], idx, GenerateProof(Leaves(p), idx), Root(LeafHashes))


CumulativePay(r) == (r * Unit) % Uint64Modulus

Voucher(p) == [Provider |-> p, Sequence |-> pub.round, CumulativePayment |-> CumulativePay(pub.round)]

NextTarget ==
    LET last == pub.target = Len(pub.targets)
        r == IF last THEN pub.round + 1 ELSE pub.round
    IN pub' = [pub EXCEPT !.round = r, !.target = IF last THEN 1 ELSE @ + 1,
                          !.pc = IF r > ChallengeRounds THEN "exit" ELSE "challenge"]

\* The provider's handler answers a challenge: its engine keeps the tree.
HandleStream(p) == trees' = [trees EXCEPT ![p] = Leaves(p)]
SendPaymentVoucher(p) == sent' = sent \cup {Voucher(p)}

\* The target's answer is verified, and a valid one recorded.
Verified(p, valid) ==
    passed' = IF valid THEN [passed EXCEPT ![p] = @ \cup {pub.round}] ELSE passed

Challenge ==
    LET p == pub.targets[pub.target]
        valid == Valid(p, ChallengedChunk(p))
    IN /\ pub.pc = "challenge" /\ NextTarget
       /\ HandleStream(p) /\ Verified(p, valid)
       /\ IF valid THEN SendPaymentVoucher(p) ELSE UNCHANGED sent
       /\ UNCHANGED <<pushVars, distVars, vouchers>>

\* The challenge, its answer or the voucher does not get through.
ChallengeFails ==
    LET p == pub.targets[pub.target]
    IN /\ pub.pc = "challenge" /\ Fault /\ NextTarget
       /\ \/ UNCHANGED <<trees, passed>>
          \/ HandleStream(p) /\ UNCHANGED passed
          \/ HandleStream(p) /\ Verified(p, Valid(p, ChallengedChunk(p)))
       /\ UNCHANGED <<files, authorized, streams, pending, stored, dht, harmed, distVars, sent, vouchers>>

\* Each voucher has a stream of its own, so they may arrive in any order.
HandleVoucher(v) ==
    /\ sent' = sent \ {v}
    /\ vouchers' = [vouchers EXCEPT ![v.Provider] = Append(@, v)]
    /\ UNCHANGED <<pushVars, distVars, pub, trees, passed>>

-----------------------------------------------------------------------------

\* The tree over the chunks a provider could read: what is left of a torn chunk is
\* read as other data or not at all.
RegisterFileChunks(p, readable) ==
    LET held == SelectSeq(ChunkIDs, LAMBDA k : k \in readable)
    IN IF held = <<>> THEN NoTree
       ELSE [i \in DOMAIN held |-> IF Whole(p, held[i]) THEN LeafHashes[held[i]] ELSE Garbage]

\* A provider that starts registers the chunks of a manifest it can read.
Restart(p) ==
    /\ StopAndStart(p)
    /\ \E readable \in SUBSET {k \in ToSet(ChunkIDs) : HasChunk(p, k)} :
         /\ \A k \in ToSet(ChunkIDs) : Whole(p, k) => k \in readable
         /\ trees' = [trees EXCEPT ![p] =
                IF stored[p] = "whole" THEN RegisterFileChunks(p, readable) ELSE NoTree]
    /\ vouchers' = [vouchers EXCEPT ![p] = <<>>]
    /\ UNCHANGED <<distVars, pub, sent, passed>>

Publisher ==
    \/ Ingest \/ DiscoverAndPlan \/ Pushed \/ Challenge
    \/ Distributing /\ UNCHANGED nodeVars

Ended == pub.pc \in {"exit", "fatal"} /\ UNCHANGED vars

\* What the goroutines of both sides do on their own.
Progress ==
    \/ Publisher
    \/ \E p \in Providers :
         \/ uploadToProvider(p) /\ UNCHANGED nodeVars
         \/ handleStream(p) /\ UNCHANGED <<distVars, nodeVars>>

Failure ==
    \/ \E p \in Providers :
         \/ (ConnectFails(p) \/ ManifestTimesOut(p) \/ SendChunkTimesOut(p)) /\ UNCHANGED nodeVars
         \/ \E n \in DOMAIN streams[p] : PutChunkFails(p, n) /\ UNCHANGED <<distVars, nodeVars>>
         \/ Reset(p) /\ UNCHANGED <<distVars, nodeVars>>
         \/ Restart(p)
    \/ DamageLocal \/ ChallengeFails

PublisherNext ==
    \/ Progress
    \/ Failure
    \/ \E p \in Providers : Provide(p) /\ UNCHANGED <<distVars, nodeVars>>
    \/ \E v \in sent : HandleVoucher(v)
    \/ Ended

\* A goroutine that can run does: while one can, one of them does.  No goroutine
\* loops without end, so this is enough, and asks nothing of their scheduling.
PublisherFairness == WF_vars(Progress)

PublisherSpec == PublisherInit /\ [][PublisherNext]_vars /\ PublisherFairness

-----------------------------------------------------------------------------
(* Properties *)

\* The tracker, the uploads, the streams and the files keep their types.
PublisherTypeOK ==
    /\ tracker \in [Chunks -> [Providers -> {"Pending", "Uploading", "Committed", "Failed"}]]
    /\ \A p \in Providers :
         /\ uploads[p].pc \in {"off", "connect", "manifest", "chunk", "batch", "done"}
         /\ uploads[p].attempt \in 0 .. MaxRetriesPerChunk
         /\ Len(streams[p]) <= FailoverRounds + 1
         /\ pending[p] \in 0 .. Len(streams[p])
         /\ \A k \in Chunks : {files[p][k].tmp, files[p][k].final} \subseteq {0} \cup Inodes
    /\ round.number \in 0 .. FailoverRounds /\ dht \subseteq Providers

Writing(p, k) == \E n \in DOMAIN streams[p] : streams[p][n].server.chunk = k /\ streams[p][n].server.fd # 0

\* A replica the tracker calls committed is a file of the provider, although
\* answers come late, are read for another request or follow a stream that was
\* given up.  The file is whole, or a handler is still writing it, unless the
\* provider was stopped or its disk failed (SendChunk's comparison of the
\* acknowledged chunk, handlePushChunk's order of store and acknowledgement).
CommittedIsStored ==
    \A p \in Providers, k \in DOMAIN manifest : tracker[k][p] = "Committed" =>
        /\ HasChunk(p, k)
        /\ Whole(p, k) \/ Writing(p, k) \/ p \in harmed

\* A publisher that goes on after Distribute has left every chunk with as many
\* providers as the effective replication, whatever failed on the way.
ReplicatedWhenPushed ==
    pub.pc \in {"challenge", "exit"} => \A k \in DOMAIN manifest :
        Cardinality({p \in Providers : HasChunk(p, k)}) >= Min({pub.given.replication, Len(pub.targets)})

\* A provider is announced only when some manifest assigned it chunks and it has
\* stored every one of them (handlePushBatchComplete), even when a later manifest
\* replaced that session while its chunks were being committed.
AnnouncedIsReady ==
    \A p \in dht : \E n \in DOMAIN streams[p] :
        LET assigned == streams[p][n].session.expected
        IN assigned # {} /\ \A k \in assigned : HasChunk(p, k)

\* A chunk file that is in place stays in place: no retry, failed write or
\* restart removes it.
ReplicasStay ==
    [][\A p \in Providers, k \in Chunks : HasChunk(p, k) => files'[p][k].final # 0]_vars


\* The program ends, however many streams, disks and providers fail.
EveryPublishEnds == <>(pub.pc \in {"exit", "fatal"})

\* A chunk file is whole from the moment it is in place ("Atomic & Idempotent
\* CAS Writes": a staging file, synced and renamed).
StoredIsWhole == \A p \in Providers, k \in Chunks : HasChunk(p, k) => Whole(p, k)

\* A voucher pays for the rounds the provider passed ("0.025 ETH per verified
\* challenge period").
PaysVerifiedPeriods ==
    \A p \in Providers : \A v \in ToSet(vouchers[p]) \cup sent : v.Provider = p =>
        v.CumulativePayment = Unit * Cardinality({r \in passed[p] : r <= v.Sequence})

\* A provider that holds the whole chunk it is asked for, and the manifest, gives
\* a proof that is accepted.
HolderPasses ==
    pub.pc = "challenge" =>
        LET p == pub.targets[pub.target]
            idx == ChallengedChunk(p)
        IN (stored[p] = "whole" /\ Whole(p, idx + 1)) => Valid(p, idx)
=============================================================================
