------------------------ MODULE AvailabilityContract ------------------------
(***************************************************************************)
(* Availability contracts between a publisher and its providers for one    *)
(* file: their lifecycle, the challenges drawn from the shared epochs, the *)
(* provider's proof engine that answers them over a stream that may fail,  *)
(* the verification of an answer, the results and the settlement.          *)
(*                                                                         *)
(* InitiateAvailabilityChallenge returns the identifiers of the challenge  *)
(* and its epoch and nothing else, so the caller builds the challenge it   *)
(* sends: the identifier is the issued one, the chunk and the nonce are    *)
(* the caller's.  An operation of the contract store is one action: it     *)
(* runs under the store's lock.                                            *)
(***************************************************************************)
EXTENDS WallClock, ChallengeEpochs, MerkleTree

CONSTANTS
    ContractIDs,
    Manifests,          \* lists of chunk hashes the file may consist of
    NoTree,
    Corrupted,          \* what a corrupted hash or signature turns into
    Amounts, Durations,
    MaxTimeout,         \* time an answer may take, 0 for any
    Int64Modulus,       \* 2^64
    MaxAsks, MaxAnswers \* bounds on challenges sent to providers, and on their answers

ASSUME AvailabilityAssumption ==
    /\ Amounts \subseteq Int /\ Durations \subseteq Int /\ MaxTimeout \in Nat
    /\ Int64Modulus \in Nat \ {0}

VARIABLES
    manifest,       \* the chunk hashes of the file, empty when it is unknown
    contracts,      \* the contract store
    challenges,     \* the challenges issued, as generated
    activeEpochs,   \* contract -> the epoch it follows
    trees,          \* provider -> the leaves of the tree its engine holds
    disk,           \* provider -> the chunks in its store
    asked,          \* challenges sent to providers, as their caller built them
    answers         \* responses under way; they arrive late, twice or never

contractVars == <<contracts, challenges, activeEpochs>>
proofVars == <<trees, disk, asked, answers>>
availVars == <<clock, epochs, latest, manifest, contracts, challenges, activeEpochs,
               trees, disk, asked, answers>>

NoContract == [State |-> "NONE"]
Pending == [Status |-> "PENDING", ReleasedAmount |-> 0, WithheldAmount |-> 0, Finalized |-> FALSE]

AvailInit ==
    /\ clock = 0 /\ EpochInit
    /\ manifest \in Manifests
    /\ contracts = [c \in ContractIDs |-> NoContract]
    /\ challenges = {}
    /\ activeEpochs = [c \in ContractIDs |-> [id |-> 0, endAfterCurrent |-> FALSE]]
    /\ trees = [p \in Providers |-> NoTree]
    /\ disk = [p \in Providers |-> ToSet(manifest)]
    /\ asked = {} /\ answers = {}

-----------------------------------------------------------------------------
(* Lifecycle *)

Terminal == {"COMPLETED", "EXPIRED", "TERMINATED", "DISPUTED"}

CanTransition(from, to) ==
    \/ from = "PROPOSED" /\ to \in {"AGREED", "TERMINATED", "DISPUTED"}
    \/ from = "AGREED" /\ to \in {"TRANSFERRING", "TERMINATED", "DISPUTED"}
    \/ from = "TRANSFERRING" /\ to \in {"READY", "TERMINATED", "DISPUTED"}
    \/ from = "READY" /\ to \in {"ACTIVE", "TERMINATED", "DISPUTED"}
    \/ from = "ACTIVE" /\ to \in {"COMPLETED", "EXPIRED", "TERMINATED", "DISPUTED"}

\* The publisher's resolver: the length of the manifest, from its cache or
\* its store, which is an error when there is none.
ChunkCount == Len(manifest)

CreateAvailabilityContract(c, p, amount, duration) ==
    /\ contracts[c] = NoContract
    /\ amount > 0 /\ duration > 0 /\ ChunkCount > 0
    /\ contracts' = [contracts EXCEPT ![c] =
           [State |-> "PROPOSED", ProviderID |-> p, TotalChunks |-> ChunkCount,
            PaymentAmount |-> amount, FundedAmount |-> 0, EndsAt |-> clock + duration,
            Results |-> <<>>, AvailabilityResults |-> <<>>, Settlement |-> Pending]]
    /\ UNCHANGED <<clock, epochVars, manifest, challenges, activeEpochs, proofVars>>

FundAvailabilityContract(c, amount) ==
    /\ contracts[c].State = "PROPOSED" /\ amount = contracts[c].PaymentAmount
    /\ contracts' = [contracts EXCEPT ![c] =
           [contracts[c] EXCEPT !.FundedAmount = amount, !.State = "AGREED"]]
    /\ UNCHANGED <<clock, epochVars, manifest, challenges, activeEpochs, proofVars>>

TerminateAvailabilityContract(c) ==
    /\ CanTransition(contracts[c].State, "TERMINATED")
    /\ contracts' = [contracts EXCEPT ![c] =
           [contracts[c] EXCEPT !.State = "TERMINATED",
                                !.Settlement.Status = "TERMINATED",
                                !.Settlement.Finalized = TRUE]]
    /\ UNCHANGED <<clock, epochVars, manifest, challenges, activeEpochs, proofVars>>

-----------------------------------------------------------------------------
(* Challenges *)

MayBeChallenged(c) ==
    /\ contracts[c].State \in {"AGREED", "ACTIVE"}
    /\ contracts[c].FundedAmount = contracts[c].PaymentAmount

\* The challenge comes too late: the contract is expired, past Transition.
ExpireOnChallenge(c) ==
    /\ MayBeChallenged(c) /\ clock >= contracts[c].EndsAt
    /\ contracts' = [contracts EXCEPT ![c] = [contracts[c] EXCEPT !.State = "EXPIRED"]]
    /\ UNCHANGED <<clock, epochVars, manifest, challenges, activeEpochs, proofVars>>

\* Whether the contract goes on with the epoch it follows.
Continues(c) ==
    /\ activeEpochs[c].id # 0 /\ ~activeEpochs[c].endAfterCurrent
    /\ epochs[activeEpochs[c].id].Uncovered # <<>>
    /\ epochs[activeEpochs[c].id].Status = "ACTIVE"

\* The i-th uncovered chunk of the epoch is the one its hash selects, and
\* trigger is what the round hash says; the identifier hashes the contract,
\* the epoch and the counter.
GenerateNextChallenge(c, all, e, i, trigger) ==
    [ChallengeID |-> <<c, e, all[e].ChallengeCounter>>, ContractID |-> c, EpochID |-> e,
     ChunkID |-> all[e].Uncovered[i], TriggerStatus |-> trigger]

InitiateAvailabilityChallenge(c) ==
    /\ MayBeChallenged(c) /\ clock < contracts[c].EndsAt
    /\ Continues(c) \/ Len(epochs) < MaxEpochs
    /\ LET p == contracts[c].ProviderID
           all == IF Continues(c) THEN epochs ELSE CreateEpoch(p, contracts[c].TotalChunks)
           e == IF Continues(c) THEN activeEpochs[c].id ELSE Len(all)
       IN  \E i \in DOMAIN all[e].Uncovered, trigger \in BOOLEAN :
               /\ challenges' = challenges \cup {GenerateNextChallenge(c, all, e, i, trigger)}
               /\ epochs' = SelectUncoveredChunk(all, e, i)
               /\ latest' = IF Continues(c) THEN latest ELSE [latest EXCEPT ![p] = e]
               /\ activeEpochs' = [activeEpochs EXCEPT ![c] =
                                       [id |-> e, endAfterCurrent |-> trigger]]
               /\ contracts' = [contracts EXCEPT ![c] = [contracts[c] EXCEPT !.State = "ACTIVE"]]
    /\ UNCHANGED <<clock, manifest, proofVars>>

\* Another caller starts an epoch of its own.
OtherEpoch ==
    /\ \E p \in Providers : StartNextEpoch(p)
    /\ UNCHANGED <<clock, manifest, contractVars, proofVars>>

-----------------------------------------------------------------------------
(* The provider's proof engine and the stream *)

\* The caller sends the challenge it built for an issued identifier; the
\* nonce is a fresh one.
ChallengeProvider(issued, chunk) ==
    /\ Cardinality(asked) < MaxAsks
    /\ asked' = asked \cup
           {[ChallengeID |-> issued.ChallengeID, ContractID |-> issued.ContractID,
             ProviderID |-> contracts[issued.ContractID].ProviderID, ChunkID |-> chunk,
             Nonce |-> Cardinality(asked), CreatedAt |-> clock]}
    /\ UNCHANGED <<clock, epochVars, manifest, contractVars, trees, disk, answers>>

ComputeProofDigest(chunkHash, nonce, id) == <<chunkHash, nonce, id>>

\* The tree is the registered one or, when there is none, that of the
\* manifest; the hash comes from the tree, not from the stored chunk.  Held
\* is a history field: whether the provider's store had the chunk.
generateResponse(a, leaves, corruptHash, corruptSig) ==
    LET hash == IF corruptHash THEN Corrupted ELSE leaves[a.ChunkID + 1]
    IN  [ChallengeID |-> a.ChallengeID, ContractID |-> a.ContractID,
         ProviderID |-> a.ProviderID, ChunkID |-> a.ChunkID, ChunkHash |-> hash,
         MerkleProof |-> GenerateProof(leaves, a.ChunkID),
         Signature |-> IF corruptSig THEN Corrupted
                       ELSE ComputeProofDigest(hash, a.Nonce, a.ChallengeID),
         RespondedAt |-> clock,
         Held |-> manifest[a.ChunkID + 1] \in disk[a.ProviderID]]

\* HandleStream answers; a chunk outside the tree is an error, which leaves
\* nothing but the registered tree behind.
HandleChallenge(a, corruptHash, corruptSig) ==
    LET p == a.ProviderID
        leaves == IF trees[p] = NoTree THEN manifest ELSE trees[p]
    IN  /\ trees' = [trees EXCEPT ![p] = leaves]
        /\ Cardinality(answers) < MaxAnswers
        /\ answers' = IF a.ChunkID >= Len(leaves) THEN answers
                      ELSE answers \cup {generateResponse(a, leaves, corruptHash, corruptSig)}
        /\ UNCHANGED <<clock, epochVars, manifest, contractVars, disk, asked>>

LoseChunk(p) ==
    /\ \E k \in disk[p] : disk' = [disk EXCEPT ![p] = @ \ {k}]
    /\ UNCHANGED <<clock, epochVars, manifest, contractVars, trees, asked, answers>>

\* A provider that starts registers the chunks it can read of every manifest.
RestartProvider(p) ==
    /\ trees' = [trees EXCEPT ![p] = IF disk[p] = {} THEN NoTree
                                     ELSE SelectSeq(manifest, LAMBDA k : k \in disk[p])]
    /\ UNCHANGED <<clock, epochVars, manifest, contractVars, disk, asked, answers>>

-----------------------------------------------------------------------------
(* Verification, results and settlement *)


InTime(a, r) == MaxTimeout = 0 \/ r.RespondedAt <= a.CreatedAt + MaxTimeout

VerifyChallengeResponse(a, r) ==
    /\ r.ChallengeID = a.ChallengeID /\ r.ContractID = a.ContractID
    /\ r.ProviderID = a.ProviderID /\ r.ChunkID = a.ChunkID
    /\ InTime(a, r)
    /\ VerifyMerkleProof(r.ChunkHash, r.ChunkID, r.MerkleProof, Root(manifest))
    /\ r.Signature = ComputeProofDigest(r.ChunkHash, a.Nonce, a.ChallengeID)

Issued(c, id) == \E ch \in challenges : ch.ChallengeID = id /\ ch.ContractID = c
Recorded(c, id) == \E i \in DOMAIN contracts[c].Results : contracts[c].Results[i].ChallengeID = id

\* Fault: a result recorded before is not looked for.
MayRecord_Again(c, id) == contracts[c].State = "ACTIVE" /\ Issued(c, id)

\* Fault: results are taken whatever the state of the contract.
MayRecord_AnyState(c, id) == Issued(c, id) /\ ~Recorded(c, id)

MayRecord(c, id) == contracts[c].State = "ACTIVE" /\ Issued(c, id) /\ ~Recorded(c, id)

RecordAvailabilityResult(c, id, succeeded) ==
    /\ MayRecord(c, id)
    /\ contracts' = [contracts EXCEPT ![c] = [contracts[c] EXCEPT
           !.Results = Append(@, [ChallengeID |-> id, Succeeded |-> succeeded]),
           !.AvailabilityResults = Append(@,
               [Period |-> Len(@) + 1, ChallengeID |-> id,
                Result |-> IF succeeded THEN "PASS" ELSE "FAIL"])]]
    /\ UNCHANGED <<clock, epochVars, manifest, challenges, activeEpochs, proofVars>>

VerifyAndRecordChallengeResponse(c, a, r) ==
    RecordAvailabilityResult(c, a.ChallengeID, VerifyChallengeResponse(a, r))

\* No answer came in time: the caller records the failure itself.
RecordUnanswered(c, a) == RecordAvailabilityResult(c, a.ChallengeID, FALSE)

Int64(x) == LET half == Int64Modulus \div 2 IN ((x + half) % Int64Modulus) - half

\* Division that rounds towards zero.
Quotient(x, n) == IF x >= 0 THEN x \div n ELSE -((-x) \div n)

Split(funded, released) ==
    [Status |-> IF released = funded THEN "COMPLETED" ELSE "WITHHELD",
     ReleasedAmount |-> released, WithheldAmount |-> Int64(funded - released), Finalized |-> FALSE]

\* Fault: the share is rounded up.
CalculateSettlement_RoundedUp(funded, results) ==
    LET passed == Cardinality({i \in DOMAIN results : results[i].Succeeded})
    IN  Split(funded, Quotient(Int64(funded * passed + Len(results) - 1), Len(results)))

CalculateSettlement(funded, results) ==
    LET passed == Cardinality({i \in DOMAIN results : results[i].Succeeded})
    IN  Split(funded, Quotient(Int64(funded * passed), Len(results)))

\* The amounts are stored before the transition is tried: in a contract that
\* is expired already it fails, and the settlement stays not finalized.
SettleAvailabilityContract(c) ==
    LET k == contracts[c]
        next == IF clock >= k.EndsAt THEN "EXPIRED" ELSE "COMPLETED"
        settled == CalculateSettlement(k.FundedAmount, k.Results)
    IN  /\ k.State \in {"ACTIVE", "EXPIRED"} /\ k.Results # <<>>
        /\ contracts' = [contracts EXCEPT ![c] =
               IF CanTransition(k.State, next)
               THEN [k EXCEPT !.State = next, !.Settlement = [settled EXCEPT !.Finalized = TRUE]]
               ELSE [k EXCEPT !.Settlement = settled]]
        /\ UNCHANGED <<clock, epochVars, manifest, challenges, activeEpochs, proofVars>>

AvailTick == Advance /\ UNCHANGED <<epochVars, manifest, contractVars, proofVars>>

AvailNext ==
    \/ \E c \in ContractIDs, p \in Providers, m \in Amounts, d \in Durations :
           CreateAvailabilityContract(c, p, m, d)
    \/ \E c \in ContractIDs, m \in Amounts : FundAvailabilityContract(c, m)
    \/ \E c \in ContractIDs : \/ TerminateAvailabilityContract(c)
                              \/ ExpireOnChallenge(c)
                              \/ InitiateAvailabilityChallenge(c)
                              \/ SettleAvailabilityContract(c)
    \/ OtherEpoch
    \/ \E ch \in challenges : \E i \in DOMAIN manifest : ChallengeProvider(ch, i - 1)
    \/ \E a \in asked, h, s \in BOOLEAN : HandleChallenge(a, h, s)
    \/ \E p \in Providers : LoseChunk(p) \/ RestartProvider(p)
    \/ \E a \in asked, r \in answers : VerifyAndRecordChallengeResponse(a.ContractID, a, r)
    \/ \E a \in asked : RecordUnanswered(a.ContractID, a)
    \/ AvailTick

AvailSpec == AvailInit /\ [][AvailNext]_availVars

-----------------------------------------------------------------------------
(* Properties *)

\* Contracts, epochs and trees keep their types; a contract past PROPOSED that was
\* not terminated is funded in full.
AvailTypeOK ==
    /\ clock \in 0 .. MaxTime
    /\ \A c \in ContractIDs : contracts[c] = NoContract \/
           /\ contracts[c].State \in Terminal \cup {"PROPOSED", "AGREED", "ACTIVE"}
           /\ contracts[c].FundedAmount \in {0, contracts[c].PaymentAmount}
           /\ contracts[c].State = "PROPOSED" => contracts[c].FundedAmount = 0
           /\ contracts[c].State \notin {"PROPOSED", "TERMINATED"} =>
                  contracts[c].FundedAmount = contracts[c].PaymentAmount
           /\ activeEpochs[c].id \in 0 .. Len(epochs)
    /\ \A p \in Providers : trees[p] = NoTree \/ Len(trees[p]) \in 1 .. Len(manifest)

\* An epoch asks for every chunk at most once, whichever of the contracts on
\* the same provider and file draw from it: the chunks challenged in it and
\* its uncovered ones make up the file (GenerateNextChallenge after
\* GetEpochState, with SelectUncoveredChunk).
EpochAsksOnce ==
    \A e \in DOMAIN epochs :
        LET drawn == {ch \in challenges : ch.EpochID = e}
        IN  /\ Cardinality(drawn) = epochs[e].ChallengeCounter
            /\ Cardinality(drawn) + Len(epochs[e].Uncovered) = epochs[e].TotalChunks
            /\ {ch.ChunkID : ch \in drawn} \cup ToSet(epochs[e].Uncovered)
                   = 0 .. epochs[e].TotalChunks - 1

\* A challenge that a caller retried, that timed out while its answer was
\* under way, or whose answer came twice has at most one result, in the
\* contract that issued it, and the periods handed to the payment side count
\* the results (RecordAvailabilityResult).
OneResultPerChallenge ==
    \A c \in ContractIDs : contracts[c] # NoContract =>
        LET k == contracts[c]
        IN  /\ \A i, j \in DOMAIN k.Results :
                   k.Results[i].ChallengeID = k.Results[j].ChallengeID => i = j
            /\ \A i \in DOMAIN k.Results :
                   /\ \E ch \in challenges : /\ ch.ContractID = c
                                             /\ ch.ChallengeID = k.Results[i].ChallengeID
                   /\ k.AvailabilityResults[i] =
                          [Period |-> i, ChallengeID |-> k.Results[i].ChallengeID,
                           Result |-> IF k.Results[i].Succeeded THEN "PASS" ELSE "FAIL"]



\* A finalized settlement divides the funded amount in the proportion of the
\* recorded results: the provider is released at most its share, less than
\* one unit below it, and everything exactly when no proof failed
\* (SettleAvailabilityContract, CalculateSettlement).
SettlementIsProportional ==
    \A c \in ContractIDs :
        (contracts[c] # NoContract /\ contracts[c].State \in {"COMPLETED", "EXPIRED"}
         /\ contracts[c].Settlement.Status # "PENDING") =>
            LET k == contracts[c]
                n == Len(k.Results)
                passed == Cardinality({i \in 1 .. n : k.Results[i].Succeeded})
                due == k.FundedAmount * passed - k.Settlement.ReleasedAmount * n
            IN  /\ due \in 0 .. n - 1
                /\ k.Settlement.ReleasedAmount + k.Settlement.WithheldAmount = k.FundedAmount
                /\ k.Settlement.Status = "COMPLETED" <=> passed = n

\* What has ended stays as it is: no later challenge, answer, settlement or
\* termination changes the state, the results or the settled amounts of a
\* contract in a terminal state.
EndedStaysEnded ==
    [][\A c \in ContractIDs : contracts[c].State \in Terminal =>
           /\ contracts'[c].State = contracts[c].State
           /\ contracts'[c].Results = contracts[c].Results
           /\ contracts[c].Settlement.Status # "PENDING" =>
                  /\ contracts'[c].Settlement.Status = contracts[c].Settlement.Status
                  /\ contracts'[c].Settlement.ReleasedAmount = contracts[c].Settlement.ReleasedAmount
      ]_availVars

\* A passed challenge shows that the provider still had the chunk in its
\* store when it answered.
PassMeansHeld ==
    \A c \in ContractIDs : contracts[c] # NoContract =>
        \A i \in DOMAIN contracts[c].Results : contracts[c].Results[i].Succeeded =>
            \E r \in answers : r.ChallengeID = contracts[c].Results[i].ChallengeID /\ r.Held
=============================================================================
