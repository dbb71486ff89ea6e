----------------------- MODULE MCAvailabilityContract -----------------------
(* A small instance of AvailabilityContract for TLC. *)
EXTENDS AvailabilityContract, TLC

CONSTANTS c1, c2, p1, k1, k2, k3

MCManifests == {<<k1, k2>>, <<k1, k2, k3>>}

\* Two contracts meet in the epochs they share and nowhere else, so proofs are
\* exchanged only while there is one contract, in its first epoch: two of them
\* with a provider that has the file, one with a provider that lost a chunk.
\* The exchange does not see which chunk an epoch selected or whether it ends,
\* so one case of each will do.
MCWhole == \A p \in Providers : disk[p] = ToSet(manifest) /\ trees[p] \in {NoTree, manifest}
MCSharedEpochs == MCWhole /\ asked = {} /\ manifest = <<k1, k2>>
MCExchange ==
    /\ \E c \in ContractIDs : contracts[c] = NoContract
    /\ manifest = <<k1, k2, k3>>
    /\ Len(epochs) <= 1
    /\ \A ch \in challenges : ch.ChunkID = ch.ChallengeID[3] /\ ~ch.TriggerStatus
    /\ Cardinality(challenges) <= IF MCWhole THEN 2 ELSE 1
    /\ Cardinality(asked) <= IF MCWhole THEN 2 ELSE 1
    /\ \A p \in Providers : Cardinality(disk[p]) >= Len(manifest) - 1
MCOneAtATime == MCSharedEpochs \/ MCExchange

MCSymmetry == Permutations({c1, c2})
=============================================================================
