----------------------- MODULE MCPublisherSettlement ------------------------
(* Small instances of PublisherSettlement for TLC. *)
EXTENDS PublisherSettlement, TLC

CONSTANTS c1, c2, e1, ch1, ch2, ch3, peer1, pub, prov

\* The availability contracts are stored by one provider.
MCProviderOf == [c \in ContractIDs |-> peer1]

\* Challenges differ in nothing but their names.
MCSymmetry == Permutations(ChallengeIDs)
=============================================================================
