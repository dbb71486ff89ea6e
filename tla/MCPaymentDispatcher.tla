------------------------ MODULE MCPaymentDispatcher -------------------------
(* Small instances of PaymentDispatcher for TLC. *)
EXTENDS PaymentDispatcher, TLC

CONSTANTS c1, c2, e1, e2, ch1, ch2, ch3, ch4, peer1, addr1

\* Both contracts are stored by one provider.
MCProviderOf == [c \in ContractIDs |-> peer1]

\* Challenges differ in nothing but their names.
MCSymmetry == Permutations(ChallengeIDs)
=============================================================================
