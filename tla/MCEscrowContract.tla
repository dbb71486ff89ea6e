-------------------------- MODULE MCEscrowContract --------------------------
(* Small instances of EscrowContract for TLC. *)
EXTENDS EscrowContract, TLC

CONSTANTS c1, c2, pub, prov, MaxSequence, MaxCumulative

\* Vouchers of either signer, of any small sequence and payment, expiring early
\* or never within the bound.
MCPaymentStates ==
    [contractID : Contracts, publisher : {pub}, provider : {prov},
     sequence : 1..MaxSequence, cumulativePayment : 0..MaxCumulative,
     validUntil : {1, MaxTime}, signer : {pub, prov}]
=============================================================================
