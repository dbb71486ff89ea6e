--------------------------- MODULE EscrowAdapter ---------------------------
(***************************************************************************)
(* The Ethereum client of the escrow: every call checks its arguments,     *)
(* sends one transaction from the account of its key and returns without   *)
(* waiting for it.  A call is taken at the moment its transaction is       *)
(* mined; one that the node's estimate refuses, or that reverts, changes   *)
(* nothing.  The two calls whose transactions have to follow each other,   *)
(* SubmitPaymentState and SettleContract, are in PublisherSettlement.      *)
(***************************************************************************)
EXTENDS EscrowContract

\* A voucher the adapter can put into a transaction.
convertPaymentStateToSolidity(ps) ==
    ps.validUntil # 0 /\ ZeroAddress \notin {ps.publisher, ps.provider}

\* The identifier is that of the transaction; the one that is returned comes from
\* a simulation and is that of another creation if one is mined first.
CreateContract(s, c, provider, reward, duration, collateralRequired) ==
    /\ provider # ZeroAddress /\ reward > 0 /\ duration # 0
    /\ createContract(s, c, provider, reward, duration, collateralRequired)

FundEscrow(s, c) == agreements[c].reward > 0 /\ fundEscrow(s, c)
DepositCollateral(s, c) == agreements[c].collateralRequired > 0 /\ depositCollateral(s, c)
ActivateContract(s, c) == activateContract(s, c)

MarkFailure(s, c) == markFailure(s, c)
DisputeFailure(s, c, ps) ==
    c = ps.contractID /\ convertPaymentStateToSolidity(ps) /\ disputeFailure(s, c, ps)
SlashCollateral(s, c, penalty) == penalty # 0 /\ slashCollateral(s, c, penalty)

RefundPublisher(s, c) == refundPublisher(s, c)
ReturnCollateral(c) == returnCollateral(c)
TerminateExpiredContract(c) == terminateExpiredContract(c)
=============================================================================
