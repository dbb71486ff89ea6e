------------------------ MODULE PublisherSettlement -------------------------
(***************************************************************************)
(* The publisher's dispatcher and the escrow on chain together.  Vouchers  *)
(* signed off-chain reach the chain through their providers, or through    *)
(* SubmitSettlementOnChain, which takes a snapshot of the latest voucher   *)
(* and sends two transactions without waiting for either: one records the  *)
(* voucher, the next settles with it.  A call to the node may fail at any  *)
(* moment; a transaction sent is mined later, in the order of its sender's *)
(* nonces, and may revert.                                                 *)
(***************************************************************************)
EXTENDS EscrowAdapter, Sequences

CONSTANTS ContractIDs, ChallengeIDs, Peers, ProviderOf, None, publisherID,
          PassPayments, MaxPayments, TTLs, DefaultTTL, failureThreshold,
          MaxUint32,
          MaxCalls    \* bound on calls of SubmitSettlementOnChain

VARIABLES
    providers, contracts, stores, paymentStateTTL, schedules, issued, results,
    settlerSet,   \* was SetSettler called?
    call,         \* the call of SubmitSettlementOnChain under way
    calls,        \* how many were made
    mempool       \* the publisher's transactions not yet mined, in nonce order

dispVars == <<providers, contracts, stores, paymentStateTTL, schedules, issued,
              results>>
callVars == <<settlerSet, call, calls, mempool>>
chainVars == <<agreements, balance, paid>>
allVars == <<now, chainVars, dispVars, callVars>>

D == INSTANCE PaymentDispatcher WITH
        clock <- now, EscrowIDs <- Contracts, Addresses <- Accounts,
        MaxClock <- MaxTime

NoCall == [pc |-> "idle", ps |-> None]

SettlementInit ==
    /\ Init /\ D!DispInit
    /\ settlerSet = FALSE /\ call = NoCall /\ calls = 0 /\ mempool = <<>>

-----------------------------------------------------------------------------
(* SubmitSettlementOnChain *)

SetSettler ==
    /\ ~settlerSet /\ settlerSet' = TRUE
    /\ UNCHANGED <<now, chainVars, dispVars, call, calls, mempool>>

Redeemable(store) == store.exists /\ store.HasState /\ store.Latest.validUntil > now

\* The snapshot under the coordinator's lock.  With no settler the call falls
\* back to SubmitLatestPaymentStateOnChain, which sends the first step alone.
SubmitSettlementOnChain(c) ==
    LET store == stores[schedules[c].escrowID]
    IN  /\ call.pc = "idle" /\ calls < MaxCalls
        /\ schedules[c].exists
        /\ Redeemable(store)
        /\ call' = [pc |-> IF settlerSet THEN "submit" ELSE "submitOnly",
                    ps |-> store.Latest]
        /\ calls' = calls + 1
        /\ UNCHANGED <<now, chainVars, dispVars, settlerSet, mempool>>

\* The guards of the two transactions, as the node evaluates them.
Submittable(ps) ==
    LET a == agreements[ps.contractID]
    IN  a.state = "Active" /\ WithinWindow(a)
        /\ AcceptablePaymentState(ps.contractID, ps)

Settleable(ps) ==
    LET a == agreements[ps.contractID]
    IN  /\ a.state = "Active" /\ a.hasPaymentState
        /\ ps.sequence = a.latestSequence
        /\ ps.cumulativePayment = a.latestCumulativePayment

Send(op) ==
    /\ mempool' = Append(mempool, [op |-> op, ps |-> call.ps])
    /\ UNCHANGED <<now, chainVars, dispVars, settlerSet, calls>>

\* Step 1 is sent when the node's gas estimate succeeds.
SendSubmit ==
    /\ call.pc \in {"submit", "submitOnly"}
    /\ convertPaymentStateToSolidity(call.ps) /\ Submittable(call.ps)
    /\ call' = IF call.pc = "submit" THEN [call EXCEPT !.pc = "settle"] ELSE NoCall
    /\ Send("submit")

\* Step 2; the estimate may or may not see the first step still in the pool.
SendSettle ==
    /\ call.pc = "settle" /\ convertPaymentStateToSolidity(call.ps)
    /\ \/ Settleable(call.ps)
       \/ \E i \in DOMAIN mempool : mempool[i] = [op |-> "submit", ps |-> call.ps]
    /\ call' = NoCall
    /\ Send("settle")

\* The node refuses or cannot be reached, and the call returns the error.
SendFails ==
    /\ call.pc # "idle"
    /\ call' = NoCall
    /\ UNCHANGED <<now, chainVars, dispVars, settlerSet, calls, mempool>>

\* The publisher's next transaction is mined; it may revert.
MineOwn ==
    /\ mempool # <<>>
    /\ LET tx == Head(mempool)
           c == tx.ps.contractID
       IN  \/ tx.op = "submit" /\ submitPaymentState(c, tx.ps)
           \/ tx.op = "settle" /\ settleContract(c, tx.ps)
           \/ /\ IF tx.op = "submit" THEN ~Submittable(tx.ps) ELSE ~Settleable(tx.ps)
              /\ UNCHANGED <<now, chainVars>>
    /\ mempool' = Tail(mempool)
    /\ UNCHANGED <<dispVars, settlerSet, call, calls>>

-----------------------------------------------------------------------------
(* The rest of the system *)

\* Transactions of others and the publisher's other ones.  A voucher the chain
\* accepts carries the publisher's signature, so it is one that was issued.
Chain ==
    /\ \/ \E c \in Contracts, p \in Accounts \ {publisherID}, r \in Rewards,
             d \in Durations, k \in Collaterals :
             CreateContract(publisherID, c, p, r, d, k)
       \/ \E c \in Contracts, s \in Accounts :
             \/ FundEscrow(s, c) \/ DepositCollateral(s, c)
             \/ ActivateContract(s, c) \/ RefundPublisher(s, c)
             \/ MarkFailure(s, c)
             \/ \E ps \in issued : DisputeFailure(s, c, ps)
             \/ \E n \in Penalties : SlashCollateral(s, c, n)
       \/ \E c \in Contracts :
             \/ \E ps \in issued : submitPaymentState(c, ps) \/ settleContract(c, ps)
             \/ ReturnCollateral(c) \/ TerminateExpiredContract(c)
       \/ Tick
    /\ UNCHANGED <<dispVars, callVars>>

Dispatch == D!DispNext /\ UNCHANGED <<chainVars, callVars>>

SettlementNext ==
    \/ Dispatch \/ Chain
    \/ SetSettler
    \/ \E c \in ContractIDs : SubmitSettlementOnChain(c)
    \/ SendSubmit \/ SendSettle \/ SendFails \/ MineOwn

SettlementSpec == SettlementInit /\ [][SettlementNext]_allVars

-----------------------------------------------------------------------------
(* Properties *)

\* Every component keeps its types.
SettlementTypeOK ==
    /\ TypeOK /\ D!DispTypeOK
    /\ settlerSet \in BOOLEAN /\ calls \in Nat
    /\ call = NoCall \/ (call.pc \in {"submit", "submitOnly", "settle"} /\ call.ps \in issued)
    /\ \A i \in DOMAIN mempool :
          mempool[i].op \in {"submit", "settle"} /\ mempool[i].ps \in issued

\* What the chain has recorded for an agreement is a voucher the dispatcher
\* signed for it, never a newer one than the publisher holds, whoever brought it
\* there and however late.
ChainFollowsStore ==
    \A e \in Contracts : agreements[e].hasPaymentState =>
        /\ \E v \in issued :
              /\ v.contractID = e /\ v.sequence = agreements[e].latestSequence
              /\ v.cumulativePayment = agreements[e].latestCumulativePayment
        /\ stores[e].HasState
        /\ agreements[e].latestSequence <= stores[e].Latest.sequence

\* A provider is never paid more than the challenges passed under the schedules
\* of that escrow have earned.
PaidAtMostEarned ==
    \A e \in Contracts :
        paid[e].provider > 0 =>
            \E c \in ContractIDs :
                /\ schedules[c].exists /\ schedules[c].escrowID = e
                /\ paid[e].provider <= schedules[c].CurrentCumulativePayment

-----------------------------------------------------------------------------
(* What a comment of the code says, and the code does not do *)

\* sign_only.go:199-203: SettleContractOnChain "performs the complete two-step
\* settlement flow" with the latest stored voucher, while "Under normal operation
\* providers submit their own latest state" (sign_only.go:169): a settlement that
\* starts while the agreement is active, the voucher valid and within the reward
\* has a first step the chain accepts.
StoredVoucherSettles ==
    LET ps == call.ps
        a == agreements[ps.contractID]
    IN  /\ call.pc = "submit" /\ mempool = <<>>
        /\ a.state = "Active" /\ WithinWindow(a)
        /\ ps.validUntil >= now /\ ps.cumulativePayment <= a.reward
        /\ ps.publisher = a.publisher /\ ps.provider = a.provider
        => Submittable(ps)
=============================================================================
