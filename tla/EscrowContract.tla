--------------------------- MODULE EscrowContract ---------------------------
(***************************************************************************)
(* The on-chain availability escrow (EscrowContract.sol with its           *)
(* settlement and collateral libraries).  One action is one transaction:   *)
(* a revert leaves the chain as it was, so a reverting call is no step.    *)
(* paymentState arguments are calldata, hence arbitrary; the signature is  *)
(* abstracted to the account that signed the other fields.                 *)
(***************************************************************************)
EXTENDS Integers, FiniteSetsExt

CONSTANTS
    Contracts,          \* contract identifiers the nonce can produce
    Accounts,           \* non-zero addresses
    ZeroAddress,        \* address(0), owner of an agreement never created
    Rewards,            \* arguments offered to createContract
    Durations,
    Collaterals,
    Penalties,          \* arguments offered to slashCollateral
    PaymentStates,      \* vouchers offered as calldata
    SETTLEMENT_WINDOW,  \* grace period after the deadline (1 day)
    MaxUint64,          \* largest value of the 64-bit time fields
    MaxTime             \* bound on block.timestamp, so that uint64(now) = now

VoucherType ==
    [contractID : Contracts, publisher : Accounts, provider : Accounts,
     sequence : Nat, cumulativePayment : Nat, validUntil : Nat,
     signer : Accounts]

ASSUME ConstantsAssumption ==
    /\ ZeroAddress \notin Accounts
    /\ Rewards \subseteq Nat /\ Durations \subseteq Nat
    /\ Collaterals \subseteq Nat /\ Penalties \subseteq Nat
    /\ PaymentStates \subseteq VoucherType
    /\ SETTLEMENT_WINDOW \in Nat /\ MaxUint64 \in Nat /\ MaxTime \in 0..MaxUint64

VARIABLES
    now,          \* block.timestamp
    agreements,   \* contractID -> EscrowAgreement
    balance,      \* address(this).balance
    paid          \* what each agreement has paid out so far (history)

vars == <<now, agreements, balance, paid>>

\* "None" is an agreement whose exists flag is false.
ContractState == {"None", "Created", "Funded", "Active", "Failed", "Settled",
                  "Refunded", "Terminated"}

EscrowAgreement ==
    [publisher : Accounts \cup {ZeroAddress},
     provider : Accounts \cup {ZeroAddress},
     state : ContractState, reward : Nat, escrowBalance : Nat,
     collateralRequired : Nat, collateral : Nat, duration : Nat,
     deadline : Nat, latestSequence : Nat, latestCumulativePayment : Nat,
     hasPaymentState : BOOLEAN]

NoAgreement ==
    [publisher |-> ZeroAddress, provider |-> ZeroAddress, state |-> "None",
     reward |-> 0, escrowBalance |-> 0, collateralRequired |-> 0,
     collateral |-> 0, duration |-> 0, deadline |-> 0, latestSequence |-> 0,
     latestCumulativePayment |-> 0, hasPaymentState |-> FALSE]

Payouts == [provider : Nat, publisher : Nat, returned : Nat, slashed : Nat]

Init ==
    /\ now = 0
    /\ agreements = [c \in Contracts |-> NoAgreement]
    /\ balance = 0
    /\ paid = [c \in Contracts |->
                [provider |-> 0, publisher |-> 0, returned |-> 0, slashed |-> 0]]

-----------------------------------------------------------------------------
(* Helpers *)

\* Fault: the cumulative payment is not compared with the recorded one.
isNextPaymentState_NoFloor(a, ps) ==
    ps.sequence > a.latestSequence /\ ps.cumulativePayment <= a.reward

\* Fault: the cumulative payment is not capped by the reward.
isNextPaymentState_NoCap(a, ps) ==
    /\ ps.sequence > a.latestSequence
    /\ ps.cumulativePayment >= a.latestCumulativePayment

isNextPaymentState(a, ps) ==
    /\ ps.sequence > a.latestSequence
    /\ ps.cumulativePayment >= a.latestCumulativePayment
    /\ ps.cumulativePayment <= a.reward

penaltyAmount(collateral, requested) ==
    IF requested > collateral THEN collateral ELSE requested

\* deadline + SETTLEMENT_WINDOW is checked 64-bit addition: it reverts when it
\* does not fit, and a call that evaluates it reverts with it.
SettlementEnd(a) == a.deadline + SETTLEMENT_WINDOW
WithinWindow(a) == SettlementEnd(a) <= MaxUint64 /\ now <= SettlementEnd(a)
PastWindow(a) == SettlementEnd(a) <= MaxUint64 /\ now > SettlementEnd(a)

\* An active agreement whose window passed with no voucher on chain; both
\* refundPublisher and terminateExpiredContract terminate it.
Expired(a) == a.state = "Active" /\ PastWindow(a) /\ ~a.hasPaymentState

\* Fault: a settled agreement is refunded as well.
Refundable_Settled(a) == a.state \in {"Failed", "Terminated", "Settled"}

Refundable(a) == a.state \in {"Failed", "Terminated"} \/ Expired(a)

\* Fault: a failed agreement gives its collateral back before it is slashed.
Returnable_Failed(a) ==
    a.state \in {"Settled", "Terminated", "Refunded", "Failed"} /\ a.collateral # 0

Returnable(a) ==
    a.state \in {"Settled", "Terminated", "Refunded"} /\ a.collateral # 0

\* Fault: a second deposit is not refused.
AwaitsCollateral_Again(a) == a.state = "Funded" /\ a.collateralRequired # 0

AwaitsCollateral(a) ==
    a.state = "Funded" /\ a.collateral = 0 /\ a.collateralRequired # 0

\* The checks submitPaymentState and disputeFailure make on a voucher, with
\* the recovery of its signer.
AcceptablePaymentState(c, ps) ==
    LET a == agreements[c]
    IN  /\ ps.contractID = c
        /\ ps.publisher = a.publisher
        /\ ps.provider = a.provider
        /\ ps.validUntil >= now
        /\ isNextPaymentState(a, ps)
        /\ ps.signer = a.publisher

\* The ether a transaction sends out must be in the contract.
SendValue(amount) ==
    /\ amount <= balance
    /\ balance' = balance - amount

-----------------------------------------------------------------------------
(* Transactions *)

createContract(sender, c, provider, reward, duration, collateralRequired) ==
    LET a == agreements[c]
    IN  /\ a.state = "None"
        /\ reward # 0 /\ duration # 0
        /\ agreements' = [agreements EXCEPT ![c] =
               [a EXCEPT !.publisher = sender, !.provider = provider,
                         !.state = "Created", !.reward = reward,
                         !.duration = duration,
                         !.collateralRequired = collateralRequired]]
        /\ UNCHANGED <<now, balance, paid>>

fundEscrow(sender, c) ==
    LET a == agreements[c]
    IN  /\ sender = a.publisher /\ a.state = "Created"
        /\ agreements' = [agreements EXCEPT ![c] =
               [a EXCEPT !.escrowBalance = a.reward, !.state = "Funded"]]
        /\ balance' = balance + a.reward
        /\ UNCHANGED <<now, paid>>

depositCollateral(sender, c) ==
    LET a == agreements[c]
    IN  /\ sender = a.provider /\ AwaitsCollateral(a)
        /\ agreements' = [agreements EXCEPT ![c] =
               [a EXCEPT !.collateral = a.collateralRequired]]
        /\ balance' = balance + a.collateralRequired
        /\ UNCHANGED <<now, paid>>

activateContract(sender, c) ==
    LET a == agreements[c]
    IN  /\ sender \in {a.publisher, a.provider}
        /\ a.state = "Funded" /\ a.escrowBalance = a.reward
        /\ a.collateral >= a.collateralRequired
        /\ now + a.duration <= MaxUint64
        /\ agreements' = [agreements EXCEPT ![c] =
               [a EXCEPT !.deadline = now + a.duration, !.state = "Active"]]
        /\ UNCHANGED <<now, balance, paid>>

submitPaymentState(c, ps) ==
    LET a == agreements[c]
    IN  /\ a.state = "Active" /\ WithinWindow(a)
        /\ AcceptablePaymentState(c, ps)
        /\ agreements' = [agreements EXCEPT ![c] =
               [a EXCEPT !.latestSequence = ps.sequence,
                         !.latestCumulativePayment = ps.cumulativePayment,
                         !.hasPaymentState = TRUE]]
        /\ UNCHANGED <<now, balance, paid>>

settleContract(c, ps) ==
    LET a == agreements[c]
        p == paid[c]
        providerPayment == a.latestCumulativePayment
    IN  /\ a.state = "Active" /\ a.hasPaymentState
        /\ ps.contractID = c
        /\ ps.sequence = a.latestSequence
        /\ ps.cumulativePayment = a.latestCumulativePayment
        /\ providerPayment <= a.escrowBalance     \* checked subtraction
        /\ agreements' = [agreements EXCEPT ![c] =
               [a EXCEPT !.escrowBalance = 0, !.state = "Settled"]]
        /\ SendValue(a.escrowBalance)
        /\ paid' = [paid EXCEPT ![c] =
               [p EXCEPT !.provider = p.provider + providerPayment,
                         !.publisher = p.publisher
                                         + (a.escrowBalance - providerPayment)]]
        /\ UNCHANGED now

refundPublisher(sender, c) ==
    LET a == agreements[c]
        p == paid[c]
    IN  /\ sender = a.publisher /\ Refundable(a)
        /\ agreements' = [agreements EXCEPT ![c] =
               [a EXCEPT !.escrowBalance = 0, !.state = "Refunded"]]
        /\ SendValue(a.escrowBalance)
        /\ paid' = [paid EXCEPT ![c] =
               [p EXCEPT !.publisher = p.publisher + a.escrowBalance]]
        /\ UNCHANGED now

returnCollateral(c) ==
    LET a == agreements[c]
        p == paid[c]
    IN  /\ Returnable(a)
        /\ agreements' = [agreements EXCEPT ![c] = [a EXCEPT !.collateral = 0]]
        /\ SendValue(a.collateral)
        /\ paid' = [paid EXCEPT ![c] =
               [p EXCEPT !.returned = p.returned + a.collateral]]
        /\ UNCHANGED now

markFailure(sender, c) ==
    LET a == agreements[c]
    IN  /\ sender = a.publisher /\ a.state = "Active"
        /\ agreements' = [agreements EXCEPT ![c] = [a EXCEPT !.state = "Failed"]]
        /\ UNCHANGED <<now, balance, paid>>

disputeFailure(sender, c, ps) ==
    LET a == agreements[c]
    IN  /\ a.state = "Failed" /\ sender = a.provider
        /\ AcceptablePaymentState(c, ps)
        /\ agreements' = [agreements EXCEPT ![c] =
               [a EXCEPT !.latestSequence = ps.sequence,
                         !.latestCumulativePayment = ps.cumulativePayment,
                         !.hasPaymentState = TRUE, !.state = "Active"]]
        /\ UNCHANGED <<now, balance, paid>>

slashCollateral(sender, c, penalty) ==
    LET a == agreements[c]
        p == paid[c]
        amount == penaltyAmount(a.collateral, penalty)
    IN  /\ sender = a.publisher /\ a.state = "Failed" /\ penalty # 0
        /\ agreements' = [agreements EXCEPT ![c] =
               [a EXCEPT !.collateral = a.collateral - amount]]
        /\ SendValue(amount)
        /\ paid' = [paid EXCEPT ![c] =
               [p EXCEPT !.slashed = p.slashed + amount]]
        /\ UNCHANGED now

terminateExpiredContract(c) ==
    LET a == agreements[c]
    IN  /\ Expired(a)
        /\ agreements' = [agreements EXCEPT ![c] =
               [a EXCEPT !.state = "Terminated"]]
        /\ UNCHANGED <<now, balance, paid>>

\* A block with a later timestamp is mined.
Tick ==
    /\ now < MaxTime
    /\ now' = now + 1
    /\ UNCHANGED <<agreements, balance, paid>>

Next ==
    \/ \E c \in Contracts, s \in Accounts :
          \/ \E p \in Accounts, r \in Rewards, d \in Durations,
                k \in Collaterals : createContract(s, c, p, r, d, k)
          \/ fundEscrow(s, c)
          \/ depositCollateral(s, c)
          \/ activateContract(s, c)
          \/ refundPublisher(s, c)
          \/ markFailure(s, c)
          \/ \E ps \in PaymentStates : disputeFailure(s, c, ps)
          \/ \E n \in Penalties : slashCollateral(s, c, n)
    \/ \E c \in Contracts :
          \/ \E ps \in PaymentStates : submitPaymentState(c, ps)
          \/ \E ps \in PaymentStates : settleContract(c, ps)
          \/ returnCollateral(c)
          \/ terminateExpiredContract(c)
    \/ Tick

Spec == Init /\ [][Next]_vars

-----------------------------------------------------------------------------
(* Properties *)

\* Every field keeps its type; unsigned fields never go below zero.
TypeOK ==
    /\ now \in Nat
    /\ agreements \in [Contracts -> EscrowAgreement]
    /\ balance \in Nat
    /\ paid \in [Contracts -> Payouts]

\* How the reward of agreement a stands when it has paid out p.
RewardSplit(a, p) ==
    /\ a.state \in {"None", "Created"} =>
          a.escrowBalance = 0 /\ p.provider = 0 /\ p.publisher = 0
    /\ a.state \in {"Funded", "Active", "Failed", "Terminated"} =>
          a.escrowBalance = a.reward /\ p.provider = 0 /\ p.publisher = 0
    /\ a.state = "Settled" =>
          /\ a.escrowBalance = 0 /\ a.hasPaymentState
          /\ p.provider = a.latestCumulativePayment
          /\ p.provider + p.publisher = a.reward
    /\ a.state = "Refunded" =>
          a.escrowBalance = 0 /\ p.provider = 0 /\ p.publisher = a.reward

\* The reward of a funded agreement is either still held in full or has been
\* split exactly once: by settleContract into the provider's recorded cumulative
\* payment and the publisher's rest, or by refundPublisher to the publisher.
EscrowSplit == \A c \in Contracts : RewardSplit(agreements[c], paid[c])

\* How the collateral of agreement a stands when it has paid out p.
CollateralHeld(a, p) ==
    /\ a.state \in {"None", "Created"} => a.collateral = 0
    /\ a.state \in {"None", "Created", "Funded"} =>
          p.returned = 0 /\ p.slashed = 0
    /\ a.state = "Funded" => a.collateral \in {0, a.collateralRequired}
    /\ a.state \notin {"None", "Created", "Funded"} =>
          a.collateral + p.returned + p.slashed = a.collateralRequired
    /\ p.returned # 0 =>
          /\ a.collateral = 0
          /\ a.state \in {"Settled", "Terminated", "Refunded"}

\* An agreement that went active had its whole collateral deposited, and that
\* collateral is held, slashed to the publisher, or returned to the provider;
\* once any was returned the agreement is over and nothing is held any more.
CollateralSplit == \A c \in Contracts : CollateralHeld(agreements[c], paid[c])

\* The contract's ether is exactly what its agreements still hold, so no payout
\* of one agreement is made from the funds of another, and none can fail for
\* lack of ether.
Solvency ==
    balance = MapThenSumSet(
        LAMBDA c : agreements[c].escrowBalance + agreements[c].collateral,
        Contracts)

\* An agreement terminated after its window never had a voucher accepted
\* (the invariant stated at terminateExpiredContract).
TerminatedUnclaimed ==
    \A c \in Contracts :
        agreements[c].state = "Terminated" =>
            /\ ~agreements[c].hasPaymentState
            /\ now > SettlementEnd(agreements[c])

\* No transaction, in whatever order vouchers arrive, moves the recorded voucher
\* back: a change of the sequence raises it and never lowers the payment.
VouchersAdvance ==
    [][\A c \in Contracts :
        LET a == agreements[c]
            b == agreements'[c]
        IN  (b.latestSequence # a.latestSequence
                \/ b.latestCumulativePayment # a.latestCumulativePayment) =>
            /\ b.latestSequence > a.latestSequence
            /\ b.latestCumulativePayment >= a.latestCumulativePayment]_vars

\* Once the reward is split, no later transaction changes the state or the split.
SplitIsFinal ==
    [][\A c \in Contracts :
        agreements[c].state \in {"Settled", "Refunded"} =>
            /\ agreements'[c].state = agreements[c].state
            /\ paid'[c].provider = paid[c].provider
            /\ paid'[c].publisher = paid[c].publisher]_vars

\* The escrow implements its promise: every transaction is a step of
\* EscrowPromise on the rewards, or leaves them alone.
Promise == INSTANCE EscrowPromise WITH
    reward <- [c \in Contracts |-> agreements[c].reward],
    held <- [c \in Contracts |-> agreements[c].escrowBalance],
    earned <- [c \in Contracts |-> agreements[c].latestCumulativePayment],
    toProvider <- [c \in Contracts |-> paid[c].provider],
    toPublisher <- [c \in Contracts |-> paid[c].publisher]

ImplementsPromise == Promise!PSpec

-----------------------------------------------------------------------------
(* What comments of the code say, and the code does not do *)

\* EscrowContract.sol:236-239: with a voucher accepted the agreement "must be
\* settled via settleContract() so the provider receives their earned cumulative
\* payment".
AcceptedVoucherIsPaid ==
    \A c \in Contracts :
        agreements[c].hasPaymentState /\ agreements[c].escrowBalance = 0 =>
            paid[c].provider = agreements[c].latestCumulativePayment

\* EscrowContract.sol:191-192: against a wrong markFailure "the provider submits
\* their latest signed voucher"; here, the voucher the chain holds as latest.
LatestVoucherOverturnsFailure ==
    \A c \in Contracts, ps \in PaymentStates :
        LET a == agreements[c]
        IN  /\ a.state = "Failed" /\ a.hasPaymentState
            /\ ps.contractID = c /\ ps.signer = a.publisher
            /\ ps.publisher = a.publisher /\ ps.provider = a.provider
            /\ ps.sequence = a.latestSequence
            /\ ps.cumulativePayment = a.latestCumulativePayment
            /\ ps.validUntil >= now
            => AcceptablePaymentState(c, ps)
=============================================================================
