------------------------ MODULE EscrowContract_proofs ------------------------
(***************************************************************************)
(* Proofs about EscrowContract for any contracts, accounts, amounts and    *)
(* times: its type invariant, how the reward and the collateral are split, *)
(* and that it implements EscrowPromise.                                   *)
(*                                                                         *)
(* A transaction rewrites one agreement and its payouts.  Each action is   *)
(* shown to turn a well-formed pair into a well-formed pair; Rewrite lifts *)
(* that to the whole state.                                                *)
(***************************************************************************)
EXTENDS EscrowContract, TLAPS

\* A well-formed agreement a that has paid out p, at time t.
WellFormed(a, p, t) ==
    /\ a \in EscrowAgreement
    /\ p \in Payouts
    /\ RewardSplit(a, p)
    /\ CollateralHeld(a, p)
    /\ a.state = "Terminated" => ~a.hasPaymentState /\ t > SettlementEnd(a)
    /\ (a.state = "None") = (a.reward = 0)
    /\ a.latestCumulativePayment <= a.reward
    /\ a.state \in {"None", "Created", "Funded"} =>
          a.latestCumulativePayment = 0

\* The inductive invariant.
IInv ==
    /\ now \in Nat
    /\ balance \in Nat
    /\ agreements = [c \in Contracts |-> agreements[c]]
    /\ paid = [c \in Contracts |-> paid[c]]
    /\ \A c \in Contracts : WellFormed(agreements[c], paid[c], now)

\* The step of EscrowPromise that a transaction takes from an agreement a, paid
\* out p, to b and q; or none.
PaidSame(p, q) == q.provider = p.provider /\ q.publisher = p.publisher
EarnedSame(a, b) == b.latestCumulativePayment = a.latestCumulativePayment
HeldSame(a, b) == b.escrowBalance = a.escrowBalance
TakesNone(a, p, b, q) ==
    b.reward = a.reward /\ HeldSame(a, b) /\ EarnedSame(a, b) /\ PaidSame(p, q)
TakesAgree(a, p, b, q) ==
    /\ a.reward = 0 /\ b.reward \in Nat \ {0}
    /\ HeldSame(a, b) /\ EarnedSame(a, b) /\ PaidSame(p, q)
TakesLock(a, p, b, q) ==
    /\ a.escrowBalance = 0 /\ p.provider + p.publisher = 0
    /\ b.escrowBalance = a.reward
    /\ b.reward = a.reward /\ EarnedSame(a, b) /\ PaidSame(p, q)
TakesEarn(a, p, b, q) ==
    /\ a.escrowBalance # 0
    /\ b.latestCumulativePayment \in a.latestCumulativePayment .. a.reward
    /\ b.reward = a.reward /\ HeldSame(a, b) /\ PaidSame(p, q)
TakesRelease(a, p, b, q) ==
    /\ a.escrowBalance # 0 /\ b.escrowBalance = 0
    /\ q.provider \in {0, a.latestCumulativePayment}
    /\ q.publisher = a.reward - q.provider
    /\ b.reward = a.reward /\ EarnedSame(a, b)

\* What a transaction may turn an agreement into: the voucher does not go back,
\* a finished split stays, and the reward takes at most one step of EscrowPromise.
Follows(a, p, b, q) ==
    /\ \/ b.latestSequence = a.latestSequence /\ EarnedSame(a, b)
       \/ /\ b.latestSequence > a.latestSequence
          /\ b.latestCumulativePayment >= a.latestCumulativePayment
    /\ a.state \in {"Settled", "Refunded"} => b.state = a.state /\ PaidSame(p, q)
    /\ \/ TakesNone(a, p, b, q) \/ TakesAgree(a, p, b, q) \/ TakesLock(a, p, b, q)
       \/ TakesEarn(a, p, b, q) \/ TakesRelease(a, p, b, q)

\* A step of the escrow: the invariant is kept, every agreement is followed by
\* a legal one, and the rewards take a step of EscrowPromise or none.
StepOK ==
    /\ IInv'
    /\ \A x \in Contracts :
          Follows(agreements[x], paid[x], agreements'[x], paid'[x])
    /\ [Promise!PNext]_(Promise!pvars)

\* A transaction on agreement c that leaves it well formed and follows the rules
\* above is a legal step of the whole escrow.
LEMMA Rewrite ==
    ASSUME IInv, NEW c \in Contracts, NEW b, NEW q,
           agreements' = [agreements EXCEPT ![c] = b],
           paid' = [paid EXCEPT ![c] = q],
           balance' \in Nat, now' = now, WellFormed(b, q, now),
           Follows(agreements[c], paid[c], b, q)
    PROVE  StepOK
<1>1. agreements' = [x \in Contracts |-> agreements'[x]]
      /\ paid' = [x \in Contracts |-> paid'[x]]
  BY DEF IInv
<1>2. agreements'[c] = b /\ paid'[c] = q
  BY DEF IInv
<1>3. ASSUME NEW x \in Contracts, x # c
      PROVE agreements'[x] = agreements[x] /\ paid'[x] = paid[x]
  BY <1>3 DEF IInv
<1>4. ASSUME NEW x \in Contracts
      PROVE WellFormed(agreements[x], paid[x], now)'
  <2>1. CASE x = c
    BY <1>2, <2>1 DEF WellFormed, RewardSplit, CollateralHeld, SettlementEnd
  <2>2. CASE x # c
    BY <1>3, <2>2
    DEF IInv, WellFormed, RewardSplit, CollateralHeld, SettlementEnd
  <2>3. QED
    BY <2>1, <2>2
<1>5. IInv'
  BY <1>1, <1>4 DEF IInv
<1>6. ASSUME NEW x \in Contracts
      PROVE Follows(agreements[x], paid[x], agreements'[x], paid'[x])
  <2>1. CASE x = c
    BY <1>2, <2>1
  <2>2. CASE x # c
    BY <1>3, <2>2 DEF Follows, TakesNone, TakesAgree, TakesLock, TakesEarn, TakesRelease,
      PaidSame, EarnedSame, HeldSame
  <2>3. QED
    BY <2>1, <2>2
<1>7. [Promise!PNext]_(Promise!pvars)
  <2> DEFINE a == agreements[c]
             p == paid[c]
             Earned(f) == [x \in Contracts |-> f[x].latestCumulativePayment]
             Held(f) == [x \in Contracts |-> f[x].escrowBalance]
             Reward(f) == [x \in Contracts |-> f[x].reward]
             ToProvider(f) == [x \in Contracts |-> f[x].provider]
             ToPublisher(f) == [x \in Contracts |-> f[x].publisher]
  <2>1. /\ Earned(agreements') =
              [Earned(agreements) EXCEPT ![c] = b.latestCumulativePayment]
        /\ Held(agreements') = [Held(agreements) EXCEPT ![c] = b.escrowBalance]
        /\ Reward(agreements') = [Reward(agreements) EXCEPT ![c] = b.reward]
        /\ ToProvider(paid') = [ToProvider(paid) EXCEPT ![c] = q.provider]
        /\ ToPublisher(paid') = [ToPublisher(paid) EXCEPT ![c] = q.publisher]
    <3>1. Earned(agreements') = [Earned(agreements) EXCEPT ![c] = b.latestCumulativePayment]
      <4>1. Earned(agreements') =
              [x \in Contracts |-> IF x = c THEN b.latestCumulativePayment
                                          ELSE agreements[x].latestCumulativePayment]
        BY <1>2, <1>3
      <4>2. QED
        BY <4>1
    <3>2. Held(agreements') = [Held(agreements) EXCEPT ![c] = b.escrowBalance]
      <4>1. Held(agreements') =
              [x \in Contracts |-> IF x = c THEN b.escrowBalance
                                          ELSE agreements[x].escrowBalance]
        BY <1>2, <1>3
      <4>2. QED
        BY <4>1
    <3>3. Reward(agreements') = [Reward(agreements) EXCEPT ![c] = b.reward]
      <4>1. Reward(agreements') =
              [x \in Contracts |-> IF x = c THEN b.reward
                                          ELSE agreements[x].reward]
        BY <1>2, <1>3
      <4>2. QED
        BY <4>1
    <3>4. ToProvider(paid') = [ToProvider(paid) EXCEPT ![c] = q.provider]
      <4>1. ToProvider(paid') =
              [x \in Contracts |-> IF x = c THEN q.provider
                                          ELSE paid[x].provider]
        BY <1>2, <1>3
      <4>2. QED
        BY <4>1
    <3>5. ToPublisher(paid') = [ToPublisher(paid) EXCEPT ![c] = q.publisher]
      <4>1. ToPublisher(paid') =
              [x \in Contracts |-> IF x = c THEN q.publisher
                                          ELSE paid[x].publisher]
        BY <1>2, <1>3
      <4>2. QED
        BY <4>1
    <3>6. QED
      BY <3>1, <3>2, <3>3, <3>4, <3>5
  <2>2. /\ Earned(agreements)[c] = a.latestCumulativePayment
        /\ Held(agreements)[c] = a.escrowBalance
        /\ Reward(agreements)[c] = a.reward
        /\ ToProvider(paid)[c] = p.provider /\ ToPublisher(paid)[c] = p.publisher
        /\ Reward(agreements')[c] = b.reward
    BY <1>2
  <2>3. /\ EarnedSame(a, b) => Earned(agreements') = Earned(agreements)
        /\ HeldSame(a, b) => Held(agreements') = Held(agreements)
        /\ b.reward = a.reward => Reward(agreements') = Reward(agreements)
        /\ PaidSame(p, q) => /\ ToProvider(paid') = ToProvider(paid)
                             /\ ToPublisher(paid') = ToPublisher(paid)
    BY <1>2, <1>3 DEF EarnedSame, HeldSame, PaidSame
  <2>4. CASE TakesNone(a, p, b, q)
    BY <2>3, <2>4 DEF TakesNone, Promise!pvars
  <2>5. CASE TakesAgree(a, p, b, q)
    <3>1. Promise!Agree(c)
      BY <2>1, <2>2, <2>3, <2>5 DEF TakesAgree, Promise!Agree
    <3>2. QED
      BY <3>1 DEF Promise!PNext
  <2>6. CASE TakesLock(a, p, b, q)
    <3>1. Promise!Lock(c)
      BY <2>1, <2>2, <2>3, <2>6 DEF TakesLock, Promise!Lock
    <3>2. QED
      BY <3>1 DEF Promise!PNext
  <2>7. CASE TakesEarn(a, p, b, q)
    <3>1. Promise!Earn(c)
      BY <2>1, <2>2, <2>3, <2>7 DEF TakesEarn, Promise!Earn
    <3>2. QED
      BY <3>1 DEF Promise!PNext
  <2>8. CASE TakesRelease(a, p, b, q)
    <3>1. Promise!Release(c, q.provider)
      BY <2>1, <2>2, <2>3, <2>8 DEF TakesRelease, Promise!Release
    <3>2. q.provider = 0 \/ q.provider = Earned(agreements)[c]
      BY <2>2, <2>8 DEF TakesRelease
    <3>3. CASE q.provider = 0
      BY <3>1, <3>3 DEF Promise!PNext
    <3>4. CASE q.provider = Earned(agreements)[c]
      <4>1. Promise!Release(c, Earned(agreements)[c])
        BY <3>1, <3>4 DEF Promise!Release
      <4>2. QED
        BY <4>1 DEF Promise!PNext, Promise!Release
    <3>5. QED
      BY <3>2, <3>3, <3>4
  <2>9. QED
    BY <2>4, <2>5, <2>6, <2>7, <2>8 DEF Follows
<1>8. QED
  BY <1>5, <1>6, <1>7 DEF StepOK

\* createContract is a legal step.
\* createContract is a legal step.
\* createContract is a legal step.
\* createContract is a legal step.
LEMMA CreateContractLegal ==
    ASSUME IInv, NEW c \in Contracts, NEW s \in Accounts, NEW pr \in Accounts,
           NEW r \in Rewards, NEW d \in Durations, NEW k \in Collaterals,
           createContract(s, c, pr, r, d, k)
    PROVE  StepOK
<1> DEFINE a == agreements[c]
           p == paid[c]
           b == [a EXCEPT !.publisher = s, !.provider = pr, !.state = "Created",
                         !.reward = r, !.duration = d,
                         !.collateralRequired = k]
           q == p
<1>1. /\ WellFormed(a, p, now) /\ balance \in Nat /\ now \in Nat
      /\ a \in EscrowAgreement /\ p \in Payouts
  BY DEF IInv, WellFormed
<1>0. r \in Nat /\ d \in Nat /\ k \in Nat
  BY ConstantsAssumption
<1>2. b \in EscrowAgreement
  BY <1>0, <1>1
  DEF createContract, EscrowAgreement, ContractState
<1>3. q \in Payouts
  BY <1>0, <1>1
  DEF WellFormed, createContract, EscrowAgreement, Payouts
<1>4. balance' \in Nat
  BY <1>0, <1>1 DEF createContract, EscrowAgreement
<1>5. WellFormed(b, q, now)
  BY <1>1, <1>2, <1>3, <1>0
  DEF WellFormed, RewardSplit, CollateralHeld, SettlementEnd, createContract,
      EscrowAgreement, ContractState, Payouts
<1>6. agreements' = [agreements EXCEPT ![c] = b]
  BY DEF createContract
<1>7. paid' = [paid EXCEPT ![c] = q] /\ now' = now
  BY DEF IInv, createContract
<1>8. Follows(a, p, b, q)
  BY <1>1, <1>2, <1>3, <1>0
  DEF Follows, TakesNone, TakesAgree, TakesLock, TakesEarn, TakesRelease,
      PaidSame, EarnedSame, HeldSame, WellFormed, RewardSplit, createContract, EscrowAgreement, Payouts
<1>9. QED
  BY <1>4, <1>5, <1>6, <1>7, <1>8, Rewrite

\* fundEscrow is a legal step.
LEMMA FundEscrowLegal ==
    ASSUME IInv, NEW c \in Contracts, NEW s \in Accounts,
           fundEscrow(s, c)
    PROVE  StepOK
<1> DEFINE a == agreements[c]
           p == paid[c]
           b == [a EXCEPT !.escrowBalance = a.reward, !.state = "Funded"]
           q == p
<1>1. /\ WellFormed(a, p, now) /\ balance \in Nat /\ now \in Nat
      /\ a \in EscrowAgreement /\ p \in Payouts
  BY DEF IInv, WellFormed
<1>2. b \in EscrowAgreement
  BY <1>1
  DEF fundEscrow, EscrowAgreement, ContractState
<1>3. q \in Payouts
  BY <1>1
  DEF WellFormed, fundEscrow, EscrowAgreement, Payouts
<1>4. balance' \in Nat
  BY <1>1 DEF fundEscrow, EscrowAgreement
<1>5. WellFormed(b, q, now)
  BY <1>1, <1>2, <1>3
  DEF WellFormed, RewardSplit, CollateralHeld, SettlementEnd, fundEscrow,
      EscrowAgreement, ContractState, Payouts
<1>6. agreements' = [agreements EXCEPT ![c] = b]
  BY DEF fundEscrow
<1>7. paid' = [paid EXCEPT ![c] = q] /\ now' = now
  BY DEF IInv, fundEscrow
<1>8. Follows(a, p, b, q)
  BY <1>1, <1>2, <1>3
  DEF Follows, TakesNone, TakesAgree, TakesLock, TakesEarn, TakesRelease,
      PaidSame, EarnedSame, HeldSame, WellFormed, RewardSplit, fundEscrow, EscrowAgreement, Payouts
<1>9. QED
  BY <1>4, <1>5, <1>6, <1>7, <1>8, Rewrite

\* depositCollateral is a legal step.
LEMMA DepositCollateralLegal ==
    ASSUME IInv, NEW c \in Contracts, NEW s \in Accounts,
           depositCollateral(s, c)
    PROVE  StepOK
<1> DEFINE a == agreements[c]
           p == paid[c]
           b == [a EXCEPT !.collateral = a.collateralRequired]
           q == p
<1>1. /\ WellFormed(a, p, now) /\ balance \in Nat /\ now \in Nat
      /\ a \in EscrowAgreement /\ p \in Payouts
  BY DEF IInv, WellFormed
<1>2. b \in EscrowAgreement
  BY <1>1
  DEF depositCollateral, EscrowAgreement, ContractState, AwaitsCollateral
<1>3. q \in Payouts
  BY <1>1
  DEF WellFormed, depositCollateral, EscrowAgreement, Payouts, AwaitsCollateral
<1>4. balance' \in Nat
  BY <1>1 DEF depositCollateral, EscrowAgreement, AwaitsCollateral
<1>5. WellFormed(b, q, now)
  BY <1>1, <1>2, <1>3
  DEF WellFormed, RewardSplit, CollateralHeld, SettlementEnd, depositCollateral,
      EscrowAgreement, ContractState, Payouts, AwaitsCollateral
<1>6. agreements' = [agreements EXCEPT ![c] = b]
  BY DEF depositCollateral
<1>7. paid' = [paid EXCEPT ![c] = q] /\ now' = now
  BY DEF IInv, depositCollateral
<1>8. Follows(a, p, b, q)
  BY <1>1, <1>2, <1>3
  DEF Follows, TakesNone, TakesAgree, TakesLock, TakesEarn, TakesRelease,
      PaidSame, EarnedSame, HeldSame, WellFormed, RewardSplit, depositCollateral, EscrowAgreement, Payouts, AwaitsCollateral
<1>9. QED
  BY <1>4, <1>5, <1>6, <1>7, <1>8, Rewrite

\* activateContract is a legal step.
LEMMA ActivateContractLegal ==
    ASSUME IInv, NEW c \in Contracts, NEW s \in Accounts,
           activateContract(s, c)
    PROVE  StepOK
<1> DEFINE a == agreements[c]
           p == paid[c]
           b == [a EXCEPT !.deadline = now + a.duration, !.state = "Active"]
           q == p
<1>1. /\ WellFormed(a, p, now) /\ balance \in Nat /\ now \in Nat
      /\ a \in EscrowAgreement /\ p \in Payouts
  BY DEF IInv, WellFormed
<1>0. now + a.duration \in Nat
  BY <1>1 DEF EscrowAgreement
<1>2. b \in EscrowAgreement
  BY <1>0, <1>1 DEF EscrowAgreement, ContractState
<1>3. q \in Payouts
  BY <1>0, <1>1 DEF Payouts
<1>4. balance' \in Nat
  BY <1>1 DEF activateContract, EscrowAgreement
<1>5. WellFormed(b, q, now)
  BY <1>1, <1>2, <1>3
  DEF WellFormed, RewardSplit, CollateralHeld, SettlementEnd, activateContract,
      EscrowAgreement, ContractState, Payouts
<1>6. agreements' = [agreements EXCEPT ![c] = b]
  BY DEF activateContract
<1>7. paid' = [paid EXCEPT ![c] = q] /\ now' = now
  BY DEF IInv, activateContract
<1>8. Follows(a, p, b, q)
  BY <1>0, <1>1, <1>2, <1>3
  DEF Follows, TakesNone, TakesAgree, TakesLock, TakesEarn, TakesRelease,
      PaidSame, EarnedSame, HeldSame, WellFormed, RewardSplit, activateContract, EscrowAgreement, Payouts
<1>9. QED
  BY <1>4, <1>5, <1>6, <1>7, <1>8, Rewrite

\* submitPaymentState is a legal step.
LEMMA SubmitPaymentStateLegal ==
    ASSUME IInv, NEW c \in Contracts, NEW ps \in PaymentStates,
           submitPaymentState(c, ps)
    PROVE  StepOK
<1> DEFINE a == agreements[c]
           p == paid[c]
           b == [a EXCEPT !.latestSequence = ps.sequence,
                         !.latestCumulativePayment = ps.cumulativePayment,
                         !.hasPaymentState = TRUE]
           q == p
<1>1. /\ WellFormed(a, p, now) /\ balance \in Nat /\ now \in Nat
      /\ a \in EscrowAgreement /\ p \in Payouts
  BY DEF IInv, WellFormed
<1>0. ps.sequence \in Nat /\ ps.cumulativePayment \in Nat
  BY ConstantsAssumption DEF VoucherType
<1>2. b \in EscrowAgreement
  BY <1>0, <1>1 DEF EscrowAgreement, ContractState
<1>3. q \in Payouts
  BY <1>0, <1>1 DEF Payouts
<1>4. balance' \in Nat
  BY <1>1, <1>0 DEF submitPaymentState, EscrowAgreement, AcceptablePaymentState, isNextPaymentState,
      VoucherType
<1>5. WellFormed(b, q, now)
  BY <1>1, <1>2, <1>3, <1>0
  DEF WellFormed, RewardSplit, CollateralHeld, SettlementEnd, submitPaymentState,
      EscrowAgreement, ContractState, Payouts, AcceptablePaymentState, isNextPaymentState,
      VoucherType
<1>6. agreements' = [agreements EXCEPT ![c] = b]
  BY DEF submitPaymentState
<1>7. paid' = [paid EXCEPT ![c] = q] /\ now' = now
  BY DEF IInv, submitPaymentState
<1>8. Follows(a, p, b, q)
  BY <1>0, <1>1, <1>2, <1>3
  DEF Follows, TakesNone, TakesAgree, TakesLock, TakesEarn, TakesRelease,
      PaidSame, EarnedSame, HeldSame, WellFormed, RewardSplit, submitPaymentState, EscrowAgreement, Payouts, AcceptablePaymentState, isNextPaymentState,
      VoucherType
<1>9. QED
  BY <1>4, <1>5, <1>6, <1>7, <1>8, Rewrite

\* settleContract is a legal step.
LEMMA SettleContractLegal ==
    ASSUME IInv, NEW c \in Contracts, NEW ps \in PaymentStates,
           settleContract(c, ps)
    PROVE  StepOK
<1> DEFINE a == agreements[c]
           p == paid[c]
           b == [a EXCEPT !.escrowBalance = 0, !.state = "Settled"]
           q == [p EXCEPT
                    !.provider = p.provider + a.latestCumulativePayment,
                    !.publisher = p.publisher + (a.escrowBalance
                                              - a.latestCumulativePayment)]
<1>1. /\ WellFormed(a, p, now) /\ balance \in Nat /\ now \in Nat
      /\ a \in EscrowAgreement /\ p \in Payouts
  BY DEF IInv, WellFormed
<1>0. /\ p.provider + a.latestCumulativePayment \in Nat
      /\ p.publisher + (a.escrowBalance - a.latestCumulativePayment) \in Nat
  BY <1>1 DEF settleContract, EscrowAgreement, Payouts
<1>2. b \in EscrowAgreement
  BY <1>1
  DEF settleContract, EscrowAgreement, ContractState, SendValue
<1>3. q \in Payouts
  BY <1>0, <1>1 DEF Payouts
<1>4. balance' \in Nat
  BY <1>1 DEF settleContract, EscrowAgreement, SendValue
<1>5. WellFormed(b, q, now)
  BY <1>1, <1>2, <1>3
  DEF WellFormed, RewardSplit, CollateralHeld, SettlementEnd, settleContract,
      EscrowAgreement, ContractState, Payouts, SendValue
<1>6. agreements' = [agreements EXCEPT ![c] = b]
  BY DEF settleContract
<1>7. paid' = [paid EXCEPT ![c] = q] /\ now' = now
  BY DEF IInv, settleContract
<1>8. Follows(a, p, b, q)
  BY <1>0, <1>1, <1>2, <1>3
  DEF Follows, TakesNone, TakesAgree, TakesLock, TakesEarn, TakesRelease,
      PaidSame, EarnedSame, HeldSame, WellFormed, RewardSplit, settleContract, EscrowAgreement, Payouts, SendValue
<1>9. QED
  BY <1>4, <1>5, <1>6, <1>7, <1>8, Rewrite

\* refundPublisher is a legal step.
LEMMA RefundPublisherLegal ==
    ASSUME IInv, NEW c \in Contracts, NEW s \in Accounts,
           refundPublisher(s, c)
    PROVE  StepOK
<1> DEFINE a == agreements[c]
           p == paid[c]
           b == [a EXCEPT !.escrowBalance = 0, !.state = "Refunded"]
           q == [p EXCEPT !.publisher = p.publisher + a.escrowBalance]
<1>1. /\ WellFormed(a, p, now) /\ balance \in Nat /\ now \in Nat
      /\ a \in EscrowAgreement /\ p \in Payouts
  BY DEF IInv, WellFormed
<1>0. /\ a.state \notin {"None", "Created", "Settled", "Refunded"}
      /\ a.escrowBalance = a.reward /\ a.reward # 0
      /\ p.provider = 0 /\ p.publisher = 0
  BY <1>1 DEF refundPublisher, Refundable, Expired, WellFormed, RewardSplit
<1>2. b \in EscrowAgreement
  BY <1>1
  DEF refundPublisher, EscrowAgreement, ContractState, SendValue, Refundable, Expired
<1>3. q \in Payouts
  BY <1>1
  DEF WellFormed, refundPublisher, EscrowAgreement, Payouts, SendValue, Refundable, Expired
<1>4. balance' \in Nat
  BY <1>1 DEF refundPublisher, EscrowAgreement, SendValue, Refundable, Expired
<1>5. WellFormed(b, q, now)
  BY <1>0, <1>1, <1>2, <1>3
  DEF WellFormed, RewardSplit, CollateralHeld, SettlementEnd, refundPublisher,
      EscrowAgreement, ContractState, Payouts, SendValue, Refundable, Expired
<1>6. agreements' = [agreements EXCEPT ![c] = b]
  BY DEF refundPublisher
<1>7. paid' = [paid EXCEPT ![c] = q] /\ now' = now
  BY DEF IInv, refundPublisher
<1>8. Follows(a, p, b, q)
  BY <1>0, <1>1 DEF Follows, TakesNone, TakesAgree, TakesLock, TakesEarn, TakesRelease,
      PaidSame, EarnedSame, HeldSame, EscrowAgreement, Payouts
<1>9. QED
  BY <1>4, <1>5, <1>6, <1>7, <1>8, Rewrite

\* returnCollateral is a legal step.
LEMMA ReturnCollateralLegal ==
    ASSUME IInv, NEW c \in Contracts,
           returnCollateral(c)
    PROVE  StepOK
<1> DEFINE a == agreements[c]
           p == paid[c]
           b == [a EXCEPT !.collateral = 0]
           q == [p EXCEPT !.returned = p.returned + a.collateral]
<1>1. /\ WellFormed(a, p, now) /\ balance \in Nat /\ now \in Nat
      /\ a \in EscrowAgreement /\ p \in Payouts
  BY DEF IInv, WellFormed
<1>2. b \in EscrowAgreement
  BY <1>1
  DEF returnCollateral, EscrowAgreement, ContractState, SendValue, Returnable
<1>3. q \in Payouts
  BY <1>1
  DEF WellFormed, returnCollateral, EscrowAgreement, Payouts, SendValue, Returnable
<1>4. balance' \in Nat
  BY <1>1 DEF returnCollateral, EscrowAgreement, SendValue, Returnable
<1>5. WellFormed(b, q, now)
  BY <1>1, <1>2, <1>3
  DEF WellFormed, RewardSplit, CollateralHeld, SettlementEnd, returnCollateral,
      EscrowAgreement, ContractState, Payouts, SendValue, Returnable
<1>6. agreements' = [agreements EXCEPT ![c] = b]
  BY DEF returnCollateral
<1>7. paid' = [paid EXCEPT ![c] = q] /\ now' = now
  BY DEF IInv, returnCollateral
<1>8. Follows(a, p, b, q)
  BY <1>1, <1>2, <1>3
  DEF Follows, TakesNone, TakesAgree, TakesLock, TakesEarn, TakesRelease,
      PaidSame, EarnedSame, HeldSame, WellFormed, RewardSplit, returnCollateral, EscrowAgreement, Payouts, SendValue, Returnable
<1>9. QED
  BY <1>4, <1>5, <1>6, <1>7, <1>8, Rewrite

\* markFailure is a legal step.
LEMMA MarkFailureLegal ==
    ASSUME IInv, NEW c \in Contracts, NEW s \in Accounts,
           markFailure(s, c)
    PROVE  StepOK
<1> DEFINE a == agreements[c]
           p == paid[c]
           b == [a EXCEPT !.state = "Failed"]
           q == p
<1>1. /\ WellFormed(a, p, now) /\ balance \in Nat /\ now \in Nat
      /\ a \in EscrowAgreement /\ p \in Payouts
  BY DEF IInv, WellFormed
<1>2. b \in EscrowAgreement
  BY <1>1
  DEF markFailure, EscrowAgreement, ContractState
<1>3. q \in Payouts
  BY <1>1
  DEF WellFormed, markFailure, EscrowAgreement, Payouts
<1>4. balance' \in Nat
  BY <1>1 DEF markFailure, EscrowAgreement
<1>5. WellFormed(b, q, now)
  BY <1>1, <1>2, <1>3
  DEF WellFormed, RewardSplit, CollateralHeld, SettlementEnd, markFailure,
      EscrowAgreement, ContractState, Payouts
<1>6. agreements' = [agreements EXCEPT ![c] = b]
  BY DEF markFailure
<1>7. paid' = [paid EXCEPT ![c] = q] /\ now' = now
  BY DEF IInv, markFailure
<1>8. Follows(a, p, b, q)
  BY <1>1, <1>2, <1>3
  DEF Follows, TakesNone, TakesAgree, TakesLock, TakesEarn, TakesRelease,
      PaidSame, EarnedSame, HeldSame, WellFormed, RewardSplit, markFailure, EscrowAgreement, Payouts
<1>9. QED
  BY <1>4, <1>5, <1>6, <1>7, <1>8, Rewrite

\* disputeFailure is a legal step.
LEMMA DisputeFailureLegal ==
    ASSUME IInv, NEW c \in Contracts, NEW s \in Accounts, NEW ps \in PaymentStates,
           disputeFailure(s, c, ps)
    PROVE  StepOK
<1> DEFINE a == agreements[c]
           p == paid[c]
           b == [a EXCEPT !.latestSequence = ps.sequence,
                         !.latestCumulativePayment = ps.cumulativePayment,
                         !.hasPaymentState = TRUE, !.state = "Active"]
           q == p
<1>1. /\ WellFormed(a, p, now) /\ balance \in Nat /\ now \in Nat
      /\ a \in EscrowAgreement /\ p \in Payouts
  BY DEF IInv, WellFormed
<1>0. ps.sequence \in Nat /\ ps.cumulativePayment \in Nat
  BY ConstantsAssumption DEF VoucherType
<1>2. b \in EscrowAgreement
  BY <1>0, <1>1 DEF EscrowAgreement, ContractState
<1>3. q \in Payouts
  BY <1>0, <1>1 DEF Payouts
<1>4. balance' \in Nat
  BY <1>1, <1>0 DEF disputeFailure, EscrowAgreement, AcceptablePaymentState, isNextPaymentState,
      VoucherType
<1>5. WellFormed(b, q, now)
  BY <1>1, <1>2, <1>3, <1>0
  DEF WellFormed, RewardSplit, CollateralHeld, SettlementEnd, disputeFailure,
      EscrowAgreement, ContractState, Payouts, AcceptablePaymentState, isNextPaymentState,
      VoucherType
<1>6. agreements' = [agreements EXCEPT ![c] = b]
  BY DEF disputeFailure
<1>7. paid' = [paid EXCEPT ![c] = q] /\ now' = now
  BY DEF IInv, disputeFailure
<1>8. Follows(a, p, b, q)
  BY <1>0, <1>1, <1>2, <1>3
  DEF Follows, TakesNone, TakesAgree, TakesLock, TakesEarn, TakesRelease,
      PaidSame, EarnedSame, HeldSame, WellFormed, RewardSplit, disputeFailure, EscrowAgreement, Payouts, AcceptablePaymentState, isNextPaymentState,
      VoucherType
<1>9. QED
  BY <1>4, <1>5, <1>6, <1>7, <1>8, Rewrite

\* slashCollateral is a legal step.
LEMMA SlashCollateralLegal ==
    ASSUME IInv, NEW c \in Contracts, NEW s \in Accounts, NEW n \in Penalties,
           slashCollateral(s, c, n)
    PROVE  StepOK
<1> DEFINE a == agreements[c]
           p == paid[c]
           b == [a EXCEPT !.collateral = a.collateral
                                           - penaltyAmount(a.collateral, n)]
           q == [p EXCEPT !.slashed = p.slashed + penaltyAmount(a.collateral, n)]
<1>1. /\ WellFormed(a, p, now) /\ balance \in Nat /\ now \in Nat
      /\ a \in EscrowAgreement /\ p \in Payouts
  BY DEF IInv, WellFormed
<1>0. n \in Nat
  BY ConstantsAssumption
<1>2. b \in EscrowAgreement
  BY <1>0, <1>1
  DEF slashCollateral, EscrowAgreement, ContractState, SendValue, penaltyAmount
<1>3. q \in Payouts
  BY <1>0, <1>1
  DEF WellFormed, slashCollateral, EscrowAgreement, Payouts, SendValue, penaltyAmount
<1>4. balance' \in Nat
  BY <1>0, <1>1 DEF slashCollateral, EscrowAgreement, SendValue, penaltyAmount
<1>5. WellFormed(b, q, now)
  BY <1>1, <1>2, <1>3, <1>0
  DEF WellFormed, RewardSplit, CollateralHeld, SettlementEnd, slashCollateral,
      EscrowAgreement, ContractState, Payouts, SendValue, penaltyAmount
<1>6. agreements' = [agreements EXCEPT ![c] = b]
  BY DEF slashCollateral
<1>7. paid' = [paid EXCEPT ![c] = q] /\ now' = now
  BY DEF IInv, slashCollateral
<1>8. Follows(a, p, b, q)
  BY <1>1, <1>2, <1>3, <1>0
  DEF Follows, TakesNone, TakesAgree, TakesLock, TakesEarn, TakesRelease,
      PaidSame, EarnedSame, HeldSame, WellFormed, RewardSplit, slashCollateral, EscrowAgreement, Payouts, SendValue, penaltyAmount
<1>9. QED
  BY <1>4, <1>5, <1>6, <1>7, <1>8, Rewrite

\* terminateExpiredContract is a legal step.
LEMMA TerminateExpiredContractLegal ==
    ASSUME IInv, NEW c \in Contracts,
           terminateExpiredContract(c)
    PROVE  StepOK
<1> DEFINE a == agreements[c]
           p == paid[c]
           b == [a EXCEPT !.state = "Terminated"]
           q == p
<1>1. /\ WellFormed(a, p, now) /\ balance \in Nat /\ now \in Nat
      /\ a \in EscrowAgreement /\ p \in Payouts
  BY DEF IInv, WellFormed
<1>2. b \in EscrowAgreement
  BY <1>1
  DEF terminateExpiredContract, EscrowAgreement, ContractState, Expired, PastWindow
<1>3. q \in Payouts
  BY <1>1
  DEF WellFormed, terminateExpiredContract, EscrowAgreement, Payouts, Expired, PastWindow
<1>4. balance' \in Nat
  BY <1>1 DEF terminateExpiredContract, EscrowAgreement, Expired, PastWindow
<1>5. WellFormed(b, q, now)
  BY <1>1, <1>2, <1>3
  DEF WellFormed, RewardSplit, CollateralHeld, SettlementEnd, terminateExpiredContract,
      EscrowAgreement, ContractState, Payouts, Expired, PastWindow
<1>6. agreements' = [agreements EXCEPT ![c] = b]
  BY DEF terminateExpiredContract
<1>7. paid' = [paid EXCEPT ![c] = q] /\ now' = now
  BY DEF IInv, terminateExpiredContract
<1>8. Follows(a, p, b, q)
  BY <1>1, <1>2, <1>3
  DEF Follows, TakesNone, TakesAgree, TakesLock, TakesEarn, TakesRelease,
      PaidSame, EarnedSame, HeldSame, WellFormed, RewardSplit, terminateExpiredContract, EscrowAgreement, Payouts, Expired, PastWindow
<1>9. QED
  BY <1>4, <1>5, <1>6, <1>7, <1>8, Rewrite

\* Every step from a state of the invariant is legal: each transaction, and time
\* passing.
LEMMA EveryStep ==
    ASSUME IInv, [Next]_vars
    PROVE  StepOK
<1>1. CASE UNCHANGED vars
  <2>1. /\ now' = now /\ balance' = balance
        /\ agreements' = agreements /\ paid' = paid
    BY <1>1 DEF vars
  <2>2. IInv'
    BY <2>1 DEF IInv, WellFormed, RewardSplit, CollateralHeld, SettlementEnd
  <2>3. UNCHANGED Promise!pvars
    BY <2>1 DEF Promise!pvars
  <2>4. QED
    BY <2>1, <2>2, <2>3 DEF StepOK, Follows, TakesNone, TakesAgree, TakesLock, TakesEarn, TakesRelease,
      PaidSame, EarnedSame, HeldSame
<1>2. CASE Tick
  <2>1. /\ now \in Nat /\ now' = now + 1 /\ balance' = balance
        /\ agreements' = agreements /\ paid' = paid
    BY <1>2 DEF Tick, IInv
  <2>2. ASSUME NEW c \in Contracts
        PROVE WellFormed(agreements[c], paid[c], now)'
    <3>1. WellFormed(agreements[c], paid[c], now)
      BY DEF IInv
    <3>2. QED
      BY <2>1, <3>1, ConstantsAssumption
      DEF WellFormed, RewardSplit, CollateralHeld, SettlementEnd, EscrowAgreement
  <2>3. UNCHANGED Promise!pvars
    BY <2>1 DEF Promise!pvars
  <2>4. IInv'
    BY <2>1, <2>2 DEF IInv
  <2>5. QED
    BY <2>1, <2>3, <2>4 DEF StepOK, Follows, TakesNone, TakesAgree, TakesLock, TakesEarn, TakesRelease,
      PaidSame, EarnedSame, HeldSame
<1>3. CASE \E c \in Contracts, s \in Accounts :
              \/ \E p \in Accounts, r \in Rewards, d \in Durations,
                    k \in Collaterals : createContract(s, c, p, r, d, k)
              \/ fundEscrow(s, c) \/ depositCollateral(s, c)
              \/ activateContract(s, c)
  BY <1>3, CreateContractLegal, FundEscrowLegal, DepositCollateralLegal,
     ActivateContractLegal
<1>4. CASE \E c \in Contracts, s \in Accounts :
              \/ refundPublisher(s, c) \/ markFailure(s, c)
              \/ \E ps \in PaymentStates : disputeFailure(s, c, ps)
              \/ \E n \in Penalties : slashCollateral(s, c, n)
  BY <1>4, RefundPublisherLegal, MarkFailureLegal, DisputeFailureLegal,
     SlashCollateralLegal
<1>5. CASE \E c \in Contracts :
              \/ \E ps \in PaymentStates : submitPaymentState(c, ps)
              \/ \E ps \in PaymentStates : settleContract(c, ps)
              \/ returnCollateral(c) \/ terminateExpiredContract(c)
  BY <1>5, SubmitPaymentStateLegal, SettleContractLegal, ReturnCollateralLegal,
     TerminateExpiredContractLegal
<1>6. QED
  BY <1>1, <1>2, <1>3, <1>4, <1>5 DEF Next

\* The inductive invariant holds in every state of every behaviour.
THEOREM Inductive == Spec => []IInv
<1>1. Init => IInv
  BY DEF Init, IInv, WellFormed, NoAgreement, EscrowAgreement, ContractState,
         Payouts, RewardSplit, CollateralHeld
<1>2. IInv /\ [Next]_vars => IInv'
  BY EveryStep DEF StepOK
<1>3. QED
  BY <1>1, <1>2, PTL DEF Spec

\* Every field keeps its type in every behaviour; in particular no unsigned
\* balance, collateral or payout goes below zero.
THEOREM TypeCorrect == Spec => []TypeOK
<1>1. IInv => TypeOK
  BY DEF IInv, WellFormed, TypeOK
<1>2. QED
  BY <1>1, Inductive, PTL

\* The reward of a funded agreement is held in full or was split exactly once
\* (settleContract, refundPublisher).
THEOREM RewardSplitOnce == Spec => []EscrowSplit
<1>1. IInv => EscrowSplit
  BY DEF IInv, WellFormed, EscrowSplit
<1>2. QED
  BY <1>1, Inductive, PTL

\* The collateral of an activated agreement is held, slashed or returned, and is
\* conserved (depositCollateral, slashCollateral, returnCollateral).
THEOREM CollateralConserved == Spec => []CollateralSplit
<1>1. IInv => CollateralSplit
  BY DEF IInv, WellFormed, CollateralSplit
<1>2. QED
  BY <1>1, Inductive, PTL

\* terminateExpiredContract only ever ends agreements with no accepted voucher,
\* and none is accepted afterwards.
THEOREM TerminationKeepsVouchers == Spec => []TerminatedUnclaimed
<1>1. IInv => TerminatedUnclaimed
  BY DEF IInv, WellFormed, TerminatedUnclaimed
<1>2. QED
  BY <1>1, Inductive, PTL

\* Vouchers only advance: no order of submitPaymentState and disputeFailure moves
\* the recorded sequence or payment back.
THEOREM VouchersOnlyAdvance == Spec => VouchersAdvance
<1>1. IInv /\ [Next]_vars =>
        [\A c \in Contracts :
            LET a == agreements[c]
                b == agreements'[c]
            IN  (b.latestSequence # a.latestSequence
                    \/ b.latestCumulativePayment # a.latestCumulativePayment) =>
                /\ b.latestSequence > a.latestSequence
                /\ b.latestCumulativePayment >= a.latestCumulativePayment]_vars
  BY EveryStep DEF StepOK, Follows, TakesNone, TakesAgree, TakesLock, TakesEarn, TakesRelease,
      PaidSame, EarnedSame, HeldSame
<1>2. QED
  BY <1>1, Inductive, PTL DEF Spec, VouchersAdvance

\* A split made by settleContract or refundPublisher is never changed later.
THEOREM SplitStaysFinal == Spec => SplitIsFinal
<1>1. IInv /\ [Next]_vars =>
        [\A c \in Contracts :
            agreements[c].state \in {"Settled", "Refunded"} =>
                /\ agreements'[c].state = agreements[c].state
                /\ paid'[c].provider = paid[c].provider
                /\ paid'[c].publisher = paid[c].publisher]_vars
  BY EveryStep DEF StepOK, Follows, TakesNone, TakesAgree, TakesLock, TakesEarn, TakesRelease,
      PaidSame, EarnedSame, HeldSame
<1>2. QED
  BY <1>1, Inductive, PTL DEF Spec, SplitIsFinal

\* The escrow implements EscrowPromise: a funded reward is locked in full, handed
\* out once, and split by what the vouchers earned or returned to the publisher.
THEOREM Refinement == Spec => ImplementsPromise
<1>1. Init => Promise!PInit
  BY DEF Init, NoAgreement, Promise!PInit
<1>2. IInv /\ [Next]_vars => [Promise!PNext]_(Promise!pvars)
  BY EveryStep DEF StepOK
<1>3. QED
  BY <1>1, <1>2, Inductive, PTL DEF Spec, ImplementsPromise, Promise!PSpec
=============================================================================
