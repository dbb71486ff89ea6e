----------------------- MODULE ProviderRegistry_proofs -----------------------
(***************************************************************************)
(* Proofs about ProviderRegistry for any providers, amounts and periods.   *)
(* The inductive invariant RegInv joins the types with the two relations   *)
(* between fields of a provider; each needs the other: a request never     *)
(* records 0 because a registered provider has the minimum stake.          *)
(***************************************************************************)
EXTENDS ProviderRegistry, TLAPS

RegInv == RegTypeOK /\ RegisteredIffStaked /\ PendingWhileUnbonding

\* What RegInv says of one provider.
SoundProvider(q) ==
    /\ q \in Provider
    /\ (q.registered <=> q.stake >= MIN_PROVIDER_STAKE)
    /\ (q.unstakeReleaseBlock = 0 <=> q.pendingUnstakeAmount = 0)

\* RegInv holds as soon as the one provider a transaction writes is SoundProvider.
LEMMA RegOneProvider ==
    ASSUME RegInv, NEW p \in Providers, NEW b, SoundProvider(b),
           providers' = [providers EXCEPT ![p] = b],
           registryEther' \in Nat, slashed' \in [Providers -> Nat],
           authorizedSlasher' \in BOOLEAN, UNCHANGED blockNumber
    PROVE  RegInv'
<1>1. RegTypeOK'
  BY DEF RegInv, RegTypeOK, SoundProvider
<1>2. RegisteredIffStaked'
  BY DEF RegInv, RegTypeOK, RegisteredIffStaked, SoundProvider
<1>3. PendingWhileUnbonding'
  BY DEF RegInv, RegTypeOK, PendingWhileUnbonding, SoundProvider
<1> QED
  BY <1>1, <1>2, <1>3 DEF RegInv

\* Registering or topping up keeps RegInv.
LEMMA RegRegister ==
    ASSUME RegInv, NEW p \in Providers, NEW v \in Nat,
           registerProvider(p, v), UNCHANGED blockNumber
    PROVE  RegInv'
<1> DEFINE q == providers[p]
           b == [q EXCEPT !.stake = q.stake + v, !.registered = TRUE]
<1>1. SoundProvider(q) /\ q \in Provider
  BY DEF RegInv, RegTypeOK, RegisteredIffStaked, PendingWhileUnbonding, SoundProvider
<1>2. SoundProvider(b)
  <2>1. q.stake + v \in Nat /\ q.stake + v >= MIN_PROVIDER_STAKE
    BY <1>1 DEF Provider, registerProvider
  <2>2. /\ b \in Provider /\ b.registered = TRUE /\ b.stake = q.stake + v
        /\ b.unstakeReleaseBlock = q.unstakeReleaseBlock
        /\ b.pendingUnstakeAmount = q.pendingUnstakeAmount
    BY <1>1, <2>1 DEF Provider
  <2> QED
    BY <1>1, <2>1, <2>2 DEF SoundProvider
<1>3. providers' = [providers EXCEPT ![p] = b]
  BY DEF registerProvider
<1>4. /\ registryEther' \in Nat /\ slashed' \in [Providers -> Nat]
      /\ authorizedSlasher' \in BOOLEAN
  BY DEF registerProvider, RegInv, RegTypeOK
<1> QED
  BY <1>2, <1>3, <1>4, RegOneProvider

\* Starting to unbond a positive amount keeps RegInv.
LEMMA RegUnbond ==
    ASSUME RegInv, NEW p \in Providers, NEW a \in Nat \ {0},
           Unbond(p, a), UNCHANGED blockNumber
    PROVE  RegInv'
<1> DEFINE q == providers[p]
           t == blockNumber + UNBONDING_PERIOD
           b == [q EXCEPT !.pendingUnstakeAmount = a, !.unstakeReleaseBlock = t]
<1>1. SoundProvider(q) /\ q \in Provider
  BY DEF RegInv, RegTypeOK, RegisteredIffStaked, PendingWhileUnbonding, SoundProvider
<1>2. t \in Nat \ {0}
  BY ConfigAssumption DEF RegInv, RegTypeOK
<1>3. SoundProvider(b)
  <2> HIDE DEF t
  <2> QED BY <1>1, <1>2 DEF SoundProvider, Provider
<1>4. providers' = [providers EXCEPT ![p] = b]
  BY DEF Unbond
<1>5. /\ registryEther' \in Nat /\ slashed' \in [Providers -> Nat]
      /\ authorizedSlasher' \in BOOLEAN
  BY DEF Unbond, RegInv, RegTypeOK
<1> QED
  BY <1>3, <1>4, <1>5, RegOneProvider

\* Taking stake away leaves a SoundProvider provider: the flag falls with the stake.
LEMMA LessStake ==
    ASSUME NEW q, SoundProvider(q), NEW s \in Nat, s <= q.stake
    PROVE  SoundProvider(Staked(q, s)) /\ Staked(q, s).stake = s
<1>1. q \in Provider /\ MIN_PROVIDER_STAKE \in Nat
  BY ConfigAssumption DEF SoundProvider
<1>2. CASE s >= MIN_PROVIDER_STAKE
  <2>1. q.registered = TRUE
    BY <1>1, <1>2 DEF SoundProvider, Provider
  <2>2. Staked(q, s) = [q EXCEPT !.stake = s, !.registered = TRUE]
    BY <2>1, <1>2 DEF Staked
  <2> QED
    BY <1>1, <1>2, <2>2 DEF SoundProvider, Provider
<1>3. CASE ~(s >= MIN_PROVIDER_STAKE)
  <2>1. Staked(q, s) = [q EXCEPT !.stake = s, !.registered = FALSE]
    BY <1>3 DEF Staked
  <2> QED
    BY <1>1, <1>3, <2>1 DEF SoundProvider, Provider
<1> QED
  BY <1>2, <1>3

\* A withdrawal keeps RegInv: the stake is at least the amount released.
LEMMA RegWithdraw ==
    ASSUME RegInv, NEW p \in Providers, withdrawStake(p), UNCHANGED blockNumber
    PROVE  RegInv'
<1> DEFINE q == providers[p]
           b == AfterWithdrawal(q)
<1>1. SoundProvider(q) /\ q \in Provider
  BY DEF RegInv, RegTypeOK, RegisteredIffStaked, PendingWhileUnbonding, SoundProvider
<1>2. q.pendingUnstakeAmount <= q.stake /\ q.pendingUnstakeAmount <= registryEther
  BY DEF withdrawStake, Releasable
<1>3. SoundProvider(b)
  <2>1. q.stake - q.pendingUnstakeAmount \in Nat /\ q.stake - q.pendingUnstakeAmount <= q.stake
    BY <1>1, <1>2 DEF Provider
  <2> DEFINE c == Staked(q, q.stake - q.pendingUnstakeAmount)
  <2>2. SoundProvider(c)
    BY <1>1, <2>1, LessStake
  <2>3. b = [c EXCEPT !.pendingUnstakeAmount = 0, !.unstakeReleaseBlock = 0]
    BY DEF AfterWithdrawal
  <2> HIDE DEF b, c
  <2> QED
    BY <2>2, <2>3 DEF SoundProvider, Provider
<1>4. providers' = [providers EXCEPT ![p] = b]
  BY DEF withdrawStake
<1>5. registryEther' \in Nat
  BY <1>1, <1>2 DEF withdrawStake, RegInv, RegTypeOK, Provider
<1>6. slashed' \in [Providers -> Nat] /\ authorizedSlasher' \in BOOLEAN
  BY DEF withdrawStake, RegInv, RegTypeOK
<1> QED
  BY <1>3, <1>4, <1>5, <1>6, RegOneProvider

\* A slash of any amount keeps RegInv: what is cut is capped by the stake.
LEMMA RegSlash ==
    ASSUME RegInv, NEW p \in Providers, NEW a \in Nat,
           slashProvider(p, a), UNCHANGED blockNumber
    PROVE  RegInv'
<1> DEFINE q == providers[p]
           cut == slashedAmount(q, a)
           b == Staked(q, q.stake - cut)
<1>1. SoundProvider(q) /\ q \in Provider
  BY DEF RegInv, RegTypeOK, RegisteredIffStaked, PendingWhileUnbonding, SoundProvider
<1>2. cut \in Nat /\ q.stake - cut \in Nat /\ q.stake - cut <= q.stake
  BY <1>1 DEF slashedAmount, Provider
<1>3. SoundProvider(b)
  <2> HIDE DEF cut
  <2> QED
    BY <1>1, <1>2, LessStake
<1>4. providers' = [providers EXCEPT ![p] = b]
  BY DEF slashProvider
<1>5. slashed' \in [Providers -> Nat]
  <2> HIDE DEF cut
  <2>1. slashed' = [slashed EXCEPT ![p] = slashed[p] + cut]
    BY DEF slashProvider, cut
  <2> QED
    BY <1>2, <2>1 DEF RegInv, RegTypeOK
<1>6. registryEther' \in Nat /\ authorizedSlasher' \in BOOLEAN
  BY DEF slashProvider, RegInv, RegTypeOK
<1> QED
  BY <1>3, <1>4, <1>5, <1>6, RegOneProvider

\* The penalty of a stake is a natural number.
LEMMA ShareType ==
    ASSUME NEW x \in Nat
    PROVE  (x * SLASH_BPS) \div 10000 \in Nat
<1>1. SLASH_BPS \in Nat
  BY ConfigAssumption
<1>2. x * SLASH_BPS \in Nat
  BY <1>1
<1> QED
  BY <1>2

\* Every transaction of a provider keeps RegInv.
LEMMA RegProviderStep ==
    ASSUME RegInv, RegProvider, UNCHANGED blockNumber
    PROVE  RegInv'
<1>1. PICK p \in Providers :
        \/ \E v \in Stakes : registerProvider(p, v)
        \/ requestUnstake(p)
        \/ \E a \in Unstakes : requestPartialUnstake(p, a)
        \/ withdrawStake(p)
  BY DEF RegProvider
<1>2. CASE \E v \in Stakes : registerProvider(p, v)
  BY <1>2, RegRegister, RegistryAssumption
<1>3. CASE requestUnstake(p)
  <2>1. Unbond(p, providers[p].stake)
    BY <1>3 DEF requestUnstake
  <2>2. providers[p].stake \in Nat \ {0}
    BY <2>1, ConfigAssumption
    DEF Unbond, RegInv, RegTypeOK, RegisteredIffStaked, Provider
  <2> QED
    BY <2>1, <2>2, RegUnbond
<1>4. CASE \E a \in Unstakes : requestPartialUnstake(p, a)
  <2>1. PICK a \in Unstakes : requestPartialUnstake(p, a)
    BY <1>4
  <2>2. a \in Nat \ {0} /\ Unbond(p, a)
    BY <2>1, RegistryAssumption DEF requestPartialUnstake
  <2> QED
    BY <2>2, RegUnbond
<1>5. CASE withdrawStake(p)
  BY <1>5, RegWithdraw
<1> QED
  BY <1>1, <1>2, <1>3, <1>4, <1>5

\* A step that leaves the registry alone, or only authorizes the slasher or
\* mines a block, keeps RegInv.
LEMMA RegIdle ==
    ASSUME RegInv, UNCHANGED <<providers, registryEther, slashed>>,
           authorizedSlasher' \in BOOLEAN, blockNumber' \in Nat
    PROVE  RegInv'
BY DEF RegInv, RegTypeOK, RegisteredIffStaked, PendingWhileUnbonding

\* The empty registry satisfies RegInv.
LEMMA RegStart ==
    ASSUME providers = [p \in Providers |-> NoProvider], registryEther = 0,
           slashed = [p \in Providers |-> 0], authorizedSlasher \in BOOLEAN,
           blockNumber = 0
    PROVE  RegInv
BY ConfigAssumption
DEF RegInv, RegTypeOK, RegisteredIffStaked, PendingWhileUnbonding, NoProvider, Provider

\* RegInv is an invariant of the registry.
THEOREM RegInductive == RegSpec => []RegInv
<1>1. blockNumber = 0 /\ RegInit => RegInv
  BY RegStart DEF RegInit
<1>2. RegInv /\ [RegNext]_<<blockNumber, regVars>> => RegInv'
  <2> SUFFICES ASSUME RegInv, [RegNext]_<<blockNumber, regVars>>
               PROVE  RegInv'
    OBVIOUS
  <2>1. CASE RegProvider /\ UNCHANGED blockNumber
    BY <2>1, RegProviderStep
  <2>2. CASE \E b \in BOOLEAN : setSlasher(b) /\ UNCHANGED blockNumber
    BY <2>2, RegIdle DEF setSlasher, RegInv, RegTypeOK
  <2>3. CASE \E p \in Providers, a \in Slashes :
               slashProvider(p, a) /\ UNCHANGED blockNumber
    BY <2>3, RegSlash, RegistryAssumption
  <2>4. CASE MineBlock /\ UNCHANGED regVars
    BY <2>4, RegIdle DEF MineBlock, regVars, RegInv, RegTypeOK
  <2>5. CASE UNCHANGED <<blockNumber, regVars>>
    BY <2>5, RegIdle DEF regVars, RegInv, RegTypeOK
  <2> QED
    BY <2>1, <2>2, <2>3, <2>4, <2>5 DEF RegNext
<1> QED
  BY <1>1, <1>2, PTL DEF RegSpec

\* The stake and every other unsigned field of a provider stays a natural number
\* under any transactions: no withdrawal or slash underflows.
THEOREM RegTypeCorrect == RegSpec => []RegTypeOK
BY RegInductive, PTL DEF RegInv

\* registerProvider, withdrawStake and slashProvider together keep the registered
\* flag equal to the stake test.
THEOREM RegisteredFollowsStake == RegSpec => []RegisteredIffStaked
BY RegInductive, PTL DEF RegInv

\* An unstake request always records an amount, and withdrawStake clears both the
\* amount and the release block.
THEOREM RequestsAreKept == RegSpec => []PendingWhileUnbonding
BY RegInductive, PTL DEF RegInv
=============================================================================
