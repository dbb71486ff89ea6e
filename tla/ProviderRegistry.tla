-------------------------- MODULE ProviderRegistry --------------------------
(***************************************************************************)
(* ProviderRegistry.sol: stakes of providers, unbonding and slashing.      *)
(* Slashed stake stays in the contract; nothing ever sends it on.          *)
(***************************************************************************)
EXTENDS ProtocolConfig, FiniteSetsExt

CONSTANTS
    Providers,
    Stakes,        \* amounts sent with registerProvider
    Unstakes,      \* amounts asked for by requestPartialUnstake
    Slashes,       \* amounts asked for by a slasher, in the registry's own runs
    MaxStake       \* bound on one provider's stake and slashes

ASSUME RegistryAssumption ==
    /\ Stakes \subseteq Nat /\ Unstakes \subseteq Nat /\ Slashes \subseteq Nat
    /\ MaxStake \in Nat

VARIABLES
    providers,          \* address -> Provider
    registryEther,      \* address(this).balance
    slashed,            \* address -> stake taken by slashing so far (history)
    authorizedSlasher   \* is the dispute resolver authorized?

regVars == <<providers, registryEther, slashed, authorizedSlasher>>

Provider == [stake : Nat, registered : BOOLEAN, unstakeReleaseBlock : Nat,
             pendingUnstakeAmount : Nat]

NoProvider == [stake |-> 0, registered |-> FALSE, unstakeReleaseBlock |-> 0,
               pendingUnstakeAmount |-> 0]

RegInit ==
    /\ providers = [p \in Providers |-> NoProvider]
    /\ registryEther = 0
    /\ slashed = [p \in Providers |-> 0]
    /\ authorizedSlasher = FALSE

-----------------------------------------------------------------------------
(* Transactions *)

setSlasher(authorized) ==
    /\ authorizedSlasher' = authorized
    /\ UNCHANGED <<providers, registryEther, slashed>>

registerProvider(p, value) ==
    LET q == providers[p]
    IN  /\ q.stake + value >= MIN_PROVIDER_STAKE
        /\ q.stake + slashed[p] + value <= MaxStake
        /\ providers' = [providers EXCEPT ![p] =
               [q EXCEPT !.stake = q.stake + value, !.registered = TRUE]]
        /\ registryEther' = registryEther + value
        /\ UNCHANGED <<slashed, authorizedSlasher>>

\* Starts unbonding of amount.
Unbond(p, amount) ==
    LET q == providers[p]
    IN  /\ q.registered /\ q.unstakeReleaseBlock = 0
        /\ providers' = [providers EXCEPT ![p] =
               [q EXCEPT !.pendingUnstakeAmount = amount,
                         !.unstakeReleaseBlock = blockNumber + UNBONDING_PERIOD]]
        /\ UNCHANGED <<registryEther, slashed, authorizedSlasher>>

requestUnstake(p) == Unbond(p, providers[p].stake)

requestPartialUnstake(p, amount) ==
    /\ amount # 0 /\ amount <= providers[p].stake
    /\ providers[p].stake - amount >= MIN_PROVIDER_STAKE
    /\ Unbond(p, amount)

Releasable(q) == q.pendingUnstakeAmount # 0 /\ q.pendingUnstakeAmount <= q.stake

\* q with less stake; below the minimum it is no longer registered.
Staked(q, stake) ==
    [q EXCEPT !.stake = stake,
              !.registered = q.registered /\ stake >= MIN_PROVIDER_STAKE]

AfterWithdrawal(q) ==
    [Staked(q, q.stake - q.pendingUnstakeAmount) EXCEPT
        !.pendingUnstakeAmount = 0, !.unstakeReleaseBlock = 0]

withdrawStake(p) ==
    LET q == providers[p]
        amount == q.pendingUnstakeAmount
    IN  /\ q.unstakeReleaseBlock # 0 /\ q.unstakeReleaseBlock <= blockNumber
        /\ Releasable(q)
        /\ amount <= registryEther
        /\ providers' = [providers EXCEPT ![p] = AfterWithdrawal(q)]
        /\ registryEther' = registryEther - amount
        /\ UNCHANGED <<slashed, authorizedSlasher>>

slashedAmount(q, amount) == IF amount > q.stake THEN q.stake ELSE amount

\* With no stake the call returns 0 and changes nothing, which is what the
\* general case does then.
slashProvider(p, amount) ==
    LET q == providers[p]
        cut == slashedAmount(q, amount)
    IN  /\ authorizedSlasher
        /\ providers' = [providers EXCEPT ![p] = Staked(q, q.stake - cut)]
        /\ slashed' = [slashed EXCEPT ![p] = slashed[p] + cut]
        /\ UNCHANGED <<registryEther, authorizedSlasher>>

RegProvider ==
    \E p \in Providers :
        \/ \E v \in Stakes : registerProvider(p, v)
        \/ requestUnstake(p)
        \/ \E a \in Unstakes : requestPartialUnstake(p, a)
        \/ withdrawStake(p)

RegNext ==
    \/ RegProvider /\ UNCHANGED blockNumber
    \/ \E b \in BOOLEAN : setSlasher(b) /\ UNCHANGED blockNumber
    \/ \E p \in Providers, a \in Slashes :
          slashProvider(p, a) /\ UNCHANGED blockNumber
    \/ MineBlock /\ UNCHANGED regVars

RegSpec == blockNumber = 0 /\ RegInit /\ [][RegNext]_<<blockNumber, regVars>>

-----------------------------------------------------------------------------
(* Properties *)

\* Every field keeps its type; the stake, an unsigned number, is never negative.
RegTypeOK ==
    /\ blockNumber \in Nat
    /\ providers \in [Providers -> Provider]
    /\ registryEther \in Nat
    /\ slashed \in [Providers -> Nat]
    /\ authorizedSlasher \in BOOLEAN

\* Whatever registrations, withdrawals and slashes happen, in whatever order, the
\* registered flag says exactly whether the stake reaches the minimum.
RegisteredIffStaked ==
    \A p \in Providers :
        providers[p].registered <=> providers[p].stake >= MIN_PROVIDER_STAKE

\* The registry holds exactly the stakes and what was slashed from them, so every
\* provider's stake is backed by ether.
StakesBacked ==
    registryEther =
        MapThenSumSet(LAMBDA p : providers[p].stake + slashed[p], Providers)

\* A provider that is unbonding has an amount pending, and one that is not has
\* none: a request is never lost or paid twice.
PendingWhileUnbonding ==
    \A p \in Providers :
        providers[p].unstakeReleaseBlock = 0 <=> providers[p].pendingUnstakeAmount = 0

-----------------------------------------------------------------------------
(* What comments of the code say, and the code does not do *)

\* ProviderRegistry.sol:84: withdrawStake "Reclaims pending unbonded provider
\* stake after unbonding period completes."
PendingIsReclaimable ==
    \A p \in Providers :
        LET q == providers[p]
        IN  q.unstakeReleaseBlock # 0 /\ q.unstakeReleaseBlock <= blockNumber
                => Releasable(q)
=============================================================================
