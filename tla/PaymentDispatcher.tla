------------------------- MODULE PaymentDispatcher --------------------------
(***************************************************************************)
(* The publisher's off-chain payments: AvailabilityPaymentDispatcher on    *)
(* top of PublisherCoordinator, its identity bindings and its stores of    *)
(* latest payment states.  An action is one call, made under the           *)
(* dispatcher's or the coordinator's lock; a call that returns an error    *)
(* changes nothing, so it is no step.  The result of a challenge names the *)
(* provider of its contract, as RecordAvailabilityResult fills it in.      *)
(***************************************************************************)
EXTENDS Integers, Sequences, FiniteSets

CONSTANTS
    ContractIDs,        \* availability contracts
    EscrowIDs,          \* escrow agreements on chain
    ChallengeIDs,
    Peers,              \* availability identities of providers
    ProviderOf,         \* the provider of each availability contract
    Addresses,          \* Ethereum addresses
    None,               \* what an absent map entry reads as
    publisherID,        \* the publisher, and the key it signs with
    PassPayments,       \* arguments offered to RegisterContractSchedule
    MaxPayments,
    TTLs,               \* arguments offered to SetPaymentStateTTL
    DefaultTTL,
    failureThreshold,   \* K
    MaxUint64,          \* largest sequence number
    MaxUint32,          \* largest consecutive-failure count
    MaxClock            \* bound on the publisher's clock

ASSUME DispatcherAssumption ==
    /\ ProviderOf \in [ContractIDs -> Peers]
    /\ None \notin Addresses \cup EscrowIDs
    /\ PassPayments \subseteq Nat /\ MaxPayments \subseteq Nat
    /\ TTLs \subseteq Nat /\ DefaultTTL \in Nat \ {0}
    /\ failureThreshold \in Nat \ {0} /\ failureThreshold <= MaxUint32
    /\ MaxUint64 \in Nat /\ MaxUint32 \in Nat /\ MaxClock \in Nat

VARIABLES
    clock,            \* the publisher's clock
    providers,        \* peer -> its address, or None
    contracts,        \* availability contract -> its escrow, or None
    stores,           \* escrow -> PaymentStateStore
    paymentStateTTL,
    schedules,        \* availability contract -> PaymentSchedule
    issued,           \* every voucher handed to a provider (history)
    results           \* contract -> the results it processed, in order (history)

bindVars == <<providers, contracts>>
dispVars == <<providers, contracts, stores, paymentStateTTL, schedules, issued,
              results>>

PaymentState ==
    [contractID : EscrowIDs, publisher : {publisherID}, provider : Addresses,
     sequence : Nat, cumulativePayment : Nat, validUntil : Nat,
     signer : {publisherID}]

FailRecord ==
    [escrowID : EscrowIDs, provider : Addresses, challengeID : ChallengeIDs,
     sequence : Nat]

PaymentSchedule ==
    [exists : BOOLEAN, escrowID : EscrowIDs \cup {None}, PaymentPerPass : Nat,
     MaxPayment : Nat, Sequence : Nat, CurrentCumulativePayment : Nat,
     ProcessedChallenges : SUBSET ChallengeIDs, ConsecutiveFailures : Nat,
     FailStreak : Seq(FailRecord)]

NoSchedule ==
    [exists |-> FALSE, escrowID |-> None, PaymentPerPass |-> 0, MaxPayment |-> 0,
     Sequence |-> 0, CurrentCumulativePayment |-> 0, ProcessedChallenges |-> {},
     ConsecutiveFailures |-> 0, FailStreak |-> <<>>]

PaymentStateStore ==
    [exists : BOOLEAN, HasState : BOOLEAN, Latest : PaymentState \cup {None}]

NoStore == [exists |-> FALSE, HasState |-> FALSE, Latest |-> None]

DispInit ==
    /\ providers = [p \in Peers |-> None]
    /\ contracts = [c \in ContractIDs |-> None]
    /\ stores = [e \in EscrowIDs |-> NoStore]
    /\ paymentStateTTL = DefaultTTL
    /\ schedules = [c \in ContractIDs |-> NoSchedule]
    /\ issued = {}
    /\ results = [c \in ContractIDs |-> <<>>]

-----------------------------------------------------------------------------
(* Registration *)

SetPaymentStateTTL(ttl) ==
    /\ ttl > 0
    /\ paymentStateTTL' = ttl
    /\ UNCHANGED <<clock, bindVars, stores, schedules, issued, results>>

\* Binding the same address again succeeds and changes nothing.
RegisterProvider(p, address) ==
    /\ providers[p] = None
    /\ providers' = [providers EXCEPT ![p] = address]
    /\ UNCHANGED <<clock, contracts, stores, paymentStateTTL, schedules, issued,
                   results>>

\* Fault: the store of an escrow in use is replaced by an empty one.
Opened_Anew(store) == [NoStore EXCEPT !.exists = TRUE]

Opened(store) == [store EXCEPT !.exists = TRUE]

\* What BindContract and the creation of the store do.
Bind(c, e) ==
    /\ contracts[c] \in {None, e}
    /\ contracts' = [contracts EXCEPT ![c] = e]
    /\ stores' = [stores EXCEPT ![e] = Opened(stores[e])]

RegisterContract(c, e) ==
    /\ Bind(c, e)
    /\ UNCHANGED <<clock, providers, paymentStateTTL, schedules, issued, results>>

RegisterContractSchedule(c, e, perPass, max) ==
    /\ perPass # 0 /\ max # 0 /\ perPass <= max
    /\ ~schedules[c].exists
    /\ Bind(c, e)
    /\ schedules' = [schedules EXCEPT ![c] =
           [NoSchedule EXCEPT !.exists = TRUE, !.escrowID = e,
                              !.PaymentPerPass = perPass, !.MaxPayment = max]]
    /\ UNCHANGED <<clock, providers, paymentStateTTL, issued, results>>

-----------------------------------------------------------------------------
(* Results of challenges *)

\* Fault: a challenge already processed is processed again.
Dispatchable_Again(s, ch) == s.exists /\ s.Sequence # MaxUint64

Dispatchable(s, ch) ==
    s.exists /\ ch \notin s.ProcessedChallenges /\ s.Sequence # MaxUint64

NextCumulative(s) ==
    IF s.PaymentPerPass >= s.MaxPayment - s.CurrentCumulativePayment
    THEN s.MaxPayment
    ELSE s.CurrentCumulativePayment + s.PaymentPerPass

\* Fault: only the sequence is compared with the stored state.
Newer_SequenceOnly(store, sequence, cumulative) ==
    store.HasState => sequence > store.Latest.sequence

\* The check of CreateAndSignPaymentState, repeated by StorePaymentState.
Newer(store, sequence, cumulative) ==
    store.HasState => /\ sequence > store.Latest.sequence
                       /\ cumulative >= store.Latest.cumulativePayment

\* The voucher of a PASS of contract c, as CreateAndSignPaymentState makes it.
Voucher(c, cumulative, sequence) ==
    [contractID |-> contracts[c], publisher |-> publisherID,
     provider |-> providers[ProviderOf[c]], sequence |-> sequence,
     cumulativePayment |-> cumulative, validUntil |-> clock + paymentStateTTL,
     signer |-> publisherID]

\* Fault: a PASS leaves the failure streak as it is.
Passed_KeepsStreak(s, ch) ==
    [s EXCEPT !.Sequence = s.Sequence + 1,
              !.CurrentCumulativePayment = NextCumulative(s),
              !.ProcessedChallenges = s.ProcessedChallenges \cup {ch}]

\* Fault: the payment is signed but not added to the schedule.
Passed_Unpaid(s, ch) ==
    [s EXCEPT !.Sequence = s.Sequence + 1,
              !.ProcessedChallenges = s.ProcessedChallenges \cup {ch},
              !.ConsecutiveFailures = 0, !.FailStreak = <<>>]

Passed(s, ch) ==
    [s EXCEPT !.Sequence = s.Sequence + 1,
              !.CurrentCumulativePayment = NextCumulative(s),
              !.ProcessedChallenges = s.ProcessedChallenges \cup {ch},
              !.ConsecutiveFailures = 0, !.FailStreak = <<>>]

Addressable(c) == providers[ProviderOf[c]] # None

DispatchPass(c, ch) ==
    LET s == schedules[c]
        e == contracts[c]
        v == Voucher(c, NextCumulative(s), s.Sequence + 1)
    IN  /\ Dispatchable(s, ch)
        /\ e # None /\ Addressable(c) /\ stores[e].exists
        /\ Newer(stores[e], s.Sequence + 1, NextCumulative(s))
        /\ stores' = [stores EXCEPT ![e] =
               [exists |-> TRUE, HasState |-> TRUE, Latest |-> v]]
        /\ issued' = issued \cup {v}
        /\ schedules' = [schedules EXCEPT ![c] = Passed(s, ch)]
        /\ results' = [results EXCEPT ![c] =
               Append(results[c], [challengeID |-> ch, pass |-> TRUE])]
        /\ UNCHANGED <<clock, bindVars, paymentStateTTL>>

\* The newest n elements of a sequence.
Newest(seq, n) == IF Len(seq) > n THEN SubSeq(seq, Len(seq) - n + 1, Len(seq)) ELSE seq

Failed(s, rec) ==
    [s EXCEPT !.Sequence = s.Sequence + 1,
              !.ProcessedChallenges = s.ProcessedChallenges \cup {rec.challengeID},
              !.ConsecutiveFailures =
                  IF s.ConsecutiveFailures < MaxUint32
                  THEN s.ConsecutiveFailures + 1 ELSE s.ConsecutiveFailures,
              !.FailStreak = Newest(Append(s.FailStreak, rec), failureThreshold)]

DispatchFail(c, ch) ==
    LET s == schedules[c]
        rec == [escrowID |-> s.escrowID, provider |-> providers[ProviderOf[c]],
                challengeID |-> ch, sequence |-> s.Sequence + 1]
    IN  /\ Dispatchable(s, ch)
        /\ Addressable(c)
        /\ schedules' = [schedules EXCEPT ![c] = Failed(s, rec)]
        /\ results' = [results EXCEPT ![c] =
               Append(results[c], [challengeID |-> ch, pass |-> FALSE])]
        /\ UNCHANGED <<clock, bindVars, stores, paymentStateTTL, issued>>

\* What a FAIL is reported with.
SlashEligible(s) == s.ConsecutiveFailures >= failureThreshold

VerifyFailStreak(records) ==
    /\ records # <<>>
    /\ \A i \in 2..Len(records) :
          /\ records[i].escrowID = records[i - 1].escrowID
          /\ records[i].provider = records[i - 1].provider
          /\ records[i].sequence = records[i - 1].sequence + 1

DispNext ==
    \/ \E t \in TTLs : SetPaymentStateTTL(t)
    \/ \E p \in Peers, a \in Addresses : RegisterProvider(p, a)
    \/ \E c \in ContractIDs, e \in EscrowIDs :
          \/ RegisterContract(c, e)
          \/ \E n \in PassPayments, m \in MaxPayments :
                RegisterContractSchedule(c, e, n, m)
    \/ \E c \in ContractIDs, ch \in ChallengeIDs :
          DispatchPass(c, ch) \/ DispatchFail(c, ch)

ClockTick == clock < MaxClock /\ clock' = clock + 1 /\ UNCHANGED dispVars

Next == DispNext \/ ClockTick

Init == clock = 0 /\ DispInit

Spec == Init /\ [][Next]_<<clock, dispVars>>

-----------------------------------------------------------------------------
(* Properties *)

\* Every field keeps its type.
DispTypeOK ==
    /\ clock \in Nat
    /\ providers \in [Peers -> Addresses \cup {None}]
    /\ contracts \in [ContractIDs -> EscrowIDs \cup {None}]
    /\ stores \in [EscrowIDs -> PaymentStateStore]
    /\ paymentStateTTL \in Nat
    /\ schedules \in [ContractIDs -> PaymentSchedule]
    /\ issued \subseteq PaymentState

\* The vouchers of an escrow form one chain: a later sequence number never pays
\* less, and no sequence number is signed twice, even when two availability
\* contracts, each with a sequence of its own, are bound to the same escrow.
VouchersFormChain ==
    \A v, w \in issued : v.contractID = w.contractID =>
        /\ v.sequence < w.sequence => v.cumulativePayment <= w.cumulativePayment
        /\ v.sequence = w.sequence => v = w

\* The store a settlement reads holds the newest voucher any provider was given
\* for that escrow, so the publisher never settles with an outdated one.
NewestIsStored ==
    \A v \in issued :
        LET store == stores[v.contractID]
        IN  store.HasState /\ store.Latest \in issued
            /\ v.sequence <= store.Latest.sequence

\* What a schedule has paid is what its passed challenges earn, cut at the
\* maximum, each challenge counted once however often its result is dispatched.
EarnedOnce ==
    \A c \in ContractIDs :
        LET s == schedules[c]
            passes == {r.challengeID : r \in {results[c][i] :
                          i \in {j \in DOMAIN results[c] : results[c][j].pass}}}
            earned == s.PaymentPerPass * Cardinality(passes)
        IN  s.CurrentCumulativePayment =
                IF earned > s.MaxPayment THEN s.MaxPayment ELSE earned

\* The streak kept for a slash is exactly the failures since the last PASS, the
\* newest K of them; it verifies whenever the result is reported slash-eligible,
\* which is when the last K results all failed.
EvidenceIsUnbroken ==
    \A c \in ContractIDs :
        LET s == schedules[c]
            n == Len(results[c])
            FailedLast(k) == \A i \in n - k + 1 .. n : ~results[c][i].pass
        IN  /\ SlashEligible(s) <=> failureThreshold <= n /\ FailedLast(failureThreshold)
            /\ FailedLast(Len(s.FailStreak))
            /\ \A i \in DOMAIN s.FailStreak :
                  LET at == n - Len(s.FailStreak) + i
                  IN  s.FailStreak[i].sequence = at
                      /\ s.FailStreak[i].challengeID = results[c][at].challengeID
            /\ SlashEligible(s) => Len(s.FailStreak) = failureThreshold
                                   /\ VerifyFailStreak(s.FailStreak)
=============================================================================
