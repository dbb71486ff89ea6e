---------------------- MODULE PaymentDispatcher_proofs ----------------------
(***************************************************************************)
(* Proofs about PaymentDispatcher for any contracts, escrows, challenges,  *)
(* threshold and counter widths.  The inductive invariant DispInv adds to  *)
(* the types and the chain of vouchers what links a store to the vouchers  *)
(* of its escrow (StoreHoldsNewest): a new voucher is compared with the    *)
(* stored one only, so the chain is kept because the stored one dominates  *)
(* all others.                                                             *)
(***************************************************************************)
EXTENDS PaymentDispatcher, TLAPS

\* A store with a state holds a voucher of its escrow, and every voucher of the
\* escrow is at most that one.
StoreHoldsNewest ==
    \A e \in EscrowIDs :
        /\ stores[e].HasState => /\ stores[e].Latest \in issued
                                 /\ stores[e].Latest.contractID = e
        /\ \A v \in issued : v.contractID = e =>
              /\ stores[e].HasState
              /\ v.sequence <= stores[e].Latest.sequence
              /\ v.cumulativePayment <= stores[e].Latest.cumulativePayment

ScheduleHasEscrow ==
    \A c \in ContractIDs : schedules[c].exists => schedules[c].escrowID \in EscrowIDs

DispInv ==
    /\ DispTypeOK /\ ScheduleHasEscrow
    /\ StoreHoldsNewest /\ VouchersFormChain

-----------------------------------------------------------------------------
(* Calls that sign nothing *)

\* DispatchFail and the registrations leave what the stores know as it was.
LEMMA SameVouchers ==
    ASSUME StoreHoldsNewest, VouchersFormChain, UNCHANGED issued,
           stores \in [EscrowIDs -> PaymentStateStore],
           \A e \in EscrowIDs : /\ stores'[e].HasState = stores[e].HasState
                                /\ stores'[e].Latest = stores[e].Latest
    PROVE  StoreHoldsNewest' /\ VouchersFormChain'
BY DEF StoreHoldsNewest, VouchersFormChain

\* Opening a store keeps the state it has.
LEMMA OpenedKeepsState ==
    ASSUME NEW store \in PaymentStateStore
    PROVE  /\ Opened(store) \in PaymentStateStore
           /\ Opened(store).HasState = store.HasState
           /\ Opened(store).Latest = store.Latest
BY DEF Opened, PaymentStateStore

\* BindContract and the creation of the store keep what the stores know.
LEMMA BindKeeps ==
    ASSUME DispInv, NEW c \in ContractIDs, NEW e \in EscrowIDs, Bind(c, e),
           UNCHANGED issued
    PROVE  /\ contracts' \in [ContractIDs -> EscrowIDs \cup {None}]
           /\ stores' \in [EscrowIDs -> PaymentStateStore]
           /\ StoreHoldsNewest' /\ VouchersFormChain'
<1> DEFINE o == Opened(stores[e])
<1>1. /\ stores \in [EscrowIDs -> PaymentStateStore]
      /\ contracts \in [ContractIDs -> EscrowIDs \cup {None}]
  BY DEF DispInv, DispTypeOK
<1>2. /\ o \in PaymentStateStore /\ o.HasState = stores[e].HasState
      /\ o.Latest = stores[e].Latest
  BY <1>1, OpenedKeepsState
<1>3. stores' = [stores EXCEPT ![e] = o] /\ contracts' = [contracts EXCEPT ![c] = e]
  BY DEF Bind
<1> HIDE DEF o
<1>4. \A f \in EscrowIDs : /\ stores'[f].HasState = stores[f].HasState
                           /\ stores'[f].Latest = stores[f].Latest
  BY <1>1, <1>2, <1>3
<1> QED
  BY <1>1, <1>2, <1>3, <1>4, SameVouchers DEF DispInv

\* A new schedule starts from nothing and is bound to its escrow.
LEMMA ScheduleKeeps ==
    ASSUME DispInv, NEW c \in ContractIDs, NEW e \in EscrowIDs,
           NEW n \in Nat, NEW m \in Nat, RegisterContractSchedule(c, e, n, m)
    PROVE  DispInv'
<1> DEFINE b == [NoSchedule EXCEPT !.exists = TRUE, !.escrowID = e,
                                   !.PaymentPerPass = n, !.MaxPayment = m]
<1>1. /\ contracts' \in [ContractIDs -> EscrowIDs \cup {None}]
      /\ stores' \in [EscrowIDs -> PaymentStateStore]
      /\ StoreHoldsNewest' /\ VouchersFormChain'
  BY BindKeeps DEF RegisterContractSchedule
<1>2. b \in PaymentSchedule /\ b.escrowID = e
  <2>1. <<>> \in Seq(FailRecord)
    OBVIOUS
  <2> QED BY <2>1 DEF NoSchedule, PaymentSchedule
<1>3. schedules' = [schedules EXCEPT ![c] = b]
  BY DEF RegisterContractSchedule
<1> HIDE DEF b
<1>4. schedules' \in [ContractIDs -> PaymentSchedule] /\ ScheduleHasEscrow'
  BY <1>2, <1>3 DEF DispInv, DispTypeOK, ScheduleHasEscrow
<1> QED
  BY <1>1, <1>4 DEF DispInv, DispTypeOK, RegisterContractSchedule

-----------------------------------------------------------------------------
(* Results *)

\* The streak stays a sequence of fail records.
LEMMA StreakType ==
    ASSUME NEW streak \in Seq(FailRecord), NEW rec \in FailRecord
    PROVE  Newest(Append(streak, rec), failureThreshold) \in Seq(FailRecord)
<1> DEFINE t == Append(streak, rec)
<1>1. t \in Seq(FailRecord)
  OBVIOUS
<1> HIDE DEF t
<1>2. failureThreshold \in Nat \ {0}
  BY DispatcherAssumption
<1>3. CASE Len(t) > failureThreshold
  <2>1. Len(t) - failureThreshold + 1 \in 1..Len(t)
    BY <1>1, <1>2, <1>3
  <2>2. SubSeq(t, Len(t) - failureThreshold + 1, Len(t)) \in Seq(FailRecord)
    BY <1>1, <2>1
  <2> QED BY <1>3, <2>2 DEF Newest, t
<1> QED
  BY <1>1, <1>3 DEF Newest, t

\* A FAIL changes the schedule of its contract only.
LEMMA FailKeeps ==
    ASSUME DispInv, NEW c \in ContractIDs, NEW ch \in ChallengeIDs,
           DispatchFail(c, ch)
    PROVE  DispInv'
<1> DEFINE s == schedules[c]
           rec == [escrowID |-> s.escrowID, provider |-> providers[ProviderOf[c]],
                   challengeID |-> ch, sequence |-> s.Sequence + 1]
           b == Failed(s, rec)
<1>1. s \in PaymentSchedule /\ s.exists /\ s.escrowID \in EscrowIDs
  BY DEF DispInv, DispTypeOK, ScheduleHasEscrow, DispatchFail, Dispatchable
<1>2. providers[ProviderOf[c]] \in Addresses
  BY DispatcherAssumption DEF DispInv, DispTypeOK, DispatchFail, Addressable
<1>3. rec \in FailRecord /\ rec.challengeID = ch
  BY <1>1, <1>2 DEF FailRecord, PaymentSchedule
<1>4. schedules' = [schedules EXCEPT ![c] = b]
  BY DEF DispatchFail
<1> HIDE DEF rec
<1>5. b \in PaymentSchedule /\ b.escrowID = s.escrowID
  <2> DEFINE streak == Newest(Append(s.FailStreak, rec), failureThreshold)
             count == IF s.ConsecutiveFailures < MaxUint32
                      THEN s.ConsecutiveFailures + 1 ELSE s.ConsecutiveFailures
  <2>1. streak \in Seq(FailRecord)
    BY <1>1, <1>3, StreakType DEF PaymentSchedule
  <2>2. count \in Nat /\ s.Sequence + 1 \in Nat
    BY <1>1 DEF PaymentSchedule
  <2>3. s.ProcessedChallenges \cup {rec.challengeID} \in SUBSET ChallengeIDs
    BY <1>1, <1>3 DEF PaymentSchedule
  <2>4. b = [s EXCEPT !.Sequence = s.Sequence + 1,
                      !.ProcessedChallenges = s.ProcessedChallenges \cup {rec.challengeID},
                      !.ConsecutiveFailures = count, !.FailStreak = streak]
    BY DEF Failed
  <2> HIDE DEF streak, count, b
  <2> QED BY <1>1, <2>1, <2>2, <2>3, <2>4 DEF PaymentSchedule
<1> HIDE DEF b, s
<1>6. schedules' \in [ContractIDs -> PaymentSchedule] /\ ScheduleHasEscrow'
  BY <1>1, <1>4, <1>5 DEF DispInv, DispTypeOK, ScheduleHasEscrow
<1>7. UNCHANGED <<clock, providers, contracts, stores, paymentStateTTL, issued>>
  BY DEF DispatchFail, bindVars
<1>8. StoreHoldsNewest' /\ VouchersFormChain'
  BY <1>7, SameVouchers DEF DispInv, DispTypeOK
<1> QED
  BY <1>6, <1>7, <1>8 DEF DispInv, DispTypeOK

\* A voucher above the stored one, stored in its place, keeps the chain.
LEMMA NewVoucher ==
    ASSUME DispInv, NEW e \in EscrowIDs, NEW v \in PaymentState, v.contractID = e,
           Newer(stores[e], v.sequence, v.cumulativePayment),
           NEW st \in PaymentStateStore, st.HasState, st.Latest = v,
           stores' = [stores EXCEPT ![e] = st], issued' = issued \cup {v}
    PROVE  StoreHoldsNewest' /\ VouchersFormChain'
<1>1. /\ stores \in [EscrowIDs -> PaymentStateStore] /\ issued \subseteq PaymentState
      /\ StoreHoldsNewest /\ VouchersFormChain
  BY DEF DispInv, DispTypeOK
<1>2. \A w \in issued : w.contractID = e =>
        w.sequence < v.sequence /\ w.cumulativePayment <= v.cumulativePayment
  <2> SUFFICES ASSUME NEW w \in issued, w.contractID = e
               PROVE  /\ w.sequence < v.sequence
                      /\ w.cumulativePayment <= v.cumulativePayment
    OBVIOUS
  <2>1. /\ stores[e].HasState /\ stores[e].Latest \in issued
        /\ w.sequence <= stores[e].Latest.sequence
        /\ w.cumulativePayment <= stores[e].Latest.cumulativePayment
    BY <1>1 DEF StoreHoldsNewest
  <2>2. /\ v.sequence > stores[e].Latest.sequence
        /\ v.cumulativePayment >= stores[e].Latest.cumulativePayment
    BY <2>1 DEF Newer
  <2> QED BY <1>1, <2>1, <2>2 DEF PaymentState
<1>3. StoreHoldsNewest'
  <2> SUFFICES ASSUME NEW f \in EscrowIDs
               PROVE  /\ stores'[f].HasState => /\ stores'[f].Latest \in issued'
                                                /\ stores'[f].Latest.contractID = f
                      /\ \A w \in issued' : w.contractID = f =>
                           /\ stores'[f].HasState
                           /\ w.sequence <= stores'[f].Latest.sequence
                           /\ w.cumulativePayment <= stores'[f].Latest.cumulativePayment
    BY DEF StoreHoldsNewest
  <2>1. CASE f = e
    <3>1. stores'[f] = st
      BY <1>1, <2>1
    <3> QED BY <1>1, <1>2, <2>1, <3>1 DEF PaymentState
  <2>2. CASE f # e
    <3>1. stores'[f] = stores[f]
      BY <1>1, <2>2
    <3> QED BY <1>1, <2>2, <3>1 DEF StoreHoldsNewest
  <2> QED BY <2>1, <2>2
<1>4. VouchersFormChain'
  <2> SUFFICES ASSUME NEW w \in issued', NEW x \in issued', w.contractID = x.contractID
               PROVE  /\ w.sequence < x.sequence => w.cumulativePayment <= x.cumulativePayment
                      /\ w.sequence = x.sequence => w = x
    BY DEF VouchersFormChain
  <2>1. CASE w \in issued /\ x \in issued
    BY <1>1, <2>1 DEF VouchersFormChain
  <2>2. CASE w \in issued /\ x = v
    BY <1>1, <1>2, <2>2 DEF PaymentState
  <2>3. CASE w = v /\ x \in issued
    BY <1>1, <1>2, <2>3 DEF PaymentState
  <2>4. CASE w = v /\ x = v
    BY <2>4 DEF PaymentState
  <2> QED BY <2>1, <2>2, <2>3, <2>4
<1> QED
  BY <1>3, <1>4

\* A PASS signs one voucher above the stored one and stores it.
LEMMA PassKeeps ==
    ASSUME DispInv, NEW c \in ContractIDs, NEW ch \in ChallengeIDs,
           DispatchPass(c, ch)
    PROVE  DispInv'
<1> DEFINE s == schedules[c]
           e == contracts[c]
           v == Voucher(c, NextCumulative(s), s.Sequence + 1)
           st == [exists |-> TRUE, HasState |-> TRUE, Latest |-> v]
           b == Passed(s, ch)
<1>1. s \in PaymentSchedule /\ s.exists /\ s.escrowID \in EscrowIDs /\ e \in EscrowIDs
  BY DEF DispInv, DispTypeOK, ScheduleHasEscrow, DispatchPass, Dispatchable
<1>2. providers[ProviderOf[c]] \in Addresses
  BY DispatcherAssumption DEF DispInv, DispTypeOK, DispatchPass, Addressable
<1>3. NextCumulative(s) \in Nat /\ s.Sequence + 1 \in Nat
  BY <1>1 DEF NextCumulative, PaymentSchedule
<1>4. clock + paymentStateTTL \in Nat
  BY DEF DispInv, DispTypeOK
<1>5. /\ v \in PaymentState /\ v.contractID = e
      /\ v.sequence = s.Sequence + 1 /\ v.cumulativePayment = NextCumulative(s)
  BY <1>1, <1>2, <1>3, <1>4 DEF Voucher, PaymentState
<1>6. /\ stores' = [stores EXCEPT ![e] = st] /\ issued' = issued \cup {v}
      /\ schedules' = [schedules EXCEPT ![c] = b]
      /\ Newer(stores[e], s.Sequence + 1, NextCumulative(s))
      /\ UNCHANGED <<clock, providers, contracts, paymentStateTTL>>
  BY DEF DispatchPass, bindVars
<1>7. b \in PaymentSchedule /\ b.escrowID = s.escrowID
  <2>1. <<>> \in Seq(FailRecord)
    OBVIOUS
  <2>2. s.ProcessedChallenges \cup {ch} \in SUBSET ChallengeIDs
    BY <1>1 DEF PaymentSchedule
  <2> QED BY <1>1, <1>3, <2>1, <2>2 DEF Passed, PaymentSchedule
<1> HIDE DEF v
<1>8. st \in PaymentStateStore /\ st.HasState /\ st.Latest = v
  BY <1>5 DEF PaymentStateStore
<1> HIDE DEF st, b, s, e
<1>9. StoreHoldsNewest' /\ VouchersFormChain'
  BY <1>1, <1>5, <1>6, <1>8, NewVoucher
<1>10. schedules' \in [ContractIDs -> PaymentSchedule] /\ ScheduleHasEscrow'
  BY <1>1, <1>6, <1>7 DEF DispInv, DispTypeOK, ScheduleHasEscrow, s
<1>11. stores' \in [EscrowIDs -> PaymentStateStore] /\ issued' \subseteq PaymentState
  BY <1>1, <1>5, <1>6, <1>8 DEF DispInv, DispTypeOK
<1> QED
  BY <1>6, <1>9, <1>10, <1>11 DEF DispInv, DispTypeOK

-----------------------------------------------------------------------------
(* Theorems *)

\* The publisher starts with no voucher and no binding.
LEMMA DispInitInv == Init => DispInv
<1> SUFFICES ASSUME Init PROVE DispInv
  OBVIOUS
<1>1. NoSchedule \in PaymentSchedule /\ ~NoSchedule.exists
  <2>1. <<>> \in Seq(FailRecord)
    OBVIOUS
  <2> QED BY <2>1 DEF NoSchedule, PaymentSchedule
<1>2. NoStore \in PaymentStateStore /\ ~NoStore.HasState
  BY DEF NoStore, PaymentStateStore
<1>3. DispTypeOK
  BY <1>1, <1>2, DispatcherAssumption DEF Init, DispInit, DispTypeOK
<1>4. ScheduleHasEscrow /\ StoreHoldsNewest /\ VouchersFormChain
  BY <1>1, <1>2 DEF Init, DispInit, ScheduleHasEscrow, StoreHoldsNewest, VouchersFormChain
<1> QED BY <1>3, <1>4 DEF DispInv

\* Every call of the dispatcher keeps DispInv.
LEMMA DispNextInv == DispInv /\ [Next]_<<clock, dispVars>> => DispInv'
<1> SUFFICES ASSUME DispInv, [Next]_<<clock, dispVars>> PROVE DispInv'
  OBVIOUS
<1>0. /\ stores \in [EscrowIDs -> PaymentStateStore]
      /\ StoreHoldsNewest /\ VouchersFormChain
  BY DEF DispInv, DispTypeOK
<1>1. ASSUME NEW t \in TTLs, SetPaymentStateTTL(t) PROVE DispInv'
  <2>1. StoreHoldsNewest' /\ VouchersFormChain'
    BY <1>0, <1>1, SameVouchers DEF SetPaymentStateTTL
  <2>2. DispTypeOK' /\ ScheduleHasEscrow'
    BY <1>1, DispatcherAssumption
    DEF SetPaymentStateTTL, DispInv, DispTypeOK, ScheduleHasEscrow, bindVars
  <2> QED BY <2>1, <2>2 DEF DispInv
<1>2. ASSUME NEW p \in Peers, NEW a \in Addresses, RegisterProvider(p, a) PROVE DispInv'
  <2>1. StoreHoldsNewest' /\ VouchersFormChain'
    BY <1>0, <1>2, SameVouchers DEF RegisterProvider
  <2>2. DispTypeOK' /\ ScheduleHasEscrow'
    BY <1>2 DEF RegisterProvider, DispInv, DispTypeOK, ScheduleHasEscrow
  <2> QED BY <2>1, <2>2 DEF DispInv
<1>3. ASSUME NEW c \in ContractIDs, NEW e \in EscrowIDs, RegisterContract(c, e)
      PROVE  DispInv'
  <2>1. Bind(c, e) /\ UNCHANGED <<clock, providers, paymentStateTTL, schedules, issued>>
    BY <1>3 DEF RegisterContract
  <2>2. /\ contracts' \in [ContractIDs -> EscrowIDs \cup {None}]
        /\ stores' \in [EscrowIDs -> PaymentStateStore]
        /\ StoreHoldsNewest' /\ VouchersFormChain'
    BY <2>1, BindKeeps
  <2> QED BY <2>1, <2>2 DEF DispInv, DispTypeOK, ScheduleHasEscrow
<1>4. ASSUME NEW c \in ContractIDs, NEW e \in EscrowIDs, NEW n \in PassPayments,
             NEW m \in MaxPayments, RegisterContractSchedule(c, e, n, m)
      PROVE  DispInv'
  BY <1>4, ScheduleKeeps, DispatcherAssumption
<1>5. ASSUME NEW c \in ContractIDs, NEW ch \in ChallengeIDs, DispatchPass(c, ch)
      PROVE  DispInv'
  BY <1>5, PassKeeps
<1>6. ASSUME NEW c \in ContractIDs, NEW ch \in ChallengeIDs, DispatchFail(c, ch)
      PROVE  DispInv'
  BY <1>6, FailKeeps
<1>7. CASE ClockTick
  <2>1. UNCHANGED dispVars /\ clock' = clock + 1
    BY <1>7 DEF ClockTick
  <2> QED BY <2>1 DEF dispVars, DispInv, DispTypeOK, ScheduleHasEscrow,
                      StoreHoldsNewest, VouchersFormChain
<1>8. CASE UNCHANGED <<clock, dispVars>>
  BY <1>8 DEF dispVars, DispInv, DispTypeOK, ScheduleHasEscrow,
              StoreHoldsNewest, VouchersFormChain
<1>9. CASE DispNext
  BY <1>9, <1>1, <1>2, <1>3, <1>4, <1>5, <1>6 DEF DispNext
<1> QED
  BY <1>7, <1>8, <1>9 DEF Next

\* DispInv holds throughout every behaviour of the dispatcher.
LEMMA DispAlwaysInv == Spec => []DispInv
BY DispInitInv, DispNextInv, PTL DEF Spec

\* The dispatcher's and the coordinator's state keeps its types.
THEOREM DispTypeCorrect == Spec => []DispTypeOK
<1>1. DispInv => DispTypeOK
  BY DEF DispInv
<1> QED BY <1>1, DispAlwaysInv, PTL

\* Whatever schedules are bound to an escrow, DispatchVerificationResult signs
\* no sequence number of it twice and never a smaller payment under a later one.
THEOREM VouchersStayChained == Spec => []VouchersFormChain
<1>1. DispInv => VouchersFormChain
  BY DEF DispInv
<1> QED BY <1>1, DispAlwaysInv, PTL

\* No provider holds a voucher newer than the one the escrow's store holds and
\* SubmitSettlementOnChain reads.
THEOREM StoreIsNewest == Spec => []NewestIsStored
<1>1. DispInv => NewestIsStored
  <2> SUFFICES ASSUME DispInv, NEW v \in issued
               PROVE  /\ stores[v.contractID].HasState
                      /\ stores[v.contractID].Latest \in issued
                      /\ v.sequence <= stores[v.contractID].Latest.sequence
    BY DEF NewestIsStored
  <2>1. v.contractID \in EscrowIDs
    BY DEF DispInv, DispTypeOK, PaymentState
  <2> QED BY <2>1 DEF DispInv, StoreHoldsNewest
<1> QED BY <1>1, DispAlwaysInv, PTL
=============================================================================
