------------------------ MODULE PaymentChannel_proofs ------------------------
(***************************************************************************)
(* Proofs about PaymentChannel for any clients, providers and amounts.     *)
(* NoticeBeforeWithdrawal is not inductive: it says nothing of a channel   *)
(* that never asked to unlock.  NoticeGiven does: money was withdrawn only *)
(* from a channel whose unlock period is over.                             *)
(***************************************************************************)
EXTENDS PaymentChannel, TLAPS

NoticeGiven ==
    \A k \in Keys : channels[k].withdrawnAmount # 0 =>
        channels[k].unlockBlock # 0 /\ channels[k].unlockBlock <= blockNumber

ChInv == ChTypeOK /\ NoticeGiven

\* What ChInv says of one channel.
SoundChannel(ch) ==
    /\ ch \in Channel
    /\ channelBalance(ch) \in Nat
    /\ ch.withdrawnAmount # 0 => ch.unlockBlock # 0 /\ ch.unlockBlock <= blockNumber

\* ChInv holds as soon as the one channel a transaction writes is SoundChannel.
LEMMA ChOneChannel ==
    ASSUME ChInv, NEW k \in Keys, NEW b, SoundChannel(b),
           channels' = [channels EXCEPT ![k] = b], channelEther' \in Nat,
           UNCHANGED <<blockNumber, channelPaused, authorizedPayoutEngine>>
    PROVE  ChInv'
<1>1. channels' \in [Keys -> Channel]
  BY DEF ChInv, ChTypeOK, SoundChannel
<1>2. \A l \in Keys : channels'[l] = IF l = k THEN b ELSE channels[l]
  BY DEF ChInv, ChTypeOK
<1>3. \A l \in Keys : channelBalance(channels'[l]) \in Nat
  <2> SUFFICES ASSUME NEW l \in Keys
               PROVE  channelBalance(channels'[l]) \in Nat
    OBVIOUS
  <2> QED
    BY <1>2 DEF ChInv, ChTypeOK, SoundChannel, channelBalance
<1>4. ChTypeOK'
  BY <1>1, <1>3 DEF ChInv, ChTypeOK, channelBalance
<1>5. NoticeGiven'
  BY <1>2 DEF ChInv, NoticeGiven, SoundChannel
<1> QED
  BY <1>4, <1>5 DEF ChInv

\* Every channel is SoundChannel while ChInv holds.
LEMMA ChEach ==
    ASSUME ChInv, NEW k \in Keys
    PROVE  SoundChannel(channels[k]) /\ channels[k] \in Channel
BY DEF ChInv, ChTypeOK, NoticeGiven, SoundChannel

\* A deposit only adds to what a channel has left.
LEMMA ChDeposit ==
    ASSUME ChInv, NEW k \in Keys, NEW v \in Nat, openChannel(k, v),
           UNCHANGED blockNumber
    PROVE  ChInv'
<1> DEFINE ch == channels[k]
           b == [ch EXCEPT !.totalDeposited = ch.totalDeposited + v]
<1>1. SoundChannel(ch) /\ ch \in Channel
  BY ChEach
<1>2. SoundChannel(b)
  <2>1. ch.totalDeposited + v \in Nat
    BY <1>1 DEF Channel
  <2>2. /\ b \in Channel /\ b.totalDeposited = ch.totalDeposited + v
        /\ b.settledAmount = ch.settledAmount
        /\ b.withdrawnAmount = ch.withdrawnAmount /\ b.unlockBlock = ch.unlockBlock
    BY <1>1, <2>1 DEF Channel
  <2>3. channelBalance(b) \in Nat
    <3> HIDE DEF b
    <3> QED BY <1>1, <2>2 DEF SoundChannel, channelBalance, Channel
  <2> QED
    BY <1>1, <2>2, <2>3 DEF SoundChannel
<1>3. channels' = [channels EXCEPT ![k] = b] /\ channelEther' \in Nat
  BY DEF openChannel, ChInv, ChTypeOK
<1> QED
  BY <1>2, <1>3, ChOneChannel DEF openChannel

\* A request to unlock starts a period on a channel from which nothing was
\* withdrawn.
LEMMA ChUnlock ==
    ASSUME ChInv, NEW k \in Keys, initiateChannelUnlock(k), UNCHANGED blockNumber
    PROVE  ChInv'
<1> DEFINE ch == channels[k]
           t == blockNumber + CHANNEL_UNLOCK_PERIOD
           b == [ch EXCEPT !.unlockBlock = t]
<1>1. SoundChannel(ch) /\ ch \in Channel /\ ch.unlockBlock = 0
  BY ChEach DEF initiateChannelUnlock, UnlockRequestable
<1>2. t \in Nat
  BY ConfigAssumption DEF ChInv, ChTypeOK
<1>3. SoundChannel(b)
  <2> HIDE DEF t
  <2> QED BY <1>1, <1>2 DEF SoundChannel, Channel, channelBalance
<1>4. channels' = [channels EXCEPT ![k] = b] /\ channelEther' \in Nat
  BY DEF initiateChannelUnlock, ChInv, ChTypeOK
<1> QED
  BY <1>3, <1>4, ChOneChannel DEF initiateChannelUnlock

\* A withdrawal takes all a channel has left, after its period.
LEMMA ChWithdraw ==
    ASSUME ChInv, NEW k \in Keys, withdrawChannel(k), UNCHANGED blockNumber
    PROVE  ChInv'
<1> DEFINE ch == channels[k]
           left == channelBalance(ch)
           b == Reclaimed(ch, left)
<1>1. SoundChannel(ch) /\ ch \in Channel /\ left \in Nat
  BY ChEach DEF SoundChannel
<1>2. ch.unlockBlock # 0 /\ ch.unlockBlock <= blockNumber /\ left <= channelEther
  BY DEF withdrawChannel
<1>3. SoundChannel(b)
  <2>1. /\ b \in Channel /\ b.totalDeposited = ch.totalDeposited
        /\ b.settledAmount = ch.settledAmount
        /\ b.withdrawnAmount = ch.withdrawnAmount + left
        /\ b.unlockBlock = ch.unlockBlock
    <3> HIDE DEF left
    <3> QED BY <1>1 DEF Channel, Reclaimed
  <2>2. channelBalance(b) = 0
    <3> HIDE DEF b
    <3> QED BY <1>1, <2>1 DEF channelBalance, Channel
  <2> QED
    BY <1>2, <2>1, <2>2 DEF SoundChannel
<1>4. channels' = [channels EXCEPT ![k] = b]
  BY DEF withdrawChannel
<1>5. channelEther' \in Nat
  <2> HIDE DEF left
  <2>1. channelEther' = channelEther - left
    BY DEF withdrawChannel, left
  <2> QED
    BY <1>1, <1>2, <2>1 DEF ChInv, ChTypeOK
<1> QED
  BY <1>3, <1>4, <1>5, ChOneChannel DEF withdrawChannel

\* A payout takes no more than a channel has left.
LEMMA PaidOutSound ==
    ASSUME NEW ch, SoundChannel(ch), NEW a \in Nat, a <= Available(ch)
    PROVE  SoundChannel([ch EXCEPT !.settledAmount = ch.settledAmount + a])
<1> DEFINE b == [ch EXCEPT !.settledAmount = ch.settledAmount + a]
<1>1. ch \in Channel /\ channelBalance(ch) \in Nat /\ a <= channelBalance(ch)
  BY DEF SoundChannel, Available
<1>2. ch.settledAmount + a \in Nat
  BY <1>1 DEF Channel
<1>3. /\ b \in Channel /\ b.totalDeposited = ch.totalDeposited
      /\ b.settledAmount = ch.settledAmount + a
      /\ b.withdrawnAmount = ch.withdrawnAmount /\ b.unlockBlock = ch.unlockBlock
  BY <1>1, <1>2 DEF Channel
<1>4. channelBalance(b) \in Nat
  <2> HIDE DEF b
  <2> QED BY <1>1, <1>3 DEF channelBalance, Channel
<1> QED
  BY <1>3, <1>4 DEF SoundChannel

\* payoutProvider keeps ChInv.
LEMMA ChPayout ==
    ASSUME ChInv, NEW k \in Keys, NEW a \in Nat, payoutProvider(k, a),
           UNCHANGED blockNumber
    PROVE  ChInv'
<1> DEFINE ch == channels[k]
           b == [ch EXCEPT !.settledAmount = ch.settledAmount + a]
<1>1. SoundChannel(b)
  BY ChEach, PaidOutSound DEF payoutProvider
<1>2. channels' = [channels EXCEPT ![k] = b]
  BY DEF payoutProvider, PaidOut
<1>3. channelEther' \in Nat
  BY DEF payoutProvider, ChInv, ChTypeOK
<1> QED
  BY <1>1, <1>2, <1>3, ChOneChannel DEF payoutProvider

\* A payout leaves every channel of chs Sound.
LEMMA PaidOutAll ==
    ASSUME NEW chs \in [Keys -> Channel], \A l \in Keys : SoundChannel(chs[l]),
           NEW k \in Keys, NEW a \in Nat, a <= Available(chs[k])
    PROVE  /\ PaidOut(chs, k, a) \in [Keys -> Channel]
           /\ \A l \in Keys : SoundChannel(PaidOut(chs, k, a)[l])
<1> DEFINE b == [chs[k] EXCEPT !.settledAmount = chs[k].settledAmount + a]
<1>1. SoundChannel(b)
  BY PaidOutSound
<1>2. PaidOut(chs, k, a) = [chs EXCEPT ![k] = b]
  BY DEF PaidOut
<1>3. b \in Channel
  BY <1>1 DEF SoundChannel
<1> HIDE DEF b
<1> QED
  BY <1>1, <1>2, <1>3

\* The two payouts of a batch keep ChInv.
LEMMA ChPayoutTwice ==
    ASSUME ChInv, NEW k \in Keys, NEW a \in Nat, NEW l \in Keys, NEW m \in Nat,
           payoutTwice(k, a, l, m), UNCHANGED blockNumber
    PROVE  ChInv'
<1> DEFINE mid == PaidOut(channels, k, a)
<1>1. channels \in [Keys -> Channel] /\ \A i \in Keys : SoundChannel(channels[i])
  BY ChEach DEF ChInv, ChTypeOK
<1>2. mid \in [Keys -> Channel] /\ \A i \in Keys : SoundChannel(mid[i])
  BY <1>1, PaidOutAll DEF payoutTwice
<1>3. channels' = PaidOut(mid, l, m) /\ m <= Available(mid[l])
  BY DEF payoutTwice
<1> HIDE DEF mid
<1>4. channels' \in [Keys -> Channel] /\ \A i \in Keys : SoundChannel(channels'[i])
  BY <1>2, <1>3, PaidOutAll
<1>5. ChTypeOK'
  <2>1. \A i \in Keys : channelBalance(channels'[i]) \in Nat
    BY <1>4 DEF SoundChannel
  <2>2. channelEther' \in Nat
    BY DEF payoutTwice, ChInv, ChTypeOK
  <2> QED
    BY <1>4, <2>1, <2>2 DEF payoutTwice, ChInv, ChTypeOK, channelBalance
<1>6. NoticeGiven'
  BY <1>4 DEF SoundChannel, NoticeGiven
<1> QED
  BY <1>5, <1>6 DEF ChInv

\* The end of a response window is a block number.
LEMMA DeadlineType ==
    ASSUME ChInv
    PROVE  blockNumber + DISPUTE_RESPONSE_WINDOW \in Nat
<1>1. blockNumber \in Nat
  BY DEF ChInv, ChTypeOK
<1>2. DISPUTE_RESPONSE_WINDOW \in Nat
  BY ConfigAssumption
<1> QED
  BY <1>1, <1>2

\* A step that leaves the channels alone keeps ChInv.
LEMMA ChIdle ==
    ASSUME ChInv, UNCHANGED <<channels, channelEther>>,
           channelPaused' \in BOOLEAN, authorizedPayoutEngine' \in BOOLEAN,
           blockNumber' \in Nat, blockNumber <= blockNumber'
    PROVE  ChInv'
<1>1. ChTypeOK'
  BY DEF ChInv, ChTypeOK, channelBalance
<1>2. NoticeGiven'
  BY DEF ChInv, ChTypeOK, NoticeGiven, Channel
<1> QED
  BY <1>1, <1>2 DEF ChInv

\* Every transaction of a client keeps ChInv.
LEMMA ChClientStep ==
    ASSUME ChInv, ChClient, UNCHANGED blockNumber
    PROVE  ChInv'
BY ChDeposit, ChUnlock, ChWithdraw, ChannelAssumption DEF ChClient, depositToChannel

\* Every transaction of the owner keeps ChInv.
LEMMA ChOwnerStep ==
    ASSUME ChInv, ChOwner, UNCHANGED blockNumber
    PROVE  ChInv'
<1>1. blockNumber \in Nat /\ channelPaused \in BOOLEAN /\ authorizedPayoutEngine \in BOOLEAN
  BY DEF ChInv, ChTypeOK
<1>2. /\ UNCHANGED <<channels, channelEther>>
      /\ channelPaused' \in BOOLEAN /\ authorizedPayoutEngine' \in BOOLEAN
  BY <1>1 DEF ChOwner, setPayoutEngine, pauseChannel, unpauseChannel
<1>3. blockNumber' \in Nat /\ blockNumber <= blockNumber'
  BY <1>1
<1> QED
  BY <1>2, <1>3, ChIdle

\* Empty channels satisfy ChInv.
LEMMA ChStart ==
    ASSUME channels = [k \in Keys |-> NoChannel], channelEther = 0,
           channelPaused \in BOOLEAN, authorizedPayoutEngine \in BOOLEAN,
           blockNumber = 0
    PROVE  ChInv
BY DEF ChInv, ChTypeOK, NoticeGiven, NoChannel, Channel, channelBalance

\* ChInv is an invariant of the channels.
THEOREM ChInductive == ChSpec => []ChInv
<1>1. blockNumber = 0 /\ ChInit => ChInv
  BY ChStart DEF ChInit
<1>2. ChInv /\ [ChNext]_<<blockNumber, chVars>> => ChInv'
  <2> SUFFICES ASSUME ChInv, [ChNext]_<<blockNumber, chVars>>
               PROVE  ChInv'
    OBVIOUS
  <2>0. blockNumber \in Nat /\ channelPaused \in BOOLEAN /\ authorizedPayoutEngine \in BOOLEAN
    BY DEF ChInv, ChTypeOK
  <2>1. CASE (ChOwner \/ ChClient) /\ UNCHANGED blockNumber
    BY <2>1, ChOwnerStep, ChClientStep
  <2>2. CASE \E k \in Keys, a \in Payouts : payoutProvider(k, a) /\ UNCHANGED blockNumber
    BY <2>2, ChPayout, ChannelAssumption
  <2>3. CASE MineBlock /\ UNCHANGED chVars
    BY <2>0, <2>3, ChIdle DEF MineBlock, chVars
  <2>4. CASE UNCHANGED <<blockNumber, chVars>>
    BY <2>0, <2>4, ChIdle DEF chVars
  <2> QED
    BY <2>1, <2>2, <2>3, <2>4 DEF ChNext
<1> QED
  BY <1>1, <1>2, PTL DEF ChSpec

\* However payouts, deposits and withdrawals interleave, no channel gives out more
\* than it received: the subtractions of PaymentChannel.sol never underflow.
THEOREM ChTypeCorrect == ChSpec => []ChTypeOK
BY ChInductive, PTL DEF ChInv

\* Nothing is withdrawn from a channel while its unlock period runs.
THEOREM NoticeIsGiven == ChSpec => []NoticeBeforeWithdrawal
<1>1. ChInv => NoticeBeforeWithdrawal
  BY DEF ChInv, ChTypeOK, NoticeGiven, NoticeBeforeWithdrawal, Channel
<1> QED
  BY <1>1, ChInductive, PTL
=============================================================================
