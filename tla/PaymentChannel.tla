--------------------------- MODULE PaymentChannel ---------------------------
(***************************************************************************)
(* PaymentChannel.sol: escrow channels from clients to providers.  The     *)
(* channel of a client and a provider exists from the start with nothing   *)
(* in it; openChannel and depositToChannel add to it alike.  A transaction *)
(* says nothing here about the state of the other contracts; ChNext, and   *)
(* the modules that compose channels with them, do.                        *)
(***************************************************************************)
EXTENDS ProtocolConfig, FiniteSetsExt

CONSTANTS
    Senders,       \* clients
    Recipients,    \* providers
    Deposits,      \* amounts sent with a deposit
    Payouts,       \* amounts an engine asks for, in the channel's own runs
    MaxDeposited   \* bound on what one channel receives

ASSUME ChannelAssumption ==
    /\ Deposits \subseteq Nat /\ Payouts \subseteq Nat /\ MaxDeposited \in Nat

VARIABLES
    channels,               \* <<sender, recipient>> -> Channel
    channelEther,           \* address(this).balance
    channelPaused,
    authorizedPayoutEngine  \* is the settlement engine authorized?

chVars == <<channels, channelEther, channelPaused, authorizedPayoutEngine>>

Keys == Senders \X Recipients

Channel == [totalDeposited : Nat, settledAmount : Nat, withdrawnAmount : Nat,
            unlockBlock : Nat]

NoChannel == [totalDeposited |-> 0, settledAmount |-> 0, withdrawnAmount |-> 0,
              unlockBlock |-> 0]

ChInit ==
    /\ channels = [k \in Keys |-> NoChannel]
    /\ channelEther = 0
    /\ channelPaused = FALSE
    /\ authorizedPayoutEngine = FALSE

channelBalance(ch) == ch.totalDeposited - ch.settledAmount - ch.withdrawnAmount

isUnlockInitiated(k) == channels[k].unlockBlock # 0

-----------------------------------------------------------------------------
(* Transactions *)

setPayoutEngine(authorized) ==
    /\ authorizedPayoutEngine' = authorized
    /\ UNCHANGED <<channels, channelEther, channelPaused>>

pauseChannel ==
    /\ ~channelPaused
    /\ channelPaused' = TRUE
    /\ UNCHANGED <<channels, channelEther, authorizedPayoutEngine>>

unpauseChannel ==
    /\ channelPaused
    /\ channelPaused' = FALSE
    /\ UNCHANGED <<channels, channelEther, authorizedPayoutEngine>>

\* openChannel and depositToChannel have the same effect.
openChannel(k, value) ==
    LET ch == channels[k]
    IN  /\ ~channelPaused /\ value # 0
        /\ ch.totalDeposited + value <= MaxDeposited
        /\ channels' = [channels EXCEPT ![k] =
               [ch EXCEPT !.totalDeposited = ch.totalDeposited + value]]
        /\ channelEther' = channelEther + value
        /\ UNCHANGED <<channelPaused, authorizedPayoutEngine>>

depositToChannel(k, value) == openChannel(k, value)

\* Fault: a second request starts the period again.
UnlockRequestable_Again(ch) == TRUE

UnlockRequestable(ch) == ch.unlockBlock = 0

initiateChannelUnlock(k) ==
    LET ch == channels[k]
    IN  /\ ~channelPaused /\ UnlockRequestable(ch)
        /\ channels' = [channels EXCEPT ![k] =
               [ch EXCEPT !.unlockBlock = blockNumber + CHANNEL_UNLOCK_PERIOD]]
        /\ UNCHANGED <<channelEther, channelPaused, authorizedPayoutEngine>>


Reclaimed(ch, amount) ==
    [ch EXCEPT !.withdrawnAmount = ch.withdrawnAmount + amount]

withdrawChannel(k) ==
    LET ch == channels[k]
        remaining == channelBalance(ch)
    IN  /\ ~channelPaused
        /\ ch.unlockBlock # 0 /\ ch.unlockBlock <= blockNumber
        /\ remaining > 0
        /\ remaining <= channelEther
        /\ channels' = [channels EXCEPT ![k] = Reclaimed(ch, remaining)]
        /\ channelEther' = channelEther - remaining
        /\ UNCHANGED <<channelPaused, authorizedPayoutEngine>>

\* What payoutProvider may pay.
Available(ch) == channelBalance(ch)

\* The channels after a payout of amount from channel k.
PaidOut(chs, k, amount) ==
    [chs EXCEPT ![k] =
        [chs[k] EXCEPT !.settledAmount = chs[k].settledAmount + amount]]

payoutProvider(k, amount) ==
    /\ authorizedPayoutEngine /\ ~channelPaused
    /\ amount <= Available(channels[k])
    /\ amount <= channelEther
    /\ channels' = PaidOut(channels, k, amount)
    /\ channelEther' = channelEther - amount
    /\ UNCHANGED <<channelPaused, authorizedPayoutEngine>>

\* Two payouts of one transaction, as settleRoundBatch makes them.
payoutTwice(k, amount, l, more) ==
    /\ authorizedPayoutEngine /\ ~channelPaused
    /\ amount <= Available(channels[k])
    /\ more <= Available(PaidOut(channels, k, amount)[l])
    /\ amount + more <= channelEther
    /\ channels' = PaidOut(PaidOut(channels, k, amount), l, more)
    /\ channelEther' = channelEther - amount - more
    /\ UNCHANGED <<channelPaused, authorizedPayoutEngine>>

ChOwner ==
    \/ \E b \in BOOLEAN : setPayoutEngine(b)
    \/ pauseChannel \/ unpauseChannel

ChClient ==
    \E k \in Keys :
        \/ \E v \in Deposits : openChannel(k, v) \/ depositToChannel(k, v)
        \/ initiateChannelUnlock(k)
        \/ withdrawChannel(k)

ChNext ==
    \/ (ChOwner \/ ChClient) /\ UNCHANGED blockNumber
    \/ \E k \in Keys, a \in Payouts : payoutProvider(k, a) /\ UNCHANGED blockNumber
    \/ MineBlock /\ UNCHANGED chVars

ChSpec == blockNumber = 0 /\ ChInit /\ [][ChNext]_<<blockNumber, chVars>>

-----------------------------------------------------------------------------
(* Properties *)

\* Every field keeps its type; and however payouts, deposits and withdrawals
\* interleave, a channel never gives out more than it received, so the unsigned
\* subtraction of channelBalance, withdrawChannel and payoutProvider never reverts.
ChTypeOK ==
    /\ blockNumber \in Nat
    /\ channels \in [Keys -> Channel]
    /\ \A k \in Keys : channelBalance(channels[k]) \in Nat
    /\ channelEther \in Nat
    /\ channelPaused \in BOOLEAN /\ authorizedPayoutEngine \in BOOLEAN

\* The contract's ether is exactly what its channels have left, so no channel is
\* paid from another's deposits.
ChannelEtherBacked ==
    channelEther = MapThenSumSet(LAMBDA k : channelBalance(channels[k]), Keys)

\* While the unlock period of a channel runs, nothing was ever withdrawn from it:
\* everything deposited so far is still there for the provider's claims.
NoticeBeforeWithdrawal ==
    \A k \in Keys :
        channels[k].unlockBlock > blockNumber => channels[k].withdrawnAmount = 0
=============================================================================
