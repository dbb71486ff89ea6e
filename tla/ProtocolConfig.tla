--------------------------- MODULE ProtocolConfig ---------------------------
(***************************************************************************)
(* The protocol constants of ProtocolConfig.sol and the chain they are     *)
(* measured on: a block number, and the hashes of recent blocks.           *)
(***************************************************************************)
EXTENDS Integers

CONSTANTS
    CONFIRMATION_DELAY,       \* blocks from a commit to its draw block
    MAX_BLOCKHASH_WINDOW,     \* blocks from a commit in which it may be drawn
    MIN_PROVIDER_STAKE,
    UNBONDING_PERIOD,
    CHANNEL_UNLOCK_PERIOD,
    DISPUTE_RESPONSE_WINDOW,
    ROUND_STALE_TIMEOUT,
    MAX_ROUND_SIZE,
    SLASH_BPS,
    BLOCKHASH_HISTORY,        \* how many block hashes the EVM keeps
    MaxBlock                  \* bound on the block number

\* The values of the code are 15, 256, 1 ether, 7200, 7200, 1200, 3600, 10000,
\* 2000 and (EVM) 256; what the models rely on is their order.
ASSUME ConfigAssumption ==
    /\ CONFIRMATION_DELAY \in Nat \ {0}
    /\ MAX_BLOCKHASH_WINDOW \in Nat /\ MIN_PROVIDER_STAKE \in Nat \ {0}
    /\ UNBONDING_PERIOD \in Nat \ {0} /\ CHANNEL_UNLOCK_PERIOD \in Nat \ {0}
    /\ DISPUTE_RESPONSE_WINDOW \in Nat /\ ROUND_STALE_TIMEOUT \in Nat
    /\ MAX_ROUND_SIZE \in Nat /\ SLASH_BPS \in Nat /\ SLASH_BPS <= 10000
    /\ BLOCKHASH_HISTORY \in Nat /\ MaxBlock \in Nat

ASSUME ConfigOrder ==
    /\ CONFIRMATION_DELAY < MAX_BLOCKHASH_WINDOW
    /\ MAX_BLOCKHASH_WINDOW = BLOCKHASH_HISTORY
    /\ DISPUTE_RESPONSE_WINDOW > MAX_BLOCKHASH_WINDOW
    /\ ROUND_STALE_TIMEOUT > DISPUTE_RESPONSE_WINDOW

VARIABLE blockNumber

\* blockhash(n) # 0
blockhash(n) == n < blockNumber /\ blockNumber <= n + BLOCKHASH_HISTORY

MineBlock ==
    /\ blockNumber < MaxBlock
    /\ blockNumber' = blockNumber + 1
=============================================================================
