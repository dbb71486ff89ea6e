---------------------------- MODULE EscrowPromise ----------------------------
(***************************************************************************)
(* What the escrow promises about the reward of an agreement, whatever the *)
(* order of its transactions: an agreed reward is locked in full, the      *)
(* provider's earned part only grows and never exceeds it, and the locked  *)
(* reward is handed out at once and only once, either split by what was    *)
(* earned or returned to the publisher.  EscrowContract implements it.     *)
(***************************************************************************)
EXTENDS Integers

CONSTANT Contracts

VARIABLES
    reward,       \* agreed reward, 0 before the agreement
    held,         \* reward locked in the escrow
    earned,       \* what the provider has proved to have earned
    toProvider,   \* reward handed to the provider
    toPublisher   \* reward handed back to the publisher

pvars == <<reward, held, earned, toProvider, toPublisher>>

PInit ==
    /\ reward = [c \in Contracts |-> 0]
    /\ held = [c \in Contracts |-> 0]
    /\ earned = [c \in Contracts |-> 0]
    /\ toProvider = [c \in Contracts |-> 0]
    /\ toPublisher = [c \in Contracts |-> 0]

Agree(c) ==
    /\ reward[c] = 0
    /\ reward'[c] \in Nat \ {0}
    /\ reward' = [reward EXCEPT ![c] = reward'[c]]
    /\ UNCHANGED <<held, earned, toProvider, toPublisher>>

Lock(c) ==
    /\ held[c] = 0 /\ toProvider[c] + toPublisher[c] = 0
    /\ held' = [held EXCEPT ![c] = reward[c]]
    /\ UNCHANGED <<reward, earned, toProvider, toPublisher>>

Earn(c) ==
    /\ held[c] # 0
    /\ \E n \in earned[c] .. reward[c] : earned' = [earned EXCEPT ![c] = n]
    /\ UNCHANGED <<reward, held, toProvider, toPublisher>>

Release(c, share) ==
    /\ held[c] # 0
    /\ held' = [held EXCEPT ![c] = 0]
    /\ toProvider' = [toProvider EXCEPT ![c] = share]
    /\ toPublisher' = [toPublisher EXCEPT ![c] = reward[c] - share]
    /\ UNCHANGED <<reward, earned>>

PNext ==
    \E c \in Contracts :
        \/ Agree(c) \/ Lock(c) \/ Earn(c)
        \/ Release(c, earned[c]) \/ Release(c, 0)

PSpec == PInit /\ [][PNext]_pvars
=============================================================================
