-------------------------- MODULE SettlementEngine --------------------------
(***************************************************************************)
(* SettlementEngine.sol: rounds of tickets between a client and a          *)
(* provider, drawn once by a block hash (CommitRevealEntropy.sol,          *)
(* RaffleMath.sol) or, when a round ends early, claimed ticket by ticket.  *)
(*                                                                         *)
(* Which index a hash selects, and whether it makes a fallback ticket win, *)
(* is an arbitrary choice.  A secret commitment is the secret itself, a    *)
(* signature the account that made it.                                     *)
(***************************************************************************)
EXTENDS PaymentChannel

CONSTANTS
    RoundIds,
    Taus,          \* round sizes offered to commitRoundSecret
    FaceValues,    \* face values offered to commitRoundSecret
    Secrets,
    Tickets        \* tickets offered as calldata

RoundKeys == Senders \X Recipients \X RoundIds

TicketType == [round : RoundKeys, localIndex : Nat, faceValue : Nat,
               senderNonce : Nat, signer : Senders \cup Recipients]

ASSUME EngineAssumption ==
    /\ Taus \subseteq Nat /\ FaceValues \subseteq Nat
    /\ Tickets \subseteq TicketType

VARIABLES
    rounds,               \* RoundKeys -> Round
    usedTickets,
    usedFallbackTickets,
    enginePaused,
    resolverSet           \* disputeResolver # address(0)

engVars == <<rounds, usedTickets, usedFallbackTickets, enginePaused, resolverSet>>

RoundStatus == {"Uncommitted", "Open", "Settled", "PartialFallback", "Voided"}

Round == [tau : Nat, faceValue : Nat, recipientRandHash : Secrets \cup {0},
          commitBlock : Nat, status : RoundStatus]

NoRound == [tau |-> 0, faceValue |-> 0, recipientRandHash |-> 0,
            commitBlock |-> 0, status |-> "Uncommitted"]

EngInit ==
    /\ rounds = [r \in RoundKeys |-> NoRound]
    /\ usedTickets = {} /\ usedFallbackTickets = {}
    /\ enginePaused = FALSE
    /\ resolverSet \in BOOLEAN

\* getChannelKey of a round.
ChannelOf(r) == <<r[1], r[2]>>

roundTicketHash(t) == [t EXCEPT !.signer = t.round[1]]  \* all but the signature

\* The draw block was mined and its hash is still usable for the draw.
computeWinnerIndex(commitBlock) ==
    /\ blockNumber >= commitBlock + CONFIRMATION_DELAY
    /\ blockNumber <= commitBlock + MAX_BLOCKHASH_WINDOW
    /\ blockhash(commitBlock + CONFIRMATION_DELAY)

-----------------------------------------------------------------------------
(* Transactions *)

setDisputeResolver(set) ==
    /\ resolverSet' = set
    /\ UNCHANGED <<rounds, usedTickets, usedFallbackTickets, enginePaused>>

pauseEngine ==
    /\ ~enginePaused
    /\ enginePaused' = TRUE
    /\ UNCHANGED <<rounds, usedTickets, usedFallbackTickets, resolverSet>>

unpauseEngine ==
    /\ enginePaused
    /\ enginePaused' = FALSE
    /\ UNCHANGED <<rounds, usedTickets, usedFallbackTickets, resolverSet>>

\* Fault: a round that ended is committed again.
Committable_Again(status) == status # "Open"

Committable(status) == status = "Uncommitted"

commitRoundSecret(r, tau, faceValue, secret) ==
    /\ ~enginePaused
    /\ tau # 0 /\ tau <= MAX_ROUND_SIZE /\ faceValue # 0
    /\ Committable(rounds[r].status)
    /\ rounds' = [rounds EXCEPT ![r] =
           [tau |-> tau, faceValue |-> faceValue, recipientRandHash |-> secret,
            commitBlock |-> blockNumber, status |-> "Open"]]
    /\ UNCHANGED <<usedTickets, usedFallbackTickets, enginePaused, resolverSet,
                   chVars>>

\* Fault: only the state of the round is looked at, not its disputes.
Undisputed_Unchecked(pending) == TRUE

\* pending is what the resolver answers to isDisputePending.
Undisputed(pending) == resolverSet => ~pending

\* What _settleRoundInternal requires of ticket t, but for the payout.
Settleable(t, secret, pending) ==
    LET round == rounds[t.round]
    IN  /\ round.status = "Open"
        /\ Undisputed(pending)
        /\ t.faceValue = round.faceValue /\ t.localIndex < round.tau
        /\ roundTicketHash(t) \notin usedTickets
        /\ t.signer = t.round[1]
        /\ secret = round.recipientRandHash
        /\ computeWinnerIndex(round.commitBlock)

\* The rounds with r in another status.
WithStatus(rds, r, status) == [rds EXCEPT ![r] = [rds[r] EXCEPT !.status = status]]

settleRound(t, secret, pending) ==
    /\ ~enginePaused
    /\ Settleable(t, secret, pending)
    /\ usedTickets' = usedTickets \cup {roundTicketHash(t)}
    /\ rounds' = WithStatus(rounds, t.round, "Settled")
    /\ payoutProvider(ChannelOf(t.round), t.faceValue)
    /\ UNCHANGED <<usedFallbackTickets, enginePaused, resolverSet>>

\* A batch of two tickets; a second ticket of the round just settled reverts the
\* whole batch, and so does a channel that cannot pay both.
settleRoundBatch(t, secret, pending, u, secret2, pending2) ==
    /\ ~enginePaused
    /\ Settleable(t, secret, pending) /\ Settleable(u, secret2, pending2)
    /\ t.round # u.round
    /\ usedTickets' = usedTickets \cup {roundTicketHash(t), roundTicketHash(u)}
    /\ rounds' = WithStatus(WithStatus(rounds, t.round, "Settled"), u.round, "Settled")
    /\ payoutTwice(ChannelOf(t.round), t.faceValue, ChannelOf(u.round), u.faceValue)
    /\ UNCHANGED <<usedFallbackTickets, enginePaused, resolverSet>>

Fallible(round) == round.status = "Open"

markRoundPartial(r) ==
    /\ ~enginePaused
    /\ Fallible(rounds[r])
    /\ \/ isUnlockInitiated(ChannelOf(r))
       \/ blockNumber > rounds[r].commitBlock + ROUND_STALE_TIMEOUT
    /\ rounds' = WithStatus(rounds, r, "PartialFallback")
    /\ UNCHANGED <<usedTickets, usedFallbackTickets, enginePaused, resolverSet,
                   chVars>>

\* Fault: a fallback ticket is not marked as used.
Spent_Forgotten(t) == usedFallbackTickets

Spent(t) == usedFallbackTickets \cup {roundTicketHash(t)}

claimFallbackTicket(t, secret) ==
    LET round == rounds[t.round]
    IN  /\ ~enginePaused
        /\ round.status = "PartialFallback"
        /\ roundTicketHash(t) \notin usedFallbackTickets
        /\ t.signer = t.round[1]
        /\ secret = round.recipientRandHash
        /\ blockhash(round.commitBlock + CONFIRMATION_DELAY)
        /\ usedFallbackTickets' = Spent(t)
        /\ payoutProvider(ChannelOf(t.round), t.faceValue)
        /\ UNCHANGED <<rounds, usedTickets, enginePaused, resolverSet>>

voidRound(r) ==
    /\ rounds' = WithStatus(rounds, r, "Voided")
    /\ UNCHANGED <<usedTickets, usedFallbackTickets, enginePaused, resolverSet>>
=============================================================================
