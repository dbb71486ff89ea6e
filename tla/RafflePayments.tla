--------------------------- MODULE RafflePayments ---------------------------
(***************************************************************************)
(* The raffle payment contracts together on one chain: ProviderRegistry,   *)
(* PaymentChannel, SettlementEngine and ChunkDisputeResolver, used by      *)
(* clients, providers, an owner and anyone, one transaction at a time.     *)
(***************************************************************************)
EXTENDS ChunkDisputeResolver

CONSTANT OwnerActs   \* what the owner does while the contracts are in use

VARIABLE alwaysWired  \* has the engine had its resolver all along? (history)

vars == <<blockNumber, chVars, engVars, regVars, resVars, alwaysWired>>

\* The owner opens the system for use with the engine and the resolver
\* authorized, and the resolver set or, as in Step1_Setup.s.sol, not.
Init ==
    /\ blockNumber = 0
    /\ channels = [k \in Keys |-> NoChannel] /\ channelEther = 0
    /\ channelPaused = FALSE /\ authorizedPayoutEngine = TRUE
    /\ EngInit /\ ResInit
    /\ providers = [p \in Providers |-> NoProvider] /\ registryEther = 0
    /\ slashed = [p \in Providers |-> 0] /\ authorizedSlasher = TRUE
    /\ alwaysWired = resolverSet

Owner ==
    \/ /\ "wire" \in OwnerActs
       /\ \/ \E b \in BOOLEAN :
                 setPayoutEngine(b) /\ UNCHANGED <<engVars, regVars, resVars>>
          \/ \E b \in BOOLEAN :
                 setSlasher(b) /\ UNCHANGED <<chVars, engVars, resVars>>
          \/ \E b \in BOOLEAN :
                 setDisputeResolver(b) /\ UNCHANGED <<chVars, regVars, resVars>>
    \/ /\ "pause" \in OwnerActs
       /\ \/ (pauseChannel \/ unpauseChannel) /\ UNCHANGED <<engVars, regVars, resVars>>
          \/ (pauseEngine \/ unpauseEngine) /\ UNCHANGED <<chVars, regVars, resVars>>

Client ==
    \/ ChClient /\ UNCHANGED <<engVars, regVars, resVars>>
    \/ \E d \in DisputeKeys : raiseChunkDispute(d)

ProviderStep ==
    \/ RegProvider /\ UNCHANGED <<chVars, engVars, resVars>>
    \/ /\ \E r \in RoundKeys :
             \/ \E n \in Taus, f \in FaceValues, s \in Secrets :
                   commitRoundSecret(r, n, f, s)
             \/ markRoundPartial(r)
       /\ UNCHANGED <<regVars, resVars>>
    \/ \E d \in DisputeKeys : respondToDispute(d)

\* Calls anyone may make with a signed ticket, and the resolution of a dispute.
Anyone ==
    \/ \E t \in Tickets, s \in Secrets :
          /\ \/ settleRound(t, s, isDisputePending(t.round))
             \/ \E u \in Tickets, z \in Secrets :
                   settleRoundBatch(t, s, isDisputePending(t.round),
                                    u, z, isDisputePending(u.round))
             \/ claimFallbackTicket(t, s)
          /\ UNCHANGED <<regVars, resVars>>
    \/ \E d \in DisputeKeys : resolveExpiredDispute(d)
    \/ \E r \in RoundKeys :
          ~resolverSet /\ voidRound(r) /\ UNCHANGED <<chVars, regVars, resVars>>

Next ==
    /\ \/ (Owner \/ Client \/ ProviderStep \/ Anyone) /\ UNCHANGED blockNumber
       \/ MineBlock /\ UNCHANGED <<chVars, engVars, regVars, resVars>>
    /\ alwaysWired' = (alwaysWired /\ resolverSet')

Spec == Init /\ [][Next]_vars

-----------------------------------------------------------------------------
(* Properties *)

\* The components keep their types together.
TypeOK ==
    /\ ChTypeOK /\ RegTypeOK
    /\ rounds \in [RoundKeys -> Round]
    /\ usedTickets \subseteq TicketType /\ usedFallbackTickets \subseteq TicketType
    /\ enginePaused \in BOOLEAN /\ resolverSet \in BOOLEAN
    /\ disputes \in [DisputeKeys -> Dispute]
    /\ pendingDisputeCount \in [RoundKeys -> Nat]

OpenDisputes(r) == {i \in LocalIndices : disputes[<<r, i>>].status = "Open"}

\* The count that blocks a settlement is exactly the number of open disputes of
\* the round, whatever order they are raised, answered and expire in.
PendingMatchesOpen ==
    \A r \in RoundKeys : pendingDisputeCount[r] = Cardinality(OpenDisputes(r))

\* With the resolver wired all along, a settled round has no open dispute and
\* never had one expire: what was paid in full is never slashed for.
SettledIsClean ==
    alwaysWired =>
        \A r \in RoundKeys : rounds[r].status = "Settled" =>
            \A i \in LocalIndices :
                disputes[<<r, i>>].status \in {"None", "ResolvedHonest"}

\* A dispute that expired has voided its round for good.
SlashedIsVoid ==
    \A r \in RoundKeys, i \in LocalIndices :
        disputes[<<r, i>>].status = "ResolvedSlashed" => rounds[r].status = "Voided"


\* A round is paid in one way only: by the one ticket drawn, or, in fallback, by
\* tickets each used once; never by both.
PaidOneWay ==
    \A r \in RoundKeys :
        LET drawn == {t \in usedTickets : t.round = r}
            fallback == {t \in usedFallbackTickets : t.round = r}
        IN  /\ Cardinality(drawn) <= 1
            /\ drawn = {} \/ fallback = {}

\* Every amount a channel paid is the face value of a ticket used on it: none is
\* paid without, or twice for, a ticket.
PaidForTickets ==
    \A k \in Keys :
        LET on == {t \in usedTickets \cup usedFallbackTickets : ChannelOf(t.round) = k}
        IN  channels[k].settledAmount = MapThenSumSet(LAMBDA t : t.faceValue, on)

\* With the resolver wired all along, the outcome of a round never changes: no
\* later transaction takes a round out of Settled or Voided.
OutcomeIsFinal ==
    [][\A r \in RoundKeys :
        alwaysWired /\ rounds[r].status \in {"Settled", "Voided"} =>
            rounds'[r].status = rounds[r].status]_vars

-----------------------------------------------------------------------------
(* What comments of the code say, and the code does not do *)

\* SettlementEngine.sol:200: markRoundPartial "Transitions a stalled or
\* prematurely ended round into partial fallback mode", whose tickets are then
\* settled (SettlementEngine.sol:220): a round enters fallback while the hash of
\* its draw block is, or can still become, available.
FallbackIsClaimable ==
    [][\A r \in RoundKeys :
        rounds[r].status = "Open" /\ rounds'[r].status = "PartialFallback" =>
            blockNumber <= rounds[r].commitBlock + CONFIRMATION_DELAY
                               + BLOCKHASH_HISTORY]_vars
=============================================================================
