------------------------ MODULE ChunkDisputeResolver ------------------------
(***************************************************************************)
(* ChunkDisputeResolver.sol: disputes about single chunks of an open       *)
(* round.  The Merkle root of a response is the provider's own argument,   *)
(* so a response with some chunk, proof and root always verifies.          *)
(***************************************************************************)
EXTENDS SettlementEngine, ProviderRegistry

CONSTANT LocalIndices    \* indices offered to raiseChunkDispute

ASSUME ResolverAssumption == Recipients = Providers /\ IsFiniteSet(LocalIndices)

VARIABLES
    disputes,              \* <<RoundKeys, index>> -> Dispute
    pendingDisputeCount    \* RoundKeys -> Nat

resVars == <<disputes, pendingDisputeCount>>

DisputeKeys == RoundKeys \X LocalIndices

DisputeStatus == {"None", "Open", "ResolvedHonest", "ResolvedSlashed"}

Dispute == [status : DisputeStatus, deadlineBlock : Nat]

ResInit ==
    /\ disputes = [d \in DisputeKeys |-> [status |-> "None", deadlineBlock |-> 0]]
    /\ pendingDisputeCount = [r \in RoundKeys |-> 0]

\* Fault: an index that was disputed before is disputed again.
Raisable_Again(status) == TRUE

Raisable(status) == status = "None"

raiseChunkDispute(d) ==
    LET r == d[1]
    IN  /\ Raisable(disputes[d].status)
        /\ rounds[r].status = "Open"
        /\ disputes' = [disputes EXCEPT ![d] =
               [status |-> "Open",
                deadlineBlock |-> blockNumber + DISPUTE_RESPONSE_WINDOW]]
        /\ pendingDisputeCount' =
               [pendingDisputeCount EXCEPT ![r] = pendingDisputeCount[r] + 1]
        /\ UNCHANGED <<chVars, engVars, regVars>>

\* The pending count after dispute d leaves the open ones.
OneLess(r) ==
    [pendingDisputeCount EXCEPT ![r] =
        IF pendingDisputeCount[r] > 0 THEN pendingDisputeCount[r] - 1 ELSE 0]

Resolved(d, status) == [disputes EXCEPT ![d] = [disputes[d] EXCEPT !.status = status]]

respondToDispute(d) ==
    /\ disputes[d].status = "Open"
    /\ blockNumber <= disputes[d].deadlineBlock
    /\ disputes' = Resolved(d, "ResolvedHonest")
    /\ pendingDisputeCount' = OneLess(d[1])
    /\ UNCHANGED <<chVars, engVars, regVars>>

slashAmount(p) == (providers[p].stake * SLASH_BPS) \div 10000

\* The call of voidRound; the engine accepts it from its resolver, and from
\* anyone while it has none.
VoidWith(r) == voidRound(r)

resolveExpiredDispute(d) ==
    LET r == d[1]
        p == r[2]
    IN  /\ disputes[d].status = "Open"
        /\ blockNumber > disputes[d].deadlineBlock
        /\ disputes' = Resolved(d, "ResolvedSlashed")
        /\ pendingDisputeCount' = OneLess(r)
        /\ slashProvider(p, slashAmount(p))
        /\ VoidWith(r)
        /\ UNCHANGED chVars

isDisputePending(r) == pendingDisputeCount[r] > 0
=============================================================================
