------------------------ MODULE RafflePayments_proofs ------------------------
(***************************************************************************)
(* Proofs about the raffle contracts together, for any clients, providers, *)
(* rounds, tickets, disputes and owner actions.  The channel and registry  *)
(* keep their own invariants, ChInv and RegInv; CoreInv is about the       *)
(* engine and the resolver.                                                *)
(***************************************************************************)
EXTENDS RafflePayments, PaymentChannel_proofs, ProviderRegistry_proofs,
        FiniteSetTheorems

\* Types of the engine and the resolver.
EngOK ==
    /\ rounds \in [RoundKeys -> Round]
    /\ usedTickets \subseteq TicketType /\ usedFallbackTickets \subseteq TicketType
    /\ enginePaused \in BOOLEAN /\ resolverSet \in BOOLEAN
    /\ disputes \in [DisputeKeys -> Dispute]
    /\ pendingDisputeCount \in [RoundKeys -> Nat]

WiredNow == alwaysWired \in BOOLEAN /\ (alwaysWired => resolverSet)

\* A used ticket says how its round went, and a round has one drawn ticket.
UsedRounds ==
    /\ \A t \in usedTickets : rounds[t.round].status \in {"Settled", "Voided"}
    /\ \A t \in usedFallbackTickets :
          rounds[t.round].status \in {"PartialFallback", "Voided"}
    /\ \A t, u \in usedTickets : t.round = u.round => t = u
    /\ \A t \in usedTickets, u \in usedFallbackTickets : t.round # u.round

CoreInv ==
    /\ EngOK /\ WiredNow
    /\ PendingMatchesOpen /\ SettledIsClean /\ SlashedIsVoid /\ UsedRounds

\* What OutcomeIsFinal says of one step.
Final ==
    \A r \in RoundKeys :
        alwaysWired /\ rounds[r].status \in {"Settled", "Voided"} =>
            rounds'[r].status = rounds[r].status

Wires == alwaysWired' = (alwaysWired /\ resolverSet')

\* A round with no pending dispute has no open one.
LEMMA NonePending ==
    ASSUME CoreInv, NEW r \in RoundKeys, ~isDisputePending(r)
    PROVE  OpenDisputes(r) = {}
<1>1. pendingDisputeCount[r] \in Nat /\ ~(pendingDisputeCount[r] > 0)
  BY DEF CoreInv, EngOK, isDisputePending
<1>2. Cardinality(OpenDisputes(r)) = 0
  BY <1>1 DEF CoreInv, PendingMatchesOpen
<1>3. IsFiniteSet(OpenDisputes(r))
  BY ResolverAssumption, FS_Subset DEF OpenDisputes
<1> QED
  BY <1>2, <1>3, FS_EmptySet

\* Steps that touch neither rounds nor disputes nor tickets.
LEMMA Idle ==
    ASSUME CoreInv, Wires, resolverSet' \in BOOLEAN, enginePaused' \in BOOLEAN,
           UNCHANGED <<rounds, usedTickets, usedFallbackTickets, resVars>>
    PROVE  CoreInv' /\ Final
<1>1. EngOK' /\ WiredNow' /\ Final
  BY DEF CoreInv, EngOK, WiredNow, Wires, Final, resVars
<1>2. PendingMatchesOpen'
  BY DEF CoreInv, PendingMatchesOpen, OpenDisputes, resVars
<1>3. SettledIsClean'
  BY DEF CoreInv, SettledIsClean, WiredNow, Wires, resVars
<1>4. SlashedIsVoid' /\ UsedRounds'
  BY DEF CoreInv, SlashedIsVoid, UsedRounds, resVars
<1> QED
  BY <1>1, <1>2, <1>3, <1>4 DEF CoreInv

\* A step that moves one round from Uncommitted to Open, or from Open to
\* PartialFallback.
LEMMA MoveRound ==
    ASSUME CoreInv, Wires, NEW r \in RoundKeys, NEW b \in Round,
           \/ rounds[r].status = "Uncommitted" /\ b.status = "Open"
           \/ rounds[r].status = "Open" /\ b.status = "PartialFallback",
           rounds' = [rounds EXCEPT ![r] = b],
           UNCHANGED <<usedTickets, usedFallbackTickets, enginePaused,
                       resolverSet, resVars>>
    PROVE  CoreInv' /\ Final
<1>0. /\ rounds \in [RoundKeys -> Round] /\ rounds' \in [RoundKeys -> Round]
      /\ \A s \in RoundKeys : rounds'[s] = IF s = r THEN b ELSE rounds[s]
  BY DEF CoreInv, EngOK
<1>1. EngOK' /\ WiredNow'
  BY <1>0 DEF CoreInv, EngOK, WiredNow, Wires, resVars
<1>2. Final
  BY <1>0 DEF Final
<1>3. PendingMatchesOpen'
  BY DEF CoreInv, PendingMatchesOpen, OpenDisputes, resVars
<1>4. SettledIsClean'
  BY <1>0 DEF CoreInv, SettledIsClean, WiredNow, Wires, resVars
<1>5. SlashedIsVoid'
  BY <1>0 DEF CoreInv, SlashedIsVoid, resVars
<1>6. UsedRounds'
  <2>1. \A t \in usedTickets \cup usedFallbackTickets : t.round \in RoundKeys
    BY DEF CoreInv, EngOK, TicketType
  <2> QED
    BY <1>0, <2>1 DEF CoreInv, UsedRounds
<1> QED
  BY <1>1, <1>2, <1>3, <1>4, <1>5, <1>6 DEF CoreInv

\* A step that settles the open, undisputed rounds S with the tickets H.
LEMMA SettleRounds ==
    ASSUME CoreInv, Wires, NEW S \in SUBSET RoundKeys,
           \A r \in S : rounds[r].status = "Open" /\ Undisputed(isDisputePending(r)),
           rounds' \in [RoundKeys -> Round],
           \A r \in RoundKeys :
               rounds'[r].status = IF r \in S THEN "Settled" ELSE rounds[r].status,
           NEW H \in SUBSET TicketType, \A t \in H : t.round \in S,
           \A t, u \in H : t.round = u.round => t = u,
           usedTickets' = usedTickets \cup H,
           UNCHANGED <<usedFallbackTickets, enginePaused, resolverSet, resVars>>
    PROVE  CoreInv' /\ Final
<1>1. EngOK' /\ WiredNow'
  BY DEF CoreInv, EngOK, WiredNow, Wires, resVars
<1>2. Final
  BY DEF Final
<1>3. PendingMatchesOpen'
  BY DEF CoreInv, PendingMatchesOpen, OpenDisputes, resVars
<1>4. SettledIsClean'
  <2> SUFFICES ASSUME alwaysWired', NEW r \in RoundKeys,
                      rounds'[r].status = "Settled", NEW i \in LocalIndices
               PROVE  disputes'[<<r, i>>].status \in {"None", "ResolvedHonest"}
    BY DEF SettledIsClean
  <2>1. alwaysWired /\ resolverSet /\ disputes' = disputes
    BY DEF Wires, CoreInv, WiredNow, resVars
  <2>2. CASE r \notin S
    BY <2>1, <2>2 DEF CoreInv, SettledIsClean
  <2>3. CASE r \in S
    <3>1. OpenDisputes(r) = {} /\ rounds[r].status = "Open"
      BY <2>1, <2>3, NonePending DEF Undisputed
    <3>2. disputes[<<r, i>>].status # "Open"
      BY <3>1 DEF OpenDisputes
    <3>3. disputes[<<r, i>>].status # "ResolvedSlashed"
      BY <3>1 DEF CoreInv, SlashedIsVoid
    <3>4. disputes[<<r, i>>].status \in DisputeStatus
      BY DEF CoreInv, EngOK, DisputeKeys, Dispute
    <3> QED
      BY <2>1, <3>2, <3>3, <3>4 DEF DisputeStatus
  <2> QED
    BY <2>2, <2>3
<1>5. SlashedIsVoid'
  BY DEF CoreInv, SlashedIsVoid, resVars
<1>6. UsedRounds'
  <2>1. \A t \in usedTickets \cup usedFallbackTickets : t.round \in RoundKeys
    BY DEF CoreInv, EngOK, TicketType
  <2>2. \A t \in usedTickets \cup usedFallbackTickets : t.round \notin S
    BY DEF CoreInv, UsedRounds
  <2> QED
    BY <2>1, <2>2 DEF CoreInv, UsedRounds
<1> QED
  BY <1>1, <1>2, <1>3, <1>4, <1>5, <1>6 DEF CoreInv

\* A ticket is typed, and so is its hash, which keeps its round.
LEMMA TicketHash ==
    ASSUME NEW t \in Tickets
    PROVE  /\ t \in TicketType /\ t.round \in RoundKeys /\ t.faceValue \in Nat
           /\ ChannelOf(t.round) \in Keys
           /\ roundTicketHash(t) \in TicketType /\ roundTicketHash(t).round = t.round
<1>1. t \in TicketType /\ t.round \in RoundKeys /\ t.faceValue \in Nat
  BY EngineAssumption DEF TicketType
<1>2. t.round[1] \in Senders /\ t.round[2] \in Recipients
  BY <1>1 DEF RoundKeys
<1> QED
  BY <1>1, <1>2 DEF ChannelOf, Keys, roundTicketHash, TicketType

\* The rounds after r got another status.
LEMMA StatusOnly ==
    ASSUME NEW rds \in [RoundKeys -> Round], NEW r \in RoundKeys,
           NEW st \in RoundStatus
    PROVE  /\ WithStatus(rds, r, st) \in [RoundKeys -> Round]
           /\ \A s \in RoundKeys : WithStatus(rds, r, st)[s].status =
                 IF s = r THEN st ELSE rds[s].status
<1> DEFINE b == [rds[r] EXCEPT !.status = st]
<1>1. b \in Round /\ b.status = st
  BY DEF Round
<1>2. WithStatus(rds, r, st) = [rds EXCEPT ![r] = b]
  BY DEF WithStatus
<1> HIDE DEF b
<1> QED
  BY <1>1, <1>2

\* A commit opens a round that never was.
LEMMA Commit ==
    ASSUME CoreInv, ChInv, Wires, NEW r \in RoundKeys, NEW n \in Taus,
           NEW f \in FaceValues, NEW s \in Secrets, commitRoundSecret(r, n, f, s),
           UNCHANGED resVars
    PROVE  CoreInv' /\ Final
<1> DEFINE b == [tau |-> n, faceValue |-> f, recipientRandHash |-> s,
                 commitBlock |-> blockNumber, status |-> "Open"]
<1>1. b \in Round
  BY EngineAssumption DEF Round, RoundStatus, ChInv, ChTypeOK
<1>2. rounds' = [rounds EXCEPT ![r] = b] /\ rounds[r].status = "Uncommitted"
  BY DEF commitRoundSecret, Committable
<1> QED
  BY <1>1, <1>2, MoveRound DEF commitRoundSecret

\* A draw settles its round.
LEMMA Settle ==
    ASSUME CoreInv, Wires, NEW t \in Tickets, NEW s,
           settleRound(t, s, isDisputePending(t.round)), UNCHANGED resVars
    PROVE  CoreInv' /\ Final
<1> DEFINE S == {t.round}
           H == {roundTicketHash(t)}
<1>1. \A r \in S : rounds[r].status = "Open" /\ Undisputed(isDisputePending(r))
  BY DEF settleRound, Settleable
<1>2. /\ rounds' \in [RoundKeys -> Round]
      /\ \A r \in RoundKeys :
            rounds'[r].status = IF r \in S THEN "Settled" ELSE rounds[r].status
  BY TicketHash, StatusOnly DEF settleRound, CoreInv, EngOK, RoundStatus
<1>3. S \in SUBSET RoundKeys /\ H \in SUBSET TicketType /\ \A h \in H : h.round \in S
  BY TicketHash
<1>4. usedTickets' = usedTickets \cup H
  BY DEF settleRound
<1>5. \A h, g \in H : h.round = g.round => h = g
  OBVIOUS
<1>6. UNCHANGED <<usedFallbackTickets, enginePaused, resolverSet>>
  BY DEF settleRound
<1> HIDE DEF S, H
<1> QED
  BY <1>1, <1>2, <1>3, <1>4, <1>5, <1>6, SettleRounds

\* A batch settles the rounds of both its tickets.
LEMMA Batch ==
    ASSUME CoreInv, Wires, NEW t \in Tickets, NEW s, NEW u \in Tickets, NEW z,
           settleRoundBatch(t, s, isDisputePending(t.round),
                            u, z, isDisputePending(u.round)),
           UNCHANGED resVars
    PROVE  CoreInv' /\ Final
<1> DEFINE S == {t.round, u.round}
           H == {roundTicketHash(t), roundTicketHash(u)}
           mid == WithStatus(rounds, t.round, "Settled")
<1>1. \A r \in S : rounds[r].status = "Open" /\ Undisputed(isDisputePending(r))
  BY DEF settleRoundBatch, Settleable
<1>2. /\ rounds' \in [RoundKeys -> Round]
      /\ \A r \in RoundKeys :
            rounds'[r].status = IF r \in S THEN "Settled" ELSE rounds[r].status
  <2>0. rounds \in [RoundKeys -> Round] /\ t.round \in RoundKeys /\ u.round \in RoundKeys
    BY TicketHash DEF CoreInv, EngOK
  <2>1. /\ mid \in [RoundKeys -> Round]
        /\ \A r \in RoundKeys :
              mid[r].status = IF r = t.round THEN "Settled" ELSE rounds[r].status
    BY <2>0, StatusOnly DEF RoundStatus
  <2>2. rounds' = WithStatus(mid, u.round, "Settled")
    BY DEF settleRoundBatch
  <2> HIDE DEF mid
  <2>3. /\ rounds' \in [RoundKeys -> Round]
        /\ \A r \in RoundKeys :
              rounds'[r].status = IF r = u.round THEN "Settled" ELSE mid[r].status
    BY <2>0, <2>1, <2>2, StatusOnly DEF RoundStatus
  <2> QED
    BY <2>1, <2>3
<1>3. S \in SUBSET RoundKeys /\ H \in SUBSET TicketType /\ \A h \in H : h.round \in S
  BY TicketHash
<1>4. \A h, g \in H : h.round = g.round => h = g
  BY TicketHash DEF settleRoundBatch
<1>5. usedTickets' = usedTickets \cup H
  BY DEF settleRoundBatch
<1>6. UNCHANGED <<usedFallbackTickets, enginePaused, resolverSet>>
  BY DEF settleRoundBatch
<1> HIDE DEF S, H
<1> QED
  BY <1>1, <1>2, <1>3, <1>4, <1>5, <1>6, SettleRounds

\* An open round enters fallback.
LEMMA Partial ==
    ASSUME CoreInv, Wires, NEW r \in RoundKeys, markRoundPartial(r),
           UNCHANGED resVars
    PROVE  CoreInv' /\ Final
<1> DEFINE b == [rounds[r] EXCEPT !.status = "PartialFallback"]
<1>1. b \in Round /\ b.status = "PartialFallback"
  BY DEF CoreInv, EngOK, Round, RoundStatus
<1>2. rounds' = [rounds EXCEPT ![r] = b] /\ rounds[r].status = "Open"
  BY DEF markRoundPartial, WithStatus, Fallible
<1> HIDE DEF b
<1> QED
  BY <1>1, <1>2, MoveRound DEF markRoundPartial

\* A fallback claim uses a ticket of a round in fallback.
LEMMA Fallback ==
    ASSUME CoreInv, Wires, NEW t \in Tickets, NEW s, claimFallbackTicket(t, s),
           UNCHANGED resVars
    PROVE  CoreInv' /\ Final
<1> DEFINE h == roundTicketHash(t)
<1>1. /\ h \in TicketType /\ h.round = t.round
      /\ rounds[t.round].status = "PartialFallback"
      /\ usedFallbackTickets' = usedFallbackTickets \cup {h}
  BY TicketHash DEF claimFallbackTicket, Spent
<1>2. UNCHANGED <<rounds, usedTickets, enginePaused, resolverSet>>
  BY DEF claimFallbackTicket
<1> HIDE DEF h
<1>3. EngOK' /\ WiredNow' /\ Final
  BY <1>1, <1>2 DEF CoreInv, EngOK, WiredNow, Wires, Final, resVars
<1>4. PendingMatchesOpen'
  BY <1>2 DEF CoreInv, PendingMatchesOpen, OpenDisputes, resVars
<1>5. SettledIsClean' /\ SlashedIsVoid'
  BY <1>2 DEF CoreInv, SettledIsClean, SlashedIsVoid, WiredNow, Wires, resVars
<1>6. UsedRounds'
  BY <1>1, <1>2 DEF CoreInv, UsedRounds
<1> QED
  BY <1>3, <1>4, <1>5, <1>6 DEF CoreInv

\* Opening a dispute and adding 1 keeps the count right.
LEMMA CountUp ==
    ASSUME CoreInv, NEW r \in RoundKeys, NEW i \in LocalIndices, NEW b \in Dispute,
           disputes[<<r, i>>].status # "Open", b.status = "Open",
           disputes' = [disputes EXCEPT ![<<r, i>>] = b],
           pendingDisputeCount' =
               [pendingDisputeCount EXCEPT ![r] = pendingDisputeCount[r] + 1]
    PROVE  PendingMatchesOpen' /\ pendingDisputeCount' \in [RoundKeys -> Nat]
<1> DEFINE Was(q) == OpenDisputes(q)
           Is(q) == {j \in LocalIndices : disputes'[<<q, j>>].status = "Open"}
<1>0. /\ disputes \in [RoundKeys \X LocalIndices -> Dispute]
      /\ pendingDisputeCount \in [RoundKeys -> Nat]
  BY DEF CoreInv, EngOK, DisputeKeys
<1>a. \A q \in RoundKeys, j \in LocalIndices :
        disputes'[<<q, j>>] = IF q = r /\ j = i THEN b ELSE disputes[<<q, j>>]
  BY <1>0
<1>1. Is(r) = Was(r) \cup {i} /\ i \notin Was(r) /\ IsFiniteSet(Was(r))
  <2>1. IsFiniteSet(Was(r))
    BY ResolverAssumption, FS_Subset DEF OpenDisputes
  <2>2. \A j \in LocalIndices :
          disputes'[<<r, j>>] = IF j = i THEN b ELSE disputes[<<r, j>>]
    BY <1>a
  <2> QED
    BY <2>1, <2>2 DEF OpenDisputes
<1>2. \A q \in RoundKeys : q # r => Is(q) = Was(q)
  BY <1>a DEF OpenDisputes
<1>3. Cardinality(Is(r)) = Cardinality(Was(r)) + 1
  <2> HIDE DEF Is, Was
  <2> QED BY <1>1, FS_AddElement
<1>4. \A q \in RoundKeys : pendingDisputeCount'[q] = Cardinality(Is(q))
  <2> HIDE DEF Is
  <2>1. \A q \in RoundKeys : pendingDisputeCount[q] = Cardinality(Was(q))
    BY DEF CoreInv, PendingMatchesOpen
  <2> HIDE DEF Was
  <2> QED
    BY <1>0, <1>2, <1>3, <2>1
<1>5. PendingMatchesOpen'
  BY <1>4 DEF PendingMatchesOpen, OpenDisputes
<1> QED
  BY <1>0, <1>5

\* Closing an open dispute and taking 1 away keeps the count right.
LEMMA CountDown ==
    ASSUME CoreInv, NEW r \in RoundKeys, NEW i \in LocalIndices, NEW b \in Dispute,
           disputes[<<r, i>>].status = "Open", b.status # "Open",
           disputes' = [disputes EXCEPT ![<<r, i>>] = b],
           pendingDisputeCount' = OneLess(r)
    PROVE  PendingMatchesOpen' /\ pendingDisputeCount' \in [RoundKeys -> Nat]
<1> DEFINE Was(q) == OpenDisputes(q)
           Is(q) == {j \in LocalIndices : disputes'[<<q, j>>].status = "Open"}
<1>0. /\ disputes \in [RoundKeys \X LocalIndices -> Dispute]
      /\ pendingDisputeCount \in [RoundKeys -> Nat]
  BY DEF CoreInv, EngOK, DisputeKeys
<1>a. \A q \in RoundKeys, j \in LocalIndices :
        disputes'[<<q, j>>] = IF q = r /\ j = i THEN b ELSE disputes[<<q, j>>]
  BY <1>0
<1>1. Is(r) = Was(r) \ {i} /\ i \in Was(r) /\ IsFiniteSet(Was(r))
  <2>1. IsFiniteSet(Was(r))
    BY ResolverAssumption, FS_Subset DEF OpenDisputes
  <2>2. \A j \in LocalIndices :
          disputes'[<<r, j>>] = IF j = i THEN b ELSE disputes[<<r, j>>]
    BY <1>a
  <2> QED
    BY <2>1, <2>2 DEF OpenDisputes
<1>2. \A q \in RoundKeys : q # r => Is(q) = Was(q)
  BY <1>a DEF OpenDisputes
<1>3. Cardinality(Is(r)) = Cardinality(Was(r)) - 1 /\ Cardinality(Was(r)) > 0
  <2> HIDE DEF Is, Was
  <2>1. Cardinality(Is(r)) = Cardinality(Was(r)) - 1
    BY <1>1, FS_RemoveElement
  <2>2. Cardinality(Was(r)) \in Nat /\ Cardinality(Was(r)) # 0
    BY <1>1, FS_CardinalityType, FS_EmptySet
  <2> QED
    BY <2>1, <2>2
<1>4. \A q \in RoundKeys : pendingDisputeCount'[q] = Cardinality(Is(q))
  <2> HIDE DEF Is
  <2>1. \A q \in RoundKeys : pendingDisputeCount[q] = Cardinality(Was(q))
    BY DEF CoreInv, PendingMatchesOpen
  <2> HIDE DEF Was
  <2> QED
    BY <1>0, <1>2, <1>3, <2>1 DEF OneLess
<1>5. PendingMatchesOpen'
  BY <1>4 DEF PendingMatchesOpen, OpenDisputes
<1>6. pendingDisputeCount' \in [RoundKeys -> Nat]
  BY <1>0 DEF OneLess
<1> QED
  BY <1>5, <1>6

\* A dispute is raised on an open round.
LEMMA Raise ==
    ASSUME CoreInv, ChInv, Wires, NEW d \in DisputeKeys, raiseChunkDispute(d)
    PROVE  CoreInv' /\ Final
<1>1. PICK r \in RoundKeys, i \in LocalIndices : d = <<r, i>>
  BY DEF DisputeKeys
<1> DEFINE b == [status |-> "Open", deadlineBlock |-> blockNumber + DISPUTE_RESPONSE_WINDOW]
<1>2. b \in Dispute
  <2>1. blockNumber + DISPUTE_RESPONSE_WINDOW \in Nat
    BY DeadlineType
  <2> QED
    BY <2>1 DEF Dispute, DisputeStatus
<1>3. /\ disputes[<<r, i>>].status = "None" /\ rounds[r].status = "Open"
      /\ disputes' = [disputes EXCEPT ![<<r, i>>] = b]
      /\ pendingDisputeCount' =
             [pendingDisputeCount EXCEPT ![r] = pendingDisputeCount[r] + 1]
      /\ UNCHANGED engVars
  BY <1>1 DEF raiseChunkDispute, Raisable
<1>4. b.status = "Open"
  OBVIOUS
<1> HIDE DEF b
<1>5. PendingMatchesOpen' /\ pendingDisputeCount' \in [RoundKeys -> Nat]
  BY <1>2, <1>3, <1>4, CountUp
<1>6. /\ disputes' \in [DisputeKeys -> Dispute]
      /\ \A q \in RoundKeys, j \in LocalIndices : disputes'[<<q, j>>] =
            IF q = r /\ j = i THEN b ELSE disputes[<<q, j>>]
  <2>1. disputes \in [RoundKeys \X LocalIndices -> Dispute] /\ b \in Dispute
    BY <1>2 DEF CoreInv, EngOK, DisputeKeys
  <2> QED
    BY <1>3, <2>1 DEF DisputeKeys
<1>7. EngOK' /\ WiredNow' /\ Final /\ UsedRounds'
  BY <1>3, <1>5, <1>6 DEF CoreInv, EngOK, WiredNow, Wires, Final, UsedRounds, engVars
<1>8. SettledIsClean'
  BY <1>3, <1>6 DEF CoreInv, SettledIsClean, WiredNow, Wires, engVars
<1>9. SlashedIsVoid'
  BY <1>3, <1>4, <1>6 DEF CoreInv, SlashedIsVoid, engVars
<1> QED
  BY <1>5, <1>7, <1>8, <1>9 DEF CoreInv

\* A dispute is answered.
LEMMA Respond ==
    ASSUME CoreInv, Wires, NEW d \in DisputeKeys, respondToDispute(d)
    PROVE  CoreInv' /\ Final
<1>1. PICK r \in RoundKeys, i \in LocalIndices : d = <<r, i>>
  BY DEF DisputeKeys
<1> DEFINE b == [disputes[d] EXCEPT !.status = "ResolvedHonest"]
<1>2. b \in Dispute /\ b.status = "ResolvedHonest"
  BY DEF CoreInv, EngOK, Dispute, DisputeStatus
<1>3. /\ disputes[<<r, i>>].status = "Open"
      /\ disputes' = [disputes EXCEPT ![<<r, i>>] = b]
      /\ pendingDisputeCount' = OneLess(r)
      /\ UNCHANGED engVars
  BY <1>1 DEF respondToDispute, Resolved
<1> HIDE DEF b
<1>5. PendingMatchesOpen' /\ pendingDisputeCount' \in [RoundKeys -> Nat]
  BY <1>2, <1>3, CountDown
<1>6. /\ disputes' \in [DisputeKeys -> Dispute]
      /\ \A q \in RoundKeys, j \in LocalIndices : disputes'[<<q, j>>] =
            IF q = r /\ j = i THEN b ELSE disputes[<<q, j>>]
  <2>1. disputes \in [RoundKeys \X LocalIndices -> Dispute] /\ b \in Dispute
    BY <1>2 DEF CoreInv, EngOK, DisputeKeys
  <2> QED
    BY <1>3, <2>1 DEF DisputeKeys
<1>7. EngOK' /\ WiredNow' /\ Final /\ UsedRounds'
  BY <1>3, <1>5, <1>6 DEF CoreInv, EngOK, WiredNow, Wires, Final, UsedRounds, engVars
<1>8. SettledIsClean'
  BY <1>2, <1>3, <1>6 DEF CoreInv, SettledIsClean, WiredNow, Wires, engVars
<1>9. SlashedIsVoid'
  <2>1. \A q \in RoundKeys, j \in LocalIndices :
          disputes'[<<q, j>>].status = "ResolvedSlashed" =>
              disputes[<<q, j>>].status = "ResolvedSlashed"
    BY <1>2, <1>6
  <2>2. rounds' = rounds
    BY <1>3 DEF engVars
  <2> QED
    BY <2>1, <2>2 DEF CoreInv, SlashedIsVoid
<1> QED
  BY <1>5, <1>7, <1>8, <1>9 DEF CoreInv

\* An expired dispute voids its round, which was not settled if the resolver was
\* always wired: it had an open dispute.
LEMMA Resolve ==
    ASSUME CoreInv, Wires, NEW d \in DisputeKeys, resolveExpiredDispute(d)
    PROVE  CoreInv' /\ Final
<1>1. PICK r \in RoundKeys, i \in LocalIndices : d = <<r, i>>
  BY DEF DisputeKeys
<1> DEFINE b == [disputes[d] EXCEPT !.status = "ResolvedSlashed"]
<1>2. b \in Dispute /\ b.status = "ResolvedSlashed"
  BY DEF CoreInv, EngOK, Dispute, DisputeStatus
<1>3. /\ disputes[<<r, i>>].status = "Open"
      /\ disputes' = [disputes EXCEPT ![<<r, i>>] = b]
      /\ pendingDisputeCount' = OneLess(r)
      /\ rounds' = WithStatus(rounds, r, "Voided")
      /\ UNCHANGED <<usedTickets, usedFallbackTickets, enginePaused, resolverSet>>
  BY <1>1 DEF resolveExpiredDispute, Resolved, VoidWith, voidRound
<1> HIDE DEF b
<1>4. /\ rounds' \in [RoundKeys -> Round]
      /\ \A s \in RoundKeys :
            rounds'[s].status = IF s = r THEN "Voided" ELSE rounds[s].status
  BY <1>3, StatusOnly DEF CoreInv, EngOK, RoundStatus
<1>5. PendingMatchesOpen' /\ pendingDisputeCount' \in [RoundKeys -> Nat]
  BY <1>2, <1>3, CountDown
<1>6. /\ disputes' \in [DisputeKeys -> Dispute]
      /\ \A q \in RoundKeys, j \in LocalIndices : disputes'[<<q, j>>] =
            IF q = r /\ j = i THEN b ELSE disputes[<<q, j>>]
  <2>1. disputes \in [RoundKeys \X LocalIndices -> Dispute] /\ b \in Dispute
    BY <1>2 DEF CoreInv, EngOK, DisputeKeys
  <2> QED
    BY <1>3, <2>1 DEF DisputeKeys
<1>7. EngOK' /\ WiredNow'
  BY <1>3, <1>4, <1>5, <1>6 DEF CoreInv, EngOK, WiredNow, Wires
<1>8. Final
  <2>1. alwaysWired => rounds[r].status # "Settled"
    BY <1>3 DEF CoreInv, SettledIsClean
  <2> QED
    BY <1>4, <2>1 DEF Final
<1>9. SettledIsClean'
  <2>1. alwaysWired' => alwaysWired
    BY DEF Wires
  <2>2. \A q \in RoundKeys, j \in LocalIndices :
          rounds'[q].status = "Settled" =>
              rounds[q].status = "Settled" /\ disputes'[<<q, j>>] = disputes[<<q, j>>]
    BY <1>4, <1>6
  <2>3. \A q \in RoundKeys : rounds'[q].status = "Settled" => rounds[q].status = "Settled"
    BY <1>4
  <2> QED
    BY <2>1, <2>2, <2>3 DEF CoreInv, SettledIsClean
<1>10. SlashedIsVoid'
  BY <1>4, <1>6 DEF CoreInv, SlashedIsVoid
<1>11. UsedRounds'
  <2>1. \A t \in usedTickets \cup usedFallbackTickets : t.round \in RoundKeys
    BY DEF CoreInv, EngOK, TicketType
  <2> QED
    BY <1>3, <1>4, <2>1 DEF CoreInv, UsedRounds
<1> QED
  BY <1>5, <1>7, <1>8, <1>9, <1>10, <1>11 DEF CoreInv

\* While the engine has no resolver anyone may void a round.
LEMMA VoidUnwired ==
    ASSUME CoreInv, Wires, NEW r \in RoundKeys, ~resolverSet, voidRound(r),
           UNCHANGED resVars
    PROVE  CoreInv' /\ Final
<1>1. ~alwaysWired /\ ~alwaysWired'
  BY DEF CoreInv, WiredNow, Wires
<1>2. /\ rounds' = WithStatus(rounds, r, "Voided")
      /\ UNCHANGED <<usedTickets, usedFallbackTickets, enginePaused, resolverSet>>
  BY DEF voidRound
<1>3. /\ rounds' \in [RoundKeys -> Round]
      /\ \A s \in RoundKeys :
            rounds'[s].status = IF s = r THEN "Voided" ELSE rounds[s].status
  BY <1>2, StatusOnly DEF CoreInv, EngOK, RoundStatus
<1>4. EngOK' /\ WiredNow' /\ Final /\ SettledIsClean'
  BY <1>1, <1>2, <1>3
  DEF CoreInv, EngOK, WiredNow, Wires, Final, SettledIsClean, resVars
<1>5. PendingMatchesOpen'
  BY DEF CoreInv, PendingMatchesOpen, OpenDisputes, resVars
<1>6. SlashedIsVoid'
  BY <1>3 DEF CoreInv, SlashedIsVoid, resVars
<1>7. UsedRounds'
  <2>1. \A t \in usedTickets \cup usedFallbackTickets : t.round \in RoundKeys
    BY DEF CoreInv, EngOK, TicketType
  <2> QED
    BY <1>2, <1>3, <2>1 DEF CoreInv, UsedRounds
<1> QED
  BY <1>4, <1>5, <1>6, <1>7 DEF CoreInv

-----------------------------------------------------------------------------
(* The steps of each actor *)

IInv == ChInv /\ RegInv /\ CoreInv

\* A step that leaves a component alone, but for the blocks, keeps its invariant.
LEMMA Others ==
    ASSUME IInv, blockNumber' \in Nat, blockNumber <= blockNumber'
    PROVE  /\ UNCHANGED chVars => ChInv'
           /\ UNCHANGED regVars => RegInv'
<1>1. UNCHANGED chVars => ChInv'
  BY ChIdle DEF IInv, ChInv, ChTypeOK, chVars
<1>2. UNCHANGED regVars => RegInv'
  BY RegIdle DEF IInv, RegInv, RegTypeOK, regVars
<1> QED
  BY <1>1, <1>2

\* The owner's transactions keep the invariant.
LEMMA OwnerStep ==
    ASSUME IInv, Owner, UNCHANGED blockNumber, Wires
    PROVE  IInv' /\ Final
<1>0. /\ ChInv /\ RegInv /\ CoreInv
      /\ blockNumber \in Nat /\ blockNumber' \in Nat /\ blockNumber <= blockNumber'
      /\ resolverSet \in BOOLEAN /\ enginePaused \in BOOLEAN
      /\ authorizedSlasher \in BOOLEAN
  BY DEF IInv, ChInv, ChTypeOK, CoreInv, EngOK, RegInv, RegTypeOK
<1>1. CASE ChOwner /\ UNCHANGED <<engVars, regVars, resVars>>
  BY <1>0, <1>1, ChOwnerStep, Others, Idle DEF IInv, engVars
<1>2. CASE \E v \in BOOLEAN : setSlasher(v) /\ UNCHANGED <<chVars, engVars, resVars>>
  BY <1>0, <1>2, RegIdle, Others, Idle DEF IInv, engVars, setSlasher
<1>3. CASE \E v \in BOOLEAN :
             setDisputeResolver(v) /\ UNCHANGED <<chVars, regVars, resVars>>
  BY <1>0, <1>3, Others, Idle DEF IInv, setDisputeResolver
<1>4. CASE (pauseEngine \/ unpauseEngine) /\ UNCHANGED <<chVars, regVars, resVars>>
  BY <1>0, <1>4, Others, Idle DEF IInv, pauseEngine, unpauseEngine
<1> QED
  BY <1>1, <1>2, <1>3, <1>4 DEF Owner, ChOwner

\* The clients' transactions keep the invariant.
LEMMA ClientStep ==
    ASSUME IInv, Client, UNCHANGED blockNumber, Wires
    PROVE  IInv' /\ Final
<1>0. /\ ChInv /\ RegInv /\ CoreInv
      /\ blockNumber \in Nat /\ blockNumber' \in Nat /\ blockNumber <= blockNumber'
      /\ resolverSet \in BOOLEAN /\ enginePaused \in BOOLEAN
  BY DEF IInv, ChInv, ChTypeOK, CoreInv, EngOK
<1>1. CASE ChClient /\ UNCHANGED <<engVars, regVars, resVars>>
  BY <1>0, <1>1, ChClientStep, Others, Idle DEF IInv, engVars
<1>2. CASE \E d \in DisputeKeys : raiseChunkDispute(d)
  <2>1. UNCHANGED <<chVars, regVars>>
    BY <1>2 DEF raiseChunkDispute
  <2>2. CoreInv' /\ Final
    BY <1>0, <1>2, Raise
  <2> QED
    BY <1>0, <2>1, <2>2, Others DEF IInv
<1> QED
  BY <1>1, <1>2 DEF Client

\* The providers' transactions keep the invariant.
LEMMA ProviderStepKeeps ==
    ASSUME IInv, ProviderStep, UNCHANGED blockNumber, Wires
    PROVE  IInv' /\ Final
<1>0. /\ ChInv /\ RegInv /\ CoreInv
      /\ blockNumber \in Nat /\ blockNumber' \in Nat /\ blockNumber <= blockNumber'
      /\ resolverSet \in BOOLEAN /\ enginePaused \in BOOLEAN
  BY DEF IInv, ChInv, ChTypeOK, CoreInv, EngOK
<1>1. CASE RegProvider /\ UNCHANGED <<chVars, engVars, resVars>>
  BY <1>0, <1>1, RegProviderStep, Others, Idle DEF IInv, engVars
<1>2. CASE /\ \E r \in RoundKeys, n \in Taus, f \in FaceValues, s \in Secrets :
                 commitRoundSecret(r, n, f, s)
           /\ UNCHANGED <<regVars, resVars>>
  <2>1. UNCHANGED <<chVars, regVars>>
    BY <1>2 DEF commitRoundSecret
  <2>2. CoreInv' /\ Final
    BY <1>0, <1>2, Commit
  <2> QED
    BY <1>0, <2>1, <2>2, Others DEF IInv
<1>3. CASE (\E r \in RoundKeys : markRoundPartial(r)) /\ UNCHANGED <<regVars, resVars>>
  <2>1. UNCHANGED <<chVars, regVars>>
    BY <1>3 DEF markRoundPartial
  <2>2. CoreInv' /\ Final
    BY <1>0, <1>3, Partial
  <2> QED
    BY <1>0, <2>1, <2>2, Others DEF IInv
<1>4. CASE \E d \in DisputeKeys : respondToDispute(d)
  <2>1. UNCHANGED <<chVars, regVars>>
    BY <1>4 DEF respondToDispute
  <2>2. CoreInv' /\ Final
    BY <1>0, <1>4, Respond
  <2> QED
    BY <1>0, <2>1, <2>2, Others DEF IInv
<1> QED
  BY <1>1, <1>2, <1>3, <1>4 DEF ProviderStep

\* The transactions anyone may send keep the invariant.
LEMMA AnyoneStep ==
    ASSUME IInv, Anyone, UNCHANGED blockNumber, Wires
    PROVE  IInv' /\ Final
<1>0. /\ ChInv /\ RegInv /\ CoreInv
      /\ blockNumber \in Nat /\ blockNumber' \in Nat /\ blockNumber <= blockNumber'
  BY DEF IInv, ChInv, ChTypeOK
<1>1. CASE \E t \in Tickets, s \in Secrets :
             settleRound(t, s, isDisputePending(t.round)) /\ UNCHANGED <<regVars, resVars>>
  <2>1. PICK t \in Tickets, s \in Secrets :
          settleRound(t, s, isDisputePending(t.round)) /\ UNCHANGED <<regVars, resVars>>
    BY <1>1
  <2>2. ChInv'
    BY <1>0, <2>1, TicketHash, ChPayout DEF settleRound
  <2>3. CoreInv' /\ Final
    BY <1>0, <2>1, Settle
  <2> QED
    BY <1>0, <2>1, <2>2, <2>3, Others DEF IInv
<1>2. CASE \E t \in Tickets, s \in Secrets, u \in Tickets, z \in Secrets :
             /\ settleRoundBatch(t, s, isDisputePending(t.round),
                                 u, z, isDisputePending(u.round))
             /\ UNCHANGED <<regVars, resVars>>
  <2>1. PICK t \in Tickets, s \in Secrets, u \in Tickets, z \in Secrets :
             /\ settleRoundBatch(t, s, isDisputePending(t.round),
                                 u, z, isDisputePending(u.round))
             /\ UNCHANGED <<regVars, resVars>>
    BY <1>2
  <2>2. ChInv'
    BY <1>0, <2>1, TicketHash, ChPayoutTwice DEF settleRoundBatch
  <2>3. CoreInv' /\ Final
    BY <1>0, <2>1, Batch
  <2> QED
    BY <1>0, <2>1, <2>2, <2>3, Others DEF IInv
<1>3. CASE \E t \in Tickets, s \in Secrets :
             claimFallbackTicket(t, s) /\ UNCHANGED <<regVars, resVars>>
  <2>1. PICK t \in Tickets, s \in Secrets :
          claimFallbackTicket(t, s) /\ UNCHANGED <<regVars, resVars>>
    BY <1>3
  <2>2. ChInv'
    BY <1>0, <2>1, TicketHash, ChPayout DEF claimFallbackTicket
  <2>3. CoreInv' /\ Final
    BY <1>0, <2>1, Fallback
  <2> QED
    BY <1>0, <2>1, <2>2, <2>3, Others DEF IInv
<1>4. CASE \E d \in DisputeKeys : resolveExpiredDispute(d)
  <2>1. PICK d \in DisputeKeys : resolveExpiredDispute(d)
    BY <1>4
  <2> DEFINE p == d[1][2]
             a == slashAmount(p)
  <2>2. slashProvider(p, a) /\ UNCHANGED chVars
    BY <2>1 DEF resolveExpiredDispute
  <2>3. p \in Providers
    BY ResolverAssumption DEF DisputeKeys, RoundKeys
  <2>4. a \in Nat
    <3>1. providers[p].stake \in Nat
      BY <1>0, <2>3 DEF RegInv, RegTypeOK, Provider
    <3> HIDE DEF p
    <3> QED
      BY <3>1, ShareType DEF slashAmount
  <2>5. RegInv'
    <3> HIDE DEF p, a
    <3> QED BY <1>0, <2>2, <2>3, <2>4, RegSlash
  <2>6. CoreInv' /\ Final
    BY <1>0, <2>1, Resolve
  <2> QED
    BY <1>0, <2>2, <2>5, <2>6, Others DEF IInv
<1>5. CASE \E r \in RoundKeys :
             ~resolverSet /\ voidRound(r) /\ UNCHANGED <<chVars, regVars, resVars>>
  <2>1. CoreInv' /\ Final
    BY <1>0, <1>5, VoidUnwired
  <2> QED
    BY <1>0, <1>5, <2>1, Others DEF IInv
<1> QED
  BY <1>1, <1>2, <1>3, <1>4, <1>5 DEF Anyone

\* Every step keeps the invariant and the outcomes of rounds.
LEMMA EveryStep ==
    ASSUME IInv, [Next]_vars
    PROVE  IInv' /\ Final
<1>0. /\ blockNumber \in Nat /\ resolverSet \in BOOLEAN /\ enginePaused \in BOOLEAN
      /\ CoreInv /\ alwaysWired \in BOOLEAN /\ (alwaysWired => resolverSet)
  BY DEF IInv, ChInv, ChTypeOK, CoreInv, EngOK, WiredNow
<1>1. CASE /\ (Owner \/ Client \/ ProviderStep \/ Anyone) /\ UNCHANGED blockNumber
           /\ alwaysWired' = (alwaysWired /\ resolverSet')
  BY <1>1, OwnerStep, ClientStep, ProviderStepKeeps, AnyoneStep DEF Wires
<1>2. CASE /\ MineBlock /\ UNCHANGED <<chVars, engVars, regVars, resVars>>
           /\ alwaysWired' = (alwaysWired /\ resolverSet')
  <2>1. blockNumber' \in Nat /\ blockNumber <= blockNumber'
    BY <1>0, <1>2 DEF MineBlock
  <2>2. CoreInv' /\ Final
    BY <1>0, <1>2, Idle DEF engVars, Wires
  <2> QED
    BY <1>2, <2>1, <2>2, Others DEF IInv
<1>3. CASE UNCHANGED vars
  <2>1. /\ UNCHANGED <<chVars, engVars, regVars, resVars>>
        /\ alwaysWired' = alwaysWired /\ blockNumber' = blockNumber
    BY <1>3 DEF vars
  <2>2. Wires
    BY <1>0, <2>1 DEF Wires, engVars
  <2>3. CoreInv' /\ Final
    BY <1>0, <2>1, <2>2, Idle DEF engVars
  <2> QED
    BY <1>0, <2>1, <2>3, Others DEF IInv
<1> QED
  BY <1>1, <1>2, <1>3 DEF Next

\* The invariant holds of every state of the contracts.
THEOREM Inductive == Spec => []IInv
<1>1. Init => IInv
  <2> SUFFICES ASSUME Init PROVE IInv
    OBVIOUS
  <2>1. ChInv /\ RegInv
    BY ChStart, RegStart DEF Init
  <2>2. EngOK /\ WiredNow
    <3>1. NoRound \in Round /\ [status |-> "None", deadlineBlock |-> 0] \in Dispute
      BY DEF NoRound, Round, RoundStatus, Dispute, DisputeStatus
    <3> QED
      BY <3>1 DEF Init, EngInit, ResInit, EngOK, WiredNow
  <2>3. \A r \in RoundKeys, i \in LocalIndices : disputes[<<r, i>>].status = "None"
    BY DEF Init, ResInit, DisputeKeys
  <2>4. PendingMatchesOpen
    <3>1. \A r \in RoundKeys : OpenDisputes(r) = {}
      BY <2>3 DEF OpenDisputes
    <3> QED
      BY <3>1, FS_EmptySet DEF PendingMatchesOpen, Init, ResInit
  <2>5. SettledIsClean /\ SlashedIsVoid /\ UsedRounds
    BY <2>3 DEF SettledIsClean, SlashedIsVoid, UsedRounds, Init, EngInit
  <2> QED
    BY <2>1, <2>2, <2>4, <2>5 DEF IInv, CoreInv
<1>2. IInv /\ [Next]_vars => IInv'
  BY EveryStep
<1> QED
  BY <1>1, <1>2, PTL DEF Spec

\* All four contracts keep their types together: no amount or count underflows.
THEOREM TypeCorrect == Spec => []TypeOK
<1>1. IInv => TypeOK
  BY DEF IInv, ChInv, RegInv, CoreInv, EngOK, TypeOK
<1> QED
  BY <1>1, Inductive, PTL

\* pendingDisputeCount, which settleRound consults, counts the open disputes.
THEOREM CountIsExact == Spec => []PendingMatchesOpen
<1>1. IInv => PendingMatchesOpen
  BY DEF IInv, CoreInv
<1> QED
  BY <1>1, Inductive, PTL

\* With its resolver wired all along, the engine settles no round that has an
\* open dispute or whose provider is slashed for it.
THEOREM SettledStaysClean == Spec => []SettledIsClean
<1>1. IInv => SettledIsClean
  BY DEF IInv, CoreInv
<1> QED
  BY <1>1, Inductive, PTL

\* resolveExpiredDispute voids the round it slashes for, and nothing revives it.
THEOREM SlashedStaysVoid == Spec => []SlashedIsVoid
<1>1. IInv => SlashedIsVoid
  BY DEF IInv, CoreInv
<1> QED
  BY <1>1, Inductive, PTL

\* A round is paid by one drawn ticket or by fallback tickets, never by both.
THEOREM PaidOnlyOneWay == Spec => []PaidOneWay
<1>1. IInv => PaidOneWay
  <2> SUFFICES ASSUME IInv, NEW r \in RoundKeys
               PROVE  LET drawn == {t \in usedTickets : t.round = r}
                          fallback == {t \in usedFallbackTickets : t.round = r}
                      IN  /\ Cardinality(drawn) <= 1
                          /\ drawn = {} \/ fallback = {}
    BY DEF PaidOneWay
  <2> DEFINE drawn == {t \in usedTickets : t.round = r}
             fallback == {t \in usedFallbackTickets : t.round = r}
  <2>1. drawn = {} \/ fallback = {}
    BY DEF IInv, CoreInv, UsedRounds
  <2>2. drawn = {} \/ \E t : drawn = {t}
    BY DEF IInv, CoreInv, UsedRounds
  <2>3. Cardinality(drawn) = 0 \/ Cardinality(drawn) = 1
    BY <2>2, FS_EmptySet, FS_Singleton
  <2> HIDE DEF drawn, fallback
  <2>4. Cardinality(drawn) <= 1
    BY <2>3
  <2> QED
    BY <2>1, <2>4 DEF drawn, fallback
<1> QED
  BY <1>1, Inductive, PTL

\* With the resolver wired all along, no transaction changes the status of a
\* settled or voided round.
THEOREM OutcomeStaysFinal == Spec => OutcomeIsFinal
<1>1. IInv /\ [Next]_vars => [Final]_vars
  BY EveryStep
<1>2. OutcomeIsFinal <=> [][Final]_vars
  BY PTL DEF OutcomeIsFinal, Final
<1> QED
  BY <1>1, <1>2, Inductive, PTL DEF Spec
=============================================================================
