---------------------------- MODULE RequestStore ----------------------------
(***************************************************************************)
(* The store of active requests of the proof-of-request package, and the   *)
(* demand read from it.  A client's request enters with a proof of work,   *)
(* and leaves when a caller resolves or aborts it or when its own timer    *)
(* fires.  An action is one critical section of the store's mutex: a call  *)
(* of ResolveRequest or AbortRequest takes two of them, and stops the      *)
(* timer after the second.                                                 *)
(***************************************************************************)
EXTENDS WallClock, Sequences, FiniteSets

CONSTANTS
    Files, Clients,         \* identifiers a request may carry
    Callers,                \* goroutines that resolve and abort requests
    NoCall,
    Lifetimes,              \* lifetimes offered to GetOrCreateRequest
    Nonces, Difficulties,   \* proofs of work offered
    LeadingZeros(_, _, _, _), \* zeros the hash of client, file, time, nonce starts with
    MaxRecords              \* bound on requests ever created

ASSUME RequestAssumption ==
    /\ Lifetimes \subseteq Int /\ Nonces \subseteq Nat /\ Difficulties \subseteq Nat
    /\ MaxRecords \in Nat

VARIABLES
    record,     \* every requestRecord ever made; a pointer is its index
    timer,      \* the timer each of them started with
    requests,   \* the store: pointers, in the order of arrival
    call        \* caller -> its call of transitionRequest under way

requestVars == <<record, timer, requests, call>>

Terminal == {"resolved", "aborted", "expired"}

RequestInit ==
    record = <<>> /\ timer = <<>> /\ requests = <<>> /\ call = [p \in Callers |-> NoCall]

-----------------------------------------------------------------------------
(* Proof of work *)

VerifyPoW(client, file, time, pow) ==
    LeadingZeros(client, file, time, pow.Nonce) >= pow.Difficulty

\* The first nonce that will do; the search runs for ever when there is none.
GeneratePoW(client, file, time, difficulty) ==
    [Nonce |-> CHOOSE n \in Nonces :
                   /\ LeadingZeros(client, file, time, n) >= difficulty
                   /\ \A m \in Nonces : m < n => LeadingZeros(client, file, time, m) < difficulty,
     Difficulty |-> difficulty]

-----------------------------------------------------------------------------
(* Requests *)

CreateRequest(f, c) ==
    [FileID |-> f, ClientID |-> c, Timestamp |-> clock, Status |-> "pending"]

Active(f, c) ==
    {i \in DOMAIN requests : LET r == record[requests[i]]
                             IN  r.FileID = f /\ r.ClientID = c /\ r.Status = "pending"}

\* The first active request of the pair, if there is one.
Lookup(f, c) ==
    {requests[i] : i \in {k \in Active(f, c) : \A j \in Active(f, c) : k <= j}}

\* Fault: a new record starts without its timer.
Stored_NoTimer(req) ==
    /\ record' = Append(record, req) /\ timer' = Append(timer, "stopped")
    /\ requests' = Append(requests, Len(record) + 1)

Stored(req) ==
    /\ record' = Append(record, req) /\ timer' = Append(timer, "armed")
    /\ requests' = Append(requests, Len(record) + 1)

GetOrCreateRequest(f, c, lifetime) ==
    /\ lifetime > 0
    /\ IF Lookup(f, c) # {} THEN UNCHANGED <<record, timer, requests>>
       ELSE Len(record) < MaxRecords /\ Stored(CreateRequest(f, c))

\* A consumer's request, made at some earlier time, is tracked if the proof that
\* comes with it is one for that request.
ValidateAndTrackRequest(f, c, time, pow, lifetime) ==
    /\ VerifyPoW(c, f, time, pow)
    /\ GetOrCreateRequest(f, c, lifetime)
    /\ UNCHANGED <<clock, call>>

removeRecordLocked(target) == requests' = SelectSeq(requests, LAMBDA r : r # target)

\* Fault: the record keeps its place in the store.
transitionRecord_Kept(r, newStatus) ==
    /\ record' = [record EXCEPT ![r].Status =
                     IF record[r].Status = "pending" THEN newStatus ELSE @]
    /\ UNCHANGED requests

\* The critical section of transitionRecord.
transitionRecord(r, newStatus) ==
    IF record[r].Status # "pending" THEN UNCHANGED <<record, requests>>
    ELSE /\ record' = [record EXCEPT ![r].Status = newStatus]
         /\ removeRecordLocked(r)

\* ResolveRequest and AbortRequest, first section: find the active request.
transitionRequest(p, f, c, newStatus) ==
    /\ call[p] = NoCall
    /\ \E r \in Lookup(f, c) : call' = [call EXCEPT ![p] = [rec |-> r, to |-> newStatus, pc |-> "found"]]
    /\ UNCHANGED <<clock, record, timer, requests>>

\* Fault: the pair is looked up again instead of the record that was found.
transitionFound_Again(p) ==
    /\ call[p] # NoCall /\ call[p].pc = "found"
    /\ LET old == record[call[p].rec]
       IN  \E r \in Lookup(old.FileID, old.ClientID) : transitionRecord(r, call[p].to)
    /\ call' = [call EXCEPT ![p].pc = "stop"]
    /\ UNCHANGED <<clock, timer>>

\* Second section; the call returns when the record is no longer pending.
transitionFound(p) ==
    /\ call[p] # NoCall /\ call[p].pc = "found"
    /\ transitionRecord(call[p].rec, call[p].to)
    /\ call' = [call EXCEPT ![p] = IF record[call[p].rec].Status = "pending"
                                   THEN [call[p] EXCEPT !.pc = "stop"] ELSE NoCall]
    /\ UNCHANGED <<clock, timer>>

\* Stop has no effect on a timer whose function has started.
StopTimer(p) ==
    /\ call[p] # NoCall /\ call[p].pc = "stop"
    /\ timer' = [timer EXCEPT ![call[p].rec] = IF @ = "armed" THEN "stopped" ELSE @]
    /\ call' = [call EXCEPT ![p] = NoCall]
    /\ UNCHANGED <<clock, record, requests>>

\* The lifetime of a request ends, and its timer starts a goroutine.
TimerFires(r) ==
    /\ r \in DOMAIN timer /\ timer[r] = "armed"
    /\ timer' = [timer EXCEPT ![r] = "running"]
    /\ UNCHANGED <<clock, record, requests, call>>

expireRequest(r) ==
    /\ r \in DOMAIN timer /\ timer[r] = "running"
    /\ transitionRecord(r, "expired")
    /\ timer' = [timer EXCEPT ![r] = "done"]
    /\ UNCHANGED <<clock, call>>

RequestNext ==
    \/ \E f \in Files, c \in Clients, t, u \in 1..clock, d \in Difficulties, l \in Lifetimes :
           ValidateAndTrackRequest(f, c, t, GeneratePoW(c, f, u, d), l)
    \/ \E p \in Callers :
           \/ \E f \in Files, c \in Clients, s \in {"resolved", "aborted"} :
                 transitionRequest(p, f, c, s)
           \/ transitionFound(p) \/ StopTimer(p)
    \/ \E r \in 1..MaxRecords : TimerFires(r) \/ expireRequest(r)

\* The Go runtime fires a timer that is due and runs its goroutine, and a
\* mutex is not withheld from it for ever.
RequestFairness ==
    \A r \in 1..MaxRecords : WF_requestVars(TimerFires(r)) /\ WF_requestVars(expireRequest(r))

-----------------------------------------------------------------------------
(* Reading *)

GetPendingRequests == {r \in {requests[i] : i \in DOMAIN requests} : record[r].Status = "pending"}

CalculateDemand(f) ==
    Cardinality({i \in DOMAIN requests : /\ record[requests[i]].Status = "pending"
                                         /\ record[requests[i]].FileID = f})

\* The check of the validation package.
ValidateRequest(req) ==
    req.FileID # "" /\ req.ClientID # "" /\ req.Timestamp > 0 /\ req.Status = "pending"

-----------------------------------------------------------------------------
(* Properties *)

RequestTypeOK ==
    /\ clock \in 1..MaxTime
    /\ \A r \in DOMAIN record :
          /\ record[r].FileID \in Files /\ record[r].ClientID \in Clients
          /\ record[r].Timestamp \in 1..clock
          /\ record[r].Status \in {"pending"} \cup Terminal
          /\ timer[r] \in {"armed", "running", "stopped", "done"}
    /\ \A i \in DOMAIN requests : requests[i] \in DOMAIN record
    /\ \A p \in Callers : call[p] # NoCall => call[p].rec \in DOMAIN record

\* request.go:30-35: the store holds the pending requests and nothing else, each
\* once, whatever resolutions, aborts and timers overlapped; and a client counts once
\* in the demand for a file, however often its request is repeated, ended and made
\* anew (request.go:59-61).
StoreHoldsThePending ==
    /\ \A i, j \in DOMAIN requests : requests[i] = requests[j] => i = j
    /\ \A r \in DOMAIN record :
          record[r].Status = "pending" <=> \E i \in DOMAIN requests : requests[i] = r
    /\ \A r \in GetPendingRequests : ValidateRequest(record[r])
    /\ \A f \in Files :
          CalculateDemand(f) =
              Cardinality({record[r].ClientID : r \in {q \in GetPendingRequests : record[q].FileID = f}})

\* request.go:153-154, 120-122 and 236-239: "Resolved, Aborted, and Expired cannot
\* overwrite one another": a request ends once, although two callers and the timer
\* may hold it, and only through its own timer or a caller that found that very
\* request, never through an answer meant for an earlier one of the same pair.
EndsOnce ==
    [][\A r \in DOMAIN record : record'[r].Status # record[r].Status =>
          /\ record[r].Status = "pending"
          /\ \/ record'[r].Status = "expired" /\ timer[r] = "running"
             \/ \E p \in Callers : /\ call[p] # NoCall /\ call[p].rec = r
                                   /\ record'[r].Status = call[p].to]_requestVars

\* request.go:116-118: no request is pending for ever, even if nobody answers it
\* and nobody asks for the demand.
EveryRequestEnds ==
    \A r \in 1..MaxRecords :
        (r \in DOMAIN record /\ record[r].Status = "pending")
            ~> (r \in DOMAIN record /\ record[r].Status # "pending")
=============================================================================
