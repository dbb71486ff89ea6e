-------------------------- MODULE TransferManager --------------------------
(***************************************************************************)
(* The consumer's download of one content: the manifest is resolved from   *)
(* the first source that has it, the session file says which chunks are    *)
(* there already, the scheduler fetches the others, and each completed     *)
(* chunk is noted in the session file.  The process may stop at any step;  *)
(* the store and the session file stay, and the next process resumes.      *)
(***************************************************************************)
EXTENDS SwarmScheduler

CONSTANTS
    ContentID, NoSession,
    MaxRuns     \* bound on the processes started for this content

VARIABLES
    proc,       \* the process: its place, the source it resolves from, processes so far
    memory,     \* the session as the process has it
    session     \* the session file

vars == <<streamVars, schedVars, store, proc, memory, session>>
managerVars == <<memory, session>>

N == Len(ChunkIDs)

DownloadInit ==
    /\ StreamInit /\ SchedInit
    /\ proc = [pc |-> "off", peer |-> 0, runs |-> 0]
    /\ memory = NoSession /\ session = NoSession

Save(s) == memory' = s /\ session' = s

\* The process is gone: its goroutines, channels and streams with it.  The
\* write of a session or a chunk is a rename, so it happened or did not.
Exit ==
    /\ proc' = [proc EXCEPT !.pc = "off"]
    /\ queue' = <<>> /\ results' = <<>> /\ completions' = <<>>
    /\ workers' = [p \in Sources |-> Off]
    /\ run' = NotRunning
    /\ streams' = [p \in Sources |-> NoStream]
    /\ UNCHANGED <<replicas, mode, store>>

-----------------------------------------------------------------------------
(* The manifest *)

Start ==
    /\ proc.pc = "off" /\ proc.runs < MaxRuns
    /\ proc' = [pc |-> "dial", peer |-> 1, runs |-> proc.runs + 1]
    /\ memory' = NoSession
    /\ UNCHANGED <<streamVars, schedVars, store, session>>

\* ResolveManifest tries the sources in turn.
NextPeer == [proc EXCEPT !.pc = "dial", !.peer = @ + 1]

Dial ==
    /\ proc.pc = "dial" /\ proc.peer <= Len(Peers)
    /\ LET p == Peers[proc.peer]
       IN \/ /\ streams' = [streams EXCEPT ![p] = Write(OpenStream(p), BuildRequestManifest(ContentID))]
             /\ proc' = [proc EXCEPT !.pc = "resolve"]
             /\ UNCHANGED faults
          \/ Fault /\ proc' = NextPeer /\ UNCHANGED streams
    /\ UNCHANGED <<schedVars, store, managerVars, replicas, mode>>

ResolveManifest ==
    LET p == Peers[proc.peer]
        s == streams[p]
    IN /\ proc.pc = "resolve" /\ Readable(s)
       /\ streams' = [streams EXCEPT ![p] = Closed(s)]
       /\ proc' = IF Resolve(s, ContentID) /\ Head(s.toClient).Body.data.ok
                  THEN [proc EXCEPT !.pc = "open"] ELSE NextPeer
       /\ UNCHANGED <<schedVars, store, managerVars, replicas, mode, faults>>

NoManifestFound ==
    /\ proc.pc = "dial" /\ proc.peer > Len(Peers)
    /\ Exit
    /\ UNCHANGED <<managerVars, faults>>

-----------------------------------------------------------------------------
(* Download *)

\* Fault: a resumed session starts over.
Resumed_Anew(s) == [Status |-> "IN_PROGRESS", Completed |-> [i \in 1 .. N |-> FALSE]]

Resumed(s) == [s EXCEPT !.Status = "IN_PROGRESS"]

OpenSession ==
    /\ proc.pc = "open"
    /\ proc' = [proc EXCEPT !.pc = "plan"]
    /\ Save(IF session = NoSession
            THEN [Status |-> "IN_PROGRESS", Completed |-> [i \in 1 .. N |-> FALSE]]
            ELSE Resumed(session))
    /\ UNCHANGED <<streamVars, schedVars, store>>

HasChunk(i) == store[i] # NoChunk

PlanTasks ==
    LET done == [i \in 1 .. N |-> memory.Completed[i] \/ HasChunk(i)]
        tasks == SelectSeq([i \in 1 .. N |-> ChunkTask(i)], LAMBDA task : ~done[task.Index])
    IN /\ proc.pc = "plan"
       /\ IF tasks = <<>>
          THEN /\ Save([Status |-> "COMPLETED", Completed |-> done])
               /\ Exit
          ELSE /\ Save([memory EXCEPT !.Completed = done])
               /\ proc' = [proc EXCEPT !.pc = "progress"]
               /\ queue' = tasks
               /\ run' = [pc |-> "start", next |-> 1, pending |-> Len(tasks), active |-> 0]
               /\ UNCHANGED <<workers, results, completions, store, replicas, mode, streams>>
       /\ UNCHANGED faults

Progress ==
    /\ proc.pc = "progress" /\ completions # <<>>
    /\ completions' = Tail(completions)
    /\ Save([memory EXCEPT !.Completed[Head(completions)] = TRUE])
    /\ UNCHANGED <<streamVars, queue, workers, results, run, store, proc>>

\* Reassemble checks every chunk before it writes them in the order of their
\* headers.
Reassemble(chunks) ==
    IF \A i \in 1 .. N : chunks[i] = ChunkIDs[i] THEN chunks ELSE <<>>

\* The completions channel is closed and drained.  The consumer's process ends
\* after a download, whatever its workers are doing.
Finish ==
    /\ proc.pc = "progress" /\ completions = <<>> /\ run.pc \in {"ok", "failed"}
    /\ Save([memory EXCEPT !.Status = IF run.pc = "ok" THEN "COMPLETED" ELSE "FAILED"])
    /\ Exit
    /\ UNCHANGED faults

\* The process is stopped, or the user cancels the session of one that is over.
Crash ==
    /\ proc.pc # "off" /\ Fault /\ Exit
    /\ UNCHANGED managerVars

Cancel ==
    /\ proc.pc = "off" /\ session # NoSession /\ Fault
    /\ session' = NoSession
    /\ UNCHANGED <<replicas, mode, streams, schedVars, store, proc, memory>>

Manager ==
    Start \/ Dial \/ ResolveManifest \/ NoManifestFound \/ OpenSession \/ PlanTasks \/ Progress \/ Finish

Ended == proc.pc = "off" /\ proc.runs = MaxRuns /\ UNCHANGED vars

DownloadNext ==
    \/ Manager
    \/ Run /\ UNCHANGED <<proc, managerVars>>
    \/ \E p \in Sources : Worker(p) /\ UNCHANGED <<proc, managerVars>>
    \/ StreamNext /\ UNCHANGED <<schedVars, store, proc, managerVars>>
    \/ Crash
    \/ Cancel
    \/ Ended

\* Goroutines that can run do, and a message on a stream that stands arrives.
DownloadFairness ==
    /\ WF_vars(Manager)
    /\ WF_vars(Run /\ UNCHANGED <<proc, managerVars>>)
    /\ \A p \in Sources :
         /\ WF_vars(Worker(p) /\ UNCHANGED <<proc, managerVars>>)
         /\ WF_vars((handleStream(p) \/ endStream(p)) /\ UNCHANGED <<schedVars, store, proc, managerVars>>)

DownloadSpec == DownloadInit /\ [][DownloadNext]_vars /\ DownloadFairness

-----------------------------------------------------------------------------
(* Properties *)

Task == [Index : 1 .. N, Attempts : 0 .. MaxAttempts - 1, MissedPeers : SUBSET Sources]
Session == [Status : {"IN_PROGRESS", "COMPLETED", "FAILED"}, Completed : [1 .. N -> BOOLEAN]]

\* The queue, the workers, the results and the sessions keep their types.
DownloadTypeOK ==
    /\ queue \in Seq(Task)
    /\ \A p \in Sources :
         /\ workers[p].pc \in {"off", "next", "requeue", "ask", "wait", "put", "report", "done"}
         /\ workers[p].task \in Task \cup {NoTask}
    /\ \A j \in DOMAIN results : results[j].Task \in Task \cup {NoTask}
    /\ run.pending \in 0 .. N /\ run.active \in 0 .. Len(Peers)
    /\ {memory, session} \subseteq Session \cup {NoSession}

\* What is stored as a chunk is that chunk (FetchChunk's hash check), although
\* answers carry no request number, sources send corrupted data, and a refused
\* ticket puts the stream one answer behind.
StoredIsGenuine == \A i \in 1 .. N : store[i] \in {NoChunk, ChunkIDs[i]}


Held ==
    queue \o SelectSeq([j \in DOMAIN results |-> results[j].Task], LAMBDA t : t # NoTask)
          \o SelectSeq([j \in DOMAIN Peers |-> workers[Peers[j]].task], LAMBDA t : t # NoTask)

\* While Run goes on, every chunk that is not completed is in one place: the
\* queue, one worker, or the results (the queue's lock and the channel hand a
\* task over, they never copy or drop it).
TasksConserved ==
    run.pc \in {"start", "loop"} =>
        /\ Len(Held) = Cardinality({i \in 1 .. N : \E j \in DOMAIN Held : Held[j].Index = i})
        /\ Len(Held) = run.pending
        /\ \A j \in DOMAIN Held : Held[j].Index \notin ToSet(completions)

\* On a stream whose tickets are accepted the one answer under way is the answer
\* to the request that is waited for (the handler's wait for the ticket keeps the
\* two ends in step): a manifest for the resolver, a chunk or a miss for a worker.
InStep ==
    mode # "forged" => \A p \in Sources : streams[p].toClient # <<>> =>
        LET m == Head(streams[p].toClient)
        IN /\ Len(streams[p].toClient) = 1
           /\ \/ m.Type = "ERROR"
              \/ m.Type = "MANIFEST" /\ proc.pc = "resolve" /\ ValidateManifestForRequest(ContentID, m)
              \/ /\ DecodeExpectedFrame(m, "CHUNK") /\ At(p, "wait")
                 /\ ValidateChunkForRequest(ChunkOf(workers[p].task), m)
           /\ m.Type = "ERROR" /\ proc.pc = "progress" => At(p, "wait") /\ m.Body.code = "CHUNK_NOT_FOUND"

\* A message on a stream is read by ReadMessage exactly when the frame decoder
\* and the validation accept it: the three sets of limits agree.
ReadersAgree ==
    \A p \in Sources : \A m \in ToSet(streams[p].toServer) \cup ToSet(streams[p].toClient) :
        ReadMessage(m) <=> DecodeFrame(m) /\ ValidateMessage(m)

\* A chunk the consumer verified is paid for: its ticket is stored by the source
\* or on its way there, on every stream that was not reset.
TicketOnItsWay ==
    mode = "ticket" => \A p \in Sources :
        streams[p].owed = Len(SelectSeq(streams[p].toServer, LAMBDA m : m.Type = "TICKET"))

\* Stored chunks stay, and a session keeps what it completed (Open, Save) until
\* it is cancelled.
ProgressKept ==
    [][ /\ \A i \in 1 .. N : HasChunk(i) => store'[i] # NoChunk
        /\ NoSession \notin {session, session'} =>
               \A i \in 1 .. N : session.Completed[i] => session'.Completed[i] ]_vars

\* A chunk some source does not have is fetched from another (the scheduler's
\* "expected candidate miss in a partial-replica CDN"): without faults, a download
\* whose every chunk is at some source completes.
PartialReplicasSuffice ==
    [](faults = 0) =>
        (proc.pc = "open" /\ ToSet(ChunkIDs) \subseteq UNION {replicas[p].chunks : p \in Sources})
            ~> (session # NoSession /\ session.Status = "COMPLETED")

\* A download from sources that have every chunk comes to an end, whatever
\* streams are reset, chunks corrupted or tickets refused.
EveryDownloadEnds ==
    (proc.pc # "off" /\ \A p \in Sources : ToSet(ChunkIDs) \subseteq replicas[p].chunks)
        ~> proc.pc = "off"
=============================================================================
