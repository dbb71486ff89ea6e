-------------------------- MODULE SwarmScheduler --------------------------
(***************************************************************************)
(* The swarm scheduler: a queue of chunk tasks, one worker per source that *)
(* could be connected, the bounded channel of their results, and the loop  *)
(* of Run that requeues, gives up or passes a completed chunk on.          *)
(*                                                                         *)
(* A worker's steps are separate wherever another goroutine can see the    *)
(* difference: taking a task, putting a missed one back, the request, the  *)
(* answer, the write to the store, and the send on the results channel,    *)
(* which blocks while the channel is full.  The context of a download is   *)
(* cancelled only by the end of the process.                               *)
(***************************************************************************)
EXTENDS ChunkStream, SequencesExt

CONSTANTS
    Peers,          \* the sources, in the order they were found
    MaxAttempts,    \* errors after which a chunk is given up
    NoTask

ASSUME SchedulerAssumption == MaxAttempts \in Nat \ {0}

VARIABLES
    queue,          \* tasks nobody is working on
    workers,        \* source -> its worker
    results,        \* the channel from the workers to Run
    run,            \* Run: its place, the tasks pending and the workers active
    completions,    \* the channel from Run to the transfer manager
    store           \* chunk -> what its stored data hashes to, NoChunk if none

schedVars == <<queue, workers, results, run, completions>>

ChunkTask(i) == [Index |-> i, Attempts |-> 0, MissedPeers |-> {}]
Off == [pc |-> "off", task |-> NoTask, err |-> ""]
NotRunning == [pc |-> "off", next |-> 0, pending |-> 0, active |-> 0]

SchedInit ==
    /\ queue = <<>> /\ results = <<>> /\ completions = <<>>
    /\ workers = [p \in Sources |-> Off]
    /\ run = NotRunning
    /\ store = [i \in DOMAIN ChunkIDs |-> NoChunk]

-----------------------------------------------------------------------------
(* Workers *)

At(p, pc) == workers[p].pc = pc
Go(p, pc, task, err) == workers' = [workers EXCEPT ![p] = [pc |-> pc, task |-> task, err |-> err]]
ChunkOf(task) == ChunkIDs[task.Index]

\* An empty queue ends the worker.
Next_(p) ==
    /\ At(p, "next")
    /\ IF queue = <<>>
       THEN Go(p, "done", NoTask, "worker_done") /\ UNCHANGED queue
       ELSE LET task == Head(queue)
            IN /\ queue' = Tail(queue)
               /\ Go(p, IF p \in task.MissedPeers THEN "requeue" ELSE "ask", task, "")
    /\ UNCHANGED <<results, run, completions, store, streamVars>>

Push(p) ==
    /\ At(p, "requeue")
    /\ queue' = Append(queue, workers[p].task)
    /\ Go(p, "next", NoTask, "")
    /\ UNCHANGED <<results, run, completions, store, streamVars>>

\* A request on a stream that was reset fails at once.
Request(p) ==
    LET task == workers[p].task
    IN /\ At(p, "ask")
       /\ IF streams[p].client = "open" THEN Go(p, "wait", task, "") ELSE Go(p, "report", task, "error")
       /\ streams' = [streams EXCEPT ![p] = Write(@, BuildRequestChunk(ChunkOf(task)))]
       /\ UNCHANGED <<queue, results, run, completions, store, replicas, mode, faults>>

Answer(p) ==
    LET task == workers[p].task
        result == FetchResult(streams[p], ChunkOf(task))
    IN /\ At(p, "wait") /\ Readable(streams[p])
       /\ streams' = [streams EXCEPT ![p] = FetchChunk(@, ChunkOf(task))]
       /\ CASE result = "ok" -> Go(p, "put", task, Head(streams[p].toClient).Body.hash)
            [] result = "missing" -> Go(p, "report", task, "missing")
            [] OTHER -> Go(p, "report", task, "error")
       /\ UNCHANGED <<queue, results, run, completions, store, replicas, mode, faults>>


StoreError == "error"

PutChunk(p) ==
    LET task == workers[p].task
    IN /\ At(p, "put")
       /\ \/ /\ store' = [store EXCEPT ![task.Index] = workers[p].err]
             /\ Go(p, "report", task, "")
             /\ UNCHANGED faults
          \/ Fault /\ Go(p, "report", task, StoreError) /\ UNCHANGED store
       /\ UNCHANGED <<queue, results, run, completions, replicas, mode, streams>>

Report(p) ==
    /\ workers[p].pc \in {"report", "done"}
    /\ Len(results) < 2 * Len(Peers)
    /\ results' = Append(results, [Task |-> workers[p].task, Error |-> workers[p].err, PeerID |-> p])
    /\ IF At(p, "done")
       THEN Go(p, "off", NoTask, "") /\ streams' = [streams EXCEPT ![p] = Closed(@)]
       ELSE Go(p, "next", NoTask, "") /\ UNCHANGED streams
    /\ UNCHANGED <<queue, run, completions, store, replicas, mode, faults>>

Worker(p) == Next_(p) \/ Push(p) \/ Request(p) \/ Answer(p) \/ PutChunk(p) \/ Report(p)

-----------------------------------------------------------------------------
(* Run *)

\* The sources are connected one after another while the workers that already
\* run take tasks.  A source that cannot be connected gets no worker.
StartWorker ==
    /\ run.pc = "start" /\ run.next <= Len(Peers)
    /\ LET p == Peers[run.next]
       IN \/ /\ streams[p] = NoStream
             /\ streams' = [streams EXCEPT ![p] = OpenStream(p)]
             /\ Go(p, "next", NoTask, "")
             /\ run' = [run EXCEPT !.next = @ + 1, !.active = @ + 1]
             /\ UNCHANGED faults
          \/ Fault /\ run' = [run EXCEPT !.next = @ + 1] /\ UNCHANGED <<streams, workers>>
    /\ UNCHANGED <<queue, results, completions, store, replicas, mode>>

WorkersStarted ==
    /\ run.pc = "start" /\ run.next > Len(Peers)
    /\ run' = [run EXCEPT !.pc = IF run.active = 0 THEN "failed" ELSE "loop"]
    /\ UNCHANGED <<queue, workers, results, completions, store, streamVars>>

\* Fault: a chunk that failed is left out instead of being queued again.
Requeued_Dropped(task) == queue

Requeued(task) == Append(queue, task)

Missed(res) == [res.Task EXCEPT !.MissedPeers = @ \cup {res.PeerID}]

\* Fault: the attempt is not counted.
Failed_Uncounted(res) == res.Task

Failed(res) == [res.Task EXCEPT !.Attempts = @ + 1]

MayRetry(task) == task.Attempts < MaxAttempts

WorkerDone == [run EXCEPT !.active = @ - 1]

Result ==
    LET res == Head(results)
        Retry(task, again) ==
            /\ queue' = IF again THEN Requeued(task) ELSE queue
            /\ run' = [run EXCEPT !.pc = IF again THEN "loop" ELSE "failed"]
            /\ UNCHANGED completions
    IN /\ run.pc = "loop" /\ run.pending > 0 /\ run.active > 0
       /\ results # <<>>
       /\ results' = Tail(results)
       /\ CASE res.Error = "worker_done" -> run' = WorkerDone /\ UNCHANGED <<queue, completions>>
            [] res.Error = "missing" ->
                 Retry(Missed(res), Cardinality(Missed(res).MissedPeers) < Len(Peers))
            [] res.Error = "error" -> Retry(Failed(res), MayRetry(Failed(res)))
            [] OTHER -> /\ completions' = Append(completions, res.Task.Index)
                        /\ run' = [run EXCEPT !.pending = @ - 1]
                        /\ UNCHANGED queue
       /\ UNCHANGED <<workers, store, streamVars>>

Outcome == IF run.pending > 0 THEN "failed" ELSE "ok"

LoopEnds ==
    /\ run.pc = "loop" /\ (run.pending = 0 \/ run.active = 0)
    /\ run' = [run EXCEPT !.pc = Outcome]
    /\ UNCHANGED <<queue, workers, results, completions, store, streamVars>>

Run == StartWorker \/ WorkersStarted \/ Result \/ LoopEnds
=============================================================================
