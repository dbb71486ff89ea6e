--------------------------- MODULE ChallengeEpochs ---------------------------
(***************************************************************************)
(* The epochs of the availability challenges.  An epoch of a provider and  *)
(* a file holds the chunks it has not asked for yet; the contracts on the  *)
(* same pair share its latest epoch.  The operators give the epochs after  *)
(* a call; the calls themselves run under the locks of their callers.      *)
(***************************************************************************)
EXTENDS Integers, Sequences, SequencesExt, FiniteSets

CONSTANTS
    Providers,
    MaxEpochs       \* bound on epochs ever started

VARIABLES
    epochs,         \* every epoch ever started; an identifier is its index
    latest          \* provider -> its latest epoch for the file, or 0

epochVars == <<epochs, latest>>

EpochInit == epochs = <<>> /\ latest = [p \in Providers |-> 0]

Fresh(p, totalChunks) ==
    [ProviderID |-> p, TotalChunks |-> totalChunks, ChallengeCounter |-> 0,
     Uncovered |-> [i \in 1 .. totalChunks |-> i - 1], Status |-> "ACTIVE",
     RoundNumber |-> IF latest[p] = 0 THEN 0 ELSE epochs[latest[p]].RoundNumber + 1]

\* The epochs with a fresh one for p at the end, which ends the previous one.
CreateEpoch(p, totalChunks) ==
    Append([e \in DOMAIN epochs |->
                IF e = latest[p] THEN [epochs[e] EXCEPT !.Status = "ENDED"] ELSE epochs[e]],
           Fresh(p, totalChunks))

\* Fault: the selected chunk stays among the uncovered ones.
SelectUncoveredChunk_Kept(all, e, i) ==
    [all EXCEPT ![e] = [all[e] EXCEPT !.ChallengeCounter = all[e].ChallengeCounter + 1]]

\* The epochs after the i-th uncovered chunk of epoch e was selected.
SelectUncoveredChunk(all, e, i) ==
    [all EXCEPT ![e] = [all[e] EXCEPT !.ChallengeCounter = all[e].ChallengeCounter + 1,
                                      !.Uncovered = RemoveAt(all[e].Uncovered, i)]]

\* The total is read before the lock is taken again to create the epoch; it
\* is the same for every epoch of the pair.
StartNextEpoch(p) ==
    /\ latest[p] # 0 /\ Len(epochs) < MaxEpochs
    /\ epochs' = CreateEpoch(p, epochs[latest[p]].TotalChunks)
    /\ latest' = [latest EXCEPT ![p] = Len(epochs) + 1]
=============================================================================
