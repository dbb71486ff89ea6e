---------------------------- MODULE ChunkFiles ----------------------------
(***************************************************************************)
(* The chunk files of the providers' stores, as directory entries and the  *)
(* inodes they name.  PutChunk writes a temporary file and renames it; the *)
(* temporary name is made of the chunk and the process id, so every writer *)
(* of a chunk in one process has the same one.  os.Create truncates a file *)
(* that is there.  Writers of a chunk write the same bytes: a file is      *)
(* whole once the writer that truncated it last has written.               *)
(***************************************************************************)
EXTENDS Integers, Sequences, FiniteSets, FiniteSetsExt

CONSTANTS
    Providers,
    MaxChunks,      \* bound on the chunks of a file
    MaxStreams      \* bound on the streams, and so on the writers, of a provider

VARIABLES files     \* provider -> chunk -> its entries and inodes

Chunks == 1 .. MaxChunks
Inodes == 1 .. MaxStreams + 2

Blank == [last |-> 0, whole |-> FALSE]
NoFile == [tmp |-> 0, final |-> 0, inode |-> [i \in Inodes |-> Blank]]

HasChunk(p, k) == files[p][k].final # 0
Whole(p, k) == HasChunk(p, k) /\ files[p][k].inode[files[p][k].final].whole

\* The inode a writer gets, when open are those other writers have open.
Opened(f, open) == IF f.tmp # 0 THEN f.tmp ELSE Min(Inodes \ (open \cup {f.final}))

Create(f, w, open) ==
    LET i == Opened(f, open)
    IN  [f EXCEPT !.tmp = i, !.inode[i] = [last |-> w, whole |-> FALSE]]

\* Header, data, Sync and Close.
Write(f, w, i) ==
    [f EXCEPT !.inode[i] = IF f.inode[i].last = w THEN [last |-> 0, whole |-> TRUE] ELSE f.inode[i]]

\* Fault: the clean-up removes the chunk.
RemoveTmp_Final(f) == [f EXCEPT !.final = 0]

\* The clean-up after a write that failed.
RemoveTmp(f) == [f EXCEPT !.tmp = 0]

CanRename(f) == f.tmp # 0
Rename(f) == [f EXCEPT !.final = f.tmp, !.tmp = 0]

\* A new process has another id: temporary files of the old one stay unused.
Restarted(f) ==
    [f EXCEPT !.tmp = 0,
              !.inode = [i \in Inodes |-> IF i = f.final THEN [f.inode[i] EXCEPT !.last = 0] ELSE Blank]]
=============================================================================
