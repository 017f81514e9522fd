------------------------------ MODULE Autodump -------------------------------
(***************************************************************************)
(* The two automatic writers of a process's profile file                   *)
(* (src/src/autodump.rs): a detached ticker thread that dumps every so     *)
(* often, and an atexit destructor that dumps once.  Both run              *)
(* dump_capacity_stats (src/src/dump.rs) on the same destination, hence on *)
(* the same `<path>.tmp`.                                                  *)
(*                                                                         *)
(* Files are inodes: File::create truncates the inode a name has, or links *)
(* a new one; a write goes to the inode the writer opened, at its own      *)
(* offset, whatever names that inode has by then; rename moves a name.     *)
(* The registry is its number of observations, and a snapshot the number   *)
(* it was taken at.  A serialised snapshot takes Blocks writes, each of    *)
(* which leaves the snapshot's mark in its block.                          *)
(*                                                                         *)
(* The process may be killed at any point; the file system outlives it.    *)
(***************************************************************************)
EXTENDS Integers, Sequences

CONSTANTS
  Blocks,     \* writes that serialise one snapshot
  MaxData,    \* bound: observations made by the program
  MaxErrors,  \* bound: file-system errors met by the writers
  NoFile      \* a name without an inode, a writer without an open file

Writers == {"ticker", "dtor"}

\* Two names and two open files refer to at most four inodes.
Inodes == 1 .. 5

\* A block skipped by a write beyond the end of a truncated file.
Hole == -1

ASSUME AutodumpAssumption ==
  /\ Blocks \in Nat \ {0}
  /\ MaxData \in Nat
  /\ MaxErrors \in Nat
  /\ NoFile \notin Int

VARIABLES
  ticking,    \* the ticker was spawned: CAPTRACK_AUTODUMP_INTERVAL_MS # 0
  data,       \* observations in the registry
  proc,       \* "running", "exiting" (atexit handlers run) or "dead"
  dest, tmp,  \* inode of <path> and of <path>.tmp
  content,    \* blocks of each inode
  wpc,        \* where each writer is in dump_capacity_stats
  snapshot,   \* what each writer serialises
  fd, pos,    \* each writer's open inode and offset
  errors,     \* file-system errors met so far
  atExit,     \* history: observations made when the exit began
  published   \* history: the last snapshot a writer renamed into place

fileVars   == <<dest, tmp, content>>
writerVars == <<wpc, snapshot, fd, pos>>
vars == <<ticking, data, proc, fileVars, writerVars, errors, atExit, published>>

Goto(w, label) == wpc' = [wpc EXCEPT ![w] = label]

\* Some thread of the program makes an observation.  Threads other than
\* main still run while the exit handlers do.
Observe ==
  /\ proc # "dead"
  /\ data < MaxData
  /\ data' = data + 1
  /\ UNCHANGED <<ticking, proc, fileVars, writerVars, errors, atExit, published>>

(***************************************************************************)
(* dump_capacity_stats                                                     *)
(***************************************************************************)

\* The ticker's sleep is over, or the destructor is called.
MayDump(w) ==
  /\ wpc[w] = "rest"
  /\ \/ w = "ticker" /\ ticking /\ proc # "dead"
     \/ w = "dtor" /\ proc = "exiting"

Scan(w) ==
  /\ MayDump(w)
  /\ snapshot' = [snapshot EXCEPT ![w] = data]
  /\ Goto(w, "create")
  /\ UNCHANGED <<ticking, data, proc, fileVars, fd, pos, errors, atExit, published>>

\* Slip: the destination itself is opened and truncated.
CreateInPlace(w) ==
  /\ proc # "dead"
  /\ wpc[w] = "create"
  /\ LET i == IF dest # NoFile THEN dest ELSE 5
     IN  /\ content' = [content EXCEPT ![i] = <<>>]
         /\ dest' = i
         /\ fd' = [fd EXCEPT ![w] = i]
  /\ pos' = [pos EXCEPT ![w] = 0]
  /\ Goto(w, "write")
  /\ UNCHANGED <<ticking, data, proc, tmp, snapshot, errors, atExit, published>>

Unused == Inodes \ ({dest, tmp} \cup {fd[w] : w \in Writers})

\* File::create on the tmp name.
Create(w) ==
  /\ proc # "dead"
  /\ wpc[w] = "create"
  /\ LET i == IF tmp # NoFile THEN tmp ELSE CHOOSE j \in Unused : TRUE
     IN  /\ content' = [content EXCEPT ![i] = <<>>]
         /\ tmp' = i
         /\ fd' = [fd EXCEPT ![w] = i]
  /\ pos' = [pos EXCEPT ![w] = 0]
  /\ Goto(w, "write")
  /\ UNCHANGED <<ticking, data, proc, dest, snapshot, errors, atExit, published>>

\* A file's blocks after block k is written, a hole before it if need be.
Put(blocks, k, b) ==
  [i \in 1 .. (IF k > Len(blocks) THEN k ELSE Len(blocks)) |->
     IF i = k THEN b ELSE IF i <= Len(blocks) THEN blocks[i] ELSE Hole]

\* Slip: the serialiser does not stop at the end of the snapshot.
WriteOn(w) ==
  /\ proc # "dead"
  /\ wpc[w] = "write"
  /\ pos[w] <= Blocks
  /\ content' = [content EXCEPT ![fd[w]] = Put(@, pos[w] + 1, snapshot[w])]
  /\ pos' = [pos EXCEPT ![w] = @ + 1]
  /\ UNCHANGED <<ticking, data, proc, dest, tmp, wpc, snapshot, fd, errors, atExit, published>>

Write(w) ==
  /\ proc # "dead"
  /\ wpc[w] = "write"
  /\ pos[w] < Blocks
  /\ content' = [content EXCEPT ![fd[w]] = Put(@, pos[w] + 1, snapshot[w])]
  /\ pos' = [pos EXCEPT ![w] = @ + 1]
  /\ UNCHANGED <<ticking, data, proc, dest, tmp, wpc, snapshot, fd, errors, atExit, published>>

\* Slip: an error ends the ticker's loop.
ReturnForGood(w) ==
  /\ Goto(w, IF w = "dtor" \/ errors' # errors THEN "done" ELSE "rest")
  /\ fd' = [fd EXCEPT ![w] = NoFile]
  /\ UNCHANGED <<ticking, data, proc, snapshot, pos, atExit>>

\* The file is closed, and both writers swallow the result.
Return(w) ==
  /\ Goto(w, IF w = "dtor" THEN "done" ELSE "rest")
  /\ fd' = [fd EXCEPT ![w] = NoFile]
  /\ UNCHANGED <<ticking, data, proc, snapshot, pos, atExit>>

\* Slip: the last block is still in the writer's buffer.
RenameEarly(w) ==
  /\ proc # "dead"
  /\ wpc[w] = "write"
  /\ pos[w] = Blocks - 1
  /\ tmp # NoFile
  /\ dest' = tmp
  /\ tmp' = NoFile
  /\ published' = snapshot[w]
  /\ UNCHANGED <<content, errors>>
  /\ Return(w)

\* Whatever inode has the tmp name becomes the destination.
Rename(w) ==
  /\ proc # "dead"
  /\ wpc[w] = "write"
  /\ pos[w] = Blocks
  /\ tmp # NoFile
  /\ dest' = tmp
  /\ tmp' = NoFile
  /\ published' = snapshot[w]
  /\ UNCHANGED <<content, errors>>
  /\ Return(w)

\* The other writer renamed the tmp file away: rename finds no such file.
RenameMissing(w) ==
  /\ proc # "dead"
  /\ wpc[w] = "write"
  /\ pos[w] = Blocks
  /\ tmp = NoFile
  /\ UNCHANGED <<fileVars, errors, published>>
  /\ Return(w)

\* create_dir_all, File::create, a write or the rename fails: a full disk, a
\* lock held by an antivirus.  A partial tmp file is left where it is.
Fail(w) ==
  /\ proc # "dead"
  /\ wpc[w] \in {"create", "write"}
  /\ errors < MaxErrors
  /\ errors' = errors + 1
  /\ UNCHANGED <<fileVars, published>>
  /\ Return(w)

(***************************************************************************)
(* The process                                                             *)
(***************************************************************************)

\* main returns, and the exit handlers start.
Exit ==
  /\ proc = "running"
  /\ proc' = "exiting"
  /\ atExit' = data
  /\ UNCHANGED <<ticking, data, fileVars, writerVars, errors, published>>

\* The exit handlers are through; the detached ticker ends with the process.
Terminate ==
  /\ proc = "exiting"
  /\ wpc["dtor"] = "done"
  /\ proc' = "dead"
  /\ UNCHANGED <<ticking, data, fileVars, writerVars, errors, atExit, published>>

\* SIGKILL or TerminateProcess: no handler runs.
Kill ==
  /\ proc # "dead"
  /\ proc' = "dead"
  /\ UNCHANGED <<ticking, data, fileVars, writerVars, errors, atExit, published>>

-----------------------------------------------------------------------------
\* An earlier process may have left a complete profile, and the tmp file of
\* a longer one.
Init ==
  /\ ticking \in BOOLEAN
  /\ data = 0
  /\ proc = "running"
  /\ dest \in {NoFile, 1}
  /\ tmp \in {NoFile, 2}
  /\ content = [i \in Inodes |->
                  IF i = dest THEN [k \in 1 .. Blocks |-> 0]
                  ELSE IF i = tmp THEN [k \in 1 .. Blocks + 1 |-> Hole] ELSE <<>>]
  /\ wpc = [w \in Writers |-> "rest"]
  /\ snapshot = [w \in Writers |-> 0]
  /\ fd = [w \in Writers |-> NoFile]
  /\ pos = [w \in Writers |-> 0]
  /\ errors = 0
  /\ atExit = -1
  /\ published = IF dest = NoFile THEN -1 ELSE 0

Dump(w) ==
  Scan(w) \/ Create(w) \/ Write(w) \/ Rename(w) \/ RenameMissing(w)

Next ==
  \/ Observe
  \/ \E w \in Writers : Dump(w) \/ Fail(w)
  \/ Exit \/ Terminate \/ Kill

Spec == Init /\ [][Next]_vars

\* The ticker thread is scheduled for as long as the process lives.
FairSpec == Spec /\ WF_vars(Dump("ticker"))

-----------------------------------------------------------------------------
\* The values of the variables.
TypeOK ==
  /\ ticking \in BOOLEAN
  /\ data \in 0 .. MaxData
  /\ proc \in {"running", "exiting", "dead"}
  /\ dest \in Inodes \cup {NoFile}
  /\ tmp \in Inodes \cup {NoFile}
  /\ content \in [Inodes -> Seq(Hole .. MaxData)]
  /\ wpc \in [Writers -> {"rest", "create", "write", "done"}]
  /\ snapshot \in [Writers -> 0 .. MaxData]
  /\ fd \in [Writers -> Inodes \cup {NoFile}]
  /\ pos \in [Writers -> 0 .. Blocks]
  /\ errors \in 0 .. MaxErrors
  /\ atExit \in -1 .. MaxData
  /\ published \in -1 .. MaxData

\* A profile that parses: every block of it comes from snapshot v.
Holds(i, v) == content[i] = [k \in 1 .. Blocks |-> v]

Whole(i) == \E v \in 0 .. MaxData : Holds(i, v)

\* dump.rs:80-82, "the destination is either the prior tick or the new one,
\* never a half-written torso".
DestinationWhole == dest # NoFile => Whole(dest)

\* autodump.rs:7-12: until the exit begins, or for as long as there is no
\* ticker, the destination holds all of the snapshot published last, and
\* goes on doing so when the process is killed.
SnapshotSurvivesKill ==
  (~ticking \/ atExit = -1) /\ published >= 0 =>
    dest # NoFile /\ Holds(dest, published)

\* autodump.rs:14-16, "writes the final snapshot when the process exits
\* normally": unless a file operation failed, the profile left behind holds
\* what had been observed when the exit began.
FinalSnapshotKept ==
  (proc = "dead" /\ wpc["dtor"] = "done" /\ errors = 0) =>
    /\ dest # NoFile
    /\ \E v \in atExit .. MaxData : Holds(dest, v)

\* The same where the destructor is the only writer (autodump.rs:35-37).
FinalSnapshotKeptAlone == ~ticking => FinalSnapshotKept

\* autodump.rs:122-125, "the next tick re-attempts": while the program runs,
\* an observation reaches the destination in spite of failed attempts.
ObservationsReachDisk ==
  \A v \in 1 .. MaxData :
    ticking /\ data >= v ~> (proc # "running" \/ published >= v)
=============================================================================
