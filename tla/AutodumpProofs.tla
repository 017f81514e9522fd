---------------------------- MODULE AutodumpProofs ----------------------------
(***************************************************************************)
(* Proofs about module Autodump: for profiles of any length, any number of *)
(* observations and any number of file-system errors.                      *)
(***************************************************************************)
EXTENDS Autodump, TLAPS

USE DEF fileVars, writerVars, Goto

\* One writer at most: the ticker is not there, or the exit has not begun.
Alone == ~ticking \/ atExit = -1

\* What each writer may be at in each phase of the process, and that it has
\* a file open while it writes.
Phases ==
  /\ proc = "running" => atExit = -1
  /\ proc = "exiting" => atExit >= 0
  /\ atExit <= data
  /\ wpc["dtor"] # "rest" => atExit >= 0
  /\ ~ticking => wpc["ticker"] = "rest"
  /\ \A w \in Writers : wpc[w] = "write" <=> fd[w] # NoFile

\* A lone writer's file is the one named tmp, and holds what it has written.
Writing ==
  Alone => \A w \in Writers : wpc[w] = "write" =>
    /\ fd[w] = tmp
    /\ content[tmp] = [k \in 1 .. pos[w] |-> snapshot[w]]

\* With a lone writer, the destination is another file than tmp, and holds
\* what was published last.
Placed ==
  Alone =>
    /\ dest # NoFile => dest # tmp
    /\ IF published = -1 THEN dest = NoFile
       ELSE dest # NoFile /\ Holds(dest, published)

\* Without a ticker, the destructor publishes what the exit found, or more.
Final ==
  ~ticking =>
    /\ wpc["dtor"] \in {"create", "write"} => snapshot["dtor"] >= atExit
    /\ wpc["dtor"] = "done" /\ errors = 0 => published >= atExit

IInv == TypeOK /\ Phases /\ Writing /\ Placed /\ Final

-----------------------------------------------------------------------------
\* The constants as numbers.
LEMMA Constants ==
  /\ Blocks \in Nat /\ Blocks >= 1 /\ MaxData \in Nat /\ MaxErrors \in Nat
  /\ Hole = -1 /\ -1 # NoFile
  /\ NoFile \notin Inodes /\ Inodes = {1, 2, 3, 4, 5}
BY AutodumpAssumption DEF Inodes, Hole

\* There are two writers.
LEMMA TwoWriters ==
  /\ "ticker" \in Writers /\ "dtor" \in Writers
  /\ \A w \in Writers : w = "ticker" \/ w = "dtor"
BY DEF Writers

\* While it is alone, a writer under way is the only one under way.
LEMMA OtherRests ==
  ASSUME TypeOK, Phases, Alone, NEW w \in Writers, NEW u \in Writers,
         u # w, wpc[w] \in {"create", "write"}
  PROVE  wpc[u] \in {"rest", "done"}
BY TwoWriters DEF TypeOK, Phases, Alone

\* Five inodes suffice: one is neither named nor open.
LEMMA SpareInode ==
  ASSUME TypeOK, NEW w \in Writers, fd[w] = NoFile
  PROVE  Unused # {} /\ Unused \subseteq Inodes
<1>1. PICK u \in Writers : \A x \in Writers : x = w \/ x = u
  BY TwoWriters
<1>2. Unused = Inodes \ {dest, tmp, NoFile, fd[u]}
  <2>1. {fd[x] : x \in Writers} = {NoFile, fd[u]}
    BY <1>1
  <2> QED BY <2>1 DEF Unused
<1>3. \E i \in {1, 2, 3, 4, 5} : i \notin {dest, tmp, NoFile, fd[u]}
  <2>1. NoFile \notin {1, 2, 3, 4, 5}
    BY Constants
  <2> QED BY <2>1
<1> QED BY <1>2, <1>3, Constants

\* A block written right behind the others extends them.
LEMMA PutNext ==
  ASSUME NEW n \in Nat, NEW v
  PROVE  Put([k \in 1 .. n |-> v], n + 1, v) = [k \in 1 .. n + 1 |-> v]
<1>1. Len([k \in 1 .. n |-> v]) = n
  OBVIOUS
<1>2. n + 1 > n /\ \A i \in 1 .. n + 1 : i = n + 1 \/ i \in 1 .. n
  OBVIOUS
<1> QED BY <1>1, <1>2 DEF Put

\* A block written anywhere leaves blocks, and holes.
LEMMA PutType ==
  ASSUME NEW q \in Seq(Hole .. MaxData), NEW k \in Nat \ {0},
         NEW b \in Hole .. MaxData
  PROVE  Put(q, k, b) \in Seq(Hole .. MaxData)
<1> DEFINE n == IF k > Len(q) THEN k ELSE Len(q)
<1>1. n \in Nat /\ Len(q) \in Nat
  OBVIOUS
<1>2. Hole \in Hole .. MaxData
  BY Constants
<1>3. \A i \in 1 .. n :
        (IF i = k THEN b ELSE IF i <= Len(q) THEN q[i] ELSE Hole)
          \in Hole .. MaxData
  <2> TAKE i \in 1 .. n
  <2>1. CASE i = k
    BY <2>1
  <2>2. CASE i # k /\ i <= Len(q)
    <3>1. i \in 1 .. Len(q)
      BY <1>1, <2>2
    <3>2. \A S : q \in Seq(S) => q[i] \in S
      BY <3>1
    <3> QED BY <2>2, <3>2
  <2>3. CASE i # k /\ ~(i <= Len(q))
    BY <1>2, <2>3
  <2> QED BY <2>1, <2>2, <2>3
<1> QED BY <1>1, <1>3 DEF Put

\* The files there may be at the start.
LEMMA InitIInv == Init => IInv
<1> SUFFICES ASSUME Init PROVE IInv
  OBVIOUS
<1> USE Constants, TwoWriters
<1>1. \A i \in Inodes : content[i] \in Seq(Hole .. MaxData)
  <2>1. /\ [k \in 1 .. Blocks |-> 0] \in Seq(Hole .. MaxData)
        /\ [k \in 1 .. Blocks + 1 |-> Hole] \in Seq(Hole .. MaxData)
        /\ <<>> \in Seq(Hole .. MaxData)
    OBVIOUS
  <2> QED BY <2>1 DEF Init
<1>2. content \in [Inodes -> Seq(Hole .. MaxData)]
  BY <1>1 DEF Init
<1>3. dest \in Inodes \cup {NoFile} /\ tmp \in Inodes \cup {NoFile}
  BY DEF Init
<1>4. TypeOK
  BY <1>2, <1>3 DEF Init, TypeOK
<1>5. Phases
  BY DEF Init, Phases
<1>6. Writing
  BY DEF Init, Writing
<1>7. Placed
  <2>1. CASE dest = NoFile
    BY <2>1 DEF Init, Placed
  <2>2. CASE dest = 1
    BY <2>2 DEF Init, Placed, Holds
  <2> QED BY <2>1, <2>2 DEF Init
<1>8. Final
  BY DEF Init, Final
<1> QED BY <1>4, <1>5, <1>6, <1>7, <1>8 DEF IInv

\* A step that moves neither names, blocks nor open files.
LEMMA Undisturbed ==
  ASSUME IInv, UNCHANGED <<dest, tmp, content, fd, pos, published, ticking>>,
         TypeOK', Phases', Final',
         Alone' => Alone,
         \A w \in Writers : wpc'[w] = "write" =>
           wpc[w] = "write" /\ snapshot'[w] = snapshot[w]
  PROVE  IInv'
<1>1. Writing'
  BY DEF IInv, Writing
<1>2. Placed'
  BY DEF IInv, Placed, Holds
<1> QED BY <1>1, <1>2 DEF IInv
-----------------------------------------------------------------------------
\* A snapshot is of what has been observed by now.
LEMMA ScanKeeps ==
  ASSUME IInv, NEW w \in Writers, Scan(w)
  PROVE  IInv'
<1> USE Constants, TwoWriters
<1>1. /\ wpc' = [wpc EXCEPT ![w] = "create"]
      /\ snapshot' = [snapshot EXCEPT ![w] = data]
      /\ wpc[w] = "rest"
      /\ w = "ticker" => ticking
      /\ w = "dtor" => proc = "exiting"
      /\ UNCHANGED <<ticking, data, proc, dest, tmp, content, fd, pos, errors,
                     atExit, published>>
  BY DEF Scan, MayDump
<1>2. TypeOK'
  BY <1>1 DEF IInv, TypeOK
<1>3. Phases'
  BY <1>1 DEF IInv, Phases, TypeOK
<1>4. Final'
  BY <1>1 DEF IInv, Final, Phases, TypeOK
<1>5. \A u \in Writers : wpc'[u] = "write" =>
        wpc[u] = "write" /\ snapshot'[u] = snapshot[u]
  BY <1>1 DEF IInv, TypeOK
<1>6. Alone' => Alone
  BY <1>1 DEF Alone
<1> QED BY <1>1, <1>2, <1>3, <1>4, <1>5, <1>6, Undisturbed

\* File::create gives a lone writer an empty file of its own.
LEMMA CreateKeeps ==
  ASSUME IInv, NEW w \in Writers, Create(w)
  PROVE  IInv'
<1> USE Constants, TwoWriters
<1> DEFINE i == IF tmp # NoFile THEN tmp ELSE CHOOSE j \in Unused : TRUE
<1>1. /\ content' = [content EXCEPT ![i] = <<>>]
      /\ tmp' = i
      /\ fd' = [fd EXCEPT ![w] = i]
  BY DEF Create
<1>2. /\ wpc[w] = "create" /\ wpc' = [wpc EXCEPT ![w] = "write"]
      /\ pos' = [pos EXCEPT ![w] = 0]
      /\ UNCHANGED <<ticking, data, proc, dest, snapshot, errors, atExit,
                     published>>
  BY DEF Create
<1>3. fd[w] = NoFile
  BY <1>2 DEF IInv, Phases
<1>4. /\ i \in Inodes
      /\ IF tmp # NoFile THEN i = tmp ELSE i \in Unused
  <2>1. CASE tmp # NoFile
    BY <2>1 DEF IInv, TypeOK
  <2>2. CASE tmp = NoFile
    <3>1. Unused # {} /\ Unused \subseteq Inodes
      BY <1>3, SpareInode DEF IInv
    <3> QED BY <2>2, <3>1
  <2> QED BY <2>1, <2>2
<1> HIDE DEF i
<1>5. TypeOK'
  <2>1. <<>> \in Seq(Hole .. MaxData)
    OBVIOUS
  <2>2. content' \in [Inodes -> Seq(Hole .. MaxData)]
    BY <1>1, <1>4, <2>1 DEF IInv, TypeOK
  <2>3. fd' \in [Writers -> Inodes \cup {NoFile}]
    BY <1>1, <1>4 DEF IInv, TypeOK
  <2>4. /\ wpc' \in [Writers -> {"rest", "create", "write", "done"}]
        /\ pos' \in [Writers -> 0 .. Blocks]
    BY <1>2 DEF IInv, TypeOK
  <2> QED BY <1>1, <1>2, <1>4, <2>2, <2>3, <2>4 DEF IInv, TypeOK
<1>6. Phases'
  BY <1>1, <1>2, <1>4 DEF IInv, Phases, TypeOK
<1>7. Final'
  BY <1>2 DEF IInv, Final, TypeOK
<1>8. Writing'
  <2> SUFFICES ASSUME Alone, NEW u \in Writers, wpc'[u] = "write"
               PROVE  fd'[u] = i /\ content'[i] = [k \in 1 .. pos'[u] |-> snapshot[u]]
    <3>1. tmp' = i /\ snapshot' = snapshot /\ (Alone' <=> Alone)
      BY <1>1, <1>2 DEF Alone
    <3> QED BY <3>1 DEF Writing
  <2>1. u = w
    BY <1>2, OtherRests DEF IInv, TypeOK
  <2>2. fd'[w] = i /\ content'[i] = <<>> /\ pos'[w] = 0
    BY <1>1, <1>2, <1>4 DEF IInv, TypeOK
  <2>3. [k \in 1 .. 0 |-> snapshot[u]] = <<>>
    OBVIOUS
  <2> QED BY <2>1, <2>2, <2>3
<1>9. Placed'
  <2> SUFFICES ASSUME Alone PROVE Placed'
    BY <1>2 DEF Placed, Alone
  <2>1. dest # NoFile => dest # i
    BY <1>1, <1>4 DEF IInv, Placed, Unused
  <2>2. dest # NoFile => content'[dest] = content[dest]
    BY <1>1, <2>1 DEF IInv, TypeOK
  <2> QED BY <1>1, <1>2, <2>1, <2>2 DEF IInv, Placed, Holds
<1> QED BY <1>5, <1>6, <1>7, <1>8, <1>9 DEF IInv

\* A lone writer's block goes behind the others, and not into the destination.
LEMMA WriteKeeps ==
  ASSUME IInv, NEW w \in Writers, Write(w)
  PROVE  IInv'
<1> USE Constants, TwoWriters
<1> DEFINE i == fd[w]
<1>1. /\ wpc[w] = "write" /\ pos[w] < Blocks
      /\ content' = [content EXCEPT ![i] = Put(@, pos[w] + 1, snapshot[w])]
      /\ pos' = [pos EXCEPT ![w] = @ + 1]
      /\ UNCHANGED <<ticking, data, proc, dest, tmp, wpc, snapshot, fd, errors,
                     atExit, published>>
  BY DEF Write
<1>2. /\ i \in Inodes /\ pos[w] \in 0 .. Blocks /\ snapshot[w] \in 0 .. MaxData
      /\ content[i] \in Seq(Hole .. MaxData)
  BY <1>1 DEF IInv, TypeOK, Phases
<1>3. TypeOK'
  <2>1. Put(content[i], pos[w] + 1, snapshot[w]) \in Seq(Hole .. MaxData)
    <3>1. pos[w] + 1 \in Nat \ {0} /\ snapshot[w] \in Hole .. MaxData
      BY <1>2
    <3> HIDE DEF i
    <3> QED BY <1>2, <3>1, PutType
  <2>2. content' \in [Inodes -> Seq(Hole .. MaxData)]
    BY <1>1, <1>2, <2>1 DEF IInv, TypeOK
  <2>3. pos' \in [Writers -> 0 .. Blocks]
    <3>1. pos[w] + 1 \in 0 .. Blocks
      BY <1>1, <1>2
    <3>2. pos \in [Writers -> 0 .. Blocks]
      BY DEF IInv, TypeOK
    <3> QED BY <1>1, <3>1, <3>2
  <2> QED BY <1>1, <2>2, <2>3 DEF IInv, TypeOK
<1>4. Phases' /\ Final'
  BY <1>1 DEF IInv, Phases, Final
<1>5. Alone => /\ i = tmp
               /\ content[i] = [k \in 1 .. pos[w] |-> snapshot[w]]
               /\ \A u \in Writers : wpc[u] = "write" => u = w
  BY <1>1, OtherRests DEF IInv, Writing
<1>6. Writing'
  <2> SUFFICES ASSUME Alone
               PROVE  /\ i = tmp
                      /\ content'[tmp] = [k \in 1 .. pos'[w] |-> snapshot[w]]
    <3>1. Alone' <=> Alone
      BY <1>1 DEF Alone
    <3>2. tmp' = tmp /\ fd' = fd /\ wpc' = wpc /\ snapshot' = snapshot
      BY <1>1
    <3> QED BY <1>5, <3>1, <3>2 DEF Writing
  <2>1. Put(content[i], pos[w] + 1, snapshot[w])
          = [k \in 1 .. pos[w] + 1 |-> snapshot[w]]
    <3>1. pos[w] \in Nat
      BY <1>2
    <3>2. Put([k \in 1 .. pos[w] |-> snapshot[w]], pos[w] + 1, snapshot[w])
            = [k \in 1 .. pos[w] + 1 |-> snapshot[w]]
      BY <3>1, PutNext
    <3>3. content[i] = [k \in 1 .. pos[w] |-> snapshot[w]]
      BY <1>5
    <3> QED BY <3>2, <3>3
  <2>2. content'[i] = Put(content[i], pos[w] + 1, snapshot[w])
        /\ pos'[w] = pos[w] + 1
    BY <1>1, <1>2 DEF IInv, TypeOK
  <2> QED BY <1>5, <2>1, <2>2
<1>7. Placed'
  <2> SUFFICES ASSUME Alone PROVE Placed'
    BY <1>1 DEF Placed, Alone
  <2>1. dest # NoFile => content'[dest] = content[dest]
    BY <1>1, <1>2, <1>5 DEF IInv, Placed, TypeOK
  <2> QED BY <1>1, <2>1 DEF IInv, Placed, Holds
<1> QED BY <1>3, <1>4, <1>6, <1>7 DEF IInv

\* A lone writer publishes a whole snapshot.
LEMMA RenameKeeps ==
  ASSUME IInv, NEW w \in Writers, Rename(w)
  PROVE  IInv'
<1> USE Constants, TwoWriters
<1>1. /\ wpc[w] = "write" /\ pos[w] = Blocks /\ tmp # NoFile
      /\ dest' = tmp /\ tmp' = NoFile /\ published' = snapshot[w]
      /\ wpc' = [wpc EXCEPT ![w] = IF w = "dtor" THEN "done" ELSE "rest"]
      /\ fd' = [fd EXCEPT ![w] = NoFile]
      /\ UNCHANGED <<content, errors, ticking, data, proc, snapshot, pos, atExit>>
  BY DEF Rename, Return
<1>2. TypeOK'
  <2>1. published' \in -1 .. MaxData
    BY <1>1 DEF IInv, TypeOK
  <2>2. /\ wpc' \in [Writers -> {"rest", "create", "write", "done"}]
        /\ fd' \in [Writers -> Inodes \cup {NoFile}]
    BY <1>1 DEF IInv, TypeOK
  <2> QED BY <1>1, <2>1, <2>2 DEF IInv, TypeOK
<1>3. Phases'
  BY <1>1 DEF IInv, Phases, TypeOK
<1>4. Final'
  BY <1>1 DEF IInv, Final, Phases, TypeOK
<1>5. Writing'
  <2>1. Alone => \A u \in Writers : wpc'[u] # "write"
    BY <1>1, OtherRests DEF IInv, TypeOK
  <2> QED BY <1>1, <2>1 DEF Writing, Alone
<1>6. Placed'
  <2> SUFFICES ASSUME Alone PROVE Placed'
    BY <1>1 DEF Placed, Alone
  <2>1. content[tmp] = [k \in 1 .. Blocks |-> snapshot[w]]
    BY <1>1 DEF IInv, Writing
  <2>2. snapshot[w] # -1
    BY DEF IInv, TypeOK
  <2> QED BY <1>1, <2>1, <2>2 DEF Placed, Holds
<1> QED BY <1>2, <1>3, <1>4, <1>5, <1>6 DEF IInv

\* Nobody renames a lone writer's file away; an error leaves the names alone.
LEMMA GiveUpKeeps ==
  ASSUME IInv, NEW w \in Writers, RenameMissing(w) \/ Fail(w)
  PROVE  IInv'
<1> USE Constants, TwoWriters
<1>1. /\ wpc[w] \in {"create", "write"}
      /\ wpc' = [wpc EXCEPT ![w] = IF w = "dtor" THEN "done" ELSE "rest"]
      /\ fd' = [fd EXCEPT ![w] = NoFile]
      /\ UNCHANGED <<dest, tmp, content, published, ticking, data, proc,
                     snapshot, pos, atExit>>
      /\ errors' \in 0 .. MaxErrors /\ errors' >= errors
  <2>1. CASE RenameMissing(w)
    BY <2>1 DEF RenameMissing, Return, IInv, TypeOK
  <2>2. CASE Fail(w)
    BY <2>2 DEF Fail, Return, IInv, TypeOK
  <2> QED BY <2>1, <2>2
<1>2. Alone => errors' > errors
  <2>1. CASE Fail(w)
    BY <2>1 DEF Fail, IInv, TypeOK
  <2>2. CASE RenameMissing(w)
    <3>1. wpc[w] = "write" /\ tmp = NoFile
      BY <2>2 DEF RenameMissing
    <3> QED BY <3>1 DEF IInv, Writing, Phases
  <2> QED BY <2>1, <2>2
<1>3. TypeOK'
  BY <1>1 DEF IInv, TypeOK
<1>4. Phases'
  BY <1>1 DEF IInv, Phases, TypeOK
<1>5. Final'
  <2>1. ~ticking => errors' > errors /\ errors \in Nat /\ errors' \in Nat
    BY <1>1, <1>2 DEF IInv, TypeOK, Alone
  <2>2. wpc'["dtor"] \in {wpc["dtor"], "done"}
    BY <1>1 DEF IInv, TypeOK
  <2> QED BY <1>1, <2>1, <2>2 DEF IInv, Final
<1>6. Writing'
  <2>1. Alone => \A u \in Writers : wpc'[u] # "write"
    BY <1>1, OtherRests DEF IInv, TypeOK
  <2> QED BY <1>1, <2>1 DEF Writing, Alone
<1>7. Placed'
  BY <1>1 DEF IInv, Placed, Holds, Alone
<1> QED BY <1>3, <1>4, <1>5, <1>6, <1>7 DEF IInv

\* Observations, and the process's own steps.
LEMMA ProcessKeeps ==
  ASSUME IInv, Observe \/ Exit \/ Terminate \/ Kill \/ UNCHANGED vars
  PROVE  IInv'
<1> USE Constants, TwoWriters
<1>1. /\ UNCHANGED <<dest, tmp, content, fd, pos, wpc, snapshot, published,
                     ticking, errors>>
      /\ \/ UNCHANGED atExit
         \/ proc = "running" /\ proc' = "exiting" /\ atExit' = data /\ data' = data
      /\ data' \in 0 .. MaxData /\ data' >= data
  <2>1. data \in 0 .. MaxData
    BY DEF IInv, TypeOK
  <2>2. CASE Observe
    BY <2>1, <2>2 DEF Observe
  <2>3. CASE Exit
    BY <2>1, <2>3 DEF Exit
  <2>4. CASE Terminate
    BY <2>1, <2>4 DEF Terminate
  <2>5. CASE Kill
    BY <2>1, <2>5 DEF Kill
  <2>6. CASE UNCHANGED vars
    BY <2>1, <2>6 DEF vars
  <2> QED BY <2>2, <2>3, <2>4, <2>5, <2>6
<1>3. TypeOK'
  <2>1. proc' \in {"running", "exiting", "dead"} /\ atExit' \in -1 .. MaxData
    <3>1. /\ proc' \in {proc, "exiting", "dead"}
          /\ atExit' = atExit \/ atExit' = data
      BY <1>1 DEF Observe, Exit, Terminate, Kill, vars
    <3>2. data \in -1 .. MaxData
      BY DEF IInv, TypeOK
    <3> QED BY <3>1, <3>2 DEF IInv, TypeOK
  <2> QED BY <1>1, <2>1 DEF IInv, TypeOK
<1>4. Phases'
  <2>1. /\ proc' = "running" => proc = "running"
        /\ proc' = "exiting" => proc = "exiting" \/ atExit' = data
    BY <1>1 DEF Observe, Exit, Terminate, Kill, vars
  <2>2. atExit \in Int /\ data \in Nat /\ data' \in Nat
    BY <1>1 DEF IInv, TypeOK
  <2>3. atExit' <= data' /\ (atExit >= 0 => atExit' >= 0)
    BY <1>1, <2>2 DEF IInv, Phases
  <2> QED BY <1>1, <2>1, <2>2, <2>3 DEF IInv, Phases
<1>5. Final'
  BY <1>1 DEF IInv, Final, Phases, TypeOK
<1>6. Alone' => Alone
  BY <1>1 DEF Alone, IInv, Phases
<1> QED BY <1>1, <1>3, <1>4, <1>5, <1>6, Undisturbed

\* The inductive invariant of the two writers: until both may write, whatever
\* is open is tmp, and whatever is published is whole.
THEOREM Invariance == Spec => []IInv
<1>1. IInv /\ [Next]_vars => IInv'
  BY ScanKeeps, CreateKeeps, WriteKeeps, RenameKeeps, GiveUpKeeps, ProcessKeeps
     DEF Next, Dump
<1> QED BY <1>1, InitIInv, PTL DEF Spec

\* The variables of the writers keep their types, also when both write.
THEOREM TypeCorrect == Spec => []TypeOK
<1>1. IInv => TypeOK
  BY DEF IInv
<1> QED BY <1>1, Invariance, PTL

\* autodump.rs:7-12: as long as one writer is alone, the destination holds the
\* whole of what was published last, at every point at which the process may
\* be killed.
THEOREM SnapshotSurvivesKillHolds == Spec => []SnapshotSurvivesKill
<1>1. IInv => SnapshotSurvivesKill
  BY Constants DEF IInv, TypeOK, Placed, Alone, SnapshotSurvivesKill
<1> QED BY <1>1, Invariance, PTL

\* autodump.rs:14-16 and 35-37: without a ticker, and without a file-system
\* error, the process leaves what the exit found, or more.
THEOREM FinalSnapshotKeptAloneHolds == Spec => []FinalSnapshotKeptAlone
<1>1. IInv => FinalSnapshotKeptAlone
  <2> SUFFICES ASSUME IInv, ~ticking, wpc["dtor"] = "done", errors = 0
               PROVE  /\ dest # NoFile
                      /\ \E v \in atExit .. MaxData : Holds(dest, v)
    BY DEF FinalSnapshotKeptAlone, FinalSnapshotKept
  <2>1. /\ published >= atExit /\ atExit >= 0
        /\ published \in Int /\ published <= MaxData /\ atExit \in Int
    BY Constants DEF IInv, TypeOK, Final, Phases
  <2>2. dest # NoFile /\ Holds(dest, published)
    BY <2>1 DEF IInv, Placed, Alone
  <2>3. published \in atExit .. MaxData
    BY <2>1, Constants
  <2> QED BY <2>2, <2>3
<1> QED BY <1>1, Invariance, PTL
=============================================================================
