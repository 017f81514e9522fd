---------------------------- MODULE LintRunProofs ----------------------------
(***************************************************************************)
(* Proofs about modules LintRun and Measure: for every set of sources and  *)
(* of benches, whatever profiles they dump, and any number of lint runs,   *)
(* reverts, measures, edits, failures and early ends, in any order.        *)
(***************************************************************************)
EXTENDS Measure, TLAPS

Whole(o) == saved[o] \notin {NoManifest, Torn}
SameOwner(c, d) == c.text = d.text
SameWraps(c, d) == ("wrapped" \in c.marks) <=> ("wrapped" \in d.marks)

\* Which command is in which phase, and what is known of its end.
Control ==
  /\ cmd = "none" <=> phase = "none"
  /\ phase = "hashes" => cmd = "instrument"
  /\ phase # "none" => result = "none"

\* Between snapshot and diff only marks come and go; apply does not wrap.
SnapshotTrue ==
  phase = "fix" =>
    \A f \in Sources \ raced :
      /\ SameOwner(before[f], src[f])
      /\ cmd = "apply" => SameWraps(before[f], src[f])

\* What holds between snapshot and diff holds of what a manifest records.
SavedTrue ==
  \A o \in Ops : Whole(o) =>
    \A f \in DOMAIN saved[o] \ raced :
      /\ SameOwner(saved[o][f].before, saved[o][f].after)
      /\ o = "apply" => SameWraps(saved[o][f].before, saved[o][f].after)

\* A file yet to be restored is still as the verification found it.
TodoTrue ==
  phase = "restore" =>
    /\ Whole(cmd)
    /\ todo \subseteq DOMAIN saved[cmd]
    /\ \A f \in todo \ raced : AsLeft(cmd, f)

\* A manifest that is paired covers every source that is wrapped, and a
\* revert of it has those before it that it has not restored.
PairedTrue ==
  paired =>
    /\ Whole("instrument")
    /\ \A f \in DOMAIN saved["instrument"] :
         "wrapped" \notin saved["instrument"][f].before.marks
    /\ ~(cmd = "instrument" /\ phase = "fix")
    /\ \A f \in Sources \ raced :
         "wrapped" \in src[f].marks =>
           /\ f \in DOMAIN saved["instrument"]
           /\ cmd = "instrument" /\ phase = "restore" => f \in todo
           /\ result # "uninstrumented"

IInv == TypeOK /\ Control /\ SnapshotTrue /\ SavedTrue /\ TodoTrue /\ PairedTrue

\* What a step of Next is, one case per action.
LEMMA Steps ==
  ASSUME TypeOK, Next
  PROVE  \/ BeginInstrument \/ RefuseStale \/ FixFails \/ SaveManifest
         \/ SaveHashes \/ EndUndo \/ Stop
         \/ \E force \in BOOLEAN : BeginApply(force)
         \/ \E o \in Ops : BeginUndo(o) \/ RefuseUndo(o)
         \/ \E f \in Sources : Fix(f) \/ Restore(f) \/ Edit(f)
BY DEF Next, Command, Step, Owner, Undo, Uninstrument, TypeOK, Ops

\* A manifest holds entries of sources.
LEMMA DiffType ==
  ASSUME TypeOK
  PROVE  Changed \in SUBSET Sources /\ Diff \in [Changed -> Entry]
<1>1. \A f \in Sources : src[f] \in Content /\ before[f] \in Content
  BY DEF TypeOK
<1> QED
  BY <1>1 DEF Changed, Diff, Entry

\* The variables keep their types.
LEMMA KeepsTypeOK ==
  ASSUME IInv, [Next]_vars
  PROVE  TypeOK'
<1> USE DEF IInv
<1>1. ASSUME BeginInstrument PROVE TypeOK'
  BY <1>1 DEF BeginInstrument, Snapshot, TypeOK, history, Ops
<1>2. ASSUME NEW force \in BOOLEAN, BeginApply(force) PROVE TypeOK'
  BY <1>2 DEF BeginApply, Snapshot, TypeOK, history, Ops
<1>3. ASSUME RefuseStale PROVE TypeOK'
  BY <1>3 DEF RefuseStale, Finish, Blank, TypeOK, history, Content
<1>4. ASSUME NEW f \in Sources, Fix(f) PROVE TypeOK'
  BY <1>4 DEF Fix, MarkOf, TypeOK, history, Content, Marks
<1>5. ASSUME FixFails PROVE TypeOK'
  BY <1>5 DEF FixFails, Finish, Blank, TypeOK, history, Content
<1>6. ASSUME SaveManifest PROVE TypeOK'
  <2> USE <1>6
  <2>1. cmd \in Ops BY DEF IInv, TypeOK, Control, SaveManifest
  <2>2. Diff \in [Changed -> Entry] /\ Changed \in SUBSET Sources
    BY DiffType
  <2>3. /\ DOMAIN saved' = Ops
        /\ \A o \in Ops : saved'[o] = IF o = cmd THEN Diff ELSE saved[o]
    BY <2>1 DEF SaveManifest, TypeOK
  <2>4. \A o \in Ops : \/ saved'[o] \in {NoManifest, Torn}
                       \/ \E S \in SUBSET Sources : saved'[o] \in [S -> Entry]
    BY <2>2, <2>3 DEF TypeOK
  <2>5. Blank \in [Sources -> Content] BY DEF Blank, Content, Marks
  <2>6. /\ before' \in [Sources -> Content] /\ todo' \in SUBSET Sources
        /\ phase' \in {"none", "fix", "hashes", "restore"}
     BY <2>5 DEF SaveManifest, TypeOK, Finish
  <2> QED
    BY <2>1, <2>3, <2>4, <2>6
      DEF SaveManifest, IInv, TypeOK, Finish, history, Ops
<1>7. ASSUME SaveHashes PROVE TypeOK'
  BY <1>7 DEF SaveHashes, Finish, Blank, TypeOK, Content
<1>8. ASSUME NEW o \in Ops, BeginUndo(o) PROVE TypeOK'
  BY <1>8 DEF BeginUndo, TypeOK, history
<1>9. ASSUME NEW o \in Ops, RefuseUndo(o) PROVE TypeOK'
  BY <1>9 DEF RefuseUndo, Finish, Blank, TypeOK, history, Content
<1>10. ASSUME NEW f \in Sources, Restore(f) PROVE TypeOK'
  BY <1>10 DEF Restore, TypeOK, Control, TodoTrue, history, Entry, Whole
<1>11. ASSUME EndUndo PROVE TypeOK'
  BY <1>11 DEF EndUndo, Finish, Blank, TypeOK, history, Content
<1>12. ASSUME Stop PROVE TypeOK'
  <2> USE <1>12
  <2>1. phase = "fix" => cmd \in Ops BY DEF IInv, TypeOK, Control
  <2>3. DOMAIN saved' = Ops /\ \A o \in Ops : saved'[o] \in {saved[o], Torn}
    BY <2>1 DEF Stop, TypeOK
  <2>4. \A o \in Ops : \/ saved'[o] \in {NoManifest, Torn}
                       \/ \E S \in SUBSET Sources : saved'[o] \in [S -> Entry]
    BY <2>3 DEF TypeOK
  <2>5. Blank \in [Sources -> Content] BY DEF Blank, Content, Marks
  <2> QED BY <2>1, <2>3, <2>4, <2>5 DEF Stop, IInv, TypeOK, Finish, Ops
<1>13. ASSUME NEW f \in Sources, Edit(f) PROVE TypeOK'
  BY <1>13 DEF Edit, TypeOK, SnapshotTrue, Content, Entry
<1>20. CASE UNCHANGED vars
  BY <1>20 DEF vars, TypeOK
<1> QED
  BY <1>1, <1>2, <1>3, <1>4, <1>5, <1>6, <1>7, <1>8, <1>9, <1>10, <1>11, <1>12,
     <1>13, <1>20, Steps

\* The phases follow each other.
LEMMA KeepsControl ==
  ASSUME IInv, [Next]_vars
  PROVE  Control'
<1> USE DEF IInv
<1>1. ASSUME BeginInstrument PROVE Control'
  BY <1>1 DEF BeginInstrument, Snapshot, Control
<1>2. ASSUME NEW force \in BOOLEAN, BeginApply(force) PROVE Control'
  BY <1>2 DEF BeginApply, Snapshot, Control
<1>3. ASSUME RefuseStale PROVE Control'
  BY <1>3 DEF RefuseStale, Finish, Control
<1>4. ASSUME NEW f \in Sources, Fix(f) PROVE Control'
  BY <1>4 DEF Fix, Control
<1>5. ASSUME FixFails PROVE Control'
  BY <1>5 DEF FixFails, Finish, Control
<1>6. ASSUME SaveManifest PROVE Control'
  BY <1>6 DEF SaveManifest, Finish, Control
<1>7. ASSUME SaveHashes PROVE Control'
  BY <1>7 DEF SaveHashes, Finish, Control
<1>8. ASSUME NEW o \in Ops, BeginUndo(o) PROVE Control'
  BY <1>8 DEF BeginUndo, Control, Ops
<1>9. ASSUME NEW o \in Ops, RefuseUndo(o) PROVE Control'
  BY <1>9 DEF RefuseUndo, Finish, Control
<1>10. ASSUME NEW f \in Sources, Restore(f) PROVE Control'
  BY <1>10 DEF Restore, Control
<1>11. ASSUME EndUndo PROVE Control'
  BY <1>11 DEF EndUndo, Finish, Control
<1>12. ASSUME Stop PROVE Control'
  BY <1>12 DEF Stop, Finish, Control
<1>13. ASSUME NEW f \in Sources, Edit(f) PROVE Control'
  BY <1>13 DEF Edit, Control
<1>20. CASE UNCHANGED vars
  BY <1>20 DEF vars, Control
<1> QED
  BY <1>1, <1>2, <1>3, <1>4, <1>5, <1>6, <1>7, <1>8, <1>9, <1>10, <1>11, <1>12,
     <1>13, <1>20, Steps

\* Whoever writes between snapshot and diff is in raced.
LEMMA KeepsSnapshotTrue ==
  ASSUME IInv, [Next]_vars
  PROVE  SnapshotTrue'
<1> USE DEF IInv
<1>1. ASSUME BeginInstrument PROVE SnapshotTrue'
  BY <1>1 DEF BeginInstrument, Snapshot, SnapshotTrue, SameOwner
<1>2. ASSUME NEW force \in BOOLEAN, BeginApply(force) PROVE SnapshotTrue'
  BY <1>2 DEF BeginApply, Snapshot, SnapshotTrue, SameOwner, SameWraps
<1>3. ASSUME RefuseStale PROVE SnapshotTrue'
  BY <1>3 DEF RefuseStale, Finish, SnapshotTrue
<1>4. ASSUME NEW f \in Sources, Fix(f) PROVE SnapshotTrue'
  BY <1>4 DEF Fix, MarkOf, SnapshotTrue, history, SameOwner, SameWraps
<1>5. ASSUME FixFails PROVE SnapshotTrue'
  BY <1>5 DEF FixFails, Finish, SnapshotTrue
<1>6. ASSUME SaveManifest PROVE SnapshotTrue'
  BY <1>6 DEF SaveManifest, Finish, SnapshotTrue
<1>7. ASSUME SaveHashes PROVE SnapshotTrue'
  BY <1>7 DEF SaveHashes, Finish, SnapshotTrue
<1>8. ASSUME NEW o \in Ops, BeginUndo(o) PROVE SnapshotTrue'
  BY <1>8 DEF BeginUndo, SnapshotTrue
<1>9. ASSUME NEW o \in Ops, RefuseUndo(o) PROVE SnapshotTrue'
  BY <1>9 DEF RefuseUndo, Finish, SnapshotTrue
<1>10. ASSUME NEW f \in Sources, Restore(f) PROVE SnapshotTrue'
  BY <1>10 DEF Restore, SnapshotTrue
<1>11. ASSUME EndUndo PROVE SnapshotTrue'
  BY <1>11 DEF EndUndo, Finish, SnapshotTrue
<1>12. ASSUME Stop PROVE SnapshotTrue'
  BY <1>12 DEF Stop, Finish, SnapshotTrue
<1>13. ASSUME NEW f \in Sources, Edit(f) PROVE SnapshotTrue'
  BY <1>13 DEF Edit, SnapshotTrue, TypeOK, Control
<1>20. CASE UNCHANGED vars
  BY <1>20 DEF vars, SnapshotTrue
<1> QED
  BY <1>1, <1>2, <1>3, <1>4, <1>5, <1>6, <1>7, <1>8, <1>9, <1>10, <1>11, <1>12,
     <1>13, <1>20, Steps

\* A manifest is written from a true snapshot.
LEMMA KeepsSavedTrue ==
  ASSUME IInv, [Next]_vars
  PROVE  SavedTrue'
<1> USE DEF IInv
<1>1. ASSUME BeginInstrument PROVE SavedTrue'
  BY <1>1 DEF BeginInstrument, Snapshot, SavedTrue, history, Whole
<1>2. ASSUME NEW force \in BOOLEAN, BeginApply(force) PROVE SavedTrue'
  BY <1>2 DEF BeginApply, Snapshot, SavedTrue, history, Whole
<1>3. ASSUME RefuseStale PROVE SavedTrue'
  BY <1>3 DEF RefuseStale, SavedTrue, history, Whole
<1>4. ASSUME NEW f \in Sources, Fix(f) PROVE SavedTrue'
  BY <1>4 DEF Fix, SavedTrue, history, Whole
<1>5. ASSUME FixFails PROVE SavedTrue'
  BY <1>5 DEF FixFails, SavedTrue, history, Whole
<1>6. ASSUME SaveManifest PROVE SavedTrue'
  BY <1>6
    DEF SaveManifest, Changed, Diff, SavedTrue, SnapshotTrue, history, Whole
<1>7. ASSUME SaveHashes PROVE SavedTrue'
  BY <1>7 DEF SaveHashes, SavedTrue, Whole
<1>8. ASSUME NEW o \in Ops, BeginUndo(o) PROVE SavedTrue'
  BY <1>8 DEF BeginUndo, SavedTrue, history, Whole
<1>9. ASSUME NEW o \in Ops, RefuseUndo(o) PROVE SavedTrue'
  BY <1>9 DEF RefuseUndo, SavedTrue, history, Whole
<1>10. ASSUME NEW f \in Sources, Restore(f) PROVE SavedTrue'
  BY <1>10 DEF Restore, SavedTrue, history, Whole
<1>11. ASSUME EndUndo PROVE SavedTrue'
  BY <1>11 DEF EndUndo, SavedTrue, history, Whole
<1>12. ASSUME Stop PROVE SavedTrue'
  BY <1>12 DEF Stop, SavedTrue, TypeOK, Whole
<1>13. ASSUME NEW f \in Sources, Edit(f) PROVE SavedTrue'
  BY <1>13 DEF Edit, SavedTrue, Whole
<1>20. CASE UNCHANGED vars
  BY <1>20 DEF vars, SavedTrue, Whole
<1> QED
  BY <1>1, <1>2, <1>3, <1>4, <1>5, <1>6, <1>7, <1>8, <1>9, <1>10, <1>11, <1>12,
     <1>13, <1>20, Steps

\* A file is restored once, and only as it was verified.
LEMMA KeepsTodoTrue ==
  ASSUME IInv, [Next]_vars
  PROVE  TodoTrue'
<1> USE DEF IInv
<1>1. ASSUME BeginInstrument PROVE TodoTrue'
  BY <1>1 DEF BeginInstrument, Snapshot, TodoTrue
<1>2. ASSUME NEW force \in BOOLEAN, BeginApply(force) PROVE TodoTrue'
  BY <1>2 DEF BeginApply, Snapshot, TodoTrue
<1>3. ASSUME RefuseStale PROVE TodoTrue'
  BY <1>3 DEF RefuseStale, Finish, TodoTrue
<1>4. ASSUME NEW f \in Sources, Fix(f) PROVE TodoTrue'
  BY <1>4 DEF Fix, TodoTrue
<1>5. ASSUME FixFails PROVE TodoTrue'
  BY <1>5 DEF FixFails, Finish, TodoTrue
<1>6. ASSUME SaveManifest PROVE TodoTrue'
  BY <1>6 DEF SaveManifest, Finish, TodoTrue
<1>7. ASSUME SaveHashes PROVE TodoTrue'
  BY <1>7 DEF SaveHashes, Finish, TodoTrue
<1>8. ASSUME NEW o \in Ops, BeginUndo(o) PROVE TodoTrue'
  BY <1>8 DEF BeginUndo, TodoTrue, AsLeft, Whole
<1>9. ASSUME NEW o \in Ops, RefuseUndo(o) PROVE TodoTrue'
  BY <1>9 DEF RefuseUndo, Finish, TodoTrue
<1>10. ASSUME NEW f \in Sources, Restore(f) PROVE TodoTrue'
  BY <1>10 DEF Restore, TodoTrue, history, AsLeft, Whole
<1>11. ASSUME EndUndo PROVE TodoTrue'
  BY <1>11 DEF EndUndo, Finish, TodoTrue
<1>12. ASSUME Stop PROVE TodoTrue'
  BY <1>12 DEF Stop, Finish, TodoTrue
<1>13. ASSUME NEW f \in Sources, Edit(f) PROVE TodoTrue'
  BY <1>13 DEF Edit, TodoTrue, TypeOK, Control, AsLeft, Whole
<1>20. CASE UNCHANGED vars
  BY <1>20 DEF vars, TodoTrue, Whole, AsLeft
<1> QED
  BY <1>1, <1>2, <1>3, <1>4, <1>5, <1>6, <1>7, <1>8, <1>9, <1>10, <1>11, <1>12,
     <1>13, <1>20, Steps

\* Nothing wraps a source behind the back of a paired manifest.
LEMMA KeepsPairedTrue ==
  ASSUME IInv, [Next]_vars
  PROVE  PairedTrue'
<1> USE DEF IInv
<1>1. ASSUME BeginInstrument PROVE PairedTrue'
  BY <1>1 DEF BeginInstrument, PairedTrue
<1>2. ASSUME NEW force \in BOOLEAN, BeginApply(force) PROVE PairedTrue'
  BY <1>2 DEF BeginApply, Snapshot, PairedTrue, history, Whole
<1>3. ASSUME RefuseStale PROVE PairedTrue'
  BY <1>3 DEF RefuseStale, Finish, PairedTrue, history, Whole
<1>4. ASSUME NEW f \in Sources, Fix(f) PROVE PairedTrue'
  BY <1>4 DEF Fix, MarkOf, PairedTrue, history, Whole
<1>5. ASSUME FixFails PROVE PairedTrue'
  BY <1>5 DEF FixFails, Finish, PairedTrue, history, Whole
<1>6. ASSUME SaveManifest PROVE PairedTrue'
  <2> USE <1>6
  <2>1. cmd \in Ops /\ DOMAIN saved = Ops
    BY DEF IInv, TypeOK, Control, SaveManifest
  <2>2. CASE cmd = "apply"
    <3>1. /\ saved'["instrument"] = saved["instrument"] /\ paired' = paired
          /\ src' = src /\ raced' = raced /\ cmd' = "none"
      BY <2>1, <2>2 DEF SaveManifest, Finish, history
    <3>2. result' = "applied" /\ phase' = "none"
      BY <2>2 DEF SaveManifest, Finish
    <3> QED BY <3>1, <3>2, <2>2 DEF IInv, PairedTrue, Whole
  <2>3. CASE cmd = "instrument"
    <3>1. /\ saved'["instrument"] = Diff /\ phase' = "hashes"
          /\ src' = src /\ result' = result
          /\ paired' = (\A f \in Sources : "wrapped" \notin before[f].marks)
      BY <2>1, <2>3 DEF SaveManifest
    <3>2. Diff \notin {NoManifest, Torn}
      BY DiffType, LintRunAssumption
    <3>3. /\ DOMAIN Diff = Changed
          /\ \A f \in Changed : f \in Sources /\ Diff[f].before = before[f]
      BY DEF Diff, Changed
    <3>4. result = "none"
      BY DEF IInv, Control, SaveManifest
    <3> QED BY <3>1, <3>2, <3>3, <3>4 DEF PairedTrue, Whole, Changed
  <2> QED BY <2>1, <2>2, <2>3 DEF Ops
<1>7. ASSUME SaveHashes PROVE PairedTrue'
  BY <1>7 DEF SaveHashes, Finish, PairedTrue, Whole
<1>8. ASSUME NEW o \in Ops, BeginUndo(o) PROVE PairedTrue'
  BY <1>8 DEF BeginUndo, PairedTrue, history, Whole
<1>9. ASSUME NEW o \in Ops, RefuseUndo(o) PROVE PairedTrue'
  BY <1>9 DEF RefuseUndo, Finish, PairedTrue, history, Whole
<1>10. ASSUME NEW f \in Sources, Restore(f) PROVE PairedTrue'
  BY <1>10
    DEF Restore, PairedTrue, TypeOK, Control, SavedTrue, TodoTrue, history,
        Ops, AsLeft, Whole, SameWraps
<1>11. ASSUME EndUndo PROVE PairedTrue'
  BY <1>11 DEF EndUndo, Finish, PairedTrue, history, Whole
<1>12. ASSUME Stop PROVE PairedTrue'
  BY <1>12 DEF Stop, Finish, PairedTrue, TypeOK, Ops, Whole
<1>13. ASSUME NEW f \in Sources, Edit(f) PROVE PairedTrue'
  BY <1>13 DEF Edit, PairedTrue, TypeOK, Content, Whole
<1>20. CASE UNCHANGED vars
  BY <1>20 DEF vars, PairedTrue, Whole
<1> QED
  BY <1>1, <1>2, <1>3, <1>4, <1>5, <1>6, <1>7, <1>8, <1>9, <1>10, <1>11, <1>12,
     <1>13, <1>20, Steps

\* Nothing runs and nothing is saved at first.
LEMMA InitIInv == Init => IInv
<1> SUFFICES ASSUME Init PROVE IInv
  OBVIOUS
<1>1. TypeOK
  BY LintRunAssumption DEF Init, TypeOK, Blank, Content
<1>2. Control
  BY DEF Init, Control
<1>3. SnapshotTrue
  BY DEF Init, SnapshotTrue
<1>4. SavedTrue
  BY DEF Init, SavedTrue, Whole
<1>5. TodoTrue
  BY DEF Init, TodoTrue
<1>6. PairedTrue
  BY DEF Init, PairedTrue
<1> QED
  BY <1>1, <1>2, <1>3, <1>4, <1>5, <1>6 DEF IInv

\* Every step keeps the invariant.
LEMMA KeepsIInv ==
  ASSUME IInv, [Next]_vars
  PROVE  IInv'
BY KeepsTypeOK, KeepsControl, KeepsSnapshotTrue, KeepsSavedTrue, KeepsTodoTrue,
   KeepsPairedTrue DEF IInv

\* A step that changes the text of a file is its owner's, or comes after the
\* owner has written to it during a command.
LEMMA KeepsText ==
  ASSUME IInv, [Next]_vars, NEW g \in Sources
  PROVE  src'[g].text = src[g].text \/ edits' # edits \/ g \in raced
<1> USE DEF IInv
<1>1. ASSUME NEW f \in Sources, Fix(f)
      PROVE  src'[g].text = src[g].text
  BY <1>1 DEF Fix, TypeOK
<1>2. ASSUME NEW f \in Sources, Restore(f)
      PROVE  src'[g].text = src[g].text \/ g \in raced
  BY <1>2 DEF Restore, TypeOK, TodoTrue, SavedTrue, AsLeft, SameOwner, Control
<1>3. ASSUME NEW f \in Sources, Edit(f)
      PROVE  edits' # edits
  BY <1>3 DEF Edit, TypeOK
<1>4. CASE UNCHANGED src
  BY <1>4
<1> QED
  BY <1>1, <1>2, <1>3, <1>4, Steps
    DEF vars, BeginInstrument, BeginApply, Snapshot, RefuseStale, FixFails,
        SaveManifest, SaveHashes, BeginUndo, RefuseUndo, EndUndo, Stop

\* The inductive invariant: what a snapshot, a manifest and a verified file
\* say of the sources stays true, whoever writes, fails or stops.
THEOREM Invariance == Spec => []IInv
BY InitIInv, KeepsIInv, PTL DEF Spec

\* The variables have their types in every behaviour of every workspace.
THEOREM TypeCorrect == Spec => []TypeOK
<1>1. IInv => TypeOK
  BY DEF IInv
<1> QED
  BY Invariance, <1>1, PTL

\* An undo that reports success of a run that began on sources nothing wraps
\* leaves none wrapped, whatever else has been run, stopped or refused.
THEOREM UndoReverts == Spec => []PairedIsReverted
<1>1. IInv => PairedIsReverted
  BY DEF IInv, PairedTrue, PairedIsReverted
<1> QED
  BY Invariance, <1>1, PTL

\* No command loses the text an owner wrote between commands.
THEOREM UndoIsLossless == Spec => OwnersTextKept
<1>1. IInv /\ [Next]_vars =>
        [\A f \in Sources :
           src'[f].text = src[f].text \/ edits' # edits \/ f \in raced]_vars
  BY KeepsText
<1> QED
  BY Invariance, <1>1, PTL DEF Spec, OwnersTextKept

-----------------------------------------------------------------------------
(***************************************************************************)
(* measure                                                                 *)
(***************************************************************************)

\* At which steps of measure a lint run is under way, and which one.
Guarded ==
  /\ stage \in {"wire", "armed", "bench", "cleanup"} => cmd = "none"
  /\ stage = "instrument" =>
       cmd = "none" \/ (cmd = "instrument" /\ phase \in {"fix", "hashes"})
  /\ stage = "undo" =>
       cmd = "none" \/ (cmd = "instrument" /\ phase = "restore")

\* instrument changes sources that nothing wraps, and it is those it saves.
Unwraps ==
  /\ phase = "fix" /\ cmd = "instrument" =>
       \A f \in Changed \ raced : "wrapped" \notin before[f].marks
  /\ Whole("instrument") =>
       \A f \in DOMAIN saved["instrument"] \ raced :
         "wrapped" \notin saved["instrument"][f].before.marks

\* The manifest has every source that is wrapped, and undo will not refuse.
Revertible ==
  /\ paired
  /\ \A f \in DOMAIN saved["instrument"] : AsLeft("instrument", f)

\* While it is calm, an instrument run began on sources that nothing wraps.
Instrumenting ==
  /\ phase = "fix" => \A f \in Sources : "wrapped" \notin before[f].marks
  /\ phase = "hashes" => Revertible
  /\ phase = "none" => \/ result = "instrumented" /\ Revertible
                       \/ result = "failed" /\ Unwrapped(Sources)

\* A calm measure can put back what it has wired and wrapped, until it has,
\* the manifests of a root that is a member excepted.
Restorable ==
  calm =>
    /\ stage \in {"wire", "armed"} => Unwrapped(Sources)
    /\ stage = "wire" => manifests = "plain"
    /\ stage \notin {"idle", "wire"} =>
         manifests = "wired" /\ original = IF RootIsMember THEN "twice" ELSE "plain"
    /\ stage = "instrument" => Instrumenting
    /\ stage = "bench" => Revertible
    /\ stage = "cleanup" => Revertible \/ Unwrapped(Sources)
    /\ stage = "undo" => \A f \in Sources \ raced :
         "wrapped" \in src[f].marks => phase = "restore" /\ f \in todo
    /\ stage = "idle" => cmd = "none" /\ MeasureRestores

MInv == MeasureTypeOK /\ IInv /\ Guarded /\ Unwraps /\ Restorable

-----------------------------------------------------------------------------
\* What a kill between two lint runs does to the lint run's variables.
OnlyStops ==
  /\ stops' = stops + 1
  /\ UNCHANGED <<src, saved, newest, hashes, cmd, phase, before, todo, result,
                 edits, raced, paired>>

\* Of a lint run, measure takes its own steps, or none.
LEMMA LintView ==
  ASSUME [MeasureNext]_<<vars, mvars>>
  PROVE  [Next]_vars \/ OnlyStops
<1>1. CASE LintCommand \/ LintStep \/ OwnerEdits
  BY <1>1 DEF LintCommand, LintStep, OwnerEdits, Next
<1>2. CASE Instrument
  BY <1>2 DEF Instrument, Next, Command
<1>3. CASE UndoInstrument
  BY <1>3 DEF UndoInstrument, Next, Command
<1>4. CASE Kill
  BY <1>4 DEF Kill, OnlyStops, Next, Step
<1>5. CASE UNCHANGED vars
  BY <1>5
<1> QED
  BY <1>1, <1>2, <1>3, <1>4, <1>5
    DEF MeasureNext, Work, Failure, BeginMeasure, Wired, WireFails,
        PreflightFails, Instrumented, BenchFails, StartBench, BenchDumps,
        EndBench, WaitFails, Merge, Unwire, UnwireFails, OnlyStops, vars

\* The invariant of the lint runs survives measure.
LEMMA LintInvKept ==
  ASSUME IInv, [MeasureNext]_<<vars, mvars>>
  PROVE  IInv'
<1>1. CASE [Next]_vars
  BY <1>1, KeepsIInv
<1>2. CASE OnlyStops
  <2> USE <1>2 DEF OnlyStops, IInv
  <2>1. TypeOK'
    BY DEF TypeOK
  <2>2. Control' /\ SnapshotTrue'
    BY DEF Control, SnapshotTrue, SameOwner, SameWraps
  <2>3. SavedTrue'
    BY DEF SavedTrue, Whole, SameOwner, SameWraps
  <2>4. TodoTrue' /\ PairedTrue'
    BY DEF TodoTrue, PairedTrue, Whole, AsLeft
  <2> QED BY <2>1, <2>2, <2>3, <2>4
<1> QED BY <1>1, <1>2, LintView

\* The variables of measure keep their types.
LEMMA MeasureTypeKept ==
  ASSUME MeasureTypeOK, IInv', [MeasureNext]_<<vars, mvars>>
  PROVE  MeasureTypeOK'
<1> USE MeasureAssumption DEF MeasureTypeOK, Go, Idle, wiring, benching
<1>1. TypeOK'
  BY DEF IInv
<1>2. CASE BeginMeasure
  BY <1>1, <1>2 DEF BeginMeasure
<1>3. CASE Wired \/ WireFails \/ PreflightFails
  BY <1>1, <1>3 DEF Wired, WireFails, PreflightFails
<1>4. CASE Instrument \/ Instrumented
  BY <1>1, <1>4 DEF Instrument, Instrumented
<1>5. CASE BenchFails \/ BenchDumps \/ EndBench \/ WaitFails
  BY <1>1, <1>5 DEF BenchFails, BenchDumps, EndBench, WaitFails
<1>6. ASSUME NEW b \in Benches, StartBench(b) PROVE MeasureTypeOK'
  BY <1>1, <1>6 DEF StartBench
<1>7. CASE Merge
  BY <1>1, <1>7 DEF Merge
<1>8. CASE UndoInstrument \/ Unwire \/ UnwireFails
  BY <1>1, <1>8 DEF UndoInstrument, Unwire, UnwireFails
<1>9. CASE LintCommand \/ LintStep \/ OwnerEdits
  BY <1>1, <1>9 DEF LintCommand, LintStep, OwnerEdits
<1>10. CASE Kill
  BY <1>1, <1>10 DEF Kill
<1>11. CASE UNCHANGED mvars
  BY <1>1, <1>11 DEF mvars
<1> QED
  BY <1>2, <1>3, <1>4, <1>5, <1>6, <1>7, <1>8, <1>9, <1>10, <1>11
    DEF MeasureNext, Work, Failure

\* A lint run is under way only where measure, or the owner, has begun it.
LEMMA GuardedKept ==
  ASSUME IInv, IInv', Guarded, [MeasureNext]_<<vars, mvars>>
  PROVE  Guarded'
<1> USE DEF Guarded, Go
<1>1. CASE BeginMeasure \/ Wired \/ WireFails \/ PreflightFails
  BY <1>1 DEF BeginMeasure, Wired, WireFails, PreflightFails, vars
<1>2. CASE Instrument
  BY <1>2 DEF Instrument, BeginInstrument, Snapshot
<1>3. CASE Instrumented \/ Merge
  BY <1>3 DEF Instrumented, Merge, vars
<1>4. CASE BenchFails \/ BenchDumps \/ EndBench \/ WaitFails
  BY <1>4 DEF BenchFails, BenchDumps, EndBench, WaitFails, vars
<1>5. ASSUME NEW b \in Benches, StartBench(b) PROVE Guarded'
  BY <1>5 DEF StartBench, vars
<1>6. CASE UndoInstrument
  BY <1>6 DEF UndoInstrument, Uninstrument, BeginUndo, RefuseUndo, Finish, vars
<1>7. CASE Unwire \/ UnwireFails \/ Kill \/ LintCommand
  BY <1>7 DEF Unwire, UnwireFails, Kill, LintCommand
<1>8. CASE LintStep
  <2>1. /\ phase # "none"
        /\ \/ cmd' = "none"
           \/ cmd' = cmd /\ phase' = phase
           \/ cmd' = cmd /\ phase = "fix" /\ phase' = "hashes"
    BY <1>8 DEF LintStep, Step, Fix, FixFails, SaveManifest, SaveHashes,
                Restore, EndUndo, Stop, Finish, IInv, Control
  <2> QED BY <1>8, <2>1 DEF LintStep, IInv, Control
<1>9. CASE OwnerEdits
  BY <1>9 DEF OwnerEdits, Owner, Edit
<1>10. CASE UNCHANGED <<vars, mvars>>
  BY <1>10 DEF vars, mvars
<1> QED
  BY <1>1, <1>2, <1>3, <1>4, <1>5, <1>6, <1>7, <1>8, <1>9, <1>10
    DEF MeasureNext, Work, Failure

\* What a run has wrapped was not wrapped, unless the owner has intervened.
LEMMA UnwrapsKept ==
  ASSUME IInv, Unwraps, [MeasureNext]_<<vars, mvars>>
  PROVE  Unwraps'
<1> USE DEF IInv, history
<1>1. ASSUME BeginInstrument PROVE Unwraps'
  BY <1>1 DEF BeginInstrument, Snapshot, Unwraps, Changed, Whole
<1>2. ASSUME NEW force \in BOOLEAN, BeginApply(force) PROVE Unwraps'
  BY <1>2 DEF BeginApply, Snapshot, Unwraps, Whole
<1>3. ASSUME RefuseStale PROVE Unwraps'
  BY <1>3 DEF RefuseStale, Finish, Unwraps, Whole
<1>4. ASSUME NEW f \in Sources, Fix(f) PROVE Unwraps'
  <2>1. cmd = "instrument" =>
          \A g \in Changed' \ raced : "wrapped" \notin before[g].marks
    BY <1>4 DEF Fix, MarkOf, Unwraps, Changed, TypeOK
  <2> QED BY <1>4, <2>1 DEF Fix, Unwraps, Whole
<1>5. ASSUME FixFails PROVE Unwraps'
  BY <1>5 DEF FixFails, Finish, Unwraps, Whole
<1>6. ASSUME SaveManifest PROVE Unwraps'
  <2>1. cmd \in Ops /\ DOMAIN saved = Ops
    BY <1>6 DEF TypeOK, Control, SaveManifest
  <2>2. raced' = raced /\ phase' # "fix"
    BY <1>6, <2>1 DEF SaveManifest, Finish
  <2>3. CASE cmd = "instrument"
    <3>1. saved'["instrument"] = Diff
      BY <1>6, <2>1, <2>3 DEF SaveManifest
    <3>2. DOMAIN Diff = Changed /\ \A f \in Changed : Diff[f].before = before[f]
      BY DEF Diff
    <3> QED BY <1>6, <2>2, <2>3, <3>1, <3>2 DEF SaveManifest, Unwraps
  <2>4. CASE cmd # "instrument"
    BY <1>6, <2>1, <2>2, <2>4 DEF SaveManifest, Unwraps, Whole
  <2> QED BY <2>3, <2>4
<1>7. ASSUME SaveHashes PROVE Unwraps'
  BY <1>7 DEF SaveHashes, Finish, Unwraps, Whole
<1>8. ASSUME NEW o \in Ops, BeginUndo(o) \/ RefuseUndo(o) PROVE Unwraps'
  BY <1>8 DEF BeginUndo, RefuseUndo, Finish, Unwraps, Whole
<1>9. ASSUME NEW f \in Sources, Restore(f) PROVE Unwraps'
  BY <1>9 DEF Restore, Unwraps, Whole
<1>10. ASSUME EndUndo PROVE Unwraps'
  BY <1>10 DEF EndUndo, Finish, Unwraps, Whole
<1>11. ASSUME Stop PROVE Unwraps'
  <2>1. phase = "fix" => cmd \in Ops
    BY DEF TypeOK, Control
  <2>2. saved'["instrument"] \in {saved["instrument"], Torn}
    BY <1>11, <2>1 DEF Stop, TypeOK, Ops
  <2> QED BY <1>11, <2>2 DEF Stop, Finish, Unwraps, Whole
<1>12. ASSUME NEW f \in Sources, Edit(f) PROVE Unwraps'
  <2>1. phase = "fix" => raced' = raced \cup {f}
    BY <1>12 DEF Edit, Control
  <2>2. \A g \in Sources : g # f => src'[g] = src[g]
    BY <1>12 DEF Edit, TypeOK
  <2>3. phase = "fix" => Changed' \ raced' \subseteq Changed \ raced
    BY <1>12, <2>1, <2>2 DEF Edit, Changed
  <2>4. raced \subseteq raced'
    BY <1>12 DEF Edit
  <2> QED BY <1>12, <2>3, <2>4 DEF Edit, Unwraps, Whole
<1>13. CASE UNCHANGED vars \/ OnlyStops
  BY <1>13 DEF vars, OnlyStops, Unwraps, Changed, Whole
<1> QED
  BY <1>1, <1>2, <1>3, <1>4, <1>5, <1>6, <1>7, <1>8, <1>9, <1>10, <1>11, <1>12,
     <1>13, LintView, Steps

\* A measure begins calm only on a workspace that has nothing to put back; one
\* that is killed, or fails to wire, promises nothing; and neither what its
\* owner does nor a failing unwire is calm.
LEMMA EndsKeep ==
  ASSUME MInv,
         \/ BeginMeasure \/ WireFails \/ Kill
         \/ LintCommand \/ OwnerEdits \/ UnwireFails
  PROVE  Restorable'
<1> USE DEF Restorable, Go
<1>1. CASE BeginMeasure
  BY <1>1 DEF BeginMeasure, Unwrapped, vars, wiring
<1>2. CASE WireFails
  BY <1>2 DEF WireFails, MInv, Guarded, MeasureRestores, CleanedUp, vars
<1>3. CASE Kill
  <2>1. stage' = "idle" /\ outcome' = "killed" /\ cmd' = "none"
    BY <1>3 DEF Kill, Stop, Finish
  <2> QED BY <2>1 DEF MeasureRestores, CleanedUp
<1>4. CASE LintCommand
  BY <1>4 DEF LintCommand
<1>5. CASE OwnerEdits
  BY <1>5 DEF OwnerEdits
<1>6. CASE UnwireFails
  BY <1>6 DEF UnwireFails
<1> QED BY <1>1, <1>2, <1>3, <1>4, <1>5, <1>6

\* What undo can do for the workspace depends on these variables alone.
LEMMA SourcesStand ==
  ASSUME UNCHANGED vars
  PROVE  /\ Revertible' <=> Revertible
         /\ Unwrapped(Sources)' <=> Unwrapped(Sources)
         /\ Instrumenting' <=> Instrumenting
BY DEF vars, Revertible, AsLeft, Unwrapped, Instrumenting

\* Up to the benches, measure wires what is plain and wraps what is not.
LEMMA StartKeeps ==
  ASSUME MInv, Wired \/ PreflightFails \/ Instrument \/ Instrumented
  PROVE  Restorable'
<1> USE DEF MInv, Restorable, Go, wiring
<1>1. CASE Wired
  BY <1>1, SourcesStand DEF Wired
<1>2. CASE PreflightFails
  BY <1>2, SourcesStand DEF PreflightFails
<1>3. CASE Instrument
  <2>1. /\ stage = "armed" /\ stage' = "instrument" /\ calm' = calm
        /\ UNCHANGED wiring
        /\ phase' = "fix" /\ before' = src
    BY <1>3 DEF Instrument, BeginInstrument, Snapshot
  <2>2. calm => Instrumenting'
    BY <2>1 DEF Instrumenting, Unwrapped
  <2> QED BY <2>1, <2>2
<1>4. CASE Instrumented
  <2>1. phase = "none"
    BY <1>4 DEF Instrumented, IInv, Control
  <2>2. calm => \/ result = "instrumented" /\ Revertible
                \/ result = "failed" /\ Unwrapped(Sources)
    BY <1>4, <2>1 DEF Instrumented, Instrumenting
  <2> QED BY <1>4, <2>2, SourcesStand DEF Instrumented
<1> QED BY <1>1, <1>2, <1>3, <1>4

\* The benches and the merge touch nothing of the workspace.
LEMMA BenchesKeep ==
  ASSUME MInv,
         \/ BenchFails \/ BenchDumps \/ EndBench \/ WaitFails \/ Merge
         \/ \E b \in Benches : StartBench(b)
  PROVE  Restorable'
<1>1. /\ UNCHANGED vars /\ UNCHANGED wiring /\ calm' = calm
      /\ \/ stage' = stage /\ outcome' = outcome
         \/ stage = "bench" /\ stage' = "cleanup"
  BY DEF BenchFails, BenchDumps, EndBench, WaitFails, Merge, StartBench, Go
<1>2. stage' = stage /\ outcome' = outcome =>
        (MeasureRestores' <=> MeasureRestores)
  BY <1>1 DEF vars, wiring, MeasureRestores, CleanedUp, Unwrapped
<1> QED BY <1>1, <1>2, SourcesStand DEF MInv, Restorable, vars, wiring

\* undo does not refuse what instrument has saved, and what it reverts
\* instead, if instrument has failed, it unwraps.
LEMMA UndoKeeps ==
  ASSUME MInv, UndoInstrument
  PROVE  Restorable'
<1> USE DEF MInv
<1>1. /\ stage = "cleanup" /\ stage' = "undo" /\ calm' = calm
      /\ UNCHANGED wiring
  BY DEF UndoInstrument, Go
<1>2. src' = src /\ raced' = raced
  BY DEF UndoInstrument, Uninstrument, BeginUndo, RefuseUndo, history, vars
<1>3. ASSUME calm, Unwrapped(Sources)
      PROVE  \A f \in Sources \ raced' : "wrapped" \notin src'[f].marks
  BY <1>2, <1>3 DEF Unwrapped
<1>4. ASSUME calm, Revertible
      PROVE  phase' = "restore" /\ todo' = DOMAIN saved["instrument"]
  <2>1. saved["instrument"] \notin {NoManifest, Torn}
    BY <1>4 DEF Revertible, IInv, PairedTrue, Whole
  <2> QED BY <1>4, <2>1 DEF UndoInstrument, Uninstrument, BeginUndo, RefuseUndo,
                            Revertible
<1>5. ASSUME calm, Revertible, NEW f \in Sources \ raced,
             "wrapped" \in src[f].marks
      PROVE  f \in DOMAIN saved["instrument"]
  BY <1>5 DEF Revertible, IInv, PairedTrue
<1>6. calm => \A f \in Sources \ raced' :
                "wrapped" \in src'[f].marks => phase' = "restore" /\ f \in todo'
  <2>1. calm => Revertible \/ Unwrapped(Sources)
    BY <1>1 DEF Restorable
  <2> QED BY <1>2, <1>3, <1>4, <1>5, <2>1
<1> QED BY <1>1, <1>6 DEF Restorable, wiring

\* The manifests are put back last, unless the root is a member.
LEMMA UnwireKeeps ==
  ASSUME MInv, Unwire
  PROVE  Restorable'
<1>1. /\ stage = "undo" /\ cmd = "none" /\ UNCHANGED vars
      /\ stage' = "idle" /\ calm' = calm
      /\ original = "plain" => manifests' = "plain"
  BY DEF Unwire, Go
<1>2. phase = "none"
  BY <1>1 DEF MInv, IInv, Control
<1>3. calm => /\ manifests' = "plain" \/ RootIsMember
              /\ Unwrapped(Sources \ raced)
  BY <1>1, <1>2 DEF MInv, Restorable, Unwrapped
<1> QED BY <1>1, <1>3 DEF Restorable, MeasureRestores, Unwrapped, vars

\* A lint run of measure wraps what its manifest will have, and its revert
\* unwraps what it restores.
LEMMA LintStepKeeps ==
  ASSUME MInv, LintStep
  PROVE  Restorable'
<1> USE DEF MInv, history
<1> SUFFICES ASSUME calm' PROVE Restorable'
  BY DEF Restorable
<1>1. /\ calm /\ stops' = stops /\ (result' = "failed" => src = before)
      /\ Step /\ UNCHANGED <<stage, outcome, wiring>>
  BY DEF LintStep
<1>2. phase # "none" /\ cmd # "none"
  BY <1>1 DEF Step, Fix, FixFails, SaveManifest, SaveHashes, Restore, EndUndo,
              Stop, IInv, Control
<1>3. \/ stage = "instrument" /\ cmd = "instrument" /\ phase \in {"fix", "hashes"}
      \/ stage = "undo" /\ cmd = "instrument" /\ phase = "restore"
  BY <1>1, <1>2 DEF MeasureTypeOK, Guarded, Restorable
<1>4. ~Stop
  BY <1>1 DEF Stop, MeasureTypeOK, TypeOK
<1>5. CASE stage = "instrument"
  <2>1. Instrumenting
    BY <1>1, <1>5 DEF Restorable
  <2>2. ASSUME NEW f \in Sources, Fix(f) PROVE Instrumenting'
    BY <2>1, <2>2 DEF Fix, Instrumenting
  <2>3. ASSUME FixFails PROVE Instrumenting'
    BY <1>1, <2>1, <2>3 DEF FixFails, Finish, Instrumenting, Unwrapped
  <2>4. ASSUME SaveManifest PROVE Instrumenting'
    <3>1. /\ saved' = [saved EXCEPT !["instrument"] = Diff] /\ phase' = "hashes"
          /\ paired' = (\A f \in Sources : "wrapped" \notin before[f].marks)
          /\ src' = src
      BY <1>3, <2>4 DEF SaveManifest
    <3>2. saved'["instrument"] = Diff
      BY <3>1 DEF IInv, TypeOK, Ops
    <3>3. DOMAIN Diff = Changed /\ \A f \in Changed : Diff[f].after = src[f]
      BY DEF Diff
    <3>4. paired'
      BY <2>1, <2>4, <3>1 DEF Instrumenting, SaveManifest
    <3> QED BY <3>1, <3>2, <3>3, <3>4 DEF Instrumenting, Revertible, AsLeft
  <2>5. ASSUME SaveHashes PROVE Instrumenting'
    BY <2>1, <2>5 DEF SaveHashes, Finish, Instrumenting, Revertible, AsLeft
  <2>6. Instrumenting'
    BY <1>1, <1>3, <1>4, <1>5, <2>2, <2>3, <2>4, <2>5 DEF Step, Restore, EndUndo
  <2> QED BY <1>1, <1>5, <2>6 DEF Restorable, wiring
<1>6. CASE stage = "undo"
  <2>1. \A f \in Sources \ raced : "wrapped" \in src[f].marks => f \in todo
    BY <1>1, <1>6 DEF Restorable
  <2>2. ASSUME NEW f \in Sources, Restore(f)
        PROVE  \A g \in Sources \ raced' :
                 "wrapped" \in src'[g].marks => phase' = "restore" /\ g \in todo'
    <3> TAKE g \in Sources \ raced'
    <3>1. /\ src' = [src EXCEPT ![f] = saved["instrument"][f].before]
          /\ todo' = todo \ {f} /\ f \in todo
          /\ phase' = "restore" /\ raced' = raced
      BY <1>3, <2>2 DEF Restore
    <3>2. CASE g = f
      <4>1. Whole("instrument") /\ f \in DOMAIN saved["instrument"]
        BY <1>3, <1>6, <3>1 DEF IInv, TodoTrue
      <4>2. "wrapped" \notin saved["instrument"][f].before.marks
        BY <3>1, <3>2, <4>1 DEF Unwraps
      <4> QED BY <3>1, <3>2, <4>2 DEF IInv, TypeOK
    <3>3. CASE g # f
      BY <2>1, <3>1, <3>3 DEF IInv, TypeOK
    <3> QED BY <3>2, <3>3
  <2>3. ASSUME EndUndo
        PROVE  \A g \in Sources \ raced' : "wrapped" \notin src'[g].marks
    BY <2>1, <2>3 DEF EndUndo
  <2>4. \A g \in Sources \ raced' :
          "wrapped" \in src'[g].marks => phase' = "restore" /\ g \in todo'
    BY <1>1, <1>3, <1>4, <1>6, <2>2, <2>3
      DEF Step, Fix, FixFails, SaveManifest, SaveHashes
  <2> QED BY <1>1, <1>6, <2>4 DEF Restorable, wiring
<1> QED BY <1>3, <1>5, <1>6

\* Nothing has been wired or wrapped at first.
LEMMA InitMInv == MeasureInit => MInv
<1> SUFFICES ASSUME MeasureInit PROVE MInv
  OBVIOUS
<1>1. IInv
  BY InitIInv DEF MeasureInit
<1>2. MeasureTypeOK
  BY <1>1, MeasureAssumption DEF MeasureInit, MeasureTypeOK, IInv
<1>3. Guarded /\ Unwraps /\ Restorable
  BY DEF MeasureInit, Init, Guarded, Unwraps, Restorable, Whole, Ops
<1> QED BY <1>1, <1>2, <1>3 DEF MInv

\* The inductive invariant of measure: until it ends or the owner intervenes,
\* what it has wired and wrapped is what its manifests can put back.
THEOREM MeasureInvariance == MeasureSpec => []MInv
<1>1. ASSUME MInv, [MeasureNext]_<<vars, mvars>> PROVE MInv'
  <2>1. IInv'
    BY <1>1, LintInvKept DEF MInv
  <2>2. MeasureTypeOK' /\ Guarded' /\ Unwraps'
    BY <1>1, <2>1, MeasureTypeKept, GuardedKept, UnwrapsKept DEF MInv
  <2>3. ASSUME UNCHANGED <<vars, mvars>> PROVE Restorable'
    <3>1. MeasureRestores' <=> MeasureRestores
      BY <2>3 DEF vars, mvars, MeasureRestores, CleanedUp, Unwrapped
    <3> QED BY <1>1, <2>3, <3>1, SourcesStand DEF MInv, Restorable, vars, mvars
  <2>4. Restorable'
    BY <1>1, <2>3, EndsKeep, StartKeeps, BenchesKeep, UndoKeeps, UnwireKeeps,
       LintStepKeeps DEF MeasureNext, Work, Failure
  <2> QED BY <2>1, <2>2, <2>4 DEF MInv
<1> QED BY <1>1, InitMInv, PTL DEF MeasureSpec

\* The variables of measure have their types in every behaviour.
THEOREM MeasureTypeCorrect == MeasureSpec => []MeasureTypeOK
<1>1. MInv => MeasureTypeOK
  BY DEF MInv
<1> QED BY <1>1, MeasureInvariance, PTL

\* measure.rs:228-229: however a measure ends after wiring, of a workspace that
\* was neither wired nor wrapped it leaves nothing wrapped, and nothing wired
\* unless the root is a member, whatever has been run, failed or killed before
\* it; calm says of which measures: no edit, failed write or half-done rewrite.
THEOREM MeasureRestoresHolds == MeasureSpec => []MeasureRestores
<1>1. MInv => MeasureRestores
  BY DEF MInv, Restorable, MeasureRestores, CleanedUp
<1> QED BY <1>1, MeasureInvariance, PTL

\* What is proved of the lint commands alone holds of them together with
\* measure: an undo that reports success has reverted the run in full.
THEOREM MeasureUndoReverts == MeasureSpec => []PairedIsReverted
<1>1. MInv => PairedIsReverted
  BY DEF MInv, IInv, PairedTrue, PairedIsReverted
<1> QED BY <1>1, MeasureInvariance, PTL

\* And no step of measure, its clean-up included, loses a text its owner wrote.
THEOREM MeasureIsLossless == MeasureSpec => OwnersTextKept
<1>1. ASSUME MInv, [MeasureNext]_<<vars, mvars>>, NEW f \in Sources
      PROVE  src'[f].text = src[f].text \/ edits' # edits \/ f \in raced
  BY <1>1, LintView, KeepsText DEF MInv, OnlyStops
<1>2. MInv /\ [MeasureNext]_<<vars, mvars>> =>
        [\A f \in Sources :
           src'[f].text = src[f].text \/ edits' # edits \/ f \in raced]_vars
  BY <1>1
<1> QED BY <1>2, MeasureInvariance, PTL DEF MeasureSpec, OwnersTextKept
=============================================================================
