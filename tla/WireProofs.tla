----------------------------- MODULE WireProofs -----------------------------
(***************************************************************************)
(* Proofs about module Wire: for every workspace, every sequence of wire   *)
(* and unwire, and any number of early ends and edits.                     *)
(***************************************************************************)
EXTENDS Wire, SequenceTheorems, TLAPS

\* The patches name manifests and tables, the root's table first.
LEMMA PatchesType ==
  /\ Patches \in Seq([file : Files, table : Tables])
  /\ Len(Patches) = Len(Members) + 1
  /\ Patches[1] = [file |-> Root, table |-> "workspace"]
  /\ \A i \in 2 .. Len(Patches) :
       Patches[i] = [file |-> Members[i - 1], table |-> "dependencies"]
<1>1. Members \in Seq(ToSet(Members))
  BY WireAssumption
<1>2. Len(Members) \in Nat /\ \A i \in 1 .. Len(Members) : Members[i] \in Files
  BY <1>1 DEF Files
<1> DEFINE rest == [i \in 1 .. Len(Members) |-> [file |-> Members[i], table |-> "dependencies"]]
<1> DEFINE first == <<[file |-> Root, table |-> "workspace"]>>
<1>3. rest \in Seq([file : Files, table : Tables]) /\ Len(rest) = Len(Members)
  BY <1>2 DEF Tables
<1>4. first \in Seq([file : Files, table : Tables]) /\ Len(first) = 1
  BY DEF Files, Tables
<1>5. Patches = first \o rest
  BY DEF Patches
<1>6. \A i \in 1 .. Len(rest) : rest[i] = [file |-> Members[i], table |-> "dependencies"]
  BY <1>3
<1> DEFINE S == [file : Files, table : Tables]
<1> HIDE DEF rest, first, S
<1>a. rest \in Seq(S) /\ first \in Seq(S)
  BY <1>3, <1>4 DEF S
<1>b. /\ first \o rest \in Seq(S)
      /\ Len(first \o rest) = Len(first) + Len(rest)
      /\ \A i \in 1 .. Len(first) + Len(rest) :
           (first \o rest)[i] = IF i <= Len(first) THEN first[i] ELSE rest[i - Len(first)]
  BY <1>a, ConcatProperties
<1>7. Patches \in Seq([file : Files, table : Tables]) /\ Len(Patches) = Len(Members) + 1
  BY <1>2, <1>3, <1>4, <1>5, <1>b DEF S
<1>8. Patches[1] = first[1]
  BY <1>2, <1>3, <1>4, <1>5, <1>b
<1>9. \A i \in 2 .. Len(Patches) : Patches[i] = rest[i - 1]
  BY <1>2, <1>3, <1>4, <1>5, <1>7, <1>b
<1>10. QED
  BY <1>2, <1>3, <1>6, <1>7, <1>8, <1>9 DEF first

LEMMA PatchAt ==
  ASSUME NEW i \in Nat \ {0}, i <= Len(Patches)
  PROVE  Patches[i].file \in Files /\ Patches[i].table \in Tables
<1>1. i \in 1 .. Len(Patches)
  BY PatchesType
<1>2. Patches \in Seq([file : Files, table : Tables])
  BY PatchesType
<1>3. Patches[i] \in [file : Files, table : Tables]
  BY <1>1, <1>2, ElementOfSeq
<1> QED
  BY <1>3

\* An entry recorded by Patch is an entry.
LEMMA EntryType ==
  ASSUME NEW c \in Contents, NEW f \in Files, NEW t \in Tables
  PROVE  /\ Listing(c, t) \in Contents
         /\ [file |-> f, before |-> c, after |-> Listing(c, t)] \in Entry
  BY DEF Contents, Entry, Listing

\* TypeOK for every workspace.
THEOREM TypeCorrect == Spec => []TypeOK
<1>1. Init => TypeOK
  <2> SUFFICES ASSUME Init PROVE TypeOK
    OBVIOUS
  <2>1. file \in [Files -> Contents]
    BY DEF Init, Contents
  <2>2. entries \in Seq(Entry) /\ added \in [Files -> SUBSET Tables]
    BY DEF Init
  <2>3. saved \in Seq(Entry) \cup {NoManifest, Torn}
    BY DEF Init
  <2>4. cmd \in {"none", "wire", "unwire"} /\ next \in Nat \ {0}
    BY DEF Init
  <2>5. /\ result \in {"none", "wired", "nothing", "unwired", "refused", "stopped"}
        /\ wires \in Nat /\ edits \in Nat /\ stops \in Nat
    BY DEF Init
  <2>6. paired \in BOOLEAN /\ edited \in BOOLEAN
    BY DEF Init
  <2> QED
    BY <2>1, <2>2, <2>3, <2>4, <2>5, <2>6 DEF TypeOK
<1>2. TypeOK /\ [Next]_vars => TypeOK'
  <2> SUFFICES ASSUME TypeOK, [Next]_vars PROVE TypeOK'
    OBVIOUS
  <2> USE DEF TypeOK
  <2>1. CASE BeginWire
    <3>1. wires' \in Nat
      BY <2>1 DEF BeginWire, Marked
    <3> QED
      BY <2>1, <3>1 DEF BeginWire
  <2>2. CASE Patch
    <3> DEFINE p == Patches[next]
    <3> DEFINE after == Listing(file[p.file], p.table)
    <3>1. p.file \in Files /\ p.table \in Tables
      BY <2>2, PatchAt DEF Patch
    <3>2. /\ after \in Contents
          /\ [file |-> p.file, before |-> file[p.file], after |-> after] \in Entry
      BY <3>1, EntryType
    <3>3. /\ file' = [file EXCEPT ![p.file] = after]
          /\ entries' = Append(entries, [file |-> p.file, before |-> file[p.file],
                                         after |-> after])
          /\ added' = [added EXCEPT ![p.file] = @ \cup {p.table}]
      BY <2>2 DEF Patch
    <3> HIDE DEF p, after
    <3>4. file' \in [Files -> Contents] /\ added' \in [Files -> SUBSET Tables]
      BY <3>1, <3>2, <3>3
    <3>5. entries' \in Seq(Entry)
      BY <3>2, <3>3
    <3> QED
      BY <2>2, <3>4, <3>5 DEF Patch
  <2>3. CASE SkipWired
    BY <2>3 DEF SkipWired
  <2>4. CASE SaveManifest
    BY <2>4 DEF SaveManifest, Finish
  <2>5. CASE NothingToRevert
    BY <2>5 DEF NothingToRevert, Finish
  <2>6. CASE BeginUnwire
    BY <2>6 DEF BeginUnwire
  <2>7. CASE Revert
    <3>1. entries[next] \in Entry
      BY <2>7 DEF Revert
    <3>2. entries[next].file \in Files /\ entries[next].before \in Contents
      BY <3>1 DEF Entry
    <3>3. file' \in [Files -> Contents] /\ added' \in [Files -> SUBSET Tables]
      BY <2>7, <3>2 DEF Revert
    <3> QED
      BY <2>7, <3>3 DEF Revert
  <2>8. CASE Refuse
    BY <2>8 DEF Refuse, Finish
  <2>9. CASE RemoveManifest
    BY <2>9 DEF RemoveManifest, Finish
  <2>10. CASE Stop
    <3>1. stops' \in Nat /\ saved' \in Seq(Entry) \cup {NoManifest, Torn}
      BY <2>10 DEF Stop
    <3>2. file' \in [Files -> Contents] /\ added' \in [Files -> SUBSET Tables]
      <4>1. CASE UNCHANGED <<file, added>>
        BY <4>1
      <4>2. CASE Tear(Target)
        <5>1. [text |-> Torn, deps |-> {}] \in Contents
          BY DEF Contents
        <5> QED
          BY <4>2, <5>1 DEF Tear
      <4> QED
        BY <2>10, <4>1, <4>2 DEF Stop
    <3> QED
      BY <2>10, <3>1, <3>2 DEF Stop, Finish
  <2>11. CASE CannotParse
    BY <2>11 DEF CannotParse, Finish
  <2>12. ASSUME NEW f \in Files, NEW deps \in SUBSET TablesOf(f), Edit(f, deps)
         PROVE TypeOK'
    <3>1. PICK text \in {file[f].text, edits + 1} :
            file' = [file EXCEPT ![f] = [text |-> text, deps |-> deps]]
      BY <2>12 DEF Edit
    <3>2. deps \subseteq Tables
      <4>1. \A i \in DOMAIN Patches : Patches[i].table \in Tables
        BY PatchesType, PatchAt
      <4> QED
        BY <4>1 DEF TablesOf
    <3>3. [text |-> text, deps |-> deps] \in Contents
      BY <3>2 DEF Contents
    <3>4. file' \in [Files -> Contents] /\ added' \in [Files -> SUBSET Tables]
      BY <2>12, <3>1, <3>3 DEF Edit
    <3> QED
      BY <2>12, <3>4 DEF Edit
  <2>13. CASE UNCHANGED vars
    BY <2>13 DEF vars
  <2> QED
    BY <2>1, <2>2, <2>3, <2>4, <2>5, <2>6, <2>7, <2>8, <2>9, <2>10, <2>11, <2>12, <2>13
       DEF Next
<1> QED
  BY <1>1, <1>2, PTL DEF Spec

\* Whatever was recorded for a file differs from it in captrack alone.
TextUnchanged(list) == \A i \in 1 .. Len(list) : list[i].before.text = list[i].after.text

EntriesKeepText ==
  /\ TextUnchanged(entries)
  /\ saved \notin {NoManifest, Torn} => TextUnchanged(saved)

LEMMA EntriesKeepTextHolds == Spec => []EntriesKeepText
<1>1. Init => EntriesKeepText
  BY DEF Init, EntriesKeepText, TextUnchanged
<1>2. TypeOK /\ EntriesKeepText /\ [Next]_vars => EntriesKeepText'
  <2> SUFFICES ASSUME TypeOK, EntriesKeepText, [Next]_vars PROVE EntriesKeepText'
    OBVIOUS
  <2> USE DEF EntriesKeepText
  <2>0. TextUnchanged(<<>>)
    BY DEF TextUnchanged
  <2>1. CASE BeginWire
    BY <2>1 DEF BeginWire
  <2>2. CASE Patch
    <3> DEFINE p == Patches[next]
    <3> DEFINE after == Listing(file[p.file], p.table)
    <3> DEFINE e == [file |-> p.file, before |-> file[p.file], after |-> after]
    <3>1. p.file \in Files /\ p.table \in Tables
      BY <2>2, PatchAt DEF Patch, TypeOK
    <3>2. e \in Entry /\ e.before.text = e.after.text
      BY <3>1, EntryType DEF TypeOK, Contents, Listing
    <3>3. entries' = Append(entries, e) /\ saved' = saved
      BY <2>2 DEF Patch
    <3>4. entries \in Seq(Entry)
      BY DEF TypeOK
    <3> HIDE DEF e
    <3>5. TextUnchanged(entries')
      <4>1. Len(entries') = Len(entries) + 1
        BY <3>2, <3>3, <3>4
      <4> SUFFICES ASSUME NEW i \in 1 .. Len(entries')
                   PROVE entries'[i].before.text = entries'[i].after.text
        BY DEF TextUnchanged
      <4>2. CASE i \in 1 .. Len(entries)
        BY <3>2, <3>3, <3>4, <4>2 DEF TextUnchanged
      <4>3. CASE i = Len(entries) + 1
        BY <3>2, <3>3, <3>4, <4>3
      <4> QED
        BY <3>4, <4>1, <4>2, <4>3
    <3> QED
      BY <3>3, <3>5
  <2>3. CASE SkipWired
    BY <2>3 DEF SkipWired
  <2>4. CASE SaveManifest
    BY <2>0, <2>4 DEF SaveManifest, Finish
  <2>5. CASE NothingToRevert
    BY <2>0, <2>5 DEF NothingToRevert, Finish
  <2>6. CASE BeginUnwire
    BY <2>6 DEF BeginUnwire
  <2>7. CASE Revert
    BY <2>7 DEF Revert
  <2>8. CASE Refuse
    BY <2>0, <2>8 DEF Refuse, Finish
  <2>9. CASE RemoveManifest
    BY <2>0, <2>9 DEF RemoveManifest, Finish
  <2>10. CASE Stop
    BY <2>0, <2>10 DEF Stop, Finish
  <2>11. CASE CannotParse
    BY <2>0, <2>11 DEF CannotParse, Finish
  <2>12. ASSUME NEW f \in Files, NEW deps \in SUBSET TablesOf(f), Edit(f, deps)
         PROVE EntriesKeepText'
    BY <2>12 DEF Edit
  <2>13. CASE UNCHANGED vars
    BY <2>13 DEF vars
  <2> QED
    BY <2>1, <2>2, <2>3, <2>4, <2>5, <2>6, <2>7, <2>8, <2>9, <2>10, <2>11, <2>12, <2>13
       DEF Next
<1> QED
  BY <1>1, <1>2, TypeCorrect, PTL DEF Spec

\* Neither command replaces the owner's text by another: what unwire writes
\* back over a file it found as wire left it has the same text.
THEOREM OwnersTextKeptHolds == Spec => OwnersTextKept
<1> DEFINE Kept == \A f \in Files :
      file'[f].text = file[f].text \/ edits' # edits \/ stops' # stops
<1>1. TypeOK /\ EntriesKeepText /\ [Next]_vars => [Kept]_vars
  <2> SUFFICES ASSUME TypeOK, EntriesKeepText, [Next]_vars PROVE Kept
    OBVIOUS
  <2> SUFFICES ASSUME NEW f \in Files, edits' = edits, stops' = stops
               PROVE file'[f].text = file[f].text
    OBVIOUS
  <2>1. CASE Patch
    <3>1. Patches[next].file \in Files
      BY <2>1, PatchAt DEF Patch, TypeOK
    <3> QED
      BY <2>1, <3>1 DEF Patch, TypeOK, Listing
  <2>2. CASE Revert
    <3> DEFINE e == entries[next]
    <3>1. /\ file[e.file] = e.after
          /\ file' = [file EXCEPT ![e.file] = e.before]
      BY <2>2 DEF Revert
    <3>2. e.before.text = e.after.text
      BY <2>2 DEF Revert, EntriesKeepText, TextUnchanged, TypeOK
    <3> QED
      BY <3>1, <3>2 DEF TypeOK
  <2>3. CASE Stop
    BY <2>3 DEF Stop, TypeOK
  <2>4. ASSUME NEW g \in Files, NEW deps \in SUBSET TablesOf(g), Edit(g, deps)
        PROVE FALSE
    BY <2>4 DEF Edit, TypeOK
  <2>5. CASE UNCHANGED file
    BY <2>5
  <2> QED
    BY <2>1, <2>2, <2>3, <2>4, <2>5
       DEF Next, BeginWire, SkipWired, SaveManifest, NothingToRevert, BeginUnwire, Refuse,
           RemoveManifest, CannotParse, vars
<1> QED
  BY <1>1, TypeCorrect, EntriesKeepTextHolds, PTL DEF Spec, OwnersTextKept

\* Once wire is past the root, the root lists captrack.
RootFirst ==
  /\ cmd = "none" => next = 1
  /\ cmd = "wire" /\ next > 1 => "workspace" \in file[Root].deps

LEMMA RootFirstHolds == Spec => []RootFirst
<1>1. Init => RootFirst
  BY DEF Init, RootFirst
<1>2. TypeOK /\ RootFirst /\ [Next]_vars => RootFirst'
  <2> SUFFICES ASSUME TypeOK, RootFirst, [Next]_vars PROVE RootFirst'
    OBVIOUS
  <2> USE DEF RootFirst
  <2>0. Root \in Files
    BY DEF Files
  <2>1. CASE BeginWire
    BY <2>1 DEF BeginWire
  <2>2. CASE Patch
    <3> DEFINE p == Patches[next]
    <3>1. p.file \in Files /\ (next = 1 => p = [file |-> Root, table |-> "workspace"])
      BY <2>2, PatchAt, PatchesType DEF Patch, TypeOK
    <3>2. file' = [file EXCEPT ![p.file] = Listing(file[p.file], p.table)]
      BY <2>2 DEF Patch
    <3>3. next > 1 \/ next = 1
      BY <2>2 DEF Patch, TypeOK
    <3> HIDE DEF p
    <3>4. file[Root] \in Contents /\ file[p.file] \in Contents
      BY <2>0, <3>1 DEF TypeOK
    <3>5. CASE next = 1
      <4>1. p.file = Root /\ p.table = "workspace"
        BY <3>1, <3>5
      <4>2. "workspace" \in file'[Root].deps
        BY <2>0, <3>2, <3>4, <4>1 DEF TypeOK, Listing
      <4> QED
        BY <2>2, <4>2 DEF Patch
    <3>6. CASE next > 1
      <4>1. "workspace" \in file[Root].deps
        BY <2>2, <3>6 DEF Patch
      <4>2. "workspace" \in file'[Root].deps
        BY <2>0, <3>1, <3>2, <3>4, <4>1 DEF TypeOK, Listing
      <4> QED
        BY <2>2, <4>2 DEF Patch
    <3> QED
      BY <3>3, <3>5, <3>6
  <2>3. CASE SkipWired
    BY <2>3, PatchesType DEF SkipWired, TypeOK
  <2>4. CASE SaveManifest
    BY <2>4 DEF SaveManifest, Finish
  <2>5. CASE NothingToRevert
    BY <2>5 DEF NothingToRevert, Finish
  <2>6. CASE BeginUnwire
    BY <2>6 DEF BeginUnwire
  <2>7. CASE Revert
    BY <2>7 DEF Revert
  <2>8. CASE Refuse
    BY <2>8 DEF Refuse, Finish
  <2>9. CASE RemoveManifest
    BY <2>9 DEF RemoveManifest, Finish
  <2>10. CASE Stop
    BY <2>10 DEF Stop, Finish
  <2>11. CASE CannotParse
    BY <2>11 DEF CannotParse, Finish
  <2>12. ASSUME NEW f \in Files, NEW deps \in SUBSET TablesOf(f), Edit(f, deps)
         PROVE RootFirst'
    BY <2>12 DEF Edit
  <2>13. CASE UNCHANGED vars
    BY <2>13 DEF vars
  <2> QED
    BY <2>1, <2>2, <2>3, <2>4, <2>5, <2>6, <2>7, <2>8, <2>9, <2>10, <2>11, <2>12, <2>13
       DEF Next
<1> QED
  BY <1>1, <1>2, TypeCorrect, PTL DEF Spec

\* No step of wire and no early end of it leaves a member inheriting what the
\* root does not list, in any workspace, except for the torn root of one whose
\* root is a member too.
THEOREM WireKeepsInheritedHolds == Spec => WireKeepsInherited
<1> DEFINE RootTorn == Root \in ToSet(Members) /\ file'[Root].text = Torn
<1>1. TypeOK /\ RootFirst /\ RootFirst' /\ [Next]_vars =>
        [cmd = "wire" /\ Inherited => Inherited' \/ RootTorn]_vars
  <2> SUFFICES ASSUME TypeOK, RootFirst, RootFirst', [Next]_vars, cmd = "wire", Inherited
               PROVE Inherited' \/ RootTorn
    OBVIOUS
  <2>0. Root \in Files
    BY DEF Files
  <2>1. CASE Patch
    <3>1. cmd' = "wire" /\ next' > 1
      BY <2>1 DEF Patch, TypeOK
    <3> QED
      BY <3>1 DEF RootFirst, Inherited
  <2>2. CASE Stop
    <3>1. CASE UNCHANGED <<file, added>>
      BY <3>1 DEF Inherited
    <3>2. CASE /\ next <= Len(Patches)
               /\ Patches[next].table \notin file[Target].deps
               /\ Tear(Target)
      <4>1. Target = Patches[next].file
        BY DEF Target
      <4>2. CASE next = 1
        <5>1. Target = Root /\ "workspace" \notin file[Root].deps
          BY <3>2, <4>1, <4>2, PatchesType
        <5>2. \A f \in Files : "dependencies" \notin added[f]
          BY <5>1 DEF Inherited
        <5> QED
          BY <3>2, <5>2 DEF Tear, Inherited, TypeOK
      <4>3. CASE next > 1
        <5>1. next \in 2 .. Len(Patches)
          BY <3>2, <4>3 DEF TypeOK
        <5>a. Members \in Seq(ToSet(Members)) /\ Len(Members) \in Nat
          BY WireAssumption
        <5>b. Patches[next] = [file |-> Members[next - 1], table |-> "dependencies"]
          BY <5>1, PatchesType
        <5>c. Len(Patches) = Len(Members) + 1
          BY PatchesType
        <5>2. Target = Members[next - 1] /\ next - 1 \in 1 .. Len(Members)
          <6>1. Target = Members[next - 1]
            BY <4>1, <5>b
          <6> QED
            BY <5>1, <5>a, <5>c, <6>1
        <5>3. CASE Target = Root
          <6>a. DOMAIN Members = 1 .. Len(Members)
            BY <5>a
          <6>1. Root \in ToSet(Members)
            BY <5>2, <5>3, <6>a DEF ToSet
          <6>2. file'[Root].text = Torn
            BY <2>0, <3>2, <5>3 DEF Tear, TypeOK
          <6> QED
            BY <6>1, <6>2
        <5>4. CASE Target # Root
          <6>1. file'[Root] = file[Root]
            BY <2>0, <3>2, <5>4 DEF Tear, TypeOK
          <6> QED
            BY <4>3, <6>1 DEF RootFirst, Inherited
        <5> QED
          BY <5>3, <5>4
      <4> QED
        BY <4>2, <4>3 DEF TypeOK
    <3> QED
      BY <2>2, <3>1, <3>2 DEF Stop
  <2>3. ASSUME NEW g \in Files, NEW deps \in SUBSET TablesOf(g), Edit(g, deps)
        PROVE FALSE
    BY <2>3 DEF Edit
  <2>4. CASE UNCHANGED <<file, added>>
    BY <2>4 DEF Inherited
  <2> QED
    BY <2>1, <2>2, <2>3, <2>4
       DEF Next, BeginWire, SkipWired, SaveManifest, NothingToRevert, BeginUnwire, Revert,
           Refuse, RemoveManifest, CannotParse, vars
<1> QED
  BY <1>1, TypeCorrect, RootFirstHolds, PTL DEF Spec, WireKeepsInherited
\* What wire has added is in entries still to be reverted.
Covers(list, k) ==
  \A f \in Files : \A t \in added[f] :
    \E i \in k .. Len(list) : list[i].file = f /\ t \notin list[i].before.deps

PairInv ==
  /\ cmd = "none" => entries = <<>> /\ next = 1
  /\ cmd = "wire" \/ Marked => wires >= 1
  /\ cmd = "wire" => ~paired /\ (wires = 1 => Covers(entries, 1))
  /\ cmd = "unwire" =>
       entries = saved /\ saved \in Seq(Entry) /\ (paired => Covers(entries, next))
  /\ cmd = "none" /\ paired /\ Marked => saved \in Seq(Entry) /\ Covers(saved, 1)

\* A list keeps covering what is left when tables are taken away, whether
\* all of it is still to come or more.
LEMMA CoversLess ==
  ASSUME NEW list, NEW k \in Nat \ {0}, NEW j \in Nat \ {0}, j <= k, Len(list) \in Nat,
         Covers(list, k), \A f \in Files : added'[f] \subseteq added[f]
  PROVE  \A f \in Files : \A t \in added'[f] :
           \E i \in j .. Len(list) : list[i].file = f /\ t \notin list[i].before.deps
<1> SUFFICES ASSUME NEW f \in Files, NEW t \in added'[f]
             PROVE  \E i \in j .. Len(list) : list[i].file = f /\ t \notin list[i].before.deps
  OBVIOUS
<1>1. PICK i \in k .. Len(list) : list[i].file = f /\ t \notin list[i].before.deps
  BY DEF Covers
<1>2. i \in j .. Len(list)
  OBVIOUS
<1> QED
  BY <1>1, <1>2

LEMMA StopAddsNothing ==
  ASSUME TypeOK, Stop
  PROVE  \A f \in Files : added'[f] \subseteq added[f]
<1>1. CASE UNCHANGED added
  BY <1>1
<1>2. CASE Tear(Target)
  BY <1>2 DEF Tear, TypeOK
<1> QED
  BY <1>1, <1>2 DEF Stop

LEMMA PairInvHolds == Spec => []PairInv
<1>1. Init => PairInv
  BY DEF Init, PairInv, Marked
<1>2. TypeOK /\ PairInv /\ [Next]_vars => PairInv'
  <2> SUFFICES ASSUME TypeOK, PairInv, [Next]_vars PROVE PairInv'
    OBVIOUS
  <2>0. next \in Nat \ {0} /\ entries \in Seq(Entry) /\ Len(entries) \in Nat
    BY DEF TypeOK
  <2>1. CASE BeginWire
    <3>1. cmd = "none" /\ cmd' = "wire" /\ ~paired' /\ entries' = <<>> /\ added' = added
      BY <2>1 DEF BeginWire, PairInv
    <3>2. wires' >= 1 /\ (wires' = 1 => ~Marked)
      BY <2>1 DEF BeginWire, PairInv, TypeOK
    <3>3. wires' = 1 => \A f \in Files : added'[f] = {}
      BY <3>1, <3>2 DEF Marked
    <3> QED
      BY <3>1, <3>2, <3>3 DEF PairInv, Covers
  <2>2. CASE Patch
    <3> DEFINE p == Patches[next]
    <3> DEFINE e == [file |-> p.file, before |-> file[p.file],
                     after |-> Listing(file[p.file], p.table)]
    <3>1. p.file \in Files /\ p.table \in Tables
      BY <2>2, PatchAt DEF Patch, TypeOK
    <3>2. /\ cmd = "wire" /\ cmd' = "wire" /\ paired' = paired /\ wires' = wires
          /\ p.table \notin file[p.file].deps
          /\ entries' = Append(entries, e)
          /\ added' = [added EXCEPT ![p.file] = @ \cup {p.table}]
      BY <2>2 DEF Patch
    <3>3. wires = 1 => Covers(entries, 1)'
      <4> SUFFICES ASSUME wires = 1, NEW f \in Files, NEW t \in added'[f]
                   PROVE  \E i \in 1 .. Len(entries') :
                            entries'[i].file = f /\ t \notin entries'[i].before.deps
        BY DEF Covers
      <4> HIDE DEF p, e
      <4>1. /\ Len(entries') = Len(entries) + 1
            /\ entries'[Len(entries) + 1] = e
            /\ \A i \in 1 .. Len(entries) : entries'[i] = entries[i]
        BY <2>0, <3>2
      <4>2. CASE t \in added[f]
        <5>1. PICK i \in 1 .. Len(entries) :
                entries[i].file = f /\ t \notin entries[i].before.deps
          BY <3>2, <4>2 DEF PairInv, Covers
        <5> QED
          BY <2>0, <4>1, <5>1
      <4>3. CASE t \notin added[f]
        <5>1. f = p.file /\ t = p.table
          BY <3>1, <3>2, <4>3 DEF TypeOK
        <5>2. e.file = f /\ t \notin e.before.deps
          BY <3>2, <5>1 DEF e
        <5> QED
          BY <2>0, <4>1, <5>2
      <4> QED
        BY <4>2, <4>3
    <3> QED
      BY <3>2, <3>3 DEF PairInv
  <2>3. CASE SkipWired
    BY <2>3 DEF SkipWired, PairInv, Covers, Marked
  <2>4. CASE SaveManifest
    <3>1. /\ cmd = "wire" /\ cmd' = "none" /\ saved' = entries
          /\ entries' = <<>> /\ next' = 1 /\ paired' = (wires = 1)
          /\ UNCHANGED <<added, wires>>
      BY <2>4 DEF SaveManifest, Finish
    <3> QED
      BY <2>0, <3>1 DEF PairInv, Covers, Marked
  <2>5. CASE NothingToRevert
    BY <2>5 DEF NothingToRevert, Finish, PairInv, Covers, Marked
  <2>6. CASE BeginUnwire
    <3>1. cmd = "none" /\ cmd' = "unwire" /\ next = 1 /\ entries' = saved /\ saved \in Seq(Entry)
      BY <2>6 DEF BeginUnwire, PairInv, TypeOK
    <3>2. UNCHANGED <<saved, next, added, wires, paired>>
      BY <2>6 DEF BeginUnwire
    <3>3. paired => Covers(saved, 1)
      BY <3>1 DEF PairInv, Covers, Marked
    <3> QED
      BY <3>1, <3>2, <3>3 DEF PairInv, Covers, Marked
  <2>7. CASE Revert
    <3> DEFINE e == entries[next]
    <3>1. /\ cmd = "unwire" /\ cmd' = "unwire"
          /\ added' = [added EXCEPT ![e.file] = @ \cap e.before.deps]
          /\ next' = next + 1
          /\ UNCHANGED <<entries, saved, paired, wires>>
      BY <2>7 DEF Revert
    <3>2. \A f \in Files : added'[f] \subseteq added[f]
      BY <3>1 DEF TypeOK
    <3>3. paired => Covers(entries, next)'
      <4> SUFFICES ASSUME paired, NEW f \in Files, NEW t \in added'[f]
                   PROVE  \E i \in next + 1 .. Len(entries) :
                            entries[i].file = f /\ t \notin entries[i].before.deps
        BY <3>1 DEF Covers
      <4>1. PICK i \in next .. Len(entries) :
              entries[i].file = f /\ t \notin entries[i].before.deps
        BY <3>1, <3>2 DEF PairInv, Covers
      <4>2. i # next
        BY <3>1, <4>1 DEF TypeOK
      <4> QED
        BY <2>0, <4>1, <4>2
    <3>4. Marked' => Marked
      BY <3>2 DEF Marked
    <3> QED
      BY <3>1, <3>3, <3>4 DEF PairInv
  <2>8. CASE Refuse
    <3>1. cmd = "unwire" /\ cmd' = "none" /\ entries' = <<>> /\ next' = 1
      BY <2>8 DEF Refuse, Finish
    <3>2. UNCHANGED <<saved, added, wires, paired>>
      BY <2>8 DEF Refuse
    <3>3. paired => Covers(saved, 1)'
      BY <2>0, <3>1, <3>2, CoversLess, 1 \in Nat \ {0}, 1 <= next DEF PairInv, Covers
    <3> QED
      BY <3>1, <3>2, <3>3 DEF PairInv, Marked
  <2>9. CASE RemoveManifest
    <3>1. cmd = "unwire" /\ cmd' = "none" /\ entries' = <<>> /\ next' = 1
      BY <2>9 DEF RemoveManifest, Finish
    <3>2. UNCHANGED <<added, wires, paired>>
      BY <2>9 DEF RemoveManifest
    <3>3. paired => ~Marked
      BY <2>0, <2>9, <3>1 DEF RemoveManifest, PairInv, Covers, Marked
    <3> QED
      BY <3>1, <3>2, <3>3 DEF PairInv, Marked
  <2>10. CASE Stop
    <3>1. cmd # "none" /\ cmd' = "none" /\ entries' = <<>> /\ next' = 1
      BY <2>10 DEF Stop, Finish
    <3>2. UNCHANGED <<wires, paired>> /\ (cmd = "unwire" => saved' = saved)
      BY <2>10 DEF Stop
    <3>3. \A f \in Files : added'[f] \subseteq added[f]
      BY <2>10, StopAddsNothing
    <3>4. Marked' => Marked
      BY <3>3 DEF Marked
    <3>5. paired => cmd = "unwire"
      BY <3>1 DEF PairInv, TypeOK
    <3>6. paired => Covers(saved, 1)'
      BY <2>0, <3>2, <3>3, <3>5, CoversLess, 1 \in Nat \ {0}, 1 <= next DEF PairInv, Covers
    <3> QED
      BY <3>1, <3>2, <3>4, <3>5, <3>6 DEF PairInv
  <2>11. CASE CannotParse
    BY <2>11 DEF CannotParse, Finish, PairInv, Marked
  <2>12. ASSUME NEW g \in Files, NEW deps \in SUBSET TablesOf(g), Edit(g, deps)
         PROVE PairInv'
    <3>1. cmd = "none" /\ UNCHANGED <<cmd, saved, entries, next, wires, paired>>
      BY <2>12 DEF Edit
    <3>2. \A f \in Files : added'[f] \subseteq added[f]
      BY <2>12 DEF Edit, TypeOK
    <3>3. Marked' => Marked
      BY <3>2 DEF Marked
    <3>4. Covers(saved, 1) => Covers(saved, 1)'
      BY <3>1, <3>2 DEF Covers
    <3> QED
      BY <3>1, <3>3, <3>4 DEF PairInv
  <2>13. CASE UNCHANGED vars
    BY <2>13 DEF vars, PairInv, Covers, Marked
  <2> QED
    BY <2>1, <2>2, <2>3, <2>4, <2>5, <2>6, <2>7, <2>8, <2>9, <2>10, <2>11, <2>12, <2>13
       DEF Next
<1> QED
  BY <1>1, <1>2, TypeCorrect, PTL DEF Spec

CleanInv == result = "unwired" => cmd = "none" /\ (paired => ~Marked)

\* A wire that ran to its end on a clean workspace is reverted entirely by
\* the next unwire that says so, whatever was refused, cut short or edited in
\* between (wire.rs:13-14), even where the root is a member.
THEOREM WiredOnceIsCleanHolds == Spec => []WiredOnceIsClean
<1>1. Init => CleanInv
  BY DEF Init, CleanInv
<1>2. TypeOK /\ PairInv /\ CleanInv /\ [Next]_vars => CleanInv'
  <2> SUFFICES ASSUME TypeOK, PairInv, CleanInv, [Next]_vars PROVE CleanInv'
    OBVIOUS
  <2>1. CASE RemoveManifest
    <3>1. paired => ~Marked
      BY <2>1 DEF RemoveManifest, PairInv, Covers, Marked, TypeOK
    <3> QED
      BY <2>1, <3>1 DEF RemoveManifest, Finish, CleanInv, Marked
  <2>2. ASSUME NEW g \in Files, NEW deps \in SUBSET TablesOf(g), Edit(g, deps)
        PROVE CleanInv'
    <3>1. \A f \in Files : added'[f] \subseteq added[f]
      BY <2>2 DEF Edit, TypeOK
    <3>2. Marked' => Marked
      BY <3>1 DEF Marked
    <3> QED
      BY <2>2, <3>2 DEF Edit, CleanInv
  <2>3. CASE BeginWire \/ BeginUnwire
    BY <2>3 DEF BeginWire, BeginUnwire, CleanInv
  <2>4. CASE Patch \/ SkipWired \/ Revert
    BY <2>4 DEF Patch, SkipWired, Revert, CleanInv
  <2>5. CASE SaveManifest \/ NothingToRevert \/ Refuse \/ Stop \/ CannotParse
    BY <2>5 DEF SaveManifest, NothingToRevert, Refuse, Stop, CannotParse, Finish, CleanInv
  <2>6. CASE UNCHANGED vars
    BY <2>6 DEF vars, CleanInv, Marked
  <2> QED
    BY <2>1, <2>2, <2>3, <2>4, <2>5, <2>6 DEF Next
<1>3. CleanInv => WiredOnceIsClean
  BY DEF CleanInv, WiredOnceIsClean, UnwiredIsClean
<1> QED
  BY <1>1, <1>2, <1>3, TypeCorrect, PairInvHolds, PTL DEF Spec

-----------------------------------------------------------------------------
\* No file but the root is named twice, and if it is not either, the files
\* from the k-th on are as wire left them.
Matches(list, k) ==
  /\ ~RootTwice(list) => \A i \in k .. Len(list) : file[list[i].file] = list[i].after
  /\ \A i, j \in 1 .. Len(list) :
       list[i].file = list[j].file => i = j \/ list[i].file = Root

Untorn(list) == \A i \in 1 .. Len(list) : list[i].before.text \in Nat

\* The patches already made are the ones the entries are of.
Recorded ==
  \A i \in 1 .. Len(entries) :
    \E j \in 1 .. next - 1 : j <= Len(Patches) /\ Patches[j].file = entries[i].file

\* As long as no command has stopped early: nothing is torn, and unless the
\* owner has written since the last wire began, what is saved, collected or
\* still to be reverted is what the files hold.
RefusalInv ==
  stops = 0 =>
    /\ \A f \in Files : file[f].text \in Nat
    /\ Untorn(entries)
    /\ saved # Torn /\ (saved # NoManifest => Untorn(saved))
    /\ cmd = "none" /\ ~edited /\ saved # NoManifest => Matches(saved, 1)
    /\ cmd = "none" => entries = <<>> /\ next = 1
    /\ cmd = "unwire" /\ ~edited => Matches(entries, next)
    /\ cmd = "wire" => Matches(entries, 1) /\ Recorded /\ ~edited
    /\ cmd = "unwire" => entries = saved
    /\ result = "refused" => cmd = "none" /\ (edited \/ RootTwice(saved))

\* No file but the root is patched twice.
LEMMA PatchesDiffer ==
  ASSUME NEW i \in 1 .. Len(Patches), NEW j \in 1 .. Len(Patches),
         Patches[i].file = Patches[j].file
  PROVE  i = j \/ Patches[i].file = Root
<1>1. /\ Members \in Seq(ToSet(Members)) /\ Len(Members) \in Nat
      /\ \A k, l \in 1 .. Len(Members) : Members[k] = Members[l] => k = l
  BY WireAssumption DEF IsInjective
<1>2. /\ Len(Patches) = Len(Members) + 1
      /\ Patches[1].file = Root
      /\ \A k \in 2 .. Len(Patches) :
           k - 1 \in 1 .. Len(Members) /\ Patches[k].file = Members[k - 1]
  <2>1. Len(Patches) = Len(Members) + 1 /\ Patches[1].file = Root
    BY PatchesType
  <2>2. ASSUME NEW k \in 2 .. Len(Patches)
        PROVE  Patches[k].file = Members[k - 1]
    <3>1. Patches[k] = [file |-> Members[k - 1], table |-> "dependencies"]
      BY PatchesType
    <3> QED BY <3>1
  <2>3. \A k \in 2 .. Len(Patches) : k - 1 \in 1 .. Len(Members)
    BY <1>1, <2>1
  <2> QED BY <2>1, <2>2, <2>3
<1>4. CASE i = 1 \/ j = 1
  BY <1>2, <1>4
<1>5. CASE i # 1 /\ j # 1
  <2>1. i \in 2 .. Len(Patches) /\ j \in 2 .. Len(Patches)
    BY <1>1, <1>2, <1>5
  <2>2. i - 1 = j - 1
    BY <1>1, <1>2, <2>1
  <2> QED BY <2>1, <2>2
<1> QED BY <1>4, <1>5

\* A patch keeps what was collected in step with the files.
LEMMA PatchMatches ==
  ASSUME TypeOK, Patch,
         Matches(entries, 1), Recorded, Untorn(entries),
         \A f \in Files : file[f].text \in Nat
  PROVE  /\ Matches(entries, 1)' /\ Recorded' /\ Untorn(entries')
         /\ \A f \in Files : file'[f].text \in Nat
<1> DEFINE p == Patches[next]
           e == [file |-> p.file, before |-> file[p.file],
                 after |-> Listing(file[p.file], p.table)]
<1>1. /\ next \in Nat \ {0} /\ next <= Len(Patches)
      /\ next' = next + 1
      /\ entries' = Append(entries, e)
      /\ file' = [file EXCEPT ![p.file] = Listing(file[p.file], p.table)]
  BY DEF Patch, TypeOK
<1>2. p.file \in Files /\ p.table \in Tables
  BY <1>1, PatchAt
<1>3. e \in Entry /\ e.file = p.file /\ e.before = file[p.file]
      /\ e.after = Listing(file[p.file], p.table)
  BY <1>2, EntryType DEF TypeOK
<1>4. /\ \A f \in Files : file'[f] = IF f = p.file THEN e.after ELSE file[f]
      /\ e.after.text = e.before.text
  BY <1>1, <1>2, <1>3 DEF TypeOK, Listing
<1> HIDE DEF p, e
<1>5. /\ Len(entries) \in Nat /\ Len(entries') = Len(entries) + 1
      /\ entries'[Len(entries) + 1] = e
      /\ \A i \in 1 .. Len(entries) : entries'[i] = entries[i]
      /\ \A i \in 1 .. Len(entries) : entries[i].file \in Files
  <2>1. entries \in Seq(Entry)
    BY DEF TypeOK
  <2>2. \A i \in 1 .. Len(entries) : entries[i] \in Entry
    BY <2>1
  <2> QED BY <1>1, <1>3, <2>1, <2>2 DEF Entry
<1>6. \A i \in 1 .. Len(entries') : i \in 1 .. Len(entries) \/ i = Len(entries) + 1
  BY <1>5
<1>7. \A i \in 1 .. Len(entries) : entries[i].file # p.file \/ p.file = Root
  <2> SUFFICES ASSUME NEW i \in 1 .. Len(entries), entries[i].file = p.file
               PROVE  p.file = Root
    OBVIOUS
  <2>1. PICK j \in 1 .. next - 1 : j <= Len(Patches) /\ Patches[j].file = p.file
    BY DEF Recorded
  <2>2. Len(Patches) \in Nat
    BY PatchesType, WireAssumption
  <2>3. j \in 1 .. Len(Patches) /\ next \in 1 .. Len(Patches) /\ j # next
    BY <1>1, <2>1, <2>2
  <2> QED
    BY <2>1, <2>3, PatchesDiffer DEF p
<1>8. Matches(entries, 1)'
  <2>1. ASSUME ~RootTwice(entries'), NEW i \in 1 .. Len(entries')
        PROVE  file'[entries'[i].file] = entries'[i].after
    <3>0. DOMAIN entries = 1 .. Len(entries) /\ DOMAIN entries' = 1 .. Len(entries')
      BY <1>1, <1>3 DEF TypeOK
    <3>1. ~RootTwice(entries)
      BY <1>5, <2>1, <3>0 DEF RootTwice
    <3>2. \A k \in 1 .. Len(entries) : entries[k].file # p.file
      <4> SUFFICES ASSUME NEW k \in 1 .. Len(entries), entries[k].file = p.file
                   PROVE  FALSE
        OBVIOUS
      <4>1. entries[k].file = Root /\ e.file = Root
        BY <1>3, <1>7
      <4>2. /\ k \in DOMAIN entries' /\ Len(entries) + 1 \in DOMAIN entries'
            /\ k # Len(entries) + 1
            /\ entries'[k] = entries[k] /\ entries'[Len(entries) + 1] = e
        BY <1>5, <3>0
      <4> QED BY <2>1, <4>1, <4>2 DEF RootTwice
    <3>3. CASE i \in 1 .. Len(entries)
      BY <1>4, <1>5, <3>1, <3>2, <3>3 DEF Matches
    <3>4. CASE i = Len(entries) + 1
      BY <1>2, <1>3, <1>4, <1>5, <3>4
    <3> QED BY <1>6, <3>3, <3>4
  <2>2. \A i, j \in 1 .. Len(entries') :
          entries'[i].file = entries'[j].file => i = j \/ entries'[i].file = Root
    BY <1>3, <1>5, <1>6, <1>7 DEF Matches
  <2> QED BY <2>1, <2>2 DEF Matches
<1>9. Recorded'
  <2> SUFFICES ASSUME NEW i \in 1 .. Len(entries')
               PROVE  \E j \in 1 .. next' - 1 :
                        j <= Len(Patches) /\ Patches[j].file = entries'[i].file
    BY DEF Recorded
  <2>1. CASE i \in 1 .. Len(entries)
    <3>1. PICK j \in 1 .. next - 1 :
            j <= Len(Patches) /\ Patches[j].file = entries[i].file
      BY <2>1 DEF Recorded
    <3>2. j \in 1 .. next' - 1
      BY <1>1
    <3> QED BY <1>5, <2>1, <3>1, <3>2
  <2>2. CASE i = Len(entries) + 1
    <3>1. next \in 1 .. next' - 1 /\ Patches[next].file = entries'[i].file
      BY <1>1, <1>3, <1>5, <2>2 DEF p
    <3> QED BY <1>1, <3>1
  <2> QED BY <1>6, <2>1, <2>2
<1>10. Untorn(entries') /\ \A f \in Files : file'[f].text \in Nat
  BY <1>2, <1>3, <1>4, <1>5, <1>6 DEF Untorn
<1> QED BY <1>8, <1>9, <1>10

\* A revert leaves the entries behind it in step with the files.
LEMMA RevertMatches ==
  ASSUME TypeOK, Revert, Matches(entries, next)
  PROVE  Matches(entries, next)'
<1> DEFINE e == entries[next]
<1>1. /\ next \in 1 .. Len(entries) /\ next' = next + 1 /\ entries' = entries
      /\ file' = [file EXCEPT ![e.file] = e.before]
      /\ Len(entries) \in Nat
  BY DEF Revert, TypeOK
<1>2. ASSUME ~RootTwice(entries), NEW i \in next + 1 .. Len(entries)
      PROVE  file'[entries[i].file] = entries[i].after
  <2>1. i \in next .. Len(entries) /\ i \in 1 .. Len(entries) /\ i # next
    BY <1>1
  <2>2. entries[i] \in Entry /\ DOMAIN entries = 1 .. Len(entries)
    BY <2>1 DEF TypeOK
  <2>3. entries[i].file # e.file
    BY <1>1, <1>2, <2>1, <2>2 DEF Matches, RootTwice
  <2>4. entries[i].file \in Files /\ file[entries[i].file] = entries[i].after
    BY <1>2, <2>1, <2>2 DEF Matches, Entry
  <2> QED BY <1>1, <2>3, <2>4 DEF TypeOK
<1> QED BY <1>1, <1>2 DEF Matches

\* What RefusalInv says holds from step to step.
LEMMA RefusalInvStep ==
  ASSUME TypeOK, RefusalInv, [Next]_vars
  PROVE  RefusalInv'
<1> SUFFICES ASSUME stops' = 0 PROVE RefusalInv'
  BY DEF RefusalInv
<1>0. /\ Untorn(<<>>) /\ Matches(<<>>, 1)'
      /\ NoManifest # Torn /\ <<>> # Torn /\ <<>> # NoManifest
      /\ stops \in Nat /\ entries \in Seq(Entry) /\ Torn \notin Nat
      /\ {NoManifest, Torn} \cap Seq(Entry) = {}
  <2>1. <<>> \in Seq(Entry) /\ Len(<<>>) = 0
    OBVIOUS
  <2>2. Untorn(<<>>) /\ Matches(<<>>, 1)'
    BY DEF Untorn, Matches
  <2> QED BY <2>1, <2>2, WireAssumption DEF TypeOK
<1>1. CASE BeginWire
  BY <1>0, <1>1 DEF BeginWire, RefusalInv, Recorded
<1>2. CASE Patch
  <2>1. /\ stops = 0 /\ cmd = "wire"
        /\ UNCHANGED <<saved, cmd, result, edited>>
    BY <1>2 DEF Patch
  <2>2. /\ Matches(entries, 1)' /\ Recorded' /\ Untorn(entries')
        /\ \A f \in Files : file'[f].text \in Nat
    BY <1>2, <2>1, PatchMatches DEF RefusalInv
  <2> QED BY <2>1, <2>2 DEF RefusalInv
<1>3. CASE SkipWired
  <2>1. Recorded => Recorded'
    <3> SUFFICES ASSUME Recorded, NEW i \in 1 .. Len(entries')
                 PROVE  \E j \in 1 .. next' - 1 :
                          j <= Len(Patches) /\ Patches[j].file = entries'[i].file
      BY DEF Recorded
    <3>1. entries' = entries /\ next' = next + 1 /\ next \in Nat
      BY <1>3 DEF SkipWired, TypeOK
    <3>2. PICK j \in 1 .. next - 1 :
            j <= Len(Patches) /\ Patches[j].file = entries[i].file
      BY <3>1 DEF Recorded
    <3>3. j \in 1 .. next' - 1
      BY <3>1
    <3> QED BY <3>1, <3>2, <3>3
  <2> QED BY <1>3, <2>1 DEF SkipWired, RefusalInv, Matches
<1>4. CASE SaveManifest
  <2>1. /\ stops = 0 /\ cmd = "wire" /\ saved' = entries /\ cmd' = "none"
        /\ entries' = <<>> /\ next' = 1 /\ result' = "wired"
        /\ UNCHANGED <<file, edited>>
    BY <1>4 DEF SaveManifest, Finish
  <2>2. Matches(saved, 1)'
    BY <2>1 DEF RefusalInv, Matches
  <2>3. saved' # Torn
    BY <1>0, <2>1
  <2> QED BY <1>0, <2>1, <2>2, <2>3 DEF RefusalInv
<1>5. CASE NothingToRevert
  BY <1>0, <1>5 DEF NothingToRevert, Finish, RefusalInv, Matches
<1>6. CASE BeginUnwire
  BY <1>0, <1>6 DEF BeginUnwire, RefusalInv, Matches
<1>7. CASE Revert
  <2>1. /\ stops = 0 /\ cmd = "unwire"
        /\ UNCHANGED <<saved, cmd, entries, result, edited>>
    BY <1>7 DEF Revert
  <2>2. edited \/ Matches(entries, next)'
    BY <1>7, <2>1, RevertMatches DEF RefusalInv
  <2>3. entries[next].before.text \in Nat
    BY <1>7, <2>1 DEF Revert, RefusalInv, Untorn, TypeOK
  <2>4. \A f \in Files : file'[f].text \in Nat
    BY <1>7, <2>1, <2>3 DEF Revert, RefusalInv, TypeOK
  <2> QED BY <2>1, <2>2, <2>4 DEF RefusalInv
<1>8. CASE Refuse
  <2>1. /\ stops = 0 /\ cmd = "unwire" /\ cmd' = "none"
        /\ entries' = <<>> /\ next' = 1 /\ result' = "refused"
        /\ UNCHANGED <<file, saved, edited>>
    BY <1>8 DEF Refuse, Finish
  <2>2. next \in next .. Len(entries)
    BY <1>8 DEF Refuse, TypeOK
  <2>3. edited \/ RootTwice(saved)
    <3>1. file[entries[next].file] # entries[next].after
      BY <1>8 DEF Refuse
    <3>2. (edited \/ Matches(entries, next)) /\ entries = saved
      BY <2>1 DEF RefusalInv
    <3>3. Matches(entries, next) => RootTwice(entries)
      BY <2>2, <3>1 DEF Matches
    <3> QED BY <3>2, <3>3
  <2>4. edited' \/ RootTwice(saved')
    BY <2>1, <2>3 DEF RootTwice
  <2>5. ~edited => Matches(saved, 1)'
    <3>1. ~edited => Matches(saved, next)
      BY <2>1 DEF RefusalInv
    <3>2. ~edited => RootTwice(saved)
      BY <2>3
    <3> QED BY <2>1, <3>1, <3>2 DEF Matches, RootTwice
  <2> QED BY <1>0, <2>1, <2>4, <2>5 DEF RefusalInv
<1>9. CASE RemoveManifest
  <2>1. /\ stops = 0 /\ cmd' = "none" /\ saved' = NoManifest
        /\ entries' = <<>> /\ next' = 1 /\ result' = "unwired"
        /\ UNCHANGED <<file, edited>>
    BY <1>0, <1>9 DEF RemoveManifest, Finish
  <2> QED BY <1>0, <2>1 DEF RefusalInv
<1>10. CASE Stop
  BY <1>0, <1>10 DEF Stop
<1>11. CASE CannotParse
  <2>1. Patches[next].file \in Files
    BY <1>11, PatchAt DEF CannotParse, TypeOK
  <2> QED
    BY <1>0, <1>11, <2>1 DEF CannotParse, Target, RefusalInv
<1>12. ASSUME NEW f \in Files, NEW deps \in SUBSET TablesOf(f), Edit(f, deps)
       PROVE  RefusalInv'
  <2>1. /\ stops = 0 /\ cmd = "none" /\ edited'
        /\ UNCHANGED <<saved, cmd, next, entries, result>>
    BY <1>12 DEF Edit
  <2>2. PICK text \in {file[f].text, edits + 1} :
          file' = [file EXCEPT ![f] = [text |-> text, deps |-> deps]]
    BY <1>12 DEF Edit
  <2>3. \A g \in Files : file'[g].text \in Nat
    BY <2>1, <2>2 DEF RefusalInv, TypeOK
  <2> QED BY <2>1, <2>3 DEF RefusalInv
<1>13. CASE UNCHANGED vars
  BY <1>13 DEF vars, RefusalInv, Matches, Recorded
<1> QED
  BY <1>1, <1>2, <1>3, <1>4, <1>5, <1>6, <1>7, <1>8, <1>9, <1>10, <1>11, <1>12,
     <1>13 DEF Next

\* wire.rs:241: in any workspace, and when every command runs to its end,
\* unwire refuses a file only if its owner has written since the last wire
\* began, or if wire has recorded the root twice.
THEOREM RefusalMeansEditHolds == Spec => []RefusalMeansEdit
<1>1. Init => RefusalInv
  BY WireAssumption DEF Init, RefusalInv, Untorn, Matches
<1>2. TypeOK /\ RefusalInv /\ [Next]_vars => RefusalInv'
  BY RefusalInvStep
<1>3. TypeOK /\ RefusalInv => RefusalMeansEdit
  BY DEF TypeOK, RefusalInv, RefusalMeansEdit
<1> QED
  BY <1>1, <1>2, <1>3, TypeCorrect, PTL DEF Spec
=============================================================================
