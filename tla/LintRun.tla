------------------------------- MODULE LintRun -------------------------------
(***************************************************************************)
(* `instrument` and `apply` let `cargo dylint --fix` rewrite the sources   *)
(* of a workspace and save what they were; `undo` and `uninstrument` put   *)
(* that back (lint_apply.rs, lint_instrument.rs, staleness.rs and the      *)
(* commands of cli.rs, all in src/captrack-pgo/src).                       *)
(*                                                                         *)
(* A source is the text its owner wrote, as a number, and the marks the    *)
(* lints left in it: "wrapped" by instrument, "sized" by apply.  Equal     *)
(* sha256 sums are equal contents.  cargo rewrites any files in any order, *)
(* and may fail after some of them.  The owner may edit at any moment, for *)
(* a run takes as long as a build.  A command may stop early, by an error  *)
(* or because it is killed: fs::write then leaves a torn manifest, while   *)
(* atomic_write leaves a source either old or new.  What a command that    *)
(* fails its checks, or runs with --dry-run, leaves behind is nothing.     *)
(***************************************************************************)
EXTENDS Naturals, FiniteSets

CONSTANTS
  Sources,     \* the .rs files the walk of the workspace finds
  MaxEdits,    \* bound: texts the owner writes
  MaxStops,    \* bound: commands that stop early
  Torn,        \* what a half-written manifest holds
  NoManifest   \* the file does not exist

Ops == {"instrument", "apply"}
Marks == {"wrapped", "sized"}

\* Slip: a source is marked with the name of the run.
MarkOfName(op) == op

MarkOf(op) == IF op = "instrument" THEN "wrapped" ELSE "sized"

\* A source file, and what a manifest records of one that changed.
Content == [text : Nat, marks : SUBSET Marks]
Entry == [before : Content, after : Content]

ASSUME LintRunAssumption ==
  /\ MaxEdits \in Nat
  /\ MaxStops \in Nat
  /\ NoManifest # Torn
  /\ \A m \in {NoManifest, Torn}, S \in SUBSET Sources :
       m \notin [S -> Entry] /\ m \notin [S -> Content]

VARIABLES
  src,      \* [text, marks] of each source
  saved,    \* last-instrument.json and last-apply.json
  newest,   \* the one of them written last: "none" before either is
  hashes,   \* last-instrument-hashes.json: the contents it has the sums of
  cmd,      \* the run under way or under revert, "none" when there is neither
  phase,    \* "fix" the sources, save their "hashes", "restore" them, or "none"
  before,   \* the snapshot a run takes of the sources
  todo,     \* files an undo has verified and not yet restored
  result,   \* how the last command ended
  edits,    \* history: texts written by the owner
  stops,    \* history: commands that stopped early
  raced,    \* history: files the owner wrote while a command was under way
  paired    \* history: last-instrument.json has all that instrument has wrapped

vars == <<src, saved, newest, hashes, cmd, phase, before, todo, result,
          edits, stops, raced, paired>>
history == <<edits, stops, raced>>

\* What a command has in memory is gone with it.
Blank == [f \in Sources |-> [text |-> 0, marks |-> {}]]

Finish(how) ==
  /\ cmd' = "none"
  /\ phase' = "none"
  /\ before' = Blank
  /\ todo' = {}
  /\ result' = how

(***************************************************************************)
(* instrument and apply                                                    *)
(***************************************************************************)

\* snapshot_rs_files, before cargo dylint starts.
Snapshot(o) ==
  /\ cmd = "none"
  /\ cmd' = o
  /\ phase' = "fix"
  /\ before' = src
  /\ result' = "none"
  /\ UNCHANGED <<src, saved, newest, hashes, todo, history>>

BeginInstrument ==
  /\ Snapshot("instrument")
  /\ paired' = FALSE

\* The sums saved by instrument are those of the sources as they are now.
Fresh ==
  \/ hashes = NoManifest
  \/ hashes # Torn /\ hashes = src

BeginApply(force) ==
  /\ force \/ Fresh
  /\ Snapshot("apply")
  /\ UNCHANGED paired

RefuseStale ==
  /\ cmd = "none"
  /\ ~Fresh
  /\ Finish(IF hashes = Torn THEN "unreadable" ELSE "stale")
  /\ UNCHANGED <<src, saved, newest, hashes, history, paired>>

\* cargo fix rewrites one more file.
Fix(f) ==
  /\ phase = "fix"
  /\ MarkOf(cmd) \notin src[f].marks
  /\ src' = [src EXCEPT ![f].marks = @ \cup {MarkOf(cmd)}]
  /\ UNCHANGED <<saved, newest, hashes, cmd, phase, before, todo, result,
                 history, paired>>

\* It exits with an error: files it has rewritten stay, nothing is saved.
FixFails ==
  /\ phase = "fix"
  /\ Finish("failed")
  /\ UNCHANGED <<src, saved, newest, hashes, history, paired>>

\* diff_snapshots: the walked files that are not as they were.
Changed == {f \in Sources : src[f] # before[f]}
Diff == [f \in Changed |-> [before |-> before[f], after |-> src[f]]]

\* write_manifest, over the one of an earlier run if there is one.
SaveManifest ==
  /\ phase = "fix"
  /\ saved' = [saved EXCEPT ![cmd] = Diff]
  /\ newest' = cmd
  /\ IF cmd = "instrument"
       THEN /\ phase' = "hashes"
            /\ paired' = \A f \in Sources : "wrapped" \notin before[f].marks
            /\ UNCHANGED <<cmd, before, todo, result>>
       ELSE Finish("applied") /\ UNCHANGED paired
  /\ UNCHANGED <<src, hashes, history>>

\* write_staleness_snapshot: the sources are read once more.
SaveHashes ==
  /\ phase = "hashes"
  /\ hashes' = src
  /\ Finish("instrumented")
  /\ UNCHANGED <<src, saved, newest, edits, stops, raced, paired>>

(***************************************************************************)
(* undo and uninstrument                                                   *)
(***************************************************************************)

\* Slip: sums are not compared.
AsLeftTrusted(o, f) == TRUE

\* The file is as the run left it.
AsLeft(o, f) == src[f] = saved[o][f].after

\* Slip: files that are not as the run left them are passed over.
BeginUndoPartly(o) ==
  /\ cmd = "none"
  /\ saved[o] \notin {NoManifest, Torn}
  /\ cmd' = o
  /\ phase' = "restore"
  /\ todo' = {f \in DOMAIN saved[o] : AsLeft(o, f)}
  /\ result' = "none"
  /\ UNCHANGED <<src, saved, newest, hashes, before, history, paired>>

\* Every file is verified before the first one is restored.
BeginUndo(o) ==
  /\ cmd = "none"
  /\ saved[o] \notin {NoManifest, Torn}
  /\ \A f \in DOMAIN saved[o] : AsLeft(o, f)
  /\ cmd' = o
  /\ phase' = "restore"
  /\ todo' = DOMAIN saved[o]
  /\ result' = "none"
  /\ UNCHANGED <<src, saved, newest, hashes, before, history, paired>>

RefuseUndo(o) ==
  /\ cmd = "none"
  /\ saved[o] \notin {NoManifest, Torn}
  /\ \E f \in DOMAIN saved[o] : ~AsLeft(o, f)
  /\ Finish("modified")
  /\ UNCHANGED <<src, saved, newest, hashes, history, paired>>

\* `undo` alone picks the manifest written last, undone or not;
\* `uninstrument`, and cleanup_best_effort, that of instrument.
Undo == newest # "none" /\ (BeginUndo(newest) \/ RefuseUndo(newest))
Uninstrument == BeginUndo("instrument") \/ RefuseUndo("instrument")

Restore(f) ==
  /\ phase = "restore"
  /\ f \in todo
  /\ src' = [src EXCEPT ![f] = saved[cmd][f].before]
  /\ todo' = todo \ {f}
  /\ UNCHANGED <<saved, newest, hashes, cmd, phase, before, result, history, paired>>

\* The manifest stays in place.
EndUndo ==
  /\ phase = "restore"
  /\ todo = {}
  /\ Finish(IF cmd = "instrument" THEN "uninstrumented" ELSE "undone")
  /\ UNCHANGED <<src, saved, newest, hashes, history, paired>>

(***************************************************************************)
(* Early ends, and the owner                                               *)
(***************************************************************************)

\* An early end may tear the manifest or the sums that are being written.
Stop ==
  /\ cmd # "none"
  /\ stops < MaxStops
  /\ stops' = stops + 1
  /\ \/ UNCHANGED <<saved, newest, hashes, paired>>
     \/ /\ phase = "fix"
        /\ saved' = [saved EXCEPT ![cmd] = Torn]
        /\ newest' = cmd
        /\ UNCHANGED <<hashes, paired>>
     \/ /\ phase = "hashes"
        /\ hashes' = Torn
        /\ UNCHANGED <<saved, newest, paired>>
  /\ Finish("stopped")
  /\ UNCHANGED <<src, edits, raced>>

\* A new text, or the old one with the marks taken out of it.
Edit(f) ==
  /\ edits < MaxEdits
  /\ edits' = edits + 1
  /\ \/ src' = [src EXCEPT ![f].text = edits + 1]
     \/ src' = [src EXCEPT ![f].marks = {}]
  /\ raced' = IF cmd = "none" THEN raced ELSE raced \cup {f}
  /\ UNCHANGED <<saved, newest, hashes, cmd, phase, before, todo, result, stops, paired>>

-----------------------------------------------------------------------------
Init ==
  /\ src = Blank
  /\ saved = [o \in Ops |-> NoManifest]
  /\ newest = "none"
  /\ hashes = NoManifest
  /\ cmd = "none"
  /\ phase = "none"
  /\ before = Blank
  /\ todo = {}
  /\ result = "none"
  /\ edits = 0
  /\ stops = 0
  /\ raced = {}
  /\ paired = FALSE

Command ==
  \/ BeginInstrument
  \/ \E force \in BOOLEAN : BeginApply(force)
  \/ RefuseStale \/ Undo \/ Uninstrument

Step ==
  \/ \E f \in Sources : Fix(f)
  \/ FixFails \/ SaveManifest \/ SaveHashes
  \/ \E f \in Sources : Restore(f)
  \/ EndUndo \/ Stop

Owner == \E f \in Sources : Edit(f)

Next == Command \/ Step \/ Owner

Spec == Init /\ [][Next]_vars

-----------------------------------------------------------------------------
\* The values of the variables.
TypeOK ==
  /\ src \in [Sources -> Content]
  /\ DOMAIN saved = Ops
  /\ \A o \in Ops : \/ saved[o] \in {NoManifest, Torn}
                    \/ \E S \in SUBSET Sources : saved[o] \in [S -> Entry]
  /\ newest \in Ops \cup {"none"}
  /\ hashes \in [Sources -> Content] \cup {NoManifest, Torn}
  /\ cmd \in Ops \cup {"none"}
  /\ phase \in {"none", "fix", "hashes", "restore"}
  /\ before \in [Sources -> Content]
  /\ todo \in SUBSET Sources
  /\ result \in {"none", "stale", "unreadable", "failed", "applied", "instrumented",
                 "modified", "uninstrumented", "undone", "stopped"}
  /\ edits \in Nat
  /\ stops \in Nat
  /\ raced \in SUBSET Sources
  /\ paired \in BOOLEAN

\* lint_apply.rs:81, "allows lossless undo": no command replaces the text its
\* owner wrote by another one, however old the manifest it works from and
\* whatever stopped or failed before.  The exception are files the owner
\* wrote while a command was under way: what is written between the snapshot
\* and the diff passes for cargo's own work, and what is written between the
\* verification and the restore is not looked at again.
OwnersTextKept ==
  [][\A f \in Sources :
       src'[f].text = src[f].text \/ edits' # edits \/ f \in raced]_vars

\* An instrument of sources that nothing wraps, if its manifest gets written,
\* is reverted in full by the next undo of it that reports success: whatever
\* cargo rewrote, and whatever applies, edits, failed and refused commands
\* lie between them.
PairedIsReverted ==
  paired /\ result = "uninstrumented" =>
    \A f \in Sources \ raced : "wrapped" \notin src[f].marks

\* staleness.rs:160, "source files changed since `instrument` ran": apply
\* refuses only if the owner has written since.
StaleMeansEdited == result = "stale" => edits > 0
=============================================================================
