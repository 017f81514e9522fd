------------------------------- MODULE Measure -------------------------------
(***************************************************************************)
(* `measure` wires a workspace, instruments it, runs its benches, merges   *)
(* the profiles they dumped and puts everything back, also when a step has *)
(* failed (src/captrack-pgo/src/measure.rs).  It runs the lint run of      *)
(* LintRun as it stands, and the owner goes on using the lint commands     *)
(* before and after it.  Of wiring, which Wire models file by file, only   *)
(* its effect on the manifests as a whole is kept.                         *)
(*                                                                         *)
(* autodump.rs names a profile after the running executable; measure looks *)
(* for one named after the bench.  DumpName says how each bench's process  *)
(* names its profile.                                                      *)
(***************************************************************************)
EXTENDS LintRun

CONSTANTS
  Benches,   \* the --bench targets, which name the profiles measure looks for
  Names,     \* names a profile in the dump directory may have
  DumpName,  \* the name under which a bench's process dumps its own
  NoBench,   \* no bench is running
  RootIsMember  \* whether the workspace lists "." among its members

ASSUME MeasureAssumption ==
  /\ Benches \subseteq Names
  /\ Benches # {}
  /\ DumpName \in [Benches -> Names]
  /\ NoBench \notin Benches
  /\ RootIsMember \in BOOLEAN

VARIABLES
  stage,     \* the step measure is at: "idle" when it is not running
  manifests, \* the Cargo.toml files: "plain" or "wired"
  original,  \* what last-wire.json puts back: "none" when it does not exist or
             \* parse, "twice" when it lists the root twice and is refused
  left,      \* benches to be run
  child,     \* the bench that is running
  profiles,  \* names of the profiles in the dump directory, while measure runs
  outcome,   \* how measure ended, or will end
  wrote,     \* history: benches that have dumped in this measure
  calm       \* history: it began on a workspace that was neither wired nor
             \* wrapped, and no edit, early end or half-done rewrite came since

mvars == <<stage, manifests, original, left, child, profiles, outcome, wrote, calm>>
wiring == <<manifests, original>>
benching == <<left, child, profiles, wrote>>

Unwrapped(files) == \A f \in files : "wrapped" \notin src[f].marks

Go(to, how) ==
  /\ stage' = to
  /\ outcome' = how

\* No bench runs, and what profiles there are is of no interest.
Idle ==
  /\ left' = {}
  /\ child' = NoBench
  /\ profiles' = {}
  /\ wrote' = {}

(***************************************************************************)
(* wire, before the guard is armed                                         *)
(***************************************************************************)

\* The dump directory has whatever earlier runs of any kind have left there.
BeginMeasure ==
  /\ stage = "idle" /\ cmd = "none"
  /\ Go("wire", "none")
  /\ left' = Benches
  /\ profiles' \in SUBSET Names
  /\ calm' = (manifests = "plain" /\ Unwrapped(Sources))
  /\ UNCHANGED <<vars, wiring, child, wrote>>

\* last-wire.json is written anew: of manifests that are wired already it
\* has nothing to put back.  A root that is a member too is in it twice, and
\* the sum in the first entry is of what the file held between two patches.
Wired ==
  /\ stage = "wire"
  /\ Go("armed", "none")
  /\ manifests' = "wired"
  /\ original' = IF manifests = "plain" /\ RootIsMember THEN "twice" ELSE manifests
  /\ UNCHANGED <<vars, benching, calm>>

\* `?` returns with the manifests patched, or some of them, or none, and
\* last-wire.json as it was or torn.
WireFails ==
  /\ stage = "wire"
  /\ Go("idle", "wire_failed")
  /\ Idle
  /\ manifests' \in {manifests, "wired"}
  /\ original' \in {original, "none"}
  /\ UNCHANGED <<vars, calm>>

(***************************************************************************)
(* instrument                                                              *)
(***************************************************************************)

\* No lint path, no cargo dylint, or a source that cannot be read.
PreflightFails ==
  /\ stage = "armed"
  /\ Go("cleanup", "failed")
  /\ UNCHANGED <<vars, benching, wiring, calm>>

Instrument ==
  /\ stage = "armed"
  /\ BeginInstrument
  /\ Go("instrument", "none")
  /\ UNCHANGED <<benching, wiring, calm>>

\* Slip: the guard is armed only after instrument has succeeded.
InstrumentedUnguarded ==
  /\ stage = "instrument" /\ cmd = "none"
  /\ IF result = "instrumented" THEN Go("bench", "none") ELSE Go("idle", "failed")
  /\ UNCHANGED <<vars, benching, wiring, calm>>

Instrumented ==
  /\ stage = "instrument" /\ cmd = "none"
  /\ IF result = "instrumented" THEN Go("bench", "none") ELSE Go("cleanup", "failed")
  /\ UNCHANGED <<vars, benching, wiring, calm>>

(***************************************************************************)
(* run_single_bench, and merge                                             *)
(***************************************************************************)

\* No crate has the bench, it does not build, or no binary is found.
BenchFails ==
  /\ stage = "bench" /\ child = NoBench
  /\ left # {}
  /\ Go("cleanup", "failed")
  /\ UNCHANGED <<vars, benching, wiring, calm>>

StartBench(b) ==
  /\ stage = "bench" /\ child = NoBench
  /\ b \in left
  /\ child' = b
  /\ UNCHANGED <<vars, stage, left, profiles, wrote, outcome, wiring, calm>>

\* The autodump of the bench's process: at a tick, or as it exits.
BenchDumps ==
  /\ child # NoBench
  /\ profiles' = profiles \cup {DumpName[child]}
  /\ wrote' = wrote \cup {child}
  /\ UNCHANGED <<vars, stage, left, child, outcome, wiring, calm>>

\* Slip: the child is waited for, however long it takes.
EndBenchUnlimited ==
  /\ child # NoBench
  /\ child \in wrote
  /\ left' = left \ {child}
  /\ child' = NoBench
  /\ UNCHANGED <<vars, stage, profiles, wrote, outcome, wiring, calm>>

\* It exits with any code, crashes, or is killed at the timeout.
EndBench ==
  /\ child # NoBench
  /\ left' = left \ {child}
  /\ child' = NoBench
  /\ UNCHANGED <<vars, stage, profiles, wrote, outcome, wiring, calm>>

\* The process cannot be waited for: it lives on.
WaitFails ==
  /\ stage = "bench" /\ child # NoBench
  /\ Go("cleanup", "failed")
  /\ UNCHANGED <<vars, benching, wiring, calm>>

\* The profiles that exist among those measure expects.
Found == {b \in Benches : b \in profiles}

Merge ==
  /\ stage = "bench" /\ child = NoBench
  /\ left = {}
  /\ IF Found = {} THEN Go("cleanup", "no_profiles")
     ELSE \E how \in {"merged", "failed"} : Go("cleanup", how)
  /\ UNCHANGED <<vars, benching, wiring, calm>>

(***************************************************************************)
(* cleanup_best_effort: at the end, or when the guard is dropped           *)
(***************************************************************************)

\* An instrument manifest is reverted if it can be; errors are ignored.
UndoInstrument ==
  /\ stage = "cleanup"
  /\ \/ Uninstrument
     \/ saved["instrument"] \in {NoManifest, Torn} /\ UNCHANGED vars
  /\ Go("undo", outcome)
  /\ UNCHANGED <<benching, wiring, calm>>

\* The error of an unwire that refuses is ignored, like that of a missing one.
Unwire ==
  /\ stage = "undo" /\ cmd = "none"
  /\ Go("idle", outcome)
  /\ Idle
  /\ IF original \in {"none", "twice"}
       THEN UNCHANGED wiring
       ELSE manifests' = original /\ original' = "none"
  /\ UNCHANGED <<vars, calm>>

\* A Cargo.toml cannot be read or written, or last-wire.json not removed: this
\* error is ignored as well.
UnwireFails ==
  /\ stage = "undo" /\ cmd = "none"
  /\ original \notin {"none", "twice"}
  /\ stops < MaxStops
  /\ stops' = stops + 1
  /\ Go("idle", outcome)
  /\ Idle
  /\ manifests' \in {manifests, original}
  /\ calm' = FALSE
  /\ UNCHANGED <<src, saved, newest, hashes, cmd, phase, before, todo,
                 result, edits, raced, paired, original>>

(***************************************************************************)
(* The lint runs, the owner, and kills                                     *)
(***************************************************************************)

\* The owner runs a lint command while measure does not.
LintCommand ==
  /\ stage = "idle"
  /\ Command
  /\ Go("idle", "none")
  /\ calm' = FALSE
  /\ UNCHANGED <<benching, wiring>>

\* A step of a lint run: half-done rewrites stay.
LintStep ==
  /\ Step
  /\ calm' = (calm /\ stops' = stops /\ (result' = "failed" => src = before))
  /\ UNCHANGED <<stage, outcome, benching, wiring>>

OwnerEdits ==
  /\ Owner
  /\ calm' = FALSE
  /\ UNCHANGED <<stage, outcome, benching, wiring>>

\* No guard runs when the process is killed; a bench lives on.
Kill ==
  /\ stage # "idle"
  /\ IF cmd = "none"
       THEN /\ stops < MaxStops
            /\ stops' = stops + 1
            /\ UNCHANGED <<src, saved, newest, hashes, cmd, phase, before, todo,
                           result, edits, raced, paired>>
       ELSE Stop
  /\ Go("idle", "killed")
  /\ Idle
  /\ UNCHANGED <<wiring, calm>>

-----------------------------------------------------------------------------
MeasureInit ==
  /\ Init
  /\ stage = "idle"
  /\ manifests = "plain"
  /\ original = "none"
  /\ left = {}
  /\ child = NoBench
  /\ profiles = {}
  /\ outcome = "none"
  /\ wrote = {}
  /\ calm = FALSE

\* What measure does by itself: that a bench ends is wait_with_timeout's
\* doing, and that a lint run does is an assumption on cargo.
Work ==
  \/ Wired
  \/ Instrument \/ Instrumented
  \/ (\E b \in Benches : StartBench(b)) \/ EndBench
  \/ Merge
  \/ UndoInstrument \/ Unwire

\* What may fail, and need not.
Failure == WireFails \/ PreflightFails \/ BenchFails \/ WaitFails \/ UnwireFails

MeasureNext ==
  \/ BeginMeasure \/ Work \/ Failure \/ BenchDumps
  \/ LintCommand \/ LintStep \/ OwnerEdits \/ Kill

MeasureSpec == MeasureInit /\ [][MeasureNext]_<<vars, mvars>>
FairMeasureSpec == MeasureSpec /\ WF_<<vars, mvars>>(Work \/ LintStep)

-----------------------------------------------------------------------------
\* The values of the variables.
MeasureTypeOK ==
  /\ TypeOK
  /\ stage \in {"idle", "wire", "armed", "instrument", "bench", "cleanup", "undo"}
  /\ manifests \in {"plain", "wired"}
  /\ original \in {"none", "plain", "wired", "twice"}
  /\ left \in SUBSET Benches
  /\ child \in Benches \cup {NoBench}
  /\ profiles \in SUBSET Names
  /\ outcome \in {"none", "wire_failed", "failed", "no_profiles", "merged", "killed"}
  /\ wrote \in SUBSET Benches
  /\ calm \in BOOLEAN

\* A measure is over, by its end or by its guard.
CleanedUp == stage = "idle" /\ outcome \in {"merged", "failed", "no_profiles"}

\* measure.rs:228-229, "the target workspace is always restored even when a
\* step fails": a measure of a workspace that was neither wired nor wrapped
\* leaves it so, however it ends after wiring and whatever lint commands,
\* kills and failed wires came before it.  The exceptions: the owner edits a
\* source during it or during an earlier lint run, a write of its own fails,
\* cargo fails with some sources rewritten, which nothing then reverts, or
\* the root is a member too, when unwire refuses and leaves all wired.
MeasureRestores ==
  CleanedUp /\ calm =>
    /\ Unwrapped(Sources \ raced)
    /\ manifests = "plain" \/ RootIsMember

\* measure.rs:228, "always restored": the same of the manifests alone and
\* without the last exception, which the comment does not make.
MeasureUnwires == CleanedUp /\ calm => manifests = "plain"

\* measure comes back whatever its benches do, and whatever fails.
MeasureReturns == stage # "idle" ~> stage = "idle"

\* measure.rs:8 and 22, "collect the dump": measure fails for want of a
\* profile only if some bench has not dumped any.
DumpsAreFound == stage = "cleanup" /\ outcome = "no_profiles" => wrote # Benches
=============================================================================
