# A TLA+ model of captrack

captrack measures how large a program's collections really get and rewrites
their construction sites with better capacities. This directory holds the TLA+
modules that model it, the TLC configurations that check them on small
instances, and the proofs, checked with TLAPS, of what matters most for every
instance. Source paths are relative to the directory that holds `src/`.

## 1. The system

Two halves that meet in a file. The *library* (`src/src`, crate `captrack`)
runs inside the measured program, in all of its threads, and leaves
`profile-<binary>.json` behind. The *tools* (`src/captrack-pgo`,
`src/captrack-pgo-lint`) patch a workspace so that it is measured, read the
profiles and rewrite the sources.

| component | state it keeps | operations | interacts with | what makes it correct |
|---|---|---|---|---|
| reservoir (`reservoir.rs`) | `buf` behind a mutex, atomic `seen_count` | `record`, `snapshot`, `total_observed` | called by the registry and the dump | no sample lost below the capacity, never more than the capacity, no reader sees more samples than observations |
| registry (`registry.rs`) | one `scc::HashMap` from site to name, `creation_count`, reservoir | `record_creation`, `record_initial`, `record_sample`, scan | wrappers and macros call it from any thread | each construction and each sample counted once whoever inserts the entry; an entry is never reset |
| dump and autodump (`dump.rs`, `autodump.rs`) | the profile, its `.tmp`, a ticker thread, an exit destructor | tick, exit dump, `dump_capacity_stats` | reads the registry, replaces a file the tools read | a reader or a kill never meets half a file; the exit leaves the final data |
| tracked wrappers (`tracked/*.rs`, `cap_inspect.rs`) | a collection and its site | construct, wrap, inspect, convert, iterate, drop | one creation and one final sample in the registry | a buffer has one owner, a wrapper one final sample, and the program behaves as it does without |
| constructors and macros (`lib.rs`, `ctor.rs`, `aliases.rs`, `hasher.rs`, `captrack-macros`) | none | compile-time expansion | call wrappers and `record_initial` | both expansions create the same collection |
| statistics (`stats.rs`, `merge.rs`) | none | percentiles, merging of profiles | profile in, profile out | totals add up up to saturation, percentiles are order statistics, a sampled profile holds observed samples only |
| profiles and analysis (`profile/*.rs`, `analyze.rs`, `model.rs`) | none | load, classify, recommend | dump in, recommendations out | the advice fits the shape it is given for |
| workspace wiring (`wire.rs`, `workspace.rs`) | patched manifests, the saved originals | `wire`, `unwire` | edits the user's `Cargo.toml` files | `unwire` restores what `wire` found and never overwrites a user's edit |
| lint runs (`lint_apply.rs`, `lint_instrument.rs`, `staleness.rs`) | rewritten sources, saved originals, source hashes | instrument, uninstrument, apply, undo | run the plugin on the user's sources | undo reverts a run in full or refuses; nobody's text is lost; only an edit makes a profile stale |
| measure (`measure.rs`, `cli.rs`) | the stage it is in, a cleanup guard | wire, instrument, bench, merge, clean up | everything above | whatever fails, it returns and the workspace is as it was |
| lint plugin (`captrack-pgo-lint`) | the loaded profile | wrap or inspect a site; match it, propose a capacity, patch it and its hasher | run by the lint runs | the patch covers what was seen, is bounded by it, compiles, and is stable under repetition |

### The hard parts

* *Interleaving.* `Reservoir::record` draws a ticket with `fetch_add` and then
  takes a mutex, two steps that other threads may separate. `record_creation`
  looks up, misses, inserts and looks up again. The dump scans while recorders
  run. The ticker and the exit destructor use one temporary file.
* *Crashes and failures.* The measured process may be killed between any two
  file operations. The tools patch several files and save the means to undo it
  in yet another.
* *Sequences.* Every tool command may be repeated, or follow one that failed.
* *Numbers.* Percentiles, power-of-two rounding and saturating sums have edges
  at 0, at the reservoir's capacity and at the top of the range.
* *Two modes.* Every macro, constructor and method exists with telemetry and
  without, and the measured program must do what the unmeasured one does.
* *Places.* A site is a file, line and column. It is recorded where the
  wrapper's `column!()` stands, named after where the constructor stood, and
  looked for where the constructor stands again.

`PROJECT.json` lists each hazard at its line with the properties that cover
it; those without one say why.

## 2. The modules and how they correspond to the code

### Reservoir

One reservoir that threads share directly, and readers that serialise it. A
call of `record` is three steps: `FetchAdd` (line 73, the ticket), `Lock` (76)
and one of `Push`, `Replace`, `Discard`, `IndexPanic` (77-87), each of which
leaves through `Leave`, the drop of the guard. `buf`, `seenCount`, `holder` and
`poisoned` are the fields and the mutex; `pc`, `value`, `seen` the locals of each thread.
`EntryFrom` is `entry_from` of `dump.rs`: `ReadSamples` under the mutex and
then `ReadTotal` without it. A reader may report any number of times.

A sample is an identity, each offered once: no branch depends on its size, and
only so can a lost sample be told from a duplicated one. The random slot is a
nondeterministic one. A guard dropped by a thread that unwinds poisons the
mutex (`Leave`); both users recover it, and what becomes of the other threads
when one does not is the mutant of `PushAccounting`. `Ordering::Relaxed` is enough for
the tickets, which are read-modify-writes of one location; the one other
access is the load in `total_observed`, which follows an acquisition of the
mutex that the pushing threads, having incremented before, have released. It
therefore sees all of their increments, and an interleaving of atomic steps
loses nothing.

### SiteStats

The abstract specification: a site has a name fixed once, a count of
constructions, a count of observations and a set of retained samples; each of
`Register`, `Create` and `Observe` is one step. Below the capacity a sample is
kept; from there on it may replace one of those kept.

### Registry

The map under concurrent calls. `RecordCreation`, `RecordInitial` and
`RecordSample` begin a call in an idle thread; the thread then goes through
`get`, `insert`, `reget` (`record_creation`, lines 101-117) and `sample`,
`entered`, `ticketed` (`record_sample`, 142-151, with `Reservoir::record`
inlined as `FetchAdd` and `Push`, `Replace` or `Discard`). `BeginScan` and
`Visit` are the scan of the dump. `started`, `offered` and `dropped` are
history variables: nothing in a guard of the code's own steps reads them, they
bound the calls and let the properties count.

The map itself is outside the repository (scc 2.4.0 in `Cargo.lock`) and
modelled by what the code relies on: `get` returns an `OccupiedEntry`, which
holds its entry exclusively until dropped (`entryLock`); `insert` on a key
that is present returns an error; `scan` meets an entry while nobody holds it
exclusively. The real lock covers a bucket of entries, which excludes some of
the interleavings modelled and adds none. The build is a release build: in a
debug build an orphan `record_sample` stops at its `debug_assert` instead.

The refinement mapping to `SiteStats` takes `creationCount` and the set of
samples in `buf` as they are; an observation counts from the step that stores
or passes over the sample, so that the ticket alone is a stutter.

### Autodump

The two writers of one profile. `Scan`, `Create`, `Write`, `Rename` and
`RenameMissing` are `dump_capacity_stats` up to `File::create`, the
serialisation and the rename; `Fail` is the early return of any of its `?`;
`Return` what the two callers do with the result: nothing. `Exit` starts the
destructors, `Terminate` ends the process after them, `Kill` ends it at any
point; observations continue during the exit, because other threads do. Files
are inodes with contents, names refer to inodes, and an open file keeps its
inode and offset through a rename or a truncation by somebody else: this is
POSIX, and what lets two writers mix their blocks in one file. The registry is
a number of observations and a snapshot the number it was taken at. Initially
an earlier run's profile may exist, and a `.tmp` left by an earlier crash.

The trivial configuration `CAPTRACK_AUTODUMP=0` is left out;
`CAPTRACK_AUTODUMP_INTERVAL_MS=0` is `ticking = FALSE`, one of the two initial
states.

### Wire

The manifests of a workspace, edited by `wire`, `unwire` and their owner. A
`Cargo.toml` is the owner's text, as a number, and the tables in which it
lists captrack; equal sums are equal contents. `Patches` is the order of lines
155-172, root first; when `members` lists `"."` the root occurs in `Members`
too, and its manifest may be patched and recorded twice (`RootTwice`). `Patch`
and `SkipWired` are the two outcomes of `patch_root_manifest` and
`patch_member_manifest`, `SaveManifest` the last part of `run_wire`. `Revert`,
`Refuse` and `RemoveManifest` are the loop and the end of `run_unwire`,
`NothingToRevert` its early returns. `Stop` ends a command early, by any of
its errors or by a kill; because `fs::write` truncates first, it may leave the
file being written torn. Steps read, check and write one file at a time
without interference; the owner edits between commands. `added`, `wires`,
`paired` and `edited` are history variables.

### LintRun

The sources under `instrument`, `apply`, `undo` and `uninstrument`. A source
is the text its owner wrote, as a number, and the marks left in it: "wrapped"
by instrument, "sized" by apply; where in the text they stand does not matter
to any of these commands. `BeginInstrument` and `BeginApply` are
`run_lint_instrument` and `run_lint_apply` up to the start of `cargo dylint`,
with `Fresh` and `RefuseStale` as `check_staleness`; `Fix` is one file that
cargo rewrites, `FixFails` its exit with an error; `SaveManifest` and
`SaveHashes` are `write_manifest` and `write_staleness_snapshot`. `BeginUndo`,
`RefuseUndo`, `Restore` and `EndUndo` are `undo_lint_apply`, which verifies
all files and then restores them one by one; `Undo` takes the manifest written
last, `Uninstrument` that of instrument. `Stop` ends a command early and may
tear a manifest (`fs::write`), never a source (`atomic_write`). `Edit` is the
owner, who may write a new text or take the marks out at any moment, also
while cargo runs. `edits`, `stops`, `raced` and `paired` are history
variables. Only the files the walk finds are kept; cargo may rewrite others,
which no manifest ever mentions.

### Measure

`run_measure` around `LintRun`, which it EXTENDS: `stage` is the point of
`run_measure` reached, `BeginMeasure` to `Merge` are its steps with the early
returns of every `?`, `UndoInstrument`, `Unwire` and `UnwireFails` are
`cleanup_best_effort`, run at the end and by the guard: an unwire that refuses
leaves the manifests wired, and nobody is told. `StartBench`, `BenchDumps`, `EndBench` and
`WaitFails` are a bench's process, which may dump, finish, be killed at the
timeout, or not be waited for. A dump has a name: measure looks for one named
after the bench, the process writes the one `DumpName` gives. What else the
dump directory holds at first is arbitrary. `LintCommand` lets the owner use
the lint commands between two measures. `Kill` is a SIGKILL, which no guard
survives. Wiring is one step here, with its effect on all manifests; `Wire`
has it file by file. Of what `Wire` shows only this matters here: with the root
among the members (`RootIsMember`), what a wire of plain manifests saves is
refused. `calm` says which runs `MeasureRestores` is about.

### Collections, BareValues, Tracked

`Collections` holds two tables. A kind is a wrapper file of `tracked/`:
whether the collection has a capacity, and one that stays when elements go
("kept": Vec, VecDeque, String, SmallVec, BinaryHeap) or not ("current": hash
tables, whose `capacity()` is their elements and the insertions they have room
for and falls with tombstones, and BytesMut, which gives up what is split off);
whether its final sample is `capacity()` or `len()`, and which of `into_iter`, `freeze` and
`cap_inspect` it offers. Wrapper files that agree in all three are equal
kinds, and their actions are the same. A form is what a macro or a lint makes
of a site: `Wrapping` (a `t*!` macro), `Owned` (`t*_owned!`), `WrapFrom` and
`Inspected` (the two outcomes of `instrument`).

`BareValues` is the program without telemetry, the abstract specification:
values of these kinds are made, grow, shrink and go. `into_inner` and
`cap_inspect_at` do nothing.

`Tracked` is the same program with telemetry. `bare` and `holds` say who owns
a buffer, apart from `contents`, because the wrappers leave it by `ptr::read`
and `mem::forget`, where ownership is the code's doing. The constructors are
`Construct`, `ConstructPanics` (the creation is counted before the
allocation), `ConstructOwned`, `ConstructInspected` and `Wrap`; `Use` is Deref
and DerefMut, `Replace` a `mem::replace` through the latter; `Inspect` is
`cap_inspect_at` on a bare value, `InspectWrapped` the one three wrappers
have; `Drop`, `IntoInner`, `Consume` (`into_iter`, `freeze`) and `Forget` end
a wrapper. The registry is its counters per location, as in `SiteStats`, which
`Registry` implements. `inspected`, `orphans`, `lost`, `owed` and `need` are
history variables. A capacity is a value: the code evaluates the argument of
some macros twice. `debug_assert` is compiled out (release build).

### Profiles, Plugin, Pipeline

`Profiles` has the pure part, over tallies (how many samples have each size):
percentiles, `SiteStats`, `classify` and its histogram, `recommend_policy`,
`propose_cap` with its rounding. The code sorts or adds up its samples, so
that a tally is all it sees. Floating point is replaced by fractions.

`Plugin` is what the two lints do to one site, whose text is reduced to the
facts they branch on: kind, constructor, capacity, hasher, what the binding
says of the type, and how the value is used. A hasher is one of the three `--hasher`
writes, the standard one or another. How these facts are read off
rustc's HIR is not modelled, what is done with them is.

`Pipeline` runs sites through all of it: `InstrumentAll`, `Bench` (a dump of
what the wrapped sites saw, at the wrapper's place, under the constructor's
name), `Merge`, `Analyze`, `UninstrumentAll`, `Apply`; and `WriteByHand`,
since a profile is a file people may write. `KeyOf` is `parse_name`, by which
an entry recorded at one place is looked for at another; of an absolute path
(`Absolute`) it makes a relative one (`Parsed`). Which samples a merge
with `--reservoir-cap` keeps depends on a hash of the place: any sub-tally of
the right size. The owner does not edit meanwhile and sites are on separate
lines, so that the place of a site changes in one way only: `apply --hasher`
writes a longer type in front of it in the same line (`Column`, `below`). From
then on the plugin finds nothing for it, and a later apply with other options
leaves it as it is.

### MC modules

`MCWire` names the members. `MCRegistry` and `MCTracked` add symmetry sets:
threads, samples, sites and names, values and wrappers are only ever compared
for equality and no `CHOOSE` ranges over them. `MCMeasure` names a bench and
the file its process dumps to. `MCPipeline` lists the forms of a site, the
tallies at the edges of the rules, and the options of apply. Runs with a
liveness property use no symmetry.

## 3. The runs

| run | instance | checks |
|---|---|---|
| `reservoir` | 3 threads, 1 reader, 3 samples, capacity 2 | `PushAccounting`: pushed plus about-to-push is the number of tickets below the capacity; `VerbatimBelowCap`: no eviction up to the capacity; `TotalCoversSamples`: an entry has no fewer observations than samples; `RecordEnds`: every call gets through the mutex, after a panic too |
| `registry` | 3 threads, 1 site, 2 names, 4 samples, capacity 2, 2 creations | `CreationExactlyOnce`, `ObservationExactlyOnce`, `InitialIsKept`, `FullWhenReplacing`, `EntryNeverReset` |
| `registry_sites` | 2 threads, 2 sites, a scan, 2 samples, capacity 1 | `DumpedEntriesAreCuts`, `ImplementsSiteStats`, `CallsReturn` |
| `autodump` | with a ticker and without, 2 blocks, 2 observations, 2 errors | `SnapshotSurvivesKill`, `FinalSnapshotKeptAlone`, `ObservationsReachDisk` |
| `autodump_torn` | ticker and destructor, no error | violated: `DestinationWhole` |
| `wire` | a root that is a member too and 2 other members, 2 wires before the workspace is clean again, 2 edits, 1 early end | `WiredOnceIsClean`: a completed wire is reverted entirely; `RefusalMeansEdit`: unwire refuses only what somebody changed, or a root recorded twice; `OwnersTextKept`; `WireKeepsInherited`: no member inherits what the root does not list |
| `measure` | 1 source, 1 bench, 1 edit, 1 early end, a root that is no member | `MeasureRestores`: the workspace ends as it began; `PairedIsReverted`: an undo that reports success has reverted the run in full; `OwnersTextKept`; `MeasureReturns` |
| `measure_collects` | the bench dumps under its executable's name | violated: `DumpsAreFound` |
| `lint_stale` | 1 source, no edit, no early end | violated: `StaleMeansEdited` |
| `tracked` | 2 values, 2 wrappers, 1 site of any form and kind, 1 use, lengths up to 2 | `SoleOwner`: no buffer is owned twice; `Accounting`: creations are samples, open wrappers and losses; `PeakReported`: the samples reach what the collections held; `ImplementsBare`: refinement of `BareValues` |
| `inspect_orphan` | 1 value, 1 wrapper | violated: `InspectionsCounted` |
| `pipeline` | 16 forms of a site and one beside it in a file with an absolute path, 2 benches with 5 and 2 outcomes, 4 profiles by hand, 3 options with 2 of the 3 hashers | `LoadedIsWhole`: the plugin loads all that was seen of a site; `AdviceFits`; `GrowthCovered`: what outgrew its capacity fits afterwards; `PatchedWithinPeak`: nothing else is changed, and not too much; `HashersKept`; `FixIsStable` |

### Bounds

* Samples bound the calls of `record`: each is offered once. Three samples on
  a capacity of two give two pushes, a replacement or a panic, and every
  reordering of tickets against critical sections that three threads can make.
* `MaxCreations = 2` lets two threads miss, race to insert and both count
  while the third offers an orphan sample; two names tell whose entry won.
* In `registry_sites` two samples on a capacity of one give a push and a
  replacement at one site, or a push at each, between the visits of the scan.
* `Blocks = 2` is the least at which a file can be half-written. One error per
  attempt of two lets an attempt fail and its retry fail again.
* Two members give a root, a first and a last file to be patched, reverted or
  cut short at. The root is a member too, the harder case; where it lists
  captrack as a dependency from the start, it is patched and recorded like one
  that is not. Two wires are what `paired` distinguishes from one; with two
  edits a file changes and changes back.
* One source makes `measure` small enough for its liveness property (1.7
  million states); with several, a command may stop between two files, and
  that is what `LintRunProofs` covers, for any number of them. Commands are
  not bounded, only edits (`MaxEdits`) and early ends (`MaxStops`) are.
* Two values and two wrappers are what a double ownership or a replacement
  takes. Lengths and capacities up to `MaxCap = 2` let a collection grow past
  its hint of 1, and be cut; `MaxCreations` and `MaxInspects` end the
  counting. `TrackedProofs` has no such bound on values, wrappers and sites.
* `Sizes` of `pipeline` has a size on either side of each threshold: 0, 1, 3
  (below the least peak), 5, and three sizes for the shapes; `MaxCount = 45`
  is reached by two benches; `Caps` is a reservoir one sample too small. With
  `MaxRounds = 1` sites are instrumented once, so that all dumps saw a site at
  one place and `Coherent` always holds; two rounds split a site (see below).
* Runs have `CHECK_DEADLOCK FALSE` where the bounded number of calls may be
  used up, or the process is dead. In `reservoir` the reader goes on for ever
  and deadlock is checked; in `measure` and `lint_stale` the owner can always
  run another command.

### Fairness

* `Reservoir!FairSpec`: a thread inside `record` is scheduled (weak fairness
  of `Lock` and of the critical section). Weak fairness of `Lock` suffices for
  a bounded number of calls: other holders run out. std's mutex promises no
  more.
* `Registry!FairSpec`: weak fairness of the next step of a call in progress,
  none of the beginning of a call.
* `Autodump!FairSpec`: weak fairness of the ticker's next step, because its
  loop sleeps a finite interval and the OS schedules it; none for the
  destructor, `Exit` or `Kill`. File-system errors are bounded: a disk that is
  full for ever publishes nothing.
* `Measure!FairMeasureSpec`: weak fairness of measure's own steps, its failures
  left out, and of the lint run it has started. That a bench ends is
  `wait_with_timeout`'s doing, so `EndBench` needs no bench that ends by
  itself. That cargo and the lint run end is an assumption: the code waits for
  them without a limit. None for commands, edits or kills.
* `Wire`, `LintRun`, `Tracked` and `Pipeline` state no liveness: their
  commands are somebody's choice.

### What the violated runs show

* `autodump_torn`. The ticker has written its `.tmp`, the destructor truncates
  the same file, the ticker renames it: the destination is empty until the
  destructor has written through its descriptor, and stays partial if the
  process ends then.
* `measure_collects`. measure expects `profile-<bench>.json`
  (`measure.rs:354`), the process writes `profile-<file stem>.json` of its
  executable (`autodump.rs:48-60`), which cargo names `<bench>-<hash>`. Every
  bench has dumped, and measure fails for want of a profile.
* `lint_stale`. instrument saves the hashes of the sources as rewritten
  (`lint_instrument.rs:344`); after uninstrument, which the documented
  workflow puts before apply (`docs/CAPACITY-PGO-PLAN.md:400-410`) and measure
  does by itself, apply finds every file that instrument had rewritten changed
  and refuses.
* `inspect_orphan`. The plugin hands `cap_inspect_at` the place of the
  constructor "so the profile key matches the ctor" (`instrument.rs:1078`),
  but leaves the constructor as it is, so that nothing registers that place:
  the sample is discarded (`registry.rs:144`), and in a debug build the
  `debug_assert` stops the program.

### Disagreements without a run of their own

Properties that the modules define and no configuration checks; TLC finds each
violated under the constants named.

* `Reservoir!NoIndexPanic` (2 threads, 3 samples, capacity 2). One thread has
  drawn ticket 0 and not pushed yet when another has pushed with ticket 1 and
  comes back with ticket 2: it finds one sample and may index the second
  (`reservoir.rs:85`), though the type promises concurrent `record` from any
  thread (`reservoir.rs:41`). The registry is not affected, as
  `FullWhenReplacing` shows: the entry lock makes ticket and store one step.
* `Autodump!FinalSnapshotKept` (no error). The ticker's rename comes after the
  destructor's, or takes its file away: the profile is older than the exit
  (`autodump.rs:94`).

* `Wire!UnwiredIsClean` (no edit, no early end). A second `wire` finds nothing
  to patch and saves its empty list over the originals; `unwire` then succeeds
  without reverting anything, against "Running `wire` twice in a row is safe"
  (`wire.rs:34-36`).
* `Wire!RefusalBlamesOwner` (`Members` with the root, no edit, no early end).
  With `members = [".", ...]`, as in this repository, the root is patched and
  recorded twice. `unwire` compares the file with the sum in the first entry,
  taken between the two patches, and refuses it as modified although nobody has
  edited it (`wire.rs:234-243`).
* `Measure!MeasureUnwires` (`RootIsMember = TRUE`, no edit, no early end). The
  same within a measure: the cleanup ignores the error (`measure.rs:280-285`),
  measure reports success, and the workspace stays wired, against "always
  restored" (`measure.rs:228`).
* `Pipeline!PolicyFollowed` (constants of `pipeline`, as for the next two). The
  policies that `analyze --write-policy` puts into the profile are dropped when
  apply loads it (`profile/captrack.rs:124,138`): a site is patched by the
  options of the command line, where `analyze.rs:5` and `cli.rs:325` say that
  its own policy overrides them.
* `Pipeline!TypesAgree`. `let m: HashMap<K, V> =
  HashMap::with_capacity_and_hasher(1, RandomState::new())` under `--hasher fx`
  has its type extended by fx and keeps its constructor's hasher
  (`captrack-pgo-lint/src/lib.rs:1289`, 1540): it no longer compiles, where the
  repository's README (320) promises that no `E0308` comes up.
* `Pipeline!SitesMatch`. Cargo names the sources of packages outside the
  workspace root's directory by absolute paths; `parse_name` drops the leading
  slash (`profile/captrack.rs:51`), and the plugin does not find the site,
  though "the two keys must match byte-for-byte" (26).

What the models take over from the code, and its docs see otherwise:

* `lint_instrument.rs:311` says "Files NOT modified" when cargo fails; it may
  have rewritten some, and no manifest is left to revert them. A measure that
  fails before its instrument has begun may revert an older manifest.
  `MeasureRestores` names these exceptions (`calm`).
* A second instrument overwrites the originals saved by the first. An undo
  that fails half-way cannot be resumed, because the files it has restored no
  longer match the manifest. Files outside the walk are not saved.
* `cap_inspect_at` on a wrapper of a string, a binary heap or a hashbrown map
  calls `record_initial` (`InspectWrapped`), against "never a creation" in
  `cap_inspect.rs`. The wrappers of DashMap and of the scc maps sample
  `len()`, their inspection `capacity()` (`Sample`, `Inspection`).
* `merge.rs:198` claims an outcome "regardless of processing order"; the
  samples are drawn in input order.
* `for x in &m` "continues to compile" (`instrument.rs:717-720`) holds for
  `TrackedVec` and `TrackedSmallVec`, the others have no `IntoIterator` by
  reference.
* The guard against injecting `cap_inspect_at` twice never fires; an
  expression that is not an inherent constructor is replaced as a whole, also
  when it is a call that returns a filled collection (`Dispatched`).
* An "other" expression, such as `Default::default()`, bound to a type with a
  hasher of its own is replaced by `with_capacity` of the bare type, whose
  hasher is the standard one (`Dispatched`); `HashersKept` is about inherent
  constructors. Bound to a type that omits the hasher it gains one in a second
  pass only (`FixIsStable`).
* The wrappers' "peak capacity" (`tracked/hashmap.rs:14`, `tracked/bytesmut.rs:6`)
  is the capacity at the end (`lib.rs:1389`, "final capacity()"): removals from
  a hash table or a split of a `BytesMut` may have brought it below the length
  it once had (`PeakReported`).
* The growth gate compares the peak while the proposal may follow a lower
  percentile: a patch may shrink a capacity. `p95 / 2` of a heavy tail may
  cover none of the samples. The report rounds 0 up to 0, the lint to 1.
* Two rounds of instrument and bench with an apply between them record a site
  at two places; the merged profile has two entries for one site, and the
  plugin's table keeps one of them (`LastEntries`).
* The `tbytesmut_owned!` family evaluates its capacity twice with telemetry.

## 4. The proofs

Eight modules prove, for every value of the constants under the named
assumptions (`ReservoirAssumption`, `RegistryAssumption`, `WireAssumption`,
`LintRunAssumption`, `MeasureAssumption`, `TrackedAssumption`,
`AutodumpAssumption`, `ProfilesAssumption`, `PipelineAssumption`): a capacity
is positive, which `env_cap` ensures; threads, wrappers, sites, benches and the
sizes of samples are finite sets; members are distinct, being a set in the
code; the special values are not ordinary ones, `NoName` no place among them;
`new` and `with_capacity` exist for the standard hasher alone; a saturated
count is no less than the ten creations the lint asks for; and sizes, twofold
or scaled by the options of apply, stay within 2^30, the largest power of two
that `Pow2` has (the code's has the range of `usize`):

* `ReservoirProofs!TypeCorrect`, and from it `PushAccountingHolds`. The latter
  is inductive together with types: `FetchAddBalance` says that a ticket below
  the capacity adds one thread to `Pushing`, and one above adds none;
  `PushBalance` that a push moves one from the set into the buffer;
  cardinalities come from the library's finite-set theorems. `BoundedHolds` is
  a corollary. `TotalCoversSamplesHolds` is proved with `ReaderInv`: a
  snapshot a reader holds is no longer than the counter is now.
  `VerbatimBelowCapHolds` needs `VerbatimInv`: while no ticket has reached the
  capacity, the samples in the buffer and those in the threads' hands are
  disjoint, without duplicates, and together all that were offered.
* `RegistryProofs!EntryInvHolds` is the invariant behind the rest: who is
  between `get` and the end of `record` holds the entry, the holder is such a
  thread, and a reservoir has min(count, capacity) samples whenever no record
  is between its ticket and its store. `FullWhenReplacingHolds` and
  `DumpedEntriesAreCutsHolds` follow from it. `EntryNeverResetHolds` is an
  action property; it needs the invariant for `Insert` alone, to know that the
  winner's entry is not overwritten. `CreationExactlyOnceHolds` balances the
  calls begun against the count and the threads under way.
  `ObservationExactlyOnceHolds` balances samples instead, which need to be
  told apart: by `SampleInv` a sample is in the hands of one call at most, is
  settled only when that call is over, and is in no reservoir twice.
  `RegistryImplementsSiteStats` rests on it, for `Observe` of the abstract
  table takes only a sample that is not retained: the step that stores a sample
  under the entry lock is the observation, the step that inserts an entry the
  registration, every other step a stutter.
* `WireProofs!OwnersTextKeptHolds` rests on `EntriesKeepText`: an entry, in
  memory or saved, however old, differs before and after in captrack alone,
  and unwire writes one only over its "after". `WiredOnceIsCleanHolds` rests
  on `PairInv`: what wire has added is covered by entries not yet reverted,
  from the first patch through the saved manifest to the end of the unwire.
  `WireKeepsInheritedHolds` needs `RootFirst` (past its first patch, wire has
  a root that lists captrack). `RefusalMeansEditHolds` rests on `RefusalInv`:
  as long as no command has stopped early and the owner has not written, the
  list that unwire follows, saved, collected or half reverted, has what the
  files hold (`Matches`), or has the root twice. Neither assumes that the root
  is no member; the two exceptions this costs are in the properties (a root
  torn by its second patch, and a list that has it twice), and
  `RefusalBlamesOwner` shows that the second is real.
* `LintRunProofs!Invariance`: during a run, a source differs from the snapshot
  in marks alone unless its owner has written it meanwhile (`SnapshotTrue`);
  every saved entry, however old, has one text before and after (`SavedTrue`);
  what an undo has still to restore is as the run left it (`TodoTrue`); and
  while `paired`, whatever is wrapped is in the manifest or already restored
  (`PairedTrue`). `UndoIsLossless` follows from the third, `UndoReverts` from
  the last.
* `LintRunProofs!MeasureInvariance`: of a lint run, measure takes its own steps
  or none (`LintView`), so the invariant above survives it, and with it
  `MeasureUndoReverts` and `MeasureIsLossless`; both kinds of losslessness except
  the files the owner wrote while cargo ran (`raced`). `MeasureRestoresHolds` is
  about a measure that stays `calm`, and of the manifests it excepts a workspace
  whose root is a member (`MeasureUnwires`, see 3). It needs
  `Guarded` (at which steps a lint run is under way), `Unwraps` (what a saved
  manifest brings back is not wrapped, however old it is) and `Restorable`:
  while a measure is `calm`, either nothing is wrapped or the manifest has all
  that is and undo will not refuse it (`Revertible`), from the snapshot through
  the benches to the last file restored.
* `AutodumpProofs!Invariance`: as long as one writer is alone (`Alone`: there
  is no ticker, or the exit has not begun), the file it has open is the one
  named tmp and holds what it has written so far (`Writing`), and the
  destination is another file, with all of what was published last (`Placed`).
  `SnapshotSurvivesKillHolds` follows; `FinalSnapshotKeptAloneHolds` needs
  `Final`, that the destructor's snapshot is no older than the exit. The
  arguments end where a second writer may start: `autodump_torn` shows why.
* `TrackedProofs!Invariance`: `OwnedOnce` is inductive together with types.
  `AccountsBalance` needs `Known`, that the location in a wrapper is
  registered, so that its final sample is no orphan; it counts the open
  wrappers with the library's cardinality theorems (`EnterOpens`,
  `LeaveCloses`). `PeakCovers` needs `Sized`: a value owes no more than its
  wrapper would report of it now, which is its longest length only where the
  capacity stays (`OwesPeak`) and else its length. `SymmetricModes` maps every step to a step
  of `BareValues` or a stutter, under the invariant, by which what a wrapper
  holds is live.
* `PipelineProofs!Invariance`: after an apply every site is what that apply
  makes of some well-formed text (`JustPatched`). `FixIsStableHolds` follows
  because the proposal does not depend on the capacity it replaces
  (`ProposalIsOne`) and `Constructor` is idempotent (`ConstructorTwice`), but
  for the one case the property names (`DispatchedTwice`); where the first
  apply has moved the site, the second finds nothing, because a profile knows
  a site at one key (`OfOneKind`, `KeysAre`, from the invariant below). `HashersKeptHolds`
  is about one step of apply on inherent constructors, whatever the statistics
  (`PatchKeepsHasher`). Both hold for every policy, profile and number of
  sites.
* `ProfilesProofs` is about the operators. A sum over a set is a fold of the
  community modules, about which the library has no first-order theorem: the
  module proves that it unfolds (`SumUnfolds`), that any summand may be taken
  out first (`SumAny`), and from there that sums grow, add up, scale and split
  with their summands (`SumScale`, `SumAdd`, `SumSplit`, `SumPairs`). The
  library's induction theorems cannot be used here, because they take the
  property as an operator; `SubsetInduction` takes the set of the subsets that
  have it, and follows from the well-foundedness of the subset order. With sums
  come percentiles (`PercentileIs`: the nearest rank covers the share it names),
  the mean (`MeanIs`: at most the peak), rounding (`Pow2Is`, `RoundedIs`), what
  the lint proposes (`ProposalIs`) and what analyze advises (`AdviceIs`).
* `PipelineProofs!NumbersInvariance`: the entry of every place in the profile
  has the sum of the creations of the dumps that know the place, up to
  saturation, and all of their samples or as many as the reservoir keeps
  (`MergedOf`, `KeptOf`), and its name is known from its place (`NameAt`).
  This, with the dumps the profile was made of as history, is inductive
  (`PInv`); `PipelineTypeCorrect` and `AdviceFitsHolds` follow. To get from
  places to sites, `OfPlace` shows that the dumps that know one place of a site
  are some of the site's sources, and all of them when it was seen at one place
  (`Coherent`); `NamesAre` and `SiteKnown` that a site is found exactly when it
  stands where it was seen and its name leads back: `LoadedIsWholeHolds` follows.
  `PatchedWithinPeakHolds` needs it as an inequality only, hence also for sites
  seen at several places; with `ProposalIs`, `GrowthCoveredHolds` goes the whole
  way from the benches to the new capacity, for sites that are where they were
  seen, a generous policy, and no reservoir. None of this depends on how many benches, sites, samples or
  rounds of instrument there are.

Model-checked only: the liveness properties, which are out of the prover's
reach (`RecordEnds`, `CallsReturn`, `ObservationsReachDisk`, `MeasureReturns`).
Every other property of a passing run is the statement of a theorem. What
the runs show violated is of course not proved.

## 5. Not modelled

* The rustc side of the lint plugin: how a site's facts are found in the HIR,
  and how a suggestion is spelled.
* Macro syntax and element types: compile time, no state.
* JSON, TOML and dhat formats (`profile/dhat.rs` is not reached by apply),
  command-line parsing, progress output, the wording and the cost estimates of
  analyze's report.
* The resolution of workspace members and the walk for sources: their results
  are constants (`Members`, `Sources`).
* How measure finds a bench's crate and binary: it does or it fails.

## 6. What is left

1. `Bimodal` against a definition of its histogram that does not count by
   buckets, and what `classify` decides for a site whose samples a reservoir
   has thinned out: `AdviceFits` speaks of the samples that were kept.
2. An abstract specification of the whole pipeline, a site's capacity as a
   function of what was observed of it, with `Pipeline` as its implementation.
3. Sites whose place the owner moves between two rounds of benches: how much
   of an observation a split site loses. (That `apply --hasher` moves a site is
   modelled: it loses all of it.)
