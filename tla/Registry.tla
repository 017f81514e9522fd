------------------------------ MODULE Registry -------------------------------
(***************************************************************************)
(* The process-global registry (src/src/registry.rs) under concurrent      *)
(* record_creation, record_initial and record_sample calls, and the scan   *)
(* that dumps it (src/src/dump.rs).                                        *)
(*                                                                         *)
(* The map is an scc::HashMap: `get` returns an OccupiedEntry, which keeps *)
(* the entry exclusively locked until it is dropped, `insert` fails on a   *)
(* key that is present, and `scan` visits an entry when nobody holds it.   *)
(* A call that holds the entry for one atomic update is one step;          *)
(* Reservoir::record, two atomic updates, is two steps under the lock.     *)
(* The mutex inside the reservoir is never contended here: whoever takes   *)
(* it holds the entry.                                                     *)
(*                                                                         *)
(* Release build: the debug_assert of record_sample is compiled out.       *)
(* Samples are identities, as in module Reservoir.                         *)
(***************************************************************************)
EXTENDS Naturals, Sequences, FiniteSets, SequencesExt

CONSTANTS
  Threads,       \* callers of the record_* functions
  Scanners,      \* callers of dump_capacity_stats
  Sites,         \* call-site keys (file, line, column)
  Names,         \* names given to a site
  Samples,       \* capacities offered, each by one call
  Cap,           \* CAPTRACK_SAMPLE_CAP
  MaxCreations,  \* bound: record_creation calls per site
  NoThread,      \* holder of a free entry
  Unregistered,  \* name of a site without an entry
  NoSample       \* sample of a plain record_creation call

ASSUME RegistryAssumption ==
  /\ Cap \in Nat \ {0}
  /\ MaxCreations \in Nat
  /\ IsFiniteSet(Threads)
  /\ NoThread \notin Threads
  /\ Unregistered \notin Names
  /\ NoSample \notin Samples

VARIABLES
  name,           \* CapStats.name of each site, or Unregistered
  creationCount,  \* CapStats.creation_count
  seenCount,      \* CapStats.samples.seen_count
  buf,            \* CapStats.samples.buf
  entryLock,      \* thread holding each site's OccupiedEntry
  pc,             \* where each thread is
  call,           \* arguments of each thread's current call
  seen,           \* ticket drawn by each thread's current record
  todo,           \* sites each scan has still to visit
  dump,           \* entries each scan has collected
  started,        \* history: record_creation calls begun at each site
  offered,        \* history: samples offered at each site
  dropped         \* history: samples discarded for want of an entry

entryVars   == <<name, creationCount, seenCount, buf>>
threadVars  == <<pc, call, seen>>
scanVars    == <<todo, dump>>
historyVars == <<started, offered, dropped>>
vars == <<entryVars, entryLock, threadVars, scanVars, historyVars>>

Lesser(a, b) == IF a <= b THEN a ELSE b

Registered(s) == name[s] # Unregistered
Free(s) == entryLock[s] = NoThread
Fresh(v) == \A s \in Sites : v \notin offered[s]

Goto(t, label) == pc' = [pc EXCEPT ![t] = label]

(***************************************************************************)
(* The calls.                                                              *)
(***************************************************************************)

RecordCreation(t, s, n) ==
  /\ pc[t] = "idle"
  /\ started[s] < MaxCreations
  /\ started' = [started EXCEPT ![s] = @ + 1]
  /\ call' = [call EXCEPT ![t] = [site |-> s, name |-> n, sample |-> NoSample]]
  /\ Goto(t, "get")
  /\ UNCHANGED <<entryVars, entryLock, seen, scanVars, offered, dropped>>

\* Slip: the sample is recorded before the creation has made the entry.
RecordInitialSampleFirst(t, s, n, v) ==
  /\ pc[t] = "idle"
  /\ started[s] < MaxCreations
  /\ Fresh(v)
  /\ started' = [started EXCEPT ![s] = @ + 1]
  /\ offered' = [offered EXCEPT ![s] = @ \cup {v}]
  /\ call' = [call EXCEPT ![t] = [site |-> s, name |-> n, sample |-> v]]
  /\ Goto(t, "sample")
  /\ UNCHANGED <<entryVars, entryLock, seen, scanVars, dropped>>

\* record_creation, then record_sample with the capacity asked for.
RecordInitial(t, s, n, v) ==
  /\ pc[t] = "idle"
  /\ started[s] < MaxCreations
  /\ Fresh(v)
  /\ started' = [started EXCEPT ![s] = @ + 1]
  /\ offered' = [offered EXCEPT ![s] = @ \cup {v}]
  /\ call' = [call EXCEPT ![t] = [site |-> s, name |-> n, sample |-> v]]
  /\ Goto(t, "get")
  /\ UNCHANGED <<entryVars, entryLock, seen, scanVars, dropped>>

\* From a Drop, an into_iter or a cap_inspect_at; nothing makes the caller
\* register the site first.
RecordSample(t, s, v) ==
  /\ pc[t] = "idle"
  /\ Fresh(v)
  /\ offered' = [offered EXCEPT ![s] = @ \cup {v}]
  /\ call' = [call EXCEPT ![t] = [site |-> s, name |-> Unregistered, sample |-> v]]
  /\ Goto(t, "sample")
  /\ UNCHANGED <<entryVars, entryLock, seen, scanVars, started, dropped>>

(***************************************************************************)
(* record_creation                                                         *)
(***************************************************************************)

\* Slip: the thread that created the entry returns without counting.
CountCreationOnce(t) ==
  LET s == call[t].site
  IN  /\ pc[t] \in {"get", "reget"}
      /\ Registered(s)
      /\ Free(s)
      /\ creationCount' =
           [creationCount EXCEPT ![s] = IF pc[t] = "get" THEN @ + 1 ELSE @]
      /\ Goto(t, IF call[t].sample = NoSample THEN "idle" ELSE "sample")
      /\ UNCHANGED <<name, seenCount, buf, entryLock, call, seen, scanVars, historyVars>>

\* Either `get`, when it finds the entry: count and return to the caller.
CountCreation(t) ==
  LET s == call[t].site
  IN  /\ pc[t] \in {"get", "reget"}
      /\ Registered(s)
      /\ Free(s)
      /\ creationCount' = [creationCount EXCEPT ![s] = @ + 1]
      /\ Goto(t, IF call[t].sample = NoSample THEN "idle" ELSE "sample")
      /\ UNCHANGED <<name, seenCount, buf, entryLock, call, seen, scanVars, historyVars>>

\* The first `get` finds nothing; another thread may insert before we do.
GetMiss(t) ==
  /\ pc[t] = "get"
  /\ ~Registered(call[t].site)
  /\ Goto(t, "insert")
  /\ UNCHANGED <<entryVars, entryLock, call, seen, scanVars, historyVars>>

\* CapStats::new
NewCapStats(s, n) ==
  /\ name' = [name EXCEPT ![s] = n]
  /\ creationCount' = [creationCount EXCEPT ![s] = 0]
  /\ seenCount' = [seenCount EXCEPT ![s] = 0]
  /\ buf' = [buf EXCEPT ![s] = <<>>]

\* Slip: upsert in place of insert.
Upsert(t) ==
  LET s == call[t].site
  IN  /\ pc[t] = "insert"
      /\ Free(s)
      /\ NewCapStats(s, call[t].name)
      /\ Goto(t, "reget")
      /\ UNCHANGED <<entryLock, call, seen, scanVars, historyVars>>

\* The loser of the race gets Err and drops its new CapStats.
Insert(t) ==
  LET s == call[t].site
  IN  /\ pc[t] = "insert"
      /\ Free(s)
      /\ \/ ~Registered(s) /\ NewCapStats(s, call[t].name)
         \/ Registered(s) /\ UNCHANGED entryVars
      /\ Goto(t, "reget")
      /\ UNCHANGED <<entryLock, call, seen, scanVars, historyVars>>

(***************************************************************************)
(* record_sample                                                           *)
(***************************************************************************)

\* Slip: the entry is read without being locked.
GetEntryShared(t) ==
  /\ pc[t] = "sample"
  /\ Registered(call[t].site)
  /\ Goto(t, "entered")
  /\ UNCHANGED <<entryVars, entryLock, call, seen, scanVars, historyVars>>

GetEntry(t) ==
  LET s == call[t].site
  IN  /\ pc[t] = "sample"
      /\ Registered(s)
      /\ Free(s)
      /\ entryLock' = [entryLock EXCEPT ![s] = t]
      /\ Goto(t, "entered")
      /\ UNCHANGED <<entryVars, call, seen, scanVars, historyVars>>

\* No entry: the sample is discarded.
Orphan(t) ==
  LET s == call[t].site
  IN  /\ pc[t] = "sample"
      /\ ~Registered(s)
      /\ dropped' = [dropped EXCEPT ![s] = @ \cup {call[t].sample}]
      /\ Goto(t, "idle")
      /\ UNCHANGED <<entryVars, entryLock, call, seen, scanVars, started, offered>>

FetchAdd(t) ==
  LET s == call[t].site
  IN  /\ pc[t] = "entered"
      /\ seen' = [seen EXCEPT ![t] = seenCount[s]]
      /\ seenCount' = [seenCount EXCEPT ![s] = @ + 1]
      /\ Goto(t, "ticketed")
      /\ UNCHANGED <<name, creationCount, buf, entryLock, call, scanVars, historyVars>>

\* Slip: the entry stays locked.
KeepEntry(t) ==
  /\ Goto(t, "idle")
  /\ UNCHANGED <<name, creationCount, seenCount, entryLock, call, seen, scanVars, historyVars>>

\* The OccupiedEntry is dropped when record returns.
LeaveEntry(t) ==
  /\ entryLock' = [entryLock EXCEPT ![call[t].site] = NoThread]
  /\ Goto(t, "idle")
  /\ UNCHANGED <<name, creationCount, seenCount, call, seen, scanVars, historyVars>>

\* Slip: the reservoir grows past its capacity.
PushAlways(t) ==
  LET s == call[t].site
  IN  /\ pc[t] = "ticketed"
      /\ buf' = [buf EXCEPT ![s] = Append(@, call[t].sample)]
      /\ LeaveEntry(t)

\* Slip: the ticket is stored in place of the capacity.
PushTicket(t) ==
  LET s == call[t].site
  IN  /\ pc[t] = "ticketed"
      /\ seen[t] < Cap
      /\ buf' = [buf EXCEPT ![s] = Append(@, seen[t])]
      /\ LeaveEntry(t)

Push(t) ==
  LET s == call[t].site
  IN  /\ pc[t] = "ticketed"
      /\ seen[t] < Cap
      /\ buf' = [buf EXCEPT ![s] = Append(@, call[t].sample)]
      /\ LeaveEntry(t)

Replace(t) ==
  LET s == call[t].site
  IN  /\ pc[t] = "ticketed"
      /\ seen[t] >= Cap
      /\ \E j \in 0 .. seen[t] :
           /\ j < Cap
           /\ buf' = [buf EXCEPT ![s][j + 1] = call[t].sample]
      /\ LeaveEntry(t)

Discard(t) ==
  /\ pc[t] = "ticketed"
  /\ seen[t] >= Cap
  /\ \E j \in 0 .. seen[t] : j >= Cap
  /\ UNCHANGED buf
  /\ LeaveEntry(t)

(***************************************************************************)
(* The scan of dump_capacity_stats.  Sites are visited one by one; a site  *)
(* registered meanwhile may be met or missed.                              *)
(***************************************************************************)

BeginScan(d) ==
  /\ todo[d] = {}
  /\ todo' = [todo EXCEPT ![d] = Sites]
  /\ dump' = [dump EXCEPT ![d] = {}]
  /\ UNCHANGED <<entryVars, entryLock, threadVars, historyVars>>

EntryFrom(s) ==
  [site |-> s, name |-> name[s], creation_count |-> creationCount[s],
   samples |-> buf[s], total_observed |-> seenCount[s]]

\* Slip: an entry is read while a record is under way in it.
VisitLocked(d, s) ==
  /\ s \in todo[d]
  /\ todo' = [todo EXCEPT ![d] = @ \ {s}]
  /\ dump' = [dump EXCEPT ![d] = IF Registered(s) THEN @ \cup {EntryFrom(s)} ELSE @]
  /\ UNCHANGED <<entryVars, entryLock, threadVars, historyVars>>

Visit(d, s) ==
  /\ s \in todo[d]
  /\ Free(s)
  /\ todo' = [todo EXCEPT ![d] = @ \ {s}]
  /\ dump' = [dump EXCEPT ![d] = IF Registered(s) THEN @ \cup {EntryFrom(s)} ELSE @]
  /\ UNCHANGED <<entryVars, entryLock, threadVars, historyVars>>

-----------------------------------------------------------------------------
Init ==
  /\ name = [s \in Sites |-> Unregistered]
  /\ creationCount = [s \in Sites |-> 0]
  /\ seenCount = [s \in Sites |-> 0]
  /\ buf = [s \in Sites |-> <<>>]
  /\ entryLock = [s \in Sites |-> NoThread]
  /\ pc = [t \in Threads |-> "idle"]
  /\ call \in [Threads -> {[site |-> s, name |-> Unregistered, sample |-> NoSample] :
                             s \in Sites}]
  /\ seen = [t \in Threads |-> 0]
  /\ todo = [d \in Scanners |-> {}]
  /\ dump = [d \in Scanners |-> {}]
  /\ started = [s \in Sites |-> 0]
  /\ offered = [s \in Sites |-> {}]
  /\ dropped = [s \in Sites |-> {}]

Call(t) ==
  \E s \in Sites :
    \/ \E n \in Names : RecordCreation(t, s, n)
    \/ \E n \in Names, v \in Samples : RecordInitial(t, s, n, v)
    \/ \E v \in Samples : RecordSample(t, s, v)

\* The next step of the call a thread is in.
Step(t) ==
  \/ CountCreation(t) \/ GetMiss(t) \/ Insert(t)
  \/ GetEntry(t) \/ Orphan(t) \/ FetchAdd(t)
  \/ Push(t) \/ Replace(t) \/ Discard(t)

Scan(d) == BeginScan(d) \/ \E s \in Sites : Visit(d, s)

Next ==
  \/ \E t \in Threads : Call(t) \/ Step(t)
  \/ \E d \in Scanners : Scan(d)

Spec == Init /\ [][Next]_vars

\* Threads inside a call are scheduled; nobody has to make a call.
FairSpec == Spec /\ \A t \in Threads : WF_vars(Step(t))

-----------------------------------------------------------------------------
Entries ==
  [site : Sites, name : Names, creation_count : Nat,
   samples : Seq(Samples), total_observed : Nat]

\* The values of the variables.  A thread past its `get` is at a registered
\* site, and one that records has a sample.
TypeOK ==
  /\ name \in [Sites -> Names \cup {Unregistered}]
  /\ creationCount \in [Sites -> Nat]
  /\ seenCount \in [Sites -> Nat]
  /\ buf \in [Sites -> Seq(Samples)]
  /\ entryLock \in [Sites -> Threads \cup {NoThread}]
  /\ pc \in [Threads -> {"idle", "get", "insert", "reget", "sample", "entered", "ticketed"}]
  /\ call \in [Threads -> [site : Sites, name : Names \cup {Unregistered},
                           sample : Samples \cup {NoSample}]]
  /\ \A t \in Threads :
       /\ pc[t] \in {"get", "insert", "reget"} => call[t].name \in Names
       /\ pc[t] \in {"sample", "entered", "ticketed"} => call[t].sample \in Samples
  /\ seen \in [Threads -> Nat]
  /\ todo \in [Scanners -> SUBSET Sites]
  /\ dump \in [Scanners -> SUBSET Entries]
  /\ started \in [Sites -> Nat]
  /\ offered \in [Sites -> SUBSET Samples]
  /\ dropped \in [Sites -> SUBSET Samples]

\* The threads inside record_creation for s that have not counted yet.
Creating(s) == {t \in Threads : pc[t] \in {"get", "insert", "reget"} /\ call[t].site = s}

\* registry.rs:40-41, "incremented exactly once per construction event":
\* whoever wins the race to insert an entry, every call begun at a site is
\* counted there once or is still on its way.
CreationExactlyOnce ==
  \A s \in Sites : started[s] = creationCount[s] + Cardinality(Creating(s))

\* The threads that will offer a sample at s and have drawn no ticket yet.
Offering(s) ==
  {t \in Threads : /\ pc[t] \in {"get", "insert", "reget", "sample", "entered"}
                   /\ call[t].sample # NoSample
                   /\ call[t].site = s}

\* registry.rs:45-46, "counts every call to record_sample": an offered sample
\* is observed once, is on its way, or met no entry.
ObservationExactlyOnce ==
  \A s \in Sites :
    Cardinality(offered[s]) =
      seenCount[s] + Cardinality(dropped[s]) + Cardinality(Offering(s))

\* registry.rs:113, "After insert ... the entry exists", and so the sample of
\* a record_initial call is never an orphan, whoever inserted the entry.
InitialIsKept ==
  \A t \in Threads :
    ( \/ pc[t] = "reget"
      \/ pc[t] = "sample" /\ call[t].name # Unregistered ) =>
        Registered(call[t].site)

\* reservoir.rs:81, "Reservoir is full": a record made through the registry
\* never indexes past the samples already pushed, because the entry stays
\* locked from its ticket to its store.
FullWhenReplacing ==
  \A t \in Threads :
    pc[t] = "ticketed" /\ seen[t] >= Cap => Len(buf[call[t].site]) = Cap

\* Why: whoever is inside Reservoir::record holds the entry, nobody else does,
\* and the reservoir is as full as its counter says between two records.
EntryInv ==
  /\ \A t \in Threads :
       pc[t] \in {"entered", "ticketed"} =>
         /\ Registered(call[t].site)
         /\ entryLock[call[t].site] = t
  /\ \A s \in Sites :
       ~Free(s) => /\ pc[entryLock[s]] \in {"entered", "ticketed"}
                   /\ call[entryLock[s]].site = s
  /\ \A s \in Sites :
       (Free(s) \/ pc[entryLock[s]] = "entered") =>
         Len(buf[s]) = Lesser(seenCount[s], Cap)
  /\ \A t \in Threads :
       pc[t] = "ticketed" =>
         /\ seenCount[call[t].site] = seen[t] + 1
         /\ Len(buf[call[t].site]) = Lesser(seen[t], Cap)
  /\ \A s \in Sites :
       ~Registered(s) => creationCount[s] = 0 /\ seenCount[s] = 0 /\ buf[s] = <<>>

\* Every dumped entry was cut between two records: it holds as many samples
\* as its total_observed allows (dump.rs:43-56 under scan).
DumpedEntriesAreCuts ==
  \A d \in Scanners : \A e \in dump[d] :
    Len(e.samples) = Lesser(e.total_observed, Cap)

\* registry.rs:64, "fixed at first insert, never changed", and nothing that
\* was counted is ever taken back, by a lost race to insert least of all.
EntryNeverReset ==
  [][\A s \in Sites : Registered(s) =>
       /\ name'[s] = name[s]
       /\ creationCount'[s] >= creationCount[s]
       /\ seenCount'[s] >= seenCount[s]
       /\ Len(buf'[s]) >= Len(buf[s])]_vars

\* Every record_* call returns: no call leaves an entry locked.
CallsReturn == \A t \in Threads : pc[t] # "idle" ~> pc[t] = "idle"

\* The registry implements the per-site counters.  An observation takes
\* effect when its sample is stored or passed over, not when the ticket is
\* drawn.
Ticketed(s) == \E t \in Threads : pc[t] = "ticketed" /\ call[t].site = s

Abstract == INSTANCE SiteStats WITH
  creations    <- creationCount,
  observations <- [s \in Sites |-> IF Ticketed(s) THEN seenCount[s] - 1 ELSE seenCount[s]],
  retained     <- [s \in Sites |-> ToSet(buf[s])]

ImplementsSiteStats == Abstract!Spec
=============================================================================
