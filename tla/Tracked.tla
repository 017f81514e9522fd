------------------------------- MODULE Tracked -------------------------------
(***************************************************************************)
(* The same program built with telemetry: t*! and wrap_from put a value    *)
(* into a wrapper that reports it to the registry when it ends             *)
(* (src/src/tracked/*.rs), t*_owned! reports it at once and leaves it      *)
(* bare, and cap_inspect_at reports it on its way (cap_inspect.rs).        *)
(*                                                                         *)
(* The wrapper is left by ptr::read and mem::forget, so that who owns a    *)
(* buffer is the code's doing and not the compiler's: it is modelled here  *)
(* apart from the buffer's contents.  A program that unwinds drops its     *)
(* wrappers like any other.  The registry is its own counters per location *)
(* (SiteStats, which Registry implements); a location is registered once   *)
(* it has counted a creation.  Release build: the debug_assert of          *)
(* record_sample is compiled out.  The capacity expression of a macro has  *)
(* the same value however often it is evaluated.                           *)
(***************************************************************************)
EXTENDS BareValues, FiniteSets

CONSTANTS
  Wrappers,      \* Tracked* values
  Usages,        \* locations the plugin has injected cap_inspect_at at
  NoWhere,       \* location of a wrapper that does not exist
  MaxCreations,  \* bound: creations counted at a location
  MaxInspects    \* bound: samples offered by cap_inspect_at at a location

Locations == Sites \cup Usages

ASSUME TrackedAssumption ==
  /\ Sites \cap Usages = {}
  /\ NoWhere \notin Locations
  /\ Elsewhere \notin Sites
  /\ Nothing \notin Values
  /\ Nothing \notin Contents
  /\ Hints \subseteq 0..MaxCap
  /\ {MaxCap, MaxCreations, MaxInspects} \subseteq Nat
  /\ IsFiniteSet(Wrappers)

VARIABLES
  bare,          \* values the program owns itself
  holds,         \* value in each wrapper, or Nothing
  at,            \* file, line and column in each wrapper
  creations,     \* creation_count of each location
  observations,  \* total_observed of each location
  top,           \* the largest sample of each location
  inspected,     \* history: samples of cap_inspect_at that were counted
  orphans,       \* history: samples discarded for want of an entry
  lost,          \* history: constructions that panicked, wrappers forgotten
  owed,          \* history: what a wrapper owes of each value: the longest it
                 \* has been since its buffer was cut down, or, if it has no
                 \* buffer that stays or is not asked for it, how long it is
  need           \* history: the most a wrapper of each location has owed

program == <<expansion, contents, bare, holds, at>>
counters == <<creations, observations, top>>
history == <<inspected, orphans, lost, owed, need>>
vars == <<program, counters, history>>

Held == {w \in Wrappers : holds[w] # Nothing}
Open(l) == {w \in Held : at[w] = l}
Registered(l) == creations[l] > 0
Larger(m, n) == IF m >= n THEN m ELSE n

-----------------------------------------------------------------------------
(***************************************************************************)
(* What the registry is told                                               *)
(***************************************************************************)

\* Slip: every kind reports how long it is.
SampleLen(v) == contents[v].len

\* What the wrapper of a value reports.
Sample(v) ==
  IF contents[v].kind.sampled = "capacity" THEN contents[v].cap ELSE contents[v].len

\* The kinds whose final sample speaks of more than the end.
OwesPeak(k) == k.capacity = "kept" /\ k.sampled = "capacity"

\* What cap_inspect_at reports of a bare value.
Inspection(v) ==
  IF contents[v].kind.capacity = "none" THEN contents[v].len ELSE contents[v].cap

RecordCreation(l) ==
  /\ creations[l] < MaxCreations
  /\ creations' = [creations EXCEPT ![l] = @ + 1]

Count(l, n) ==
  /\ observations' = [observations EXCEPT ![l] = @ + 1]
  /\ top' = [top EXCEPT ![l] = Larger(@, n)]

RecordSample(l, n) ==
  /\ IF Registered(l) THEN Count(l, n) /\ UNCHANGED orphans
     ELSE /\ orphans' = [orphans EXCEPT ![l] = @ + 1]
          /\ UNCHANGED <<observations, top>>
  /\ UNCHANGED creations

\* A creation and a sample: whatever is at l, it is registered by then.
RecordInitial(l, n) ==
  /\ RecordCreation(l)
  /\ Count(l, n)

(***************************************************************************)
(* Construction                                                            *)
(***************************************************************************)

Enter(w, v, l) ==
  /\ w \notin Held
  /\ holds' = [holds EXCEPT ![w] = v]
  /\ at' = [at EXCEPT ![w] = l]

\* Slip: the capacity asked for is not handed on.
ConstructUnsized(w, v, s, hint) ==
  /\ expansion[s].form = "wrapping"
  /\ New(v, s, 0)
  /\ Enter(w, v, s)
  /\ RecordCreation(s)
  /\ owed' = [owed EXCEPT ![v] = 0]
  /\ UNCHANGED <<expansion, bare, observations, top, inspected, orphans, lost, need>>

Construct(w, v, s, hint) ==
  /\ expansion[s].form = "wrapping"
  /\ New(v, s, hint)
  /\ Enter(w, v, s)
  /\ RecordCreation(s)
  /\ owed' = [owed EXCEPT ![v] = 0]
  /\ UNCHANGED <<expansion, bare, observations, top, inspected, orphans, lost, need>>

\* The creation is counted before with_capacity, which may panic.
ConstructPanics(s) ==
  /\ expansion[s].form = "wrapping"
  /\ RecordCreation(s)
  /\ lost' = [lost EXCEPT ![s] = @ + 1]
  /\ UNCHANGED <<program, observations, top, inspected, orphans, owed, need>>

ConstructOwned(v, s, hint) ==
  /\ expansion[s].form = "owned"
  /\ New(v, s, hint)
  /\ RecordInitial(s, hint)
  /\ bare' = bare \cup {v}
  /\ owed' = [owed EXCEPT ![v] = 0]
  /\ UNCHANGED <<expansion, holds, at, inspected, orphans, lost, need>>

\* Where the plugin cannot wrap an expression it does not register it.
ConstructInspected(v, s, hint) ==
  /\ expansion[s].form = "inspected"
  /\ New(v, s, hint)
  /\ bare' = bare \cup {v}
  /\ owed' = [owed EXCEPT ![v] = 0]
  /\ UNCHANGED <<expansion, holds, at, counters, inspected, orphans, lost, need>>

\* A collection that captrack's macros have not made.
CollectBare(v, k, n) ==
  /\ Collect(v, k, n)
  /\ bare' = bare \cup {v}
  /\ owed' = [owed EXCEPT ![v] = n]
  /\ UNCHANGED <<expansion, holds, at, counters, inspected, orphans, lost, need>>

Wrap(w, v, s) ==
  /\ v \in bare
  /\ expansion[s] = WrapFrom(contents[v].kind)
  /\ Enter(w, v, s)
  /\ RecordCreation(s)
  /\ bare' = bare \ {v}
  /\ UNCHANGED <<expansion, contents, observations, top, history>>

(***************************************************************************)
(* Use                                                                     *)
(***************************************************************************)

\* Through Deref and DerefMut a wrapper's value is used as if it were bare.
Use(v) ==
  /\ Mutate(v)
  /\ owed' = [owed EXCEPT ![v] =
       LET n == contents'[v].len
       IN IF OwesPeak(contents[v].kind) /\ contents'[v].cap >= contents[v].cap
            THEN Larger(@, n) ELSE n]
  /\ UNCHANGED <<expansion, bare, holds, at, counters, inspected, orphans, lost, need>>

\* mem::replace(&mut *w, v): the old value is the program's.
Replace(w, v) ==
  /\ w \in Held
  /\ v \in bare
  /\ contents[v].kind = contents[holds[w]].kind
  /\ holds' = [holds EXCEPT ![w] = v]
  /\ bare' = (bare \ {v}) \cup {holds[w]}
  /\ UNCHANGED <<expansion, contents, at, counters, history>>

\* Slip: it counts a creation, as the one of the wrappers does.
InspectCreates(v, l) ==
  /\ v \in bare
  /\ l \in Sites
  /\ inspected[l] + orphans[l] < MaxInspects
  /\ RecordInitial(l, Inspection(v))
  /\ inspected' = [inspected EXCEPT ![l] = @ + 1]
  /\ UNCHANGED <<program, orphans, lost, owed, need>>

\* cap_inspect_at on a bare value: by hand, with the coordinates of a site,
\* or injected, with those of the use it is injected at.
InspectedAt(v) ==
  Sites \cup (IF contents[v].from \in Sites /\ expansion[contents[v].from].form = "inspected"
              THEN Usages ELSE {})

Inspect(v, l) ==
  /\ v \in bare
  /\ l \in InspectedAt(v)
  /\ inspected[l] + orphans[l] < MaxInspects
  /\ RecordSample(l, Inspection(v))
  /\ inspected' = IF Registered(l) THEN [inspected EXCEPT ![l] = @ + 1] ELSE inspected
  /\ UNCHANGED <<program, lost, owed, need>>

\* Three wrappers have cap_inspect_at themselves, and count a creation.
InspectWrapped(w, l) ==
  /\ w \in Held
  /\ "cap_inspect" \in contents[holds[w]].kind.offers
  /\ RecordInitial(l, Sample(holds[w]))
  /\ UNCHANGED <<program, history>>

(***************************************************************************)
(* The end                                                                 *)
(***************************************************************************)

\* Slip: the wrapper's location outlives it.
LeaveAt(w) ==
  /\ w \in Held
  /\ holds' = [holds EXCEPT ![w] = Nothing]
  /\ UNCHANGED at

\* ptr::read and mem::forget: the wrapper is gone and Drop does not run.
Leave(w) ==
  /\ w \in Held
  /\ holds' = [holds EXCEPT ![w] = Nothing]
  /\ at' = [at EXCEPT ![w] = NoWhere]

Report(w) ==
  /\ RecordSample(at[w], Sample(holds[w]))
  /\ need' = [need EXCEPT ![at[w]] = Larger(@, owed[holds[w]])]

\* The value goes, and what it owed with it.
Gone(v) ==
  /\ Discard(v)
  /\ owed' = [owed EXCEPT ![v] = 0]

Drop(w) ==
  /\ Leave(w)
  /\ Report(w)
  /\ Gone(holds[w])
  /\ UNCHANGED <<expansion, bare, inspected, lost>>

\* Slip: the wrapper is not forgotten and will be dropped as well.
IntoInnerUnforgotten(w) ==
  /\ w \in Held
  /\ Report(w)
  /\ bare' = bare \cup {holds[w]}
  /\ UNCHANGED <<expansion, contents, holds, at, inspected, lost, owed>>

IntoInner(w) ==
  /\ Leave(w)
  /\ Report(w)
  /\ bare' = bare \cup {holds[w]}
  /\ UNCHANGED <<expansion, contents, inspected, lost, owed>>

\* into_iter and freeze: the buffer goes on as something else.
Consume(w) ==
  /\ Leave(w)
  /\ contents[holds[w]].kind.offers \cap {"into_iter", "freeze"} # {}
  /\ Report(w)
  /\ Gone(holds[w])
  /\ UNCHANGED <<expansion, bare, inspected, lost>>

\* mem::forget of a wrapper.
Forget(w) ==
  /\ Leave(w)
  /\ lost' = [lost EXCEPT ![at[w]] = @ + 1]
  /\ Gone(holds[w])
  /\ UNCHANGED <<expansion, bare, counters, inspected, orphans, need>>

DropBare(v) ==
  /\ v \in bare
  /\ Gone(v)
  /\ bare' = bare \ {v}
  /\ UNCHANGED <<expansion, holds, at, counters, inspected, orphans, lost, need>>

-----------------------------------------------------------------------------
TrackedInit ==
  /\ Init
  /\ bare = {}
  /\ holds = [w \in Wrappers |-> Nothing]
  /\ at = [w \in Wrappers |-> NoWhere]
  /\ creations = [l \in Locations |-> 0]
  /\ observations = [l \in Locations |-> 0]
  /\ top = [l \in Locations |-> 0]
  /\ inspected = [l \in Locations |-> 0]
  /\ orphans = [l \in Locations |-> 0]
  /\ lost = [l \in Locations |-> 0]
  /\ owed = [v \in Values |-> 0]
  /\ need = [l \in Locations |-> 0]

ValueStep(v) ==
  \/ \E s \in Sites, hint \in Hints :
       ConstructOwned(v, s, hint) \/ ConstructInspected(v, s, hint)
  \/ \E k \in KindsInUse, n \in 0..MaxCap : CollectBare(v, k, n)
  \/ Use(v)
  \/ \E l \in Locations : Inspect(v, l)
  \/ DropBare(v)

WrapperStep(w) ==
  \/ \E v \in Values, s \in Sites, hint \in Hints : Construct(w, v, s, hint)
  \/ \E v \in Values, s \in Sites : Wrap(w, v, s)
  \/ \E v \in Values : Replace(w, v)
  \/ \E l \in Locations : InspectWrapped(w, l)
  \/ Drop(w) \/ IntoInner(w) \/ Consume(w) \/ Forget(w)

TrackedNext ==
  \/ \E v \in Values : ValueStep(v)
  \/ \E w \in Wrappers : WrapperStep(w)
  \/ \E s \in Sites : ConstructPanics(s)

TrackedSpec == TrackedInit /\ [][TrackedNext]_vars

-----------------------------------------------------------------------------
\* The values of the variables.
TypeOK ==
  /\ expansion \in [Sites -> Expansion]
  /\ contents \in [Values -> Contents \cup {Nothing}]
  /\ \A v \in Live : contents[v].kind.capacity # "none" => contents[v].len <= contents[v].cap
  /\ bare \in SUBSET Values
  /\ holds \in [Wrappers -> Values \cup {Nothing}]
  /\ at \in [Wrappers -> Sites \cup {NoWhere}]
  /\ \A w \in Wrappers : at[w] = NoWhere <=> w \notin Held
  /\ {creations, observations, top, inspected, orphans, lost, need}
       \subseteq [Locations -> Nat]
  /\ owed \in [Values -> Nat]

\* tracked/vec.rs:92-94, "its Drop never runs ... ownership moves": a value
\* that exists is owned once, by the program or by one wrapper, and no
\* wrapper or variable refers to one that does not, so that no buffer is
\* freed twice, or used after that.
SoleOwner ==
  /\ \A w \in Held : holds[w] \in Live \ bare
  /\ \A w, x \in Held : holds[w] = holds[x] => w = x
  /\ bare \subseteq Live
  /\ \A v \in Live \ bare : \E w \in Held : holds[w] = v

\* registry.rs:56-59: at every location the creations that have not been
\* observed are the wrappers that still exist, the forgotten ones and the
\* constructions that panicked; every other wrapper has been observed once,
\* by whichever of Drop, into_inner, into_iter and freeze ended it, and
\* inspections come on top.
Accounting ==
  \A l \in Locations :
    creations[l] + inspected[l]
      = observations[l] + Cardinality(Open(l)) + lost[l]

\* lib.rs:1389, "final capacity()", and what it is good for: the largest
\* sample of a location covers every wrapper that has ended there, by any of
\* its ends.  Of a buffer that stays (Vec, VecDeque, String, SmallVec,
\* BinaryHeap) that is the longest the value has been since shrink_to_fit;
\* of a hash table, a BytesMut or a collection that is asked for its length
\* it is the length it ends with, for removals before that do not show.
\* A value taken out by mem::replace is missed.
PeakReported == \A l \in Locations : top[l] >= need[l]

\* lib.rs:162-163, "works symmetrically in both feature modes": without the
\* wrappers and the registry this is a run of the program built bare, whose
\* specification Spec is BareValues'.
ImplementsBare == Spec

\* cap_inspect.rs:39-41, "a binding observed at N consumption points with 1
\* construction: ... total_observed >= N": no sample of an injected
\* cap_inspect_at is discarded.
InspectionsCounted == \A l \in Usages : orphans[l] = 0
=============================================================================
