------------------------------ MODULE Pipeline ------------------------------
(***************************************************************************)
(* From telemetry to capacities: the sites of a workspace are wrapped,     *)
(* benches run and dump what they saw, the dumps are merged into one       *)
(* profile (merge.rs), which `analyze` annotates (analyze.rs) and `apply`  *)
(* converts (profile/captrack.rs) for the plugin to load (loader.rs) and   *)
(* to patch the sites with (module Plugin).                                *)
(*                                                                         *)
(* The owner does not edit meanwhile and every site has lines of its own,  *)
(* so the place of a site only changes when --hasher lengthens the type    *)
(* before it in the same line; that of its wrapper's column!() moves with  *)
(* the text before it, the constructor call.  What the file system and     *)
(* cargo may do to these commands is in modules LintRun and Measure, what  *)
(* a process records and dumps in Tracked, Registry and Autodump.          *)
(* Inspected sites dump nothing (Tracked: InspectionsCounted).             *)
(***************************************************************************)
EXTENDS Plugin

CONSTANTS
  Sites,        \* the constructions in the workspace
  Absolute,     \* those in files the compiler is given by an absolute path
  Programs,     \* the texts the workspace may begin with
  Benches,
  Runs,         \* what a run of each bench may record of each site
  Caps,         \* values of --reservoir-cap, 0 for none
  ByHand,       \* bound: what somebody may write into a profile of a site
  Options,      \* how apply is called: --cap-from, --cap-mul, --cap-round
                \* (globals), and --hasher ("none" without it)
  MaxRounds,    \* bound: times the workspace is instrumented
  NoName,       \* the name of an entry somebody wrote by hand
  NoProfile     \* the file does not exist

\* A type that names its hasher, in the same line, moves the call behind it.
Column(c) == IF c.let = "pinned" /\ ~ c.below THEN 1 ELSE 0

Path(s) == IF s \in Absolute THEN "absolute" ELSE "relative"

\* span_to_site_key of the constructor call, and the file!(), line!() and
\* column!() of a wrapper around it.
Place(s, c) == <<s, "call", Column(c), Path(s)>>
WrapperPlace(s, c) == <<s, "wrapper", c.form, c.cap>>

Places == {<<s, "call", n, Path(s)>> : s \in Sites, n \in 0 .. 1}

ASSUME PipelineAssumption ==
  /\ Absolute \subseteq Sites
  /\ Programs \subseteq [Sites -> Call]
  /\ \A x \in Programs, s \in Sites :
       /\ ~ x[s].wrapped /\ ~ x[s].inspected
       /\ x[s].form \in {"new", "with_capacity"} => x[s].hasher = "std"
  /\ \A b \in Benches :
       Runs[b] \subseteq [Sites -> [count : 0 .. MaxCount, tally : Tally]]
  /\ \A o \in Options :
       /\ o.globals \in Policies /\ o.hasher \in Fast \cup {"none"}
       /\ LET mul == Multiplier(o.globals.mul)
          IN \A v \in Sizes : CeilDiv(v * mul[1], mul[2]) <= 2^30
  /\ ByHand \subseteq [count : 0 .. MaxCount, tally : Tally]
  /\ Caps \subseteq Nat
  /\ MaxRounds \in Nat
  /\ MaxCount >= MinCount
  /\ IsFiniteSet(Sites) /\ IsFiniteSet(Benches)
  /\ NoName \notin Places

VARIABLES
  text,      \* the sites as they stand in the sources
  saved,     \* last-instrument.json: the text before and after instrument
  dumps,     \* profile-<bench>.json
  profile,   \* the merged profile: an entry for each place it knows
  last,      \* of each key with an entry in it, the place of the last one
  inputs,    \* history: the dumps the profile was made of
  reservoir, \* history: and the --reservoir-cap, 0 if it left no sample out
  rounds,    \* history: times the workspace was instrumented
  command    \* history: the options of the last command, if that was apply

vars == <<text, saved, dumps, profile, last, inputs, reservoir, rounds, command>>

-----------------------------------------------------------------------------
(***************************************************************************)
(* Places and entries                                                      *)
(***************************************************************************)

\* Slip: entries are known by the place they were recorded at.
KeyOfPlace(p, e) == p

\* parse_name: the pieces of an absolute path make a relative one.
Parsed(name) == [name EXCEPT ![4] = "relative"]

\* What the site of an entry is: its name says it when instrument gave it.
KeyOf(p, e) == IF e.name = NoName THEN p ELSE Parsed(e.name)

Keys(prof) == {KeyOf(p, prof[p]) : p \in DOMAIN prof}
EntriesOf(prof, key) == {p \in DOMAIN prof : KeyOf(p, prof[p]) = key}

\* A profile is sorted by largest sample, largest first, and of the entries
\* with one key the plugin's table keeps the last.
LastEntries(prof, key) ==
  {p \in EntriesOf(prof, key) :
     \A q \in EntriesOf(prof, key) : Peak(prof[p].tally) <= Peak(prof[q].tally)}

Entry(name, run) ==
  [name |-> name, count |-> run.count, tally |-> run.tally,
   policy |-> NoPolicy]

\* The order of entries with equal largest samples is the sort's choice.
Publish(prof, from, cap) ==
  /\ profile' = prof
  /\ inputs' = from
  /\ reservoir' = cap
  /\ last' \in {f \in [Keys(prof) -> DOMAIN prof] :
                  \A k \in Keys(prof) : f[k] \in LastEntries(prof, k)}

NotApply == [globals |-> NoPolicy, hasher |-> "none"]

-----------------------------------------------------------------------------
(***************************************************************************)
(* Measuring                                                               *)
(***************************************************************************)

Init ==
  /\ text \in Programs
  /\ saved = [before |-> text, after |-> text]
  /\ dumps = [b \in Benches |-> NoProfile]
  /\ profile = NoProfile
  /\ last = <<>>
  /\ inputs = <<>>
  /\ reservoir = 0
  /\ rounds = 0
  /\ command = NotApply

InstrumentAll ==
  /\ rounds < MaxRounds
  /\ rounds' = rounds + 1
  /\ text' = [s \in Sites |-> Instrument(text[s])]
  /\ saved' = [before |-> text, after |-> text']
  /\ command' = NotApply
  /\ UNCHANGED <<dumps, profile, last, inputs, reservoir>>

\* Refused when apply has patched a site meanwhile; without a manifest there is
\* nothing to put back.
UninstrumentAll ==
  /\ text = saved.after
  /\ text' = saved.before
  /\ command' = NotApply
  /\ UNCHANGED <<saved, dumps, profile, last, inputs, reservoir, rounds>>

\* A bench of the instrumented workspace dumps the sites that are wrapped.  The
\* first two conjuncts are bounds: a second run would write its dump anew, and
\* all benches run before a merge.
Bench(b) ==
  \E run \in Runs[b] :
    LET wrapped == {s \in Sites : text[s].wrapped}
        place(s) == WrapperPlace(s, text[s])
    IN /\ dumps[b] = NoProfile
       /\ DOMAIN inputs \cap Benches = {}
       /\ wrapped # {}
       /\ dumps' = [dumps EXCEPT ![b] =
            [p \in {place(s) : s \in wrapped} |->
               Entry(Place(p[1], text[p[1]]), run[p[1]])]]
       /\ command' = NotApply
       /\ UNCHANGED <<text, saved, profile, last, inputs, reservoir, rounds>>

\* A profile somebody wrote by hand, of one site; a bound: before measuring.
WriteByHand(s) ==
  \E run \in ByHand :
    LET prof == [p \in {Place(s, text[s])} |-> Entry(NoName, run)]
    IN /\ rounds = 0 /\ profile = NoProfile
       /\ Publish(prof, [x \in {"hand"} |-> prof], 0)
       /\ command' = NotApply
       /\ UNCHANGED <<text, saved, dumps, rounds>>

-----------------------------------------------------------------------------
(***************************************************************************)
(* merge and analyze                                                       *)
(***************************************************************************)

\* The dumps that have an entry for a place.
Knowing(from, p) == {b \in DOMAIN from : p \in DOMAIN from[b]}

\* Slip: the creations are added without saturation.
JoinedUnsaturated(from, p) ==
  LET known == Knowing(from, p)
  IN [name |-> from[CHOOSE b \in known : TRUE][p].name,
      count |-> SumFunction([b \in known |-> from[b][p].count]),
      tally |-> [v \in Sizes |->
                   SumFunction([b \in known |-> from[b][p].tally[v]])],
      policy |-> NoPolicy]

Joined(from, p) ==
  LET known == Knowing(from, p)
  IN [name |-> from[CHOOSE b \in known : TRUE][p].name,
      count |-> Min({MaxCount, SumFunction([b \in known |-> from[b][p].count])}),
      tally |-> [v \in Sizes |->
                   SumFunction([b \in known |-> from[b][p].tally[v]])],
      policy |-> NoPolicy]

\* reservoir_sample: all but some k of the samples, when there are more than n.
\* Which, the hash of the place and the order of the samples determine.
Sampled(t, n) ==
  LET k == Total(t) - n
      seen == Seen(t)
      out == {o \in [seen -> 0 .. k] :
                Total(o) = k /\ \A v \in seen : o[v] <= t[v]}
  IN IF n = 0 \/ k <= 0 THEN {t}
     ELSE {[v \in Sizes |-> IF v \in seen THEN t[v] - o[v] ELSE 0] : o \in out}

\* run_merge: one entry for each place of any of the dumps.
Merge(chosen, cap) ==
  LET from == [b \in chosen |-> dumps[b]]
      places == UNION {DOMAIN from[b] : b \in chosen}
      joined == [p \in places |-> Joined(from, p)]
  IN /\ chosen # {}
     /\ \A b \in chosen : dumps[b] # NoProfile
     /\ \E f \in [places -> UNION {Sampled(joined[p].tally, cap) :
                                     p \in places}] :
          /\ \A p \in places : f[p] \in Sampled(joined[p].tally, cap)
          /\ Publish([p \in places |-> [joined[p] EXCEPT !.tally = f[p]]],
                     from,
                     IF f = [p \in places |-> joined[p].tally] THEN 0 ELSE cap)
     /\ command' = NotApply
     /\ UNCHANGED <<text, saved, dumps, rounds>>

\* run_analyze with --write-policy; without it the files stay as they are.
Analyze ==
  /\ profile # NoProfile
  /\ profile' = [p \in DOMAIN profile |->
       IF Recommended(profile[p].tally) = NoPolicy THEN profile[p]
       ELSE [profile[p] EXCEPT !.policy = Recommended(profile[p].tally)]]
  /\ command' = NotApply
  /\ UNCHANGED <<text, saved, dumps, last, inputs, reservoir, rounds>>

-----------------------------------------------------------------------------
(***************************************************************************)
(* apply                                                                   *)
(***************************************************************************)

\* CaptrackProfile::sites and the plugin's load_profile.  The policies that
\* analyze has written are not read.
Loaded(key) == Summary(profile[last[key]].count, profile[last[key]].tally)

\* Where the plugin sees a site that is not wrapped.
Here(s) == Place(s, text[s])

\* What the plugin makes of a site.  A constructor inside a wrapper stands in
\* another column than the profile says.
Patched(s, globals, hasher) ==
  IF text[s].wrapped \/ Here(s) \notin DOMAIN last THEN text[s]
  ELSE Patch(text[s], Loaded(Here(s)), globals, hasher)

\* The second conjunct is a bound: other options follow other commands.
Apply(options) ==
  /\ profile # NoProfile
  /\ command \in {NotApply, options}
  /\ text' = [s \in Sites |-> Patched(s, options.globals, options.hasher)]
  /\ command' = options
  /\ UNCHANGED <<saved, dumps, profile, last, inputs, reservoir, rounds>>

Next ==
  \/ InstrumentAll
  \/ UninstrumentAll
  \/ \E b \in Benches : Bench(b)
  \/ \E s \in Sites : WriteByHand(s)
  \/ \E chosen \in SUBSET Benches, cap \in Caps : Merge(chosen, cap)
  \/ Analyze
  \/ \E options \in Options : Apply(options)

Spec == Init /\ [][Next]_vars

-----------------------------------------------------------------------------
(***************************************************************************)
(* Properties                                                              *)
(***************************************************************************)

Entries(names) ==
  [name : names, count : 0 .. MaxCount, tally : Tally,
   policy : {NoPolicy} \cup
            [from : {"max", "median", "p95", "p99"}, mul : Int \X Int,
             round : {"pow2", "exact"}]]

\* The type invariant: sites stay well formed, and the table of last entries
\* points at entries of the profile with their key.
PipelineTypeOK ==
  /\ {text, saved.before, saved.after} \subseteq [Sites -> Call]
  /\ rounds \in 0 .. MaxRounds
  /\ reservoir \in Caps \cup {0}
  /\ profile # NoProfile =>
       /\ \A p \in DOMAIN profile : profile[p] \in Entries({NoName} \cup Places)
       /\ DOMAIN last = Keys(profile)
       /\ \A k \in DOMAIN last : last[k] \in EntriesOf(profile, k)

\* What the dumps of a profile saw of a site: the dumps and the places in them.
Sources(s) ==
  {x \in (DOMAIN inputs) \X UNION {DOMAIN inputs[b] : b \in DOMAIN inputs} :
     x[2] \in DOMAIN inputs[x[1]] /\ x[2][1] = s}
Creations(s) ==
  SumFunction([x \in Sources(s) |-> inputs[x[1]][x[2]].count])
Observed(s) ==
  LET sources == Sources(s)
  IN [v \in Sizes |->
        SumFunction([x \in sources |-> inputs[x[1]][x[2]].tally[v]])]

\* The dumps saw a site at one place: they are of one text of its constructor.
Coherent(s) == Cardinality({x[2] : x \in Sources(s)}) = 1

\* The dumps saw a site where it stands now.
Unmoved(s) ==
  \E x \in Sources(s) :
    Here(s) = LET name == inputs[x[1]][x[2]].name
              IN IF name = NoName THEN x[2] ELSE name

\* A name that instrument gave it leads back to the site.
Returns(s) ==
  s \in Absolute =>
    \E x \in Sources(s) : inputs[x[1]][x[2]].name = NoName

\* What the plugin loads for a site is everything the dumps saw of it, in
\* spite of having been recorded at one place and looked for at another: all
\* its creations up to saturation and, without a reservoir, all its samples.
\* A reservoir keeps that many of the observed samples and invents none.
\* Nothing is loaded for a site that has moved since, nor for one that was
\* named by an absolute path.
LoadedIsWhole ==
  profile # NoProfile =>
    \A s \in Sites :
      LET e == profile[last[Here(s)]]
      IN /\ Here(s) \in DOMAIN last <=> Unmoved(s) /\ Returns(s)
         /\ Coherent(s) /\ Unmoved(s) /\ Returns(s) =>
              /\ e.count = Min({MaxCount, Creations(s)})
              /\ IF reservoir = 0 \/ Total(Observed(s)) <= reservoir
                   THEN e.tally = Observed(s)
                   ELSE /\ Total(e.tally) = reservoir
                        /\ \A v \in Sizes : e.tally[v] <= Observed(s)[v]

\* The advice analyze writes fits what it was given for: a tight distribution
\* never reallocates and wastes less than half, a bimodal one covers half of
\* its samples, a mostly-zero one all but a hundredth, and a heavy tail is not
\* followed beyond p95.
AdviceFits ==
  profile # NoProfile =>
    \A p \in DOMAIN profile :
      LET t == profile[p].tally
          policy == profile[p].policy
          cap == Advised(Summary(profile[p].count, t), policy)
      IN policy # NoPolicy =>
           /\ Total(t) >= MinSamples
           /\ UnimodalTight(t) /\ ~ MostlyZero(t)
                => Peak(t) <= cap /\ cap < 2 * Peak(t)
           /\ policy.from = "median" => 2 * Upto(t, cap) >= Total(t)
           /\ MostlyZero(t) => 100 * Upto(t, cap) >= 99 * Total(t)
           /\ policy.from = "p95" => cap <= Percentile(t, 95)

Applies == command' # NotApply

Patchable(c) ==
  /\ ~ c.wrapped
  /\ c.kind # "tree"
  /\ c.form # "macro"
  /\ c.cap # Dynamic

\* The policies that do not scale a high percentile down, and those that do
\* not scale up.
Generous(policy) ==
  /\ policy.from \in {"max", "p95", "p99"}
  /\ policy.mul[1] <= 0 \/ policy.mul[1] >= policy.mul[2]
Modest(policy) == policy.mul[1] <= policy.mul[2]

\* The policy that analyze wrote into the entry of a site.
Own(s) == profile[last[Here(s)]].policy

\* The point of it all, across every stage.  After an apply with a generous
\* policy, a profile that nothing was sampled out of and whose entry for the
\* site has no other policy than a generous one, a site that the benches
\* created ten times or more and saw outgrow its capacity fourfold has room
\* for 95 of 100 of the sizes they saw.  They saw it at one place, where it
\* still is, and its name leads there.
GrowthCovered ==
  [][ Applies /\ Generous(command'.globals) /\ reservoir = 0
      => \A s \in Sites :
           LET c == Literal(text[s])
           IN /\ Coherent(s) /\ Unmoved(s) /\ Returns(s)
              /\ Own(s) = NoPolicy \/ Generous(Own(s))
              /\ Patchable(text[s])
              /\ Creations(s) >= MinCount
              /\ Peak(Observed(s)) >= Max({4, GrowthFactor * c})
              => 100 * Upto(Observed(s), text'[s].cap)
                   >= 95 * Total(Observed(s)) ]_vars

\* apply changes no other site: it was measured, was created ten times and was
\* seen to outgrow fourfold a capacity that is written there, and gets, unless
\* a policy scales up, less than twice the largest size seen or the next
\* multiple of eight.
PatchedWithinPeak ==
  [][ Applies => \A s \in Sites :
        text'[s] # text[s] =>
          LET peak == Peak(Observed(s))
              had == Literal(text[s])
          IN /\ Creations(s) >= MinCount
             /\ ~ text[s].wrapped
             /\ had # Dynamic
             /\ peak > had
             /\ peak >= Max({4, GrowthFactor * had})
             /\ Modest(command'.globals) /\ (Own(s) = NoPolicy \/ Modest(Own(s)))
                  => text'[s].cap < Max({2 * peak, peak + 8})
    ]_vars

\* apply changes the hashers of inherent constructors only on --hasher, to the
\* one that is asked for: the standard one where none is written and those that
\* --hasher writes, but no other that is written there, and not against the
\* type at the binding.  Left out is, of the types, one that omits its hasher
\* and is given a constructor that does not (see TypesAgree).
HashersKept ==
  [][ Applies => \A s \in Sites :
        LET c == text[s] IN
        c.form \in Inherent =>
          /\ text'[s].hasher # c.hasher =>
               /\ command'.hasher # "none" /\ text'[s].hasher = command'.hasher
               /\ c.kind = "hash"
               /\ c.hasher \in IF c.form = "with_hasher" THEN Fast ELSE {"std"}
          /\ Agrees(c) /\ ~ (c.let = "omitted" /\ c.form = "with_hasher")
               => Agrees(text'[s]) ]_vars

\* cargo fix runs the plugin until it has nothing to add: applying a profile
\* again, with the same options, to what it has patched changes no capacity.
\* What it may still add is a hasher, where the first pass replaced a whole
\* expression bound to a type that omits it.
FixIsStable ==
  [][ Applies /\ command' = command => \A s \in Sites :
        /\ text'[s].cap = text[s].cap
        /\ text'[s] # text[s] =>
             command.hasher # "none" /\ text[s].let = "omitted" ]_vars

\* The reader's view of analyze --write-policy (analyze.rs, cli.rs): apply
\* follows the policy of a site's entry rather than the command line's.
PolicyFollowed ==
  [][ Applies => \A s \in Sites :
        text'[s].cap # text[s].cap /\ Own(s) # NoPolicy =>
          text'[s].cap = ProposeCap([Loaded(Here(s)) EXCEPT !.policy = Own(s)],
                                    Literal(text[s]), command'.globals) ]_vars

\* The README's view of --hasher: a type at a binding and the constructor are
\* rewritten together, so that they still agree.
TypesAgree ==
  [][ Applies => \A s \in Sites :
        text[s].form \in Inherent /\ Agrees(text[s]) => Agrees(text'[s]) ]_vars

\* captrack.rs's view of names: a site that stands where the dumps saw it is
\* found in the profile.
SitesMatch ==
  profile # NoProfile =>
    \A s \in Sites : Unmoved(s) => Here(s) \in DOMAIN last
=============================================================================
