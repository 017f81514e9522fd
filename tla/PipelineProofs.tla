---------------------------- MODULE PipelineProofs ----------------------------
(***************************************************************************)
(* Proofs about modules Plugin and Pipeline.  What a patch does to a site, *)
(* whatever capacity is proposed, follows from the shapes of sites (IInv). *)
(* What becomes of the numbers, from the benches to the capacities, from   *)
(* an invariant that ties every entry of the profile to the dumps it was   *)
(* merged from (PInv).                                                     *)
(***************************************************************************)
EXTENDS Pipeline, ProfilesProofs

\* A Call but for its capacity, which may be anything that was proposed; new
\* and with_capacity are there for the standard hasher alone, and a wrapper is
\* the value of a let that writes no type.
Formed(c) ==
  /\ c \in [kind : Kinds, form : Forms, cap : {c.cap}, hasher : Hashers,
            let : Lets, wants : Hashers, below : BOOLEAN, byvalue : BOOLEAN,
            wrapped : BOOLEAN, inspected : BOOLEAN]
  /\ c.form \in {"new", "with_capacity"} => c.hasher = "std"
  /\ c.wrapped => c.let = "free"

\* What --hasher may be.
Injected == Fast \cup {"none"}

\* The texts there are, and the ones an undo may bring back.
TextsFormed ==
  \A s \in Sites : /\ Formed(text[s])
                   /\ Formed(saved.before[s])
                   /\ Formed(saved.after[s])

\* After an apply, every site is what that apply makes of some text.
JustPatched ==
  command # NotApply =>
    \A s \in Sites : \E c :
      /\ Formed(c)
      /\ text[s] = IF c.wrapped \/ Place(s, c) \notin DOMAIN last THEN c
                   ELSE Patch(c, Loaded(Place(s, c)), command.globals,
                              command.hasher)

IInv == TextsFormed /\ JustPatched

\* A Call is one whose capacity is a number or Dynamic.
LEMMA CallIsFormed ==
  ASSUME NEW c \in Call, ~ c.wrapped,
         c.form \in {"new", "with_capacity"} => c.hasher = "std"
  PROVE  Formed(c)
BY DEF Call, Formed

\* The instrument lint changes a site's marks alone.
LEMMA InstrumentForms ==
  ASSUME NEW c, Formed(c)
  PROVE  Formed(Instrument(c))
BY DEF Formed, Instrument, InstrumentMacro, Wrap, InspectUses, Borrowed,
       Wrappable

\* A constructor that is patched stays one, with the proposed capacity.
LEMMA ConstructorForms ==
  ASSUME NEW c, Formed(c), c.form \in Inherent, NEW to,
         NEW hasher \in Injected
  PROVE  LET d == Constructor(c, to, hasher)
         IN /\ Formed(d)
            /\ d.cap = to
            /\ d.kind = c.kind
            /\ d.wrapped = c.wrapped
            /\ d.form \in {"with_capacity", "with_hasher"}
<1>1. CASE hasher = "none" \/ c.kind # "hash" \/ c.let \in {"pinned", "alias"}
  BY <1>1 DEF Constructor, Resized, Formed, Forms, Inherent
<1>2. CASE hasher # "none" /\ c.kind = "hash" /\ c.let = "omitted"
  BY <1>2 DEF Constructor, Hashed, Formed, Forms, Hashers, Lets, Injected
<1>3. CASE /\ hasher # "none" /\ c.kind = "hash"
           /\ c.let \notin {"pinned", "alias", "omitted"}
  BY <1>3 DEF Constructor, Hashed, Formed, Forms, Hashers, Injected
<1> QED BY <1>1, <1>2, <1>3

\* A dispatch makes a constructor of any site, with the proposed capacity.
LEMMA DispatchedForms ==
  ASSUME NEW c, Formed(c), NEW to, NEW hasher \in Injected
  PROVE  LET d == Dispatched(c, to, hasher)
         IN /\ Formed(d)
            /\ d.cap = to
            /\ d.kind = c.kind
            /\ d.wrapped = c.wrapped
            /\ d.form \in {"with_capacity", "with_hasher"}
BY DEF Dispatched, Formed, Forms, Hashers, Injected

\* So a patched site is a well-formed one.
LEMMA PatchForms ==
  ASSUME NEW c, Formed(c), NEW stats, NEW globals, NEW hasher \in Injected
  PROVE  Formed(Patch(c, stats, globals, hasher))
BY ConstructorForms, DispatchedForms DEF Patch

\* What a site has does not matter to what is proposed for it, only to whether
\* anything is.
LEMMA ProposalIsOne ==
  ASSUME NEW stats, NEW globals, NEW cap, NEW other,
         ProposeCap(stats, cap, globals) # NoChange
  PROVE  ProposeCap(stats, other, globals)
           \in {ProposeCap(stats, cap, globals), NoChange}
BY DEF ProposeCap

\* A second patch of a constructor: what the first one may have left to it.
LEMMA ConstructorTwice ==
  ASSUME NEW c, Formed(c), c.form \in Inherent, NEW to, NEW hasher \in Injected
  PROVE  LET d == Constructor(c, to, hasher)
         IN Constructor(d, to, hasher) = d
<1> DEFINE d == Constructor(c, to, hasher)
<1>1. CASE hasher = "none" \/ c.kind # "hash" \/ c.let \in {"pinned", "alias"}
  BY <1>1 DEF Constructor, Resized, Formed, Forms, Hashers, Lets
<1>2. CASE hasher # "none" /\ c.kind = "hash" /\ c.let = "omitted"
  BY <1>2 DEF Constructor, Resized, Hashed, Formed, Forms, Lets, Injected
<1>3. CASE hasher # "none" /\ c.kind = "hash" /\ c.let \in {"none", "free"}
  BY <1>3 DEF Constructor, Hashed, Formed, Forms, Lets, Injected
<1> QED BY <1>1, <1>2, <1>3 DEF Formed, Lets

\* After a dispatch, only a type that omits the hasher leaves something to do.
LEMMA DispatchedTwice ==
  ASSUME NEW c, Formed(c), NEW to, NEW hasher \in Injected
  PROVE  LET d == Dispatched(c, to, hasher)
             e == Constructor(d, to, hasher)
         IN e.cap = to /\ (e # d => hasher # "none" /\ d.let = "omitted")
<1> DEFINE d == Dispatched(c, to, hasher)
<1>1. CASE hasher # "none" /\ c.kind = "hash" /\ c.let \in {"none", "free"}
  BY <1>1 DEF Dispatched, Constructor, Hashed, Formed, Forms, Hashers, Lets
<1>2. CASE ~(hasher # "none" /\ c.kind = "hash" /\ c.let \in {"none", "free"})
  <2>1. d = [c EXCEPT !.cap = to, !.form = "with_capacity", !.hasher = "std"]
    BY <1>2 DEF Dispatched
  <2>2. CASE hasher = "none" \/ c.kind # "hash" \/ c.let \in {"pinned", "alias"}
    BY <2>1, <2>2 DEF Constructor, Resized, Formed, Forms, Hashers, Lets
  <2>3. CASE hasher # "none" /\ c.let = "omitted"
    <3>1. /\ Formed(d) /\ d.form \in Inherent
          /\ d.let = "omitted"
      BY <2>1, <2>3, DispatchedForms DEF Inherent, Formed
    <3>2. Constructor(d, to, hasher).cap = to
      BY <3>1, ConstructorForms
    <3> QED BY <2>3, <3>1, <3>2
  <2> QED BY <1>2, <2>2, <2>3 DEF Formed, Lets
<1> QED BY <1>1, <1>2

\* A patch of what the same patch has made.
LEMMA PatchTwice ==
  ASSUME NEW c, Formed(c), NEW stats, NEW globals, NEW hasher \in Injected
  PROVE  LET d == Patch(c, stats, globals, hasher)
             e == Patch(d, stats, globals, hasher)
         IN e.cap = d.cap /\ (e # d => hasher # "none" /\ d.let = "omitted")
<1> DEFINE to == ProposeCap(stats, Literal(c), globals)
           d == Patch(c, stats, globals, hasher)
           e == Patch(d, stats, globals, hasher)
<1>1. CASE c.kind = "tree" \/ c.form = "macro" \/ to = NoChange
  BY <1>1 DEF Patch
<1>2. CASE ~(c.kind = "tree" \/ c.form = "macro" \/ to = NoChange)
  <2>1. /\ d = IF c.form \in Inherent THEN Constructor(c, to, hasher)
                                       ELSE Dispatched(c, to, hasher)
        /\ d.form \in Inherent /\ d.kind # "tree" /\ d.form # "macro"
        /\ d.cap = to
    BY <1>2, ConstructorForms, DispatchedForms DEF Patch, Inherent
  <2>2. e = d \/ e = Constructor(d, to, hasher)
    BY <1>2, <2>1, ProposalIsOne DEF Patch
  <2>3. CASE c.form \in Inherent
    BY <2>1, <2>2, <2>3, ConstructorTwice
  <2>4. CASE c.form \notin Inherent
    <3>1. d = Dispatched(c, to, hasher)
      BY <2>1, <2>4
    <3>2. Constructor(d, to, hasher).cap = to
          /\ (Constructor(d, to, hasher) # d => hasher # "none" /\ d.let = "omitted")
      BY <3>1, DispatchedTwice
    <3> QED BY <2>1, <2>2, <3>2
  <2> QED BY <2>3, <2>4
<1> QED BY <1>1, <1>2

\* What HashersKept says of one site.
Keeps(c, d, hasher) ==
  /\ d.hasher # c.hasher =>
       /\ hasher # "none" /\ d.hasher = hasher
       /\ c.kind = "hash"
       /\ c.hasher \in IF c.form = "with_hasher" THEN Fast ELSE {"std"}
  /\ Agrees(c) /\ ~ (c.let = "omitted" /\ c.form = "with_hasher") => Agrees(d)

\* A patch of a constructor replaces only the standard hasher where none is
\* written and those --hasher writes, on demand, and stays with the type at the
\* binding.
LEMMA PatchKeepsHasher ==
  ASSUME NEW c, Formed(c), c.form \in Inherent,
         NEW stats, NEW globals, NEW hasher \in Injected
  PROVE  Keeps(c, Patch(c, stats, globals, hasher), hasher)
<1> DEFINE to == ProposeCap(stats, Literal(c), globals)
           d == Patch(c, stats, globals, hasher)
<1>1. CASE c.kind = "tree" \/ c.form = "macro" \/ to = NoChange
  BY <1>1 DEF Patch, Keeps
<1>2. CASE ~(c.kind = "tree" \/ c.form = "macro" \/ to = NoChange)
  <2>1. d = Constructor(c, to, hasher)
    BY <1>2 DEF Patch
  <2>2. CASE hasher = "none" \/ c.kind # "hash" \/ c.let \in {"pinned", "alias"}
    BY <2>1, <2>2 DEF Constructor, Resized, Agrees, Formed, Keeps
  <2>3. CASE hasher # "none" /\ c.kind = "hash" /\ c.let = "omitted"
    BY <2>1, <2>3 DEF Constructor, Hashed, Agrees, Formed, Inherent, Keeps
  <2>4. CASE hasher # "none" /\ c.kind = "hash" /\ c.let \in {"none", "free"}
    BY <2>1, <2>4 DEF Constructor, Hashed, Agrees, Formed, Inherent, Keeps
  <2> QED BY <2>2, <2>3, <2>4 DEF Formed, Lets
<1> QED BY <1>1, <1>2

-----------------------------------------------------------------------------
\* The workspace begins with constructors that are well formed.
LEMMA InitIInv == Init => IInv
<1> SUFFICES ASSUME Init PROVE IInv
  OBVIOUS
<1>1. ASSUME NEW s \in Sites PROVE Formed(text[s])
  <2>1. /\ text[s] \in Call /\ ~ text[s].wrapped
        /\ text[s].form \in {"new", "with_capacity"} => text[s].hasher = "std"
    BY PipelineAssumption DEF Init
  <2> QED BY <2>1, CallIsFormed
<1>2. TextsFormed
  BY <1>1 DEF TextsFormed, Init
<1>3. JustPatched
  BY DEF JustPatched, Init
<1> QED BY <1>2, <1>3 DEF IInv

\* What apply makes of the sites is well formed.
LEMMA ApplyPatches ==
  ASSUME IInv, NEW options \in Options, Apply(options)
  PROVE  \A s \in Sites :
           /\ Formed(text'[s])
           /\ text'[s] = IF text[s].wrapped \/ Here(s) \notin DOMAIN last
                           THEN text[s]
                         ELSE Patch(text[s], Loaded(Here(s)), options.globals,
                                    options.hasher)
<1> TAKE s \in Sites
<1>1. text'[s] = Patched(s, options.globals, options.hasher)
  BY DEF Apply
<1>2. Formed(text[s]) /\ options.hasher \in Injected
  BY PipelineAssumption DEF IInv, TextsFormed, Injected
<1> QED BY <1>1, <1>2, PatchForms DEF Patched

\* Every step keeps the invariant.
LEMMA KeepsIInv == IInv /\ [Next]_vars => IInv'
<1> SUFFICES ASSUME IInv, [Next]_vars PROVE IInv'
  OBVIOUS
<1> USE DEF IInv
<1>1. CASE InstrumentAll
  <2>1. TextsFormed'
    BY <1>1, InstrumentForms DEF InstrumentAll, TextsFormed
  <2> QED BY <1>1, <2>1 DEF InstrumentAll, JustPatched
<1>2. CASE UninstrumentAll
  BY <1>2 DEF UninstrumentAll, TextsFormed, JustPatched
<1>3. ASSUME NEW b \in Benches, Bench(b) PROVE IInv'
  BY <1>3 DEF Bench, TextsFormed, JustPatched
<1>4. ASSUME NEW s \in Sites, WriteByHand(s) PROVE IInv'
  BY <1>4 DEF WriteByHand, TextsFormed, JustPatched
<1>5. ASSUME NEW chosen \in SUBSET Benches, NEW cap \in Caps,
             Merge(chosen, cap)
      PROVE  IInv'
  <2>1. /\ command' = NotApply
        /\ text' = text /\ saved' = saved
    BY <1>5 DEF Merge
  <2> QED BY <2>1 DEF TextsFormed, JustPatched
<1>6. CASE Analyze
  BY <1>6 DEF Analyze, TextsFormed, JustPatched
<1>7. ASSUME NEW options \in Options, Apply(options) PROVE IInv'
  <2>1. /\ command' = options
        /\ saved' = saved /\ profile' = profile /\ last' = last
    BY <1>7 DEF Apply
  <2>2. TextsFormed'
    BY <1>7, <2>1, ApplyPatches DEF TextsFormed
  <2>3. ASSUME NEW s \in Sites
        PROVE  \E c : /\ Formed(c)
                      /\ text'[s] =
                           IF c.wrapped \/ Place(s, c) \notin DOMAIN last' THEN c
                           ELSE Patch(c, Loaded(Place(s, c))', command'.globals,
                                      command'.hasher)
    <3>1. PICK c : c = text[s] /\ Formed(c)
      BY DEF TextsFormed
    <3>2. Loaded(Place(s, c))' = Loaded(Place(s, c))
      BY <2>1 DEF Loaded, Place
    <3>3. Here(s) = Place(s, c)
      BY <3>1 DEF Here
    <3> QED BY <1>7, <2>1, <3>1, <3>2, <3>3, ApplyPatches
  <2> QED BY <2>2, <2>3 DEF JustPatched
<1>8. CASE UNCHANGED vars
  BY <1>8 DEF vars, TextsFormed, JustPatched, Loaded
<1> QED BY <1>1, <1>2, <1>3, <1>4, <1>5, <1>6, <1>7, <1>8 DEF Next

\* The invariant of the pipeline's texts: every site is well formed, whatever
\* instrument, its undo and apply have done to it, and after an apply it is
\* what that apply makes of some text.
THEOREM Invariance == Spec => []IInv
BY InitIInv, KeepsIInv, PTL DEF Spec

\* A step that ends with a command of apply is an apply, or changes nothing.
LEMMA OnlyApply ==
  ASSUME [Next]_vars, command' # NotApply, vars' # vars
  PROVE  \E options \in Options : Apply(options) /\ command' = options
BY DEF Next, InstrumentAll, UninstrumentAll, Bench, WriteByHand, Merge,
       Analyze, Apply, vars

\* apply, run on any text and with any statistics, changes the hasher of an
\* inherent constructor only on --hasher, to the one asked for, from the standard
\* one that is not written or one that --hasher writes, and not against the type
\* written at the binding, unless that omits its hasher while the constructor
\* names one (HashersKept).
THEOREM HashersKeptHolds == Spec => HashersKept
<1>1. ASSUME IInv, [Next]_vars, vars' # vars, command' # NotApply,
             NEW s \in Sites, text[s].form \in Inherent
      PROVE  Keeps(text[s], text'[s], command'.hasher)
  <2>1. PICK options \in Options : Apply(options) /\ command' = options
    BY <1>1, OnlyApply
  <2>2. Formed(text[s]) /\ options.hasher \in Injected
    BY <1>1, PipelineAssumption DEF IInv, TextsFormed, Injected
  <2>3. CASE text[s].wrapped \/ Here(s) \notin DOMAIN last
    <3>1. text'[s] = text[s]
      BY <1>1, <2>1, <2>3, ApplyPatches
    <3> QED BY <3>1 DEF Keeps
  <2>4. CASE ~ (text[s].wrapped \/ Here(s) \notin DOMAIN last)
    BY <1>1, <2>1, <2>2, <2>4, ApplyPatches, PatchKeepsHasher
  <2> QED BY <2>3, <2>4
<1>2. IInv /\ [Next]_vars =>
        [ Applies => \A s \in Sites :
            text[s].form \in Inherent =>
              Keeps(text[s], text'[s], command'.hasher) ]_vars
  BY <1>1 DEF Applies
<1> QED BY <1>2, Invariance, PTL DEF Spec, HashersKept, Keeps

-----------------------------------------------------------------------------
(***************************************************************************)
(* Dumps and profiles                                                      *)
(***************************************************************************)

\* Where a site stands that can be wrapped: no type is written before it.
Origin(s) == <<s, "call", 0, Path(s)>>

\* The name of an entry is known from its place: instrument gives the wrapper
\* the place of the call inside it, and nobody else gives one.
NameAt(p) == IF p[2] = "call" THEN NoName ELSE Origin(p[1])

\* So is its key.
KeyAt(p) == IF p[2] = "call" THEN p ELSE <<p[1], "call", 0, "relative">>

\* An entry of a dump.
Recorded(p, e) ==
  /\ p[1] \in Sites
  /\ p[2] = "call" => p \in Places
  /\ e.name = NameAt(p)
  /\ e.count \in 0 .. MaxCount
  /\ e.tally \in Tally

WellRecorded(dump) ==
  /\ IsFiniteSet(DOMAIN dump)
  /\ \A p \in DOMAIN dump : Recorded(p, dump[p])

\* What some dumps say of a place.
CountOf(from, p) ==
  SumFunction([b \in Knowing(from, p) |-> from[b][p].count])
WholeOf(from, p) ==
  [v \in Sizes |->
     SumFunction([b \in Knowing(from, p) |-> from[b][p].tally[v]])]

\* t is what a reservoir of size n, 0 for none, leaves of whole.
KeptOf(t, whole, n) ==
  /\ t \in Tally
  /\ IF n = 0 \/ Total(whole) <= n
       THEN t = whole
       ELSE Total(t) = n /\ \A v \in Sizes : t[v] <= whole[v]

\* An entry of a profile that was merged from some dumps.
MergedOf(p, e, from, n) ==
  /\ e = [name |-> NameAt(p), count |-> Min({MaxCount, CountOf(from, p)}),
          tally |-> e.tally, policy |-> e.policy]
  /\ KeptOf(e.tally, WholeOf(from, p), n)
  /\ e.policy \in {NoPolicy, Recommended(e.tally)}

\* A profile is of wrappers, or of the one site somebody wrote it for.
OfOneKind(places) ==
  (\A p \in places : p[2] = "wrapper") \/ (\E p : places = {p})

\* A profile, the dumps and the reservoir it was made with, and the table the
\* plugin makes of it.
ProfileOf(prof, from, n, table) ==
  /\ IsFiniteSet(DOMAIN from)
  /\ \A b \in DOMAIN from : WellRecorded(from[b])
  /\ DOMAIN prof = UNION {DOMAIN from[b] : b \in DOMAIN from}
  /\ \A p \in DOMAIN prof : MergedOf(p, prof[p], from, n)
  /\ n \in Nat
  /\ DOMAIN table = Keys(prof)
  /\ \A k \in DOMAIN table : table[k] \in EntriesOf(prof, k)
  /\ OfOneKind(DOMAIN prof)

Typed(c) == Formed(c) /\ c.cap \in Nat \cup {Dynamic}
AllTyped(sources) ==
  /\ sources = [s \in Sites |-> sources[s]]
  /\ \A s \in Sites : Typed(sources[s])

DumpsRecorded ==
  \A b \in Benches : dumps[b] # NoProfile =>
    WellRecorded(dumps[b]) /\ \A p \in DOMAIN dumps[b] : p[2] = "wrapper"

PInv ==
  /\ AllTyped(text) /\ AllTyped(saved.before) /\ AllTyped(saved.after)
  /\ rounds \in 0 .. MaxRounds
  /\ reservoir \in Caps \cup {0}
  /\ DumpsRecorded
  /\ profile # NoProfile => ProfileOf(profile, inputs, reservoir, last)

\* The image of a finite set is finite.
LEMMA Images ==
  ASSUME NEW S, IsFiniteSet(S), NEW f
  PROVE  IsFiniteSet({f[x] : x \in S})
<1> DEFINE T == {f[x] : x \in S}
           g == [x \in S |-> f[x]]
<1>1. g \in Surjection(S, T)
  BY DEF Surjection
<1> HIDE DEF T, g
<1>2. IsFiniteSet(T)
  BY <1>1, FS_Surjection
<1> QED BY <1>2 DEF T

\* The sums over the dumps that know a place are numbers.
LEMMA SumsOf ==
  ASSUME NEW from, IsFiniteSet(DOMAIN from),
         \A b \in DOMAIN from : WellRecorded(from[b]),
         NEW p
  PROVE  /\ IsFiniteSet(Knowing(from, p))
         /\ \A b \in Knowing(from, p) : Recorded(p, from[b][p])
         /\ CountOf(from, p) \in Nat
         /\ CountOf(from, p)
              = SumFunctionOnSet([b \in Knowing(from, p) |-> from[b][p].count],
                                 Knowing(from, p))
         /\ WholeOf(from, p) \in Tally
         /\ \A v \in Sizes :
              WholeOf(from, p)[v]
                = SumFunctionOnSet([b \in Knowing(from, p) |->
                                      from[b][p].tally[v]],
                                   Knowing(from, p))
<1> DEFINE B == Knowing(from, p)
           f == [b \in B |-> from[b][p].count]
           g(v) == [b \in B |-> from[b][p].tally[v]]
<1>1. IsFiniteSet(B) /\ \A b \in B : Recorded(p, from[b][p])
  <2>1. B \in SUBSET DOMAIN from
    BY DEF Knowing
  <2>2. \A b \in B : Recorded(p, from[b][p])
    BY DEF Knowing, WellRecorded
  <2> HIDE DEF B
  <2> QED BY <2>1, <2>2, FS_Subset
<1>2. \A b \in B : f[b] \in Nat
  BY <1>1, ProfilesAssumption DEF Recorded
<1>3. ASSUME NEW v \in Sizes PROVE \A b \in B : g(v)[b] \in Nat
  BY <1>1 DEF Recorded, Tally
<1>4. CountOf(from, p) = SumFunctionOnSet(f, B)
  BY DEF CountOf, SumFunction
<1>5. ASSUME NEW v \in Sizes
      PROVE  WholeOf(from, p)[v] = SumFunctionOnSet(g(v), B)
  BY DEF WholeOf, SumFunction
<1>6. CountOf(from, p) \in Nat
  <2> HIDE DEF f, B
  <2> QED BY <1>1, <1>2, <1>4, SumAny
<1>7. ASSUME NEW v \in Sizes PROVE WholeOf(from, p)[v] \in Nat
  <2> HIDE DEF g, B
  <2> QED BY <1>1, <1>3, <1>5, SumAny
<1>8. WholeOf(from, p) \in Tally
  <2>1. WholeOf(from, p) = [v \in Sizes |-> WholeOf(from, p)[v]]
    BY DEF WholeOf
  <2> QED BY <1>7, <2>1 DEF Tally
<1> QED BY <1>1, <1>4, <1>5, <1>6, <1>8

\* merge joins the entries of a place.
LEMMA JoinedIs ==
  ASSUME NEW from, IsFiniteSet(DOMAIN from),
         \A b \in DOMAIN from : WellRecorded(from[b]),
         NEW p \in UNION {DOMAIN from[b] : b \in DOMAIN from}
  PROVE  Joined(from, p)
           = [name |-> NameAt(p), count |-> Min({MaxCount, CountOf(from, p)}),
              tally |-> WholeOf(from, p), policy |-> NoPolicy]
<1>1. Knowing(from, p) # {}
  BY DEF Knowing
<1>2. (CHOOSE b \in Knowing(from, p) : TRUE) \in Knowing(from, p)
  BY <1>1
<1>3. from[CHOOSE b \in Knowing(from, p) : TRUE][p].name = NameAt(p)
  BY <1>2, SumsOf DEF Recorded
<1> QED BY <1>3 DEF Joined, CountOf, WholeOf

\* A reservoir keeps so many of the samples there are.
LEMMA SampledIs ==
  ASSUME NEW t \in Tally, NEW n \in Nat, NEW u \in Sampled(t, n)
  PROVE  KeptOf(u, t, n)
<1>1. Total(t) \in Nat /\ Total(t) = SumFunctionOnSet(t, Sizes)
  BY Counted
<1>2. CASE n = 0 \/ Total(t) <= n
  BY <1>1, <1>2 DEF Sampled, KeptOf
<1>3. CASE n # 0 /\ Total(t) > n
  <2> DEFINE k == Total(t) - n
             seen == Seen(t)
  <2>1. PICK o \in [seen -> 0 .. k] :
          /\ Total(o) = k
          /\ \A v \in seen : o[v] <= t[v]
          /\ u = [v \in Sizes |-> IF v \in seen THEN t[v] - o[v] ELSE 0]
    BY <1>1, <1>3 DEF Sampled
  <2> DEFINE z == [v \in Sizes |-> IF v \in seen THEN o[v] ELSE 0]
  <2>2. /\ IsFiniteSet(Sizes) /\ seen \in SUBSET Sizes
        /\ k \in Nat
        /\ \A v \in Sizes : t[v] \in Nat /\ (v \notin seen => t[v] = 0)
    BY <1>1, <1>3, ProfilesAssumption DEF Tally, Seen
  <2>3. ASSUME NEW v \in Sizes
        PROVE  /\ u[v] \in Nat /\ z[v] \in Nat
               /\ t[v] = u[v] + z[v] /\ u[v] <= t[v]
    BY <2>1, <2>2
  <2>4. u \in Tally
    BY <2>1, <2>3 DEF Tally
  <2>5. SumFunctionOnSet(z, Sizes) = k
    <3>1. Total(o) = SumFunctionOnSet(o, seen)
      BY DEF Total, SumFunction
    <3>2. \A v \in seen : o[v] \in Nat /\ o[v] = z[v]
      BY <2>1, <2>2
    <3>3. \A v \in Sizes \ seen : z[v] \in Nat /\ ~ z[v] > 0
      OBVIOUS
    <3>4. IsFiniteSet(seen) /\ IsFiniteSet(Sizes \ seen)
      BY <2>2, FS_Subset, FS_Difference
    <3> HIDE DEF seen, z, k
    <3>5. SumFunctionOnSet(o, seen) = SumFunctionOnSet(z, seen)
      BY <3>2, <3>4, SumSame
    <3>6. SumFunctionOnSet(z, Sizes \ seen) = 0
      BY <3>3, <3>4, SumPositive
    <3>7. /\ SumFunctionOnSet(z, seen) \in Nat
          /\ SumFunctionOnSet(z, Sizes)
               = SumFunctionOnSet(z, seen) + SumFunctionOnSet(z, Sizes \ seen)
      BY <2>2, <2>3, SumSplit
    <3> QED BY <2>1, <3>1, <3>5, <3>6, <3>7
  <2>6. /\ Total(u) = SumFunctionOnSet(u, Sizes)
        /\ Total(u) \in Nat
    BY <2>4, Counted
  <2>7. SumFunctionOnSet(t, Sizes)
          = SumFunctionOnSet(u, Sizes) + SumFunctionOnSet(z, Sizes)
    <3> HIDE DEF z
    <3> QED BY <2>2, <2>3, SumAdd
  <2>8. Total(u) = n
    BY <1>1, <2>5, <2>6, <2>7
  <2> QED BY <1>1, <1>3, <2>3, <2>4, <2>8 DEF KeptOf
<1> QED BY <1>1, <1>2, <1>3

\* The place of a site and the name of a wrapper, as the plugin reads them.
LEMMA PlacesAre ==
  ASSUME NEW s \in Sites, NEW c
  PROVE  /\ Place(s, c) \in Places /\ Place(s, c) # NoName
         /\ Place(s, c)[1] = s /\ Place(s, c)[4] = Path(s)
         /\ Origin(s) \in Places /\ Origin(s) # NoName
         /\ Parsed(Origin(s)) = <<s, "call", 0, "relative">>
<1>1. Column(c) \in 0 .. 1 /\ 0 \in 0 .. 1
  BY DEF Column
<1>2. Place(s, c) \in Places /\ Origin(s) \in Places
  BY <1>1 DEF Place, Origin, Places
<1>3. Parsed(Origin(s)) = <<s, "call", 0, "relative">>
  BY DEF Parsed, Origin
<1> QED BY <1>2, <1>3, PipelineAssumption DEF Place

\* An entry of a profile is recorded in some of its dumps, and its place says
\* its site, its name and its key.
LEMMA EntriesAre ==
  ASSUME NEW prof, NEW from, NEW n, NEW table, ProfileOf(prof, from, n, table),
         NEW p \in DOMAIN prof
  PROVE  /\ p[1] \in Sites /\ prof[p].name = NameAt(p)
         /\ p[2] = "call" => p \in Places
         /\ KeyOf(p, prof[p]) = KeyAt(p) /\ KeyAt(p)[1] = p[1]
<1>1. PICK b \in DOMAIN from : p \in DOMAIN from[b]
  BY DEF ProfileOf
<1>2. p[1] \in Sites /\ (p[2] = "call" => p \in Places)
  BY <1>1 DEF ProfileOf, WellRecorded, Recorded
<1>3. prof[p].name = NameAt(p)
  <2>1. MergedOf(p, prof[p], from, n)
    BY DEF ProfileOf
  <2> QED BY <2>1 DEF MergedOf
<1>4. /\ Origin(p[1]) # NoName
      /\ Parsed(Origin(p[1])) = <<p[1], "call", 0, "relative">>
  BY <1>2, PlacesAre
<1>5. KeyOf(p, prof[p]) = KeyAt(p)
  BY <1>3, <1>4 DEF KeyOf, NameAt, KeyAt
<1> QED BY <1>2, <1>3, <1>5 DEF KeyAt

\* The plugin's table has one key for a site.
LEMMA KeysAre ==
  ASSUME NEW prof, NEW from, NEW n, NEW table, ProfileOf(prof, from, n, table),
         NEW k \in DOMAIN table, NEW other \in DOMAIN table, k[1] = other[1]
  PROVE  k = other
<1>1. DOMAIN table = Keys(prof) /\ OfOneKind(DOMAIN prof)
  BY DEF ProfileOf
<1>2. ASSUME NEW x \in DOMAIN table
      PROVE  \E p \in DOMAIN prof : x = KeyAt(p) /\ x[1] = p[1]
  BY <1>1, EntriesAre DEF Keys
<1>3. PICK p \in DOMAIN prof : k = KeyAt(p) /\ k[1] = p[1]
  BY <1>2
<1>4. PICK q \in DOMAIN prof : other = KeyAt(q) /\ other[1] = q[1]
  BY <1>2
<1>5. p = q \/ (p[2] = "wrapper" /\ q[2] = "wrapper")
  <2>1. CASE \A x \in DOMAIN prof : x[2] = "wrapper"
    BY <2>1
  <2>2. CASE \E x : DOMAIN prof = {x}
    <3>1. PICK x : DOMAIN prof = {x}
      BY <2>2
    <3>2. p \in {x} /\ q \in {x}
      BY <3>1
    <3> QED BY <3>2
  <2> QED BY <1>1, <2>1, <2>2 DEF OfOneKind
<1>6. p[2] = "wrapper" /\ q[2] = "wrapper" => KeyAt(p) = KeyAt(q)
  BY <1>3, <1>4 DEF KeyAt
<1> QED BY <1>3, <1>4, <1>5, <1>6

\* What an entry of a profile holds.
LEMMA EntryIs ==
  ASSUME NEW prof, NEW from, NEW n, NEW table, ProfileOf(prof, from, n, table),
         NEW p \in DOMAIN prof
  PROVE  /\ CountOf(from, p) \in Nat /\ WholeOf(from, p) \in Tally
         /\ prof[p].count = IF MaxCount <= CountOf(from, p)
                              THEN MaxCount ELSE CountOf(from, p)
         /\ prof[p].count \in 0 .. MaxCount
         /\ KeptOf(prof[p].tally, WholeOf(from, p), n)
         /\ prof[p].tally \in Tally
<1>1. /\ CountOf(from, p) \in Nat /\ WholeOf(from, p) \in Tally
      /\ MaxCount \in Nat
  BY SumsOf, ProfilesAssumption DEF ProfileOf
<1>2. /\ prof[p].count = Min({MaxCount, CountOf(from, p)})
      /\ KeptOf(prof[p].tally, WholeOf(from, p), n)
  <2>1. MergedOf(p, prof[p], from, n)
    BY DEF ProfileOf
  <2> QED BY <2>1 DEF MergedOf
<1>3. Min({MaxCount, CountOf(from, p)})
        = IF MaxCount <= CountOf(from, p) THEN MaxCount ELSE CountOf(from, p)
  BY <1>1, MinOfTwo
<1> QED BY <1>1, <1>2, <1>3 DEF KeptOf

\* A new profile comes with a new table of last entries.
LEMMA PublishTable ==
  ASSUME NEW prof, NEW from, NEW cap, Publish(prof, from, cap)
  PROVE  /\ DOMAIN last' = Keys(prof)
         /\ \A k \in DOMAIN last' : last'[k] \in EntriesOf(prof, k)
BY DEF Publish, LastEntries

\* The workspace begins without dumps and without a profile.
LEMMA InitPInv == Init => PInv
<1> SUFFICES ASSUME Init PROVE PInv
  OBVIOUS
<1>1. text \in [Sites -> Call]
  BY PipelineAssumption DEF Init
<1>2. ASSUME NEW s \in Sites PROVE Typed(text[s])
  <2>1. /\ text[s] \in Call /\ ~ text[s].wrapped
        /\ text[s].form \in {"new", "with_capacity"} => text[s].hasher = "std"
    BY PipelineAssumption DEF Init
  <2> QED BY <2>1, CallIsFormed DEF Typed, Call
<1>3. AllTyped(text)
  BY <1>1, <1>2 DEF AllTyped
<1>4. saved.before = text /\ saved.after = text
  BY DEF Init
<1> QED BY <1>3, <1>4, PipelineAssumption DEF Init, PInv, DumpsRecorded

\* A bench dumps entries of the sites at their wrappers.
LEMMA BenchRecords ==
  ASSUME PInv, NEW b \in Benches, Bench(b)
  PROVE  PInv'
<1> DEFINE wrapped == {s \in Sites : text[s].wrapped}
           place == [s \in Sites |-> WrapperPlace(s, text[s])]
           places == {place[s] : s \in wrapped}
<1>1. PICK run \in Runs[b] :
        dumps' = [dumps EXCEPT ![b] =
                    [p \in places |->
                       Entry(Place(p[1], text[p[1]]), run[p[1]])]]
  <2>1. places = {WrapperPlace(s, text[s]) : s \in wrapped}
    OBVIOUS
  <2> HIDE DEF places
  <2>2. \E run \in Runs[b] :
          dumps' = [dumps EXCEPT ![b] =
                      [p \in {WrapperPlace(s, text[s]) : s \in wrapped} |->
                         Entry(Place(p[1], text[p[1]]), run[p[1]])]]
    BY DEF Bench
  <2> QED BY <2>1, <2>2
<1>2. IsFiniteSet(places)
  <2>1. IsFiniteSet(wrapped)
    BY PipelineAssumption, FS_Subset
  <2> HIDE DEF wrapped, place
  <2> QED BY <2>1, Images
<1>3. ASSUME NEW p \in places
      PROVE  /\ Recorded(p, Entry(Place(p[1], text[p[1]]), run[p[1]]))
             /\ p[2] = "wrapper"
  <2>1. PICK s \in Sites : p = WrapperPlace(s, text[s]) /\ text[s].wrapped
    OBVIOUS
  <2>2. p[1] = s /\ p[2] = "wrapper"
    BY <2>1 DEF WrapperPlace
  <2>3. run[s] \in [count : 0 .. MaxCount, tally : Tally]
    BY PipelineAssumption
  <2>4. text[s].let = "free"
    BY <2>1 DEF PInv, AllTyped, Typed, Formed
  <2>5. Place(s, text[s]) = Origin(s)
    BY <2>4 DEF Place, Origin, Column
  <2> QED BY <2>2, <2>3, <2>5 DEF Recorded, NameAt, Entry
<1> HIDE DEF places
<1>4. WellRecorded([p \in places |->
                      Entry(Place(p[1], text[p[1]]), run[p[1]])])
  BY <1>2, <1>3 DEF WellRecorded
<1>5. DumpsRecorded'
  BY <1>1, <1>3, <1>4 DEF DumpsRecorded, PInv
<1> QED BY <1>5 DEF Bench, PInv

\* A profile by hand is of one dump, itself.
LEMMA HandRecords ==
  ASSUME PInv, NEW s \in Sites, WriteByHand(s)
  PROVE  PInv'
<1>1. PICK run \in ByHand :
        Publish([p \in {Place(s, text[s])} |-> Entry(NoName, run)],
                [x \in {"hand"} |->
                   [p \in {Place(s, text[s])} |-> Entry(NoName, run)]], 0)
  BY DEF WriteByHand
<1> DEFINE place == Place(s, text[s])
           prof == [p \in {place} |-> Entry(NoName, run)]
           from == [x \in {"hand"} |-> prof]
<1>2. run \in [count : 0 .. MaxCount, tally : Tally] /\ MaxCount \in Nat
  BY PipelineAssumption, ProfilesAssumption
<1>3. /\ NameAt(place) = NoName
      /\ place[1] = s /\ place \in Places
  BY PlacesAre DEF NameAt, Place
<1> HIDE DEF place
<1>4. WellRecorded(prof)
  <2>1. Recorded(place, Entry(NoName, run))
    BY <1>2, <1>3 DEF Recorded, Entry
  <2>2. IsFiniteSet({place})
    BY FS_Singleton
  <2> QED BY <2>1, <2>2 DEF WellRecorded
<1>5. /\ IsFiniteSet(DOMAIN from)
      /\ \A b \in DOMAIN from : WellRecorded(from[b])
      /\ DOMAIN prof = UNION {DOMAIN from[b] : b \in DOMAIN from}
  <2> HIDE DEF prof
  <2>1. IsFiniteSet({"hand"})
    BY FS_Singleton
  <2>2. DOMAIN from = {"hand"} /\ from["hand"] = prof
    OBVIOUS
  <2> QED BY <1>4, <2>1, <2>2
<1>6. MergedOf(place, prof[place], from, 0)
  <2>1. Knowing(from, place) = {"hand"}
    BY DEF Knowing
  <2>2. CountOf(from, place) = run.count
    <3>1. DOMAIN [b \in {"hand"} |-> from[b][place].count] = {"hand"}
          /\ [b \in {"hand"} |-> from[b][place].count]["hand"] = run.count
      BY DEF Entry
    <3>2. run.count \in Nat
      BY <1>2
    <3> HIDE DEF from
    <3> QED BY <2>1, <3>1, <3>2, SumOne DEF CountOf, SumFunction
  <2>3. ASSUME NEW v \in Sizes
        PROVE  WholeOf(from, place)[v] = run.tally[v]
    <3> DEFINE g == [b \in {"hand"} |-> from[b][place].tally[v]]
    <3>1. DOMAIN g = {"hand"} /\ g["hand"] = run.tally[v]
      BY DEF Entry
    <3>2. run.tally[v] \in Nat
      BY <1>2 DEF Tally
    <3>3. WholeOf(from, place)[v] = SumFunctionOnSet(g, DOMAIN g)
      BY <2>1 DEF WholeOf, SumFunction
    <3> HIDE DEF g
    <3> QED BY <3>1, <3>2, <3>3, SumOne
  <2>4. WholeOf(from, place) = run.tally
    BY <1>2, <2>3 DEF WholeOf, Tally
  <2>5. Min({MaxCount, run.count}) = run.count
    <3>1. run.count \in Int /\ MaxCount \in Int /\ run.count <= MaxCount
      BY <1>2
    <3> QED BY <3>1, MinOfTwo
  <2>6. prof[place] = Entry(NoName, run)
    OBVIOUS
  <2> QED BY <1>2, <1>3, <2>2, <2>4, <2>5, <2>6 DEF MergedOf, KeptOf, Entry
<1>7. /\ profile' = prof /\ inputs' = from /\ reservoir' = 0
      /\ DOMAIN last' = Keys(prof)
      /\ \A k \in DOMAIN last' : last'[k] \in EntriesOf(prof, k)
  <2>1. Publish(prof, from, 0)
    BY <1>1 DEF place
  <2> HIDE DEF prof, from
  <2> QED BY <2>1, PublishTable DEF Publish
<1>8. \A p \in DOMAIN prof : MergedOf(p, prof[p], from, 0)
  BY <1>6
<1>9. OfOneKind(DOMAIN prof)
  <2>1. DOMAIN prof = {place}
    OBVIOUS
  <2> QED BY <2>1 DEF OfOneKind
<1>10. ProfileOf(prof, from, 0, last')
  <2> HIDE DEF prof, from
  <2> QED BY <1>5, <1>7, <1>8, <1>9 DEF ProfileOf
<1> QED BY <1>7, <1>10 DEF WriteByHand, PInv, DumpsRecorded

\* A profile that is merged is of the dumps it was merged of.
LEMMA MergeRecords ==
  ASSUME PInv, NEW chosen \in SUBSET Benches, NEW cap \in Caps,
         Merge(chosen, cap)
  PROVE  PInv'
<1> DEFINE from == [b \in chosen |-> dumps[b]]
           places == UNION {DOMAIN from[b] : b \in chosen}
           joined == [p \in places |-> Joined(from, p)]
           n(f) == IF f = [p \in places |-> joined[p].tally] THEN 0 ELSE cap
           prof(f) == [p \in places |-> [joined[p] EXCEPT !.tally = f[p]]]
<1>1. PICK f : /\ \A p \in places : f[p] \in Sampled(joined[p].tally, cap)
               /\ Publish(prof(f), from, n(f))
  BY DEF Merge
<1>2. IsFiniteSet(DOMAIN from) /\ DOMAIN from = chosen
  BY PipelineAssumption, FS_Subset
<1>3. \A b \in DOMAIN from : WellRecorded(from[b])
  BY DEF Merge, PInv, DumpsRecorded
<1>4. /\ places = UNION {DOMAIN from[b] : b \in DOMAIN from}
      /\ DOMAIN prof(f) = places
  OBVIOUS
<1>5. cap \in Nat /\ n(f) \in Nat
  BY PipelineAssumption
<1>6. ASSUME NEW p \in places
      PROVE  MergedOf(p, prof(f)[p], from, n(f))
  <2> DEFINE whole == WholeOf(from, p)
  <2>1. joined[p]
          = [name |-> NameAt(p), count |-> Min({MaxCount, CountOf(from, p)}),
             tally |-> whole, policy |-> NoPolicy]
    <3> HIDE DEF from
    <3> QED BY <1>2, <1>3, JoinedIs
  <2>2. whole \in Tally
    <3> HIDE DEF from
    <3> QED BY <1>2, <1>3, SumsOf
  <2>3. KeptOf(f[p], whole, cap)
    <3>1. f[p] \in Sampled(whole, cap)
      <4>1. joined[p].tally = whole
        BY <2>1
      <4> HIDE DEF whole, joined
      <4> QED BY <1>1, <4>1
    <3> HIDE DEF whole
    <3> QED BY <1>5, <2>2, <3>1, SampledIs
  <2>4. KeptOf(f[p], whole, n(f))
    <3>1. CASE f = [q \in places |-> joined[q].tally]
      <4>1. n(f) = 0 /\ f[p] = whole
        BY <2>1, <3>1
      <4> HIDE DEF n, whole
      <4> QED BY <2>2, <4>1 DEF KeptOf
    <3>2. CASE f # [q \in places |-> joined[q].tally]
      <4>1. n(f) = cap
        BY <3>2
      <4> HIDE DEF n, whole
      <4> QED BY <2>3, <4>1
    <3> QED BY <3>1, <3>2
  <2>5. prof(f)[p]
          = [name |-> NameAt(p), count |-> Min({MaxCount, CountOf(from, p)}),
             tally |-> f[p], policy |-> NoPolicy]
    <3>1. prof(f)[p] = [joined[p] EXCEPT !.tally = f[p]]
      OBVIOUS
    <3> HIDE DEF joined, prof
    <3> QED BY <2>1, <3>1
  <2> HIDE DEF prof, n, whole, from
  <2> QED BY <2>4, <2>5 DEF MergedOf, whole
<1>7. /\ profile' = prof(f) /\ inputs' = from /\ reservoir' = n(f)
      /\ DOMAIN last' = Keys(prof(f))
      /\ \A k \in DOMAIN last' : last'[k] \in EntriesOf(prof(f), k)
  <2> HIDE DEF prof, from, n
  <2> QED BY <1>1, PublishTable DEF Publish
<1>8. OfOneKind(DOMAIN prof(f))
  <2>1. \A b \in chosen : \A p \in DOMAIN from[b] : p[2] = "wrapper"
    BY DEF Merge, PInv, DumpsRecorded
  <2>2. \A p \in places : p[2] = "wrapper"
    <3> HIDE DEF from
    <3> QED BY <2>1
  <2> QED BY <1>4, <2>2 DEF OfOneKind
<1>9. ProfileOf(prof(f), from, n(f), last')
  <2>1. DOMAIN prof(f) = UNION {DOMAIN from[b] : b \in DOMAIN from}
    BY <1>4
  <2>2. \A p \in DOMAIN prof(f) : MergedOf(p, prof(f)[p], from, n(f))
    BY <1>4, <1>6
  <2> HIDE DEF prof, from, n, places
  <2> QED BY <1>2, <1>3, <1>5, <1>7, <1>8, <2>1, <2>2 DEF ProfileOf
<1>10. n(f) \in Caps \cup {0}
  OBVIOUS
<1> HIDE DEF prof, from, n
<1> QED BY <1>7, <1>9, <1>10 DEF Merge, PInv, DumpsRecorded

\* analyze leaves everything of an entry but its policy.
LEMMA AnalyzeKeeps ==
  ASSUME PInv, Analyze
  PROVE  PInv'
<1>1. profile # NoProfile /\ ProfileOf(profile, inputs, reservoir, last)
  BY DEF Analyze, PInv
<1>2. DOMAIN profile' = DOMAIN profile
  BY DEF Analyze
<1>3. ASSUME NEW p \in DOMAIN profile
      PROVE  /\ MergedOf(p, profile'[p], inputs, reservoir)
             /\ profile'[p].name = profile[p].name
  <2>1. MergedOf(p, profile[p], inputs, reservoir)
    BY <1>1 DEF ProfileOf
  <2>2. profile'[p] \in
          {profile[p],
           [profile[p] EXCEPT !.policy = Recommended(profile[p].tally)]}
    BY DEF Analyze
  <2> QED BY <2>1, <2>2 DEF MergedOf
<1>4. /\ \A k : EntriesOf(profile', k) = EntriesOf(profile, k)
      /\ Keys(profile') = Keys(profile)
  BY <1>2, <1>3 DEF EntriesOf, Keys, KeyOf
<1>5. ProfileOf(profile', inputs, reservoir, last)
  BY <1>1, <1>2, <1>3, <1>4 DEF ProfileOf
<1> QED BY <1>5 DEF Analyze, PInv, DumpsRecorded

\* What the plugin loads for a site is the summary of an entry of that site.
LEMMA LoadedIs ==
  ASSUME PInv, profile # NoProfile, NEW s \in Sites, Here(s) \in DOMAIN last
  PROVE  LET p == last[Here(s)]
             e == profile[p]
         IN /\ p \in DOMAIN profile /\ p[1] = s /\ KeyAt(p) = Here(s)
            /\ Loaded(Here(s)) = Summary(e.count, e.tally)
            /\ e.count \in Nat /\ e.tally \in Tally
<1> DEFINE p == last[Here(s)]
<1>1. ProfileOf(profile, inputs, reservoir, last)
  BY DEF PInv
<1>2. p \in DOMAIN profile /\ KeyOf(p, profile[p]) = Here(s)
  BY <1>1 DEF ProfileOf, EntriesOf
<1>3. KeyAt(p) = Here(s) /\ KeyAt(p)[1] = p[1]
  BY <1>1, <1>2, EntriesAre
<1>4. Here(s)[1] = s
  BY DEF Here, Place
<1>5. profile[p].count \in 0 .. MaxCount /\ profile[p].tally \in Tally
  BY <1>1, <1>2, EntryIs
<1> QED BY <1>2, <1>3, <1>4, <1>5, ProfilesAssumption DEF Loaded

\* A patched site has a capacity that is a number, or the one it had.
LEMMA PatchTyped ==
  ASSUME NEW c, Typed(c), NEW t \in Tally, NEW count \in Nat,
         NEW options \in Options
  PROVE  Typed(Patch(c, Summary(count, t), options.globals, options.hasher))
<1> DEFINE stats == Summary(count, t)
           to == ProposeCap(stats, Literal(c), options.globals)
           d == Patch(c, stats, options.globals, options.hasher)
<1>1. Literal(c) \in Nat \cup {Dynamic}
  BY DEF Literal, Typed
<1>2. /\ options.globals \in Policies
      /\ \A v \in Sizes : CeilDiv(v * Multiplier(options.globals.mul)[1],
                                  Multiplier(options.globals.mul)[2]) <= 2^30
  BY PipelineAssumption
<1>3. to = NoChange \/ to \in Nat
  BY <1>1, <1>2, ProposalIs
<1>4. options.hasher \in Injected /\ Formed(d)
  <2>1. options.hasher \in Injected
    BY PipelineAssumption DEF Injected
  <2> QED BY <2>1, PatchForms DEF Typed
<1> HIDE DEF stats
<1>5. d.cap \in Nat \cup {Dynamic}
  <2>1. CASE c.kind = "tree" \/ c.form = "macro" \/ to = NoChange
    BY <2>1 DEF Patch, Typed
  <2>2. CASE ~ (c.kind = "tree" \/ c.form = "macro" \/ to = NoChange)
    <3>1. d = IF c.form \in Inherent THEN Constructor(c, to, options.hasher)
                                     ELSE Dispatched(c, to, options.hasher)
      BY <2>2 DEF Patch
    <3>2. d.cap = to
      BY <1>4, <3>1, ConstructorForms, DispatchedForms DEF Typed
    <3> QED BY <1>3, <2>2, <3>2
  <2> QED BY <2>1, <2>2
<1> QED BY <1>4, <1>5 DEF Typed, stats

\* apply changes the sources alone, to well-formed ones.
LEMMA ApplyKeeps ==
  ASSUME PInv, NEW options \in Options, Apply(options)
  PROVE  PInv'
<1>1. text' = [s \in Sites |-> Patched(s, options.globals, options.hasher)]
  BY DEF Apply
<1>2. ASSUME NEW s \in Sites PROVE Typed(text'[s])
  <2>1. Typed(text[s])
    BY DEF PInv, AllTyped
  <2>2. CASE text[s].wrapped \/ Here(s) \notin DOMAIN last
    BY <1>1, <2>1, <2>2 DEF Patched
  <2>3. CASE ~ (text[s].wrapped \/ Here(s) \notin DOMAIN last)
    <3> DEFINE e == profile[last[Here(s)]]
    <3>1. /\ Loaded(Here(s)) = Summary(e.count, e.tally)
          /\ e.count \in Nat /\ e.tally \in Tally
      BY <2>3, LoadedIs DEF Apply
    <3> HIDE DEF e
    <3>2. Typed(Patch(text[s], Summary(e.count, e.tally), options.globals,
                      options.hasher))
      BY <2>1, <3>1, PatchTyped
    <3> QED BY <1>1, <2>3, <3>1, <3>2 DEF Patched
  <2> QED BY <2>2, <2>3
<1>3. AllTyped(text')
  BY <1>1, <1>2 DEF AllTyped
<1> QED BY <1>3 DEF Apply, PInv, DumpsRecorded

\* Every step keeps the invariant of the numbers.
LEMMA KeepsPInv == PInv /\ [Next]_vars => PInv'
<1> SUFFICES ASSUME PInv, [Next]_vars PROVE PInv'
  OBVIOUS
<1>1. CASE InstrumentAll
  <2>1. text' = [s \in Sites |-> Instrument(text[s])]
    BY <1>1 DEF InstrumentAll
  <2>2. ASSUME NEW s \in Sites PROVE Typed(text'[s])
    <3>1. Typed(text[s])
      BY DEF PInv, AllTyped
    <3>2. Formed(Instrument(text[s]))
      BY <3>1, InstrumentForms DEF Typed
    <3>3. Instrument(text[s]).cap = text[s].cap
      BY <3>1 DEF Typed, Formed, Instrument, InstrumentMacro, Wrap,
                  InspectUses, Borrowed
    <3> QED BY <2>1, <3>1, <3>2, <3>3 DEF Typed
  <2>3. AllTyped(text')
    BY <2>1, <2>2 DEF AllTyped
  <2>4. /\ saved'.before = text /\ saved'.after = text'
        /\ rounds' \in 0 .. MaxRounds
    BY <1>1, PipelineAssumption DEF InstrumentAll, PInv
  <2> QED BY <1>1, <2>3, <2>4 DEF InstrumentAll, PInv, DumpsRecorded
<1>2. CASE UninstrumentAll
  BY <1>2 DEF UninstrumentAll, PInv, DumpsRecorded
<1>3. ASSUME NEW b \in Benches, Bench(b) PROVE PInv'
  BY <1>3, BenchRecords
<1>4. ASSUME NEW s \in Sites, WriteByHand(s) PROVE PInv'
  BY <1>4, HandRecords
<1>5. ASSUME NEW chosen \in SUBSET Benches, NEW cap \in Caps,
             Merge(chosen, cap)
      PROVE  PInv'
  BY <1>5, MergeRecords
<1>6. CASE Analyze
  BY <1>6, AnalyzeKeeps
<1>7. ASSUME NEW options \in Options, Apply(options) PROVE PInv'
  BY <1>7, ApplyKeeps
<1>8. CASE UNCHANGED vars
  BY <1>8 DEF vars, PInv, DumpsRecorded
<1> QED BY <1>1, <1>2, <1>3, <1>4, <1>5, <1>6, <1>7, <1>8 DEF Next

\* The invariant of the pipeline's numbers: the profile there is, however it
\* was made, is the one of the dumps it was made of, entry by entry: named for
\* the site, with their creations up to saturation and with all or, by the
\* reservoir, so many of their samples.
THEOREM NumbersInvariance == Spec => []PInv
BY InitPInv, KeepsPInv, PTL DEF Spec

\* cargo fix comes to an end: a second apply with the same options and profile
\* leaves every capacity, and adds at most a hasher (FixIsStable).  A site that
\* the first one moved is not in the profile where it stands now, which knows
\* it at one place.
THEOREM FixIsStableHolds == Spec => FixIsStable
<1>1. ASSUME IInv, PInv, [Next]_vars, vars' # vars, command' # NotApply,
             command' = command, NEW s \in Sites
      PROVE  /\ text'[s].cap = text[s].cap
             /\ text'[s] # text[s] =>
                  command.hasher # "none" /\ text[s].let = "omitted"
  <2>1. PICK options \in Options : Apply(options) /\ command' = options
    BY <1>1, OnlyApply
  <2>2. PICK c : /\ Formed(c)
                 /\ text[s] = IF c.wrapped \/ Place(s, c) \notin DOMAIN last THEN c
                              ELSE Patch(c, Loaded(Place(s, c)),
                                         command.globals, command.hasher)
    BY <1>1 DEF IInv, JustPatched
  <2>3. command = options /\ options.hasher \in Injected
    BY <1>1, <2>1, PipelineAssumption DEF Injected
  <2>4. CASE text[s].wrapped \/ Here(s) \notin DOMAIN last
    BY <1>1, <2>1, <2>4, ApplyPatches
  <2>5. CASE ~ (text[s].wrapped \/ Here(s) \notin DOMAIN last)
    <3>1. text'[s] = Patch(text[s], Loaded(Here(s)), options.globals,
                           options.hasher)
      BY <1>1, <2>1, <2>5, ApplyPatches
    <3>2. Place(s, c) \in DOMAIN last /\ ~ c.wrapped
      BY <2>2, <2>5 DEF Here
    <3>3. Place(s, c) = Here(s)
      <4>1. ProfileOf(profile, inputs, reservoir, last)
        BY <1>1, <2>1 DEF Apply, PInv
      <4>2. Place(s, c)[1] = s /\ Here(s)[1] = s
        BY DEF Here, Place
      <4> QED BY <2>5, <3>2, <4>1, <4>2, KeysAre
    <3>4. text[s] = Patch(c, Loaded(Here(s)), options.globals, options.hasher)
      BY <2>2, <2>3, <3>2, <3>3
    <3> QED BY <2>2, <2>3, <3>1, <3>4, PatchTwice
  <2> QED BY <2>4, <2>5
<1>2. IInv /\ PInv /\ [Next]_vars =>
        [ Applies /\ command' = command => \A s \in Sites :
            /\ text'[s].cap = text[s].cap
            /\ text'[s] # text[s] =>
                 command.hasher # "none" /\ text[s].let = "omitted" ]_vars
  BY <1>1 DEF Applies
<1> QED BY <1>2, Invariance, NumbersInvariance, PTL DEF Spec, FixIsStable

\* Each site stays a well-formed one, of whatever its capacity has become, each
\* entry of a profile one that can be written, and the plugin's table points at
\* entries of its own site (PipelineTypeOK).
THEOREM PipelineTypeCorrect == Spec => []PipelineTypeOK
<1>1. PInv => PipelineTypeOK
  <2> SUFFICES ASSUME PInv PROVE PipelineTypeOK
    OBVIOUS
  <2>1. ASSUME NEW x, AllTyped(x) PROVE x \in [Sites -> Call]
    <3>1. ASSUME NEW s \in Sites PROVE x[s] \in Call
      <4>1. Typed(x[s])
        BY <2>1 DEF AllTyped
      <4>2. x[s] \in [kind : Kinds, form : Forms, cap : {x[s].cap},
                      hasher : Hashers, let : Lets, wants : Hashers,
                      below : BOOLEAN, byvalue : BOOLEAN,
                      wrapped : BOOLEAN, inspected : BOOLEAN]
        BY <4>1 DEF Typed, Formed
      <4>3. x[s].cap \in Nat \cup {Dynamic}
        BY <4>1 DEF Typed
      <4> QED BY <4>2, <4>3 DEF Call
    <3> QED BY <2>1, <3>1 DEF AllTyped
  <2>2. {text, saved.before, saved.after} \subseteq [Sites -> Call]
    BY <2>1 DEF PInv
  <2>3. ASSUME profile # NoProfile
        PROVE  /\ \A p \in DOMAIN profile :
                    profile[p] \in Entries({NoName} \cup Places)
               /\ DOMAIN last = Keys(profile)
               /\ \A k \in DOMAIN last : last[k] \in EntriesOf(profile, k)
    <3>1. ProfileOf(profile, inputs, reservoir, last)
      BY <2>3 DEF PInv
    <3>2. ASSUME NEW p \in DOMAIN profile
          PROVE  profile[p] \in Entries({NoName} \cup Places)
      <4> DEFINE e == profile[p]
      <4>1. /\ p[1] \in Sites /\ e.count \in 0 .. MaxCount
            /\ e.tally \in Tally
        BY <3>1, EntriesAre, EntryIs
      <4>2. /\ e = [name |-> NameAt(p), count |-> e.count,
                    tally |-> e.tally, policy |-> e.policy]
            /\ e.policy \in {NoPolicy, Recommended(e.tally)}
        <5>1. MergedOf(p, e, inputs, reservoir)
          BY <3>1 DEF ProfileOf
        <5> HIDE DEF e
        <5> QED BY <5>1 DEF MergedOf
      <4> HIDE DEF e
      <4>3. NameAt(p) \in {NoName} \cup Places
        BY <4>1, PlacesAre DEF NameAt
      <4>4. e.policy \in {NoPolicy} \cup
                         [from : {"max", "median", "p95", "p99"},
                          mul : Int \X Int, round : {"pow2", "exact"}]
        <5>1. CASE e.policy = NoPolicy
          BY <5>1
        <5>2. CASE e.policy # NoPolicy
          <6>1. /\ Recommended(e.tally) # NoPolicy
                /\ e.policy = Recommended(e.tally)
            BY <4>2, <5>2
          <6>2. e.policy \in {Policy("max", <<1, 1>>, "exact"),
                              Policy("p99", <<1, 1>>, "pow2"),
                              Policy("max", <<1, 1>>, "pow2"),
                              Policy("median", <<2, 1>>, "pow2"),
                              Policy("p95", <<1, 2>>, "pow2")}
            BY <4>1, <6>1, RecommendedIs
          <6> QED BY <6>2 DEF Policy
        <5> QED BY <5>1, <5>2
      <4> QED BY <4>1, <4>2, <4>3, <4>4 DEF Entries, e
    <3> QED BY <3>1, <3>2 DEF ProfileOf
  <2> QED BY <2>2, <2>3 DEF PipelineTypeOK, PInv
<1> QED BY <1>1, NumbersInvariance, PTL

\* Every capacity that analyze has advised fits the samples it was advised for
\* (AdviceFits).
THEOREM AdviceFitsHolds == Spec => []AdviceFits
<1>1. PInv => AdviceFits
  <2> SUFFICES ASSUME PInv, profile # NoProfile,
                      NEW p \in DOMAIN profile,
                      profile[p].policy # NoPolicy
               PROVE  LET t == profile[p].tally
                          policy == profile[p].policy
                          cap == Advised(Summary(profile[p].count, t), policy)
                      IN /\ Total(t) >= MinSamples
                         /\ UnimodalTight(t) /\ ~ MostlyZero(t)
                              => Peak(t) <= cap /\ cap < 2 * Peak(t)
                         /\ policy.from = "median"
                              => 2 * Upto(t, cap) >= Total(t)
                         /\ MostlyZero(t) => 100 * Upto(t, cap) >= 99 * Total(t)
                         /\ policy.from = "p95" => cap <= Percentile(t, 95)
    BY DEF AdviceFits
  <2> DEFINE e == profile[p]
  <2>1. ProfileOf(profile, inputs, reservoir, last)
    BY DEF PInv
  <2>2. e.tally \in Tally
    BY <2>1, EntryIs
  <2>3. e.policy = Recommended(e.tally) /\ Recommended(e.tally) # NoPolicy
    <3>1. MergedOf(p, e, inputs, reservoir)
      BY <2>1 DEF ProfileOf
    <3>2. e.policy # NoPolicy
      OBVIOUS
    <3> HIDE DEF e
    <3> QED BY <3>1, <3>2 DEF MergedOf
  <2> HIDE DEF e
  <2> SUFFICES LET t == e.tally
                   policy == e.policy
                   cap == Advised(Summary(e.count, t), policy)
               IN /\ Total(t) >= MinSamples
                  /\ UnimodalTight(t) /\ ~ MostlyZero(t)
                       => Peak(t) <= cap /\ cap < 2 * Peak(t)
                  /\ policy.from = "median" => 2 * Upto(t, cap) >= Total(t)
                  /\ MostlyZero(t) => 100 * Upto(t, cap) >= 99 * Total(t)
                  /\ policy.from = "p95" => cap <= Percentile(t, 95)
    BY DEF e
  <2> QED BY <2>2, <2>3, AdviceIs
<1> QED BY <1>1, NumbersInvariance, PTL

-----------------------------------------------------------------------------
(***************************************************************************)
(* What the dumps saw                                                      *)
(***************************************************************************)

\* The entries of a site, in the dumps, are the ones at its places.
LEMMA SourcesAre ==
  ASSUME PInv, profile # NoProfile, NEW s \in Sites
  PROVE  /\ IsFiniteSet(Sources(s))
         /\ \A b \in DOMAIN inputs : \A p \in DOMAIN inputs[b] :
              <<b, p>> \in Sources(s) <=> p[1] = s
         /\ \A x \in Sources(s) :
              /\ x = <<x[1], x[2]>>
              /\ x[1] \in DOMAIN inputs /\ x[2] \in DOMAIN inputs[x[1]]
              /\ x[2][1] = s
              /\ Recorded(x[2], inputs[x[1]][x[2]])
<1> DEFINE places == UNION {DOMAIN inputs[b] : b \in DOMAIN inputs}
<1>1. /\ IsFiniteSet(DOMAIN inputs)
      /\ \A b \in DOMAIN inputs : WellRecorded(inputs[b])
  BY DEF PInv, ProfileOf
<1>2. IsFiniteSet(Sources(s))
  <2> DEFINE f == [b \in DOMAIN inputs |-> DOMAIN inputs[b]]
             doms == {f[b] : b \in DOMAIN inputs}
  <2>1. IsFiniteSet(doms)
    <3> HIDE DEF f
    <3> QED BY <1>1, Images
  <2>2. \A d \in doms : IsFiniteSet(d)
    BY <1>1 DEF WellRecorded
  <2>3. places = UNION doms
    OBVIOUS
  <2>4. IsFiniteSet(places)
    <3> HIDE DEF doms, places
    <3> QED BY <2>1, <2>2, <2>3, FS_UNION
  <2> DEFINE pairs == (DOMAIN inputs) \X places
  <2>5. IsFiniteSet(pairs)
    <3> HIDE DEF places
    <3> QED BY <1>1, <2>4, FS_Product
  <2>6. Sources(s)
          = {x \in pairs : x[2] \in DOMAIN inputs[x[1]] /\
               x[2][1] = s}
    BY DEF Sources
  <2> HIDE DEF pairs
  <2>7. Sources(s) \in SUBSET pairs
    BY <2>6
  <2> QED BY <2>5, <2>7, FS_Subset
<1>3. ASSUME NEW b \in DOMAIN inputs, NEW p \in DOMAIN inputs[b]
      PROVE  <<b, p>> \in Sources(s) <=> p[1] = s
  <2>1. <<b, p>> \in (DOMAIN inputs) \X places
    <3>1. p \in places
      OBVIOUS
    <3> HIDE DEF places
    <3> QED BY <3>1
  <2>2. <<b, p>>[1] = b /\ <<b, p>>[2] = p
    OBVIOUS
  <2> HIDE DEF places
  <2> QED BY <2>1, <2>2 DEF Sources, places
<1>4. ASSUME NEW x \in Sources(s)
      PROVE  /\ x = <<x[1], x[2]>>
             /\ x[1] \in DOMAIN inputs /\ x[2] \in DOMAIN inputs[x[1]]
             /\ x[2][1] = s
             /\ Recorded(x[2], inputs[x[1]][x[2]])
  <2>1. /\ x = <<x[1], x[2]>> /\ x[2][1] = s
        /\ x[1] \in DOMAIN inputs /\ x[2] \in DOMAIN inputs[x[1]]
    BY DEF Sources
  <2> QED BY <1>1, <2>1 DEF WellRecorded
<1> QED BY <1>2, <1>3, <1>4

\* So what they saw of a site can be counted.
LEMMA ObservedIs ==
  ASSUME PInv, profile # NoProfile, NEW s \in Sites
  PROVE  /\ Creations(s) \in Nat
         /\ Creations(s)
              = SumFunctionOnSet([x \in Sources(s) |->
                                    inputs[x[1]][x[2]].count], Sources(s))
         /\ Observed(s) \in Tally
         /\ \A v \in Sizes :
              Observed(s)[v]
                = SumFunctionOnSet([x \in Sources(s) |->
                                      inputs[x[1]][x[2]].tally[v]], Sources(s))
<1> DEFINE S == Sources(s)
           f == [x \in S |-> inputs[x[1]][x[2]].count]
           g(v) == [x \in S |-> inputs[x[1]][x[2]].tally[v]]
<1>1. IsFiniteSet(S) /\ \A x \in S : Recorded(x[2], inputs[x[1]][x[2]])
  BY SourcesAre
<1> HIDE DEF S
<1>2. \A x \in S : f[x] \in Nat
  BY <1>1, ProfilesAssumption DEF Recorded
<1>3. ASSUME NEW v \in Sizes PROVE \A x \in S : g(v)[x] \in Nat
  BY <1>1 DEF Recorded, Tally
<1>4. Creations(s) = SumFunctionOnSet(f, S)
  BY DEF Creations, SumFunction, S
<1>5. ASSUME NEW v \in Sizes PROVE Observed(s)[v] = SumFunctionOnSet(g(v), S)
  BY DEF Observed, SumFunction, S
<1>6. Creations(s) \in Nat
  <2> HIDE DEF f
  <2> QED BY <1>1, <1>2, <1>4, SumAny
<1>7. ASSUME NEW v \in Sizes PROVE Observed(s)[v] \in Nat
  <2> HIDE DEF g
  <2> QED BY <1>1, <1>3, <1>5, SumAny
<1>8. Observed(s) \in Tally
  <2>1. Observed(s) = [v \in Sizes |-> Observed(s)[v]]
    BY DEF Observed
  <2> QED BY <1>7, <2>1 DEF Tally
<1> QED BY <1>4, <1>5, <1>6, <1>8 DEF S

\* The dumps that know one place of a site are some of its sources, and all of
\* them when they saw the site there alone.
LEMMA OfPlace ==
  ASSUME PInv, profile # NoProfile, NEW s \in Sites,
         NEW p \in DOMAIN profile, p[1] = s,
         NEW f, NEW g,
         \A x \in Sources(s) : g[x] \in Nat,
         \A b \in Knowing(inputs, p) : f[b] = g[<<b, p>>]
  PROVE  /\ SumFunctionOnSet(f, Knowing(inputs, p)) \in Nat
         /\ SumFunctionOnSet(f, Knowing(inputs, p))
              <= SumFunctionOnSet(g, Sources(s))
         /\ Coherent(s) => SumFunctionOnSet(f, Knowing(inputs, p))
                             = SumFunctionOnSet(g, Sources(s))
<1> DEFINE S == Sources(s)
           B == Knowing(inputs, p)
           P == {<<b, p>> : b \in B}
<1>1. IsFiniteSet(S) /\ IsFiniteSet(B)
  <2>1. IsFiniteSet(DOMAIN inputs)
        /\ \A b \in DOMAIN inputs : WellRecorded(inputs[b])
    BY DEF PInv, ProfileOf
  <2> QED BY <2>1, SourcesAre, SumsOf
<1>2. \A b \in B : <<b, p>> \in S
  BY SourcesAre DEF Knowing
<1>3. B # {}
  <2>1. DOMAIN profile = UNION {DOMAIN inputs[b] : b \in DOMAIN inputs}
    BY DEF PInv, ProfileOf
  <2> QED BY <2>1 DEF Knowing
<1>4. Coherent(s) => S = P
  <2> SUFFICES ASSUME Coherent(s) PROVE S = P
    OBVIOUS
  <2> DEFINE second == [x \in S |-> x[2]]
             D == {second[x] : x \in S}
  <2>1. IsFiniteSet(D)
    <3> HIDE DEF second, S
    <3> QED BY <1>1, Images
  <2>2. D = {x[2] : x \in S}
    OBVIOUS
  <2>3. Cardinality(D) = 1
    <3> HIDE DEF D
    <3> QED BY <2>2 DEF Coherent
  <2>4. PICK y : D = {y}
    <3> HIDE DEF D
    <3> QED BY <2>1, <2>3, FS_Singleton
  <2>5. \A x \in S : x[2] = y
    BY <2>4
  <2>6. y = p
    <3>1. PICK b \in B : TRUE
      BY <1>3
    <3>2. <<b, p>> \in S /\ <<b, p>>[2] = p
      BY <1>2
    <3> QED BY <2>5, <3>2
  <2>7. ASSUME NEW x \in S PROVE x \in P
    <3>1. /\ x = <<x[1], x[2]>>
          /\ x[1] \in DOMAIN inputs /\ x[2] \in DOMAIN inputs[x[1]]
      BY SourcesAre
    <3>2. x = <<x[1], p>> /\ x[1] \in B
      BY <2>5, <2>6, <3>1 DEF Knowing
    <3> QED BY <3>2
  <2>8. \A x \in P : x \in S
    BY <1>2
  <2> QED BY <2>7, <2>8
<1> HIDE DEF S, B
<1>5. P \in SUBSET S
  BY <1>2
<1>6. \A b \in B : f[b] \in Nat /\ g[<<b, p>>] = f[b]
  BY <1>2 DEF S, B
<1>7. SumFunctionOnSet(g, P) = SumFunctionOnSet(f, B)
  BY <1>1, <1>6, SumPairs
<1> HIDE DEF P
<1>8. \A x \in S : g[x] \in Nat
  BY DEF S
<1>9. /\ SumFunctionOnSet(g, P) \in Nat
      /\ SumFunctionOnSet(g, S \ P) \in Nat
      /\ SumFunctionOnSet(g, S)
           = SumFunctionOnSet(g, P) + SumFunctionOnSet(g, S \ P)
  BY <1>1, <1>5, <1>8, SumSplit
<1>10. /\ SumFunctionOnSet(f, B) \in Nat
       /\ SumFunctionOnSet(f, B) <= SumFunctionOnSet(g, S)
  BY <1>7, <1>9
<1> QED BY <1>4, <1>7, <1>10 DEF S, B

\* A place of a site saw no more than the site, and as much when it is the only
\* one.
LEMMA PlaceSaw ==
  ASSUME PInv, profile # NoProfile, NEW s \in Sites,
         NEW p \in DOMAIN profile, p[1] = s
  PROVE  /\ CountOf(inputs, p) \in Nat /\ CountOf(inputs, p) <= Creations(s)
         /\ WholeOf(inputs, p) \in Tally
         /\ \A v \in Sizes : WholeOf(inputs, p)[v] <= Observed(s)[v]
         /\ Coherent(s) => /\ CountOf(inputs, p) = Creations(s)
                           /\ WholeOf(inputs, p) = Observed(s)
<1> DEFINE S == Sources(s)
           B == Knowing(inputs, p)
           fc == [b \in B |-> inputs[b][p].count]
           gc == [x \in S |-> inputs[x[1]][x[2]].count]
           ft(v) == [b \in B |-> inputs[b][p].tally[v]]
           gt(v) == [x \in S |-> inputs[x[1]][x[2]].tally[v]]
<1>1. /\ CountOf(inputs, p) \in Nat
      /\ CountOf(inputs, p) = SumFunctionOnSet(fc, B)
      /\ WholeOf(inputs, p) \in Tally
      /\ \A v \in Sizes : WholeOf(inputs, p)[v] = SumFunctionOnSet(ft(v), B)
  <2>1. IsFiniteSet(DOMAIN inputs)
        /\ \A b \in DOMAIN inputs : WellRecorded(inputs[b])
    BY DEF PInv, ProfileOf
  <2> QED BY <2>1, SumsOf
<1>2. /\ Creations(s) = SumFunctionOnSet(gc, S)
      /\ Observed(s) \in Tally
      /\ \A v \in Sizes : Observed(s)[v] = SumFunctionOnSet(gt(v), S)
  BY ObservedIs
<1>3. /\ \A x \in S : Recorded(x[2], inputs[x[1]][x[2]])
      /\ \A b \in B : <<b, p>> \in S
  BY SourcesAre DEF Knowing
<1> HIDE DEF S, B
<1>4. /\ SumFunctionOnSet(fc, B) <= SumFunctionOnSet(gc, S)
      /\ Coherent(s) => SumFunctionOnSet(fc, B) = SumFunctionOnSet(gc, S)
  <2>1. \A x \in S : gc[x] \in Nat
    BY <1>3, ProfilesAssumption DEF Recorded
  <2>2. \A b \in B : fc[b] = gc[<<b, p>>]
    BY <1>3
  <2> HIDE DEF fc, gc
  <2> QED BY <2>1, <2>2, OfPlace DEF S, B
<1>5. ASSUME NEW v \in Sizes
      PROVE  /\ SumFunctionOnSet(ft(v), B) <= SumFunctionOnSet(gt(v), S)
             /\ Coherent(s) => SumFunctionOnSet(ft(v), B)
                                 = SumFunctionOnSet(gt(v), S)
  <2>1. \A x \in S : gt(v)[x] \in Nat
    BY <1>3 DEF Recorded, Tally
  <2>2. \A b \in B : ft(v)[b] = gt(v)[<<b, p>>]
    BY <1>3
  <2> HIDE DEF ft, gt
  <2> QED BY <2>1, <2>2, OfPlace DEF S, B
<1> HIDE DEF fc, gc, ft, gt
<1>6. \A v \in Sizes : WholeOf(inputs, p)[v] <= Observed(s)[v]
  BY <1>1, <1>2, <1>5
<1>7. Coherent(s) => WholeOf(inputs, p) = Observed(s)
  <2>1. Coherent(s) => \A v \in Sizes : WholeOf(inputs, p)[v] = Observed(s)[v]
    BY <1>1, <1>2, <1>5
  <2> QED BY <1>1, <1>2, <2>1 DEF Tally
<1> QED BY <1>1, <1>2, <1>4, <1>6, <1>7

\* More samples have no smaller largest one.
LEMMA PeakGrows ==
  ASSUME NEW t \in Tally, NEW u \in Tally, \A v \in Sizes : t[v] <= u[v]
  PROVE  Peak(t) <= Peak(u)
<1>1. /\ Peak(t) \in Nat /\ Peak(t) \in Seen(t) \cup {0}
      /\ Peak(u) \in Nat /\ \A v \in Seen(u) : v <= Peak(u)
  BY PeakIs
<1>2. CASE Peak(t) = 0
  BY <1>1, <1>2
<1>3. CASE Peak(t) \in Seen(t)
  <2>1. /\ Peak(t) \in Sizes /\ t[Peak(t)] > 0
        /\ t[Peak(t)] \in Nat /\ u[Peak(t)] \in Nat
    BY <1>3 DEF Seen, Tally
  <2>2. Peak(t) \in Seen(u)
    BY <2>1 DEF Seen
  <2> QED BY <1>1, <2>2
<1> QED BY <1>1, <1>2, <1>3

\* The entry that the plugin loads for a site, beside what the dumps saw of it.
LEMMA EntrySaw ==
  ASSUME PInv, profile # NoProfile, NEW s \in Sites, Here(s) \in DOMAIN last
  PROVE  LET e == profile[last[Here(s)]]
         IN /\ Loaded(Here(s)) = Summary(e.count, e.tally)
            /\ e.count \in Nat /\ e.count <= Creations(s)
            /\ e.tally \in Tally
            /\ \A v \in Sizes : e.tally[v] <= Observed(s)[v]
            /\ Coherent(s) =>
                 /\ e.count = IF MaxCount <= Creations(s)
                                THEN MaxCount ELSE Creations(s)
                 /\ KeptOf(e.tally, Observed(s), reservoir)
<1> DEFINE p == last[Here(s)]
           e == profile[p]
<1>1. /\ p \in DOMAIN profile /\ p[1] = s
      /\ Loaded(Here(s)) = Summary(e.count, e.tally)
      /\ e.count \in Nat /\ e.tally \in Tally
  BY LoadedIs
<1> HIDE DEF p
<1>2. ProfileOf(profile, inputs, reservoir, last)
  BY DEF PInv
<1>3. /\ CountOf(inputs, p) \in Nat /\ WholeOf(inputs, p) \in Tally
      /\ e.count = IF MaxCount <= CountOf(inputs, p)
                     THEN MaxCount ELSE CountOf(inputs, p)
      /\ KeptOf(e.tally, WholeOf(inputs, p), reservoir)
  BY <1>1, <1>2, EntryIs
<1>4. /\ CountOf(inputs, p) <= Creations(s)
      /\ \A v \in Sizes : WholeOf(inputs, p)[v] <= Observed(s)[v]
      /\ Coherent(s) => /\ CountOf(inputs, p) = Creations(s)
                        /\ WholeOf(inputs, p) = Observed(s)
  BY <1>1, PlaceSaw
<1>5. Creations(s) \in Nat /\ Observed(s) \in Tally /\ MaxCount \in Nat
  BY ObservedIs, ProfilesAssumption
<1> HIDE DEF e
<1>6. e.count <= Creations(s)
  BY <1>3, <1>4, <1>5
<1>7. ASSUME NEW v \in Sizes PROVE e.tally[v] <= Observed(s)[v]
  <2> DEFINE w == WholeOf(inputs, p)
  <2>1. e.tally[v] <= w[v]
    <3>1. e.tally = w \/ \A x \in Sizes : e.tally[x] <= w[x]
      BY <1>3 DEF KeptOf
    <3>2. w[v] \in Nat
      BY <1>3 DEF Tally
    <3> HIDE DEF w
    <3> QED BY <3>1, <3>2
  <2>2. /\ e.tally[v] \in Nat /\ w[v] \in Nat /\ Observed(s)[v] \in Nat
        /\ w[v] <= Observed(s)[v]
    BY <1>1, <1>3, <1>4, <1>5 DEF Tally
  <2> HIDE DEF w
  <2> QED BY <2>1, <2>2
<1>8. Coherent(s) =>
        /\ e.count = IF MaxCount <= Creations(s)
                       THEN MaxCount ELSE Creations(s)
        /\ KeptOf(e.tally, Observed(s), reservoir)
  BY <1>3, <1>4
<1> QED BY <1>1, <1>6, <1>7, <1>8 DEF e, p

\* The name that an entry of a dump has, and whether it is found where the site
\* stands, by its place.
LEMMA NamesAre ==
  ASSUME PInv, profile # NoProfile, NEW s \in Sites, NEW x \in Sources(s)
  PROVE  LET name == inputs[x[1]][x[2]].name IN
         /\ x[2] \in DOMAIN profile
         /\ KeyOf(x[2], profile[x[2]]) = KeyAt(x[2])
         /\ name = NoName <=> x[2][2] = "call"
         /\ x[2][2] = "call" => KeyAt(x[2]) = x[2]
         /\ x[2][2] # "call" =>
              name = Origin(s) /\ KeyAt(x[2]) = <<s, "call", 0, "relative">>
<1>1. /\ x[1] \in DOMAIN inputs /\ x[2] \in DOMAIN inputs[x[1]]
      /\ x[2][1] = s /\ Recorded(x[2], inputs[x[1]][x[2]])
  BY SourcesAre
<1>2. ProfileOf(profile, inputs, reservoir, last)
  BY DEF PInv
<1>3. x[2] \in DOMAIN profile
  BY <1>1, <1>2 DEF ProfileOf
<1>4. KeyOf(x[2], profile[x[2]]) = KeyAt(x[2])
  BY <1>2, <1>3, EntriesAre
<1>5. Origin(s) # NoName
  BY PlacesAre
<1> QED BY <1>1, <1>3, <1>4, <1>5 DEF Recorded, NameAt, KeyAt

\* The plugin finds a site in its table when the dumps saw it where it stands,
\* unless they named it by an absolute path.
LEMMA SiteKnown ==
  ASSUME PInv, profile # NoProfile, NEW s \in Sites
  PROVE  Here(s) \in DOMAIN last <=> Unmoved(s) /\ Returns(s)
<1>1. ProfileOf(profile, inputs, reservoir, last)
  BY DEF PInv
<1>2. /\ DOMAIN last = Keys(profile)
      /\ DOMAIN profile = UNION {DOMAIN inputs[b] : b \in DOMAIN inputs}
      /\ OfOneKind(DOMAIN profile)
  BY <1>1 DEF ProfileOf
<1>3. Here(s)[1] = s /\ Here(s)[4] = Path(s)
  BY PlacesAre DEF Here
<1>4. ASSUME Here(s) \in DOMAIN last
      PROVE  Unmoved(s) /\ Returns(s)
  <2>1. PICK p \in DOMAIN profile : Here(s) = KeyOf(p, profile[p])
    BY <1>2, <1>4 DEF Keys
  <2>2. Here(s) = KeyAt(p) /\ p[1] = s
    BY <1>1, <1>3, <2>1, EntriesAre
  <2>3. PICK b \in DOMAIN inputs : p \in DOMAIN inputs[b]
    BY <1>2
  <2>4. PICK x \in Sources(s) : x[1] = b /\ x[2] = p
    <3>1. <<b, p>> \in Sources(s)
      BY <2>2, <2>3, SourcesAre
    <3> QED BY <3>1
  <2>5. CASE p[2] = "call"
    BY <2>2, <2>4, <2>5, NamesAre DEF Unmoved, Returns
  <2>6. CASE p[2] # "call"
    <3>1. /\ inputs[x[1]][x[2]].name = Origin(s) /\ Origin(s) # NoName
          /\ Here(s) = <<s, "call", 0, "relative">>
      BY <2>2, <2>4, <2>6, NamesAre, PlacesAre
    <3>2. Path(s) = "relative"
      BY <1>3, <3>1
    <3>3. s \notin Absolute /\ Origin(s) = Here(s)
      BY <3>1, <3>2 DEF Path, Origin
    <3> QED BY <3>1, <3>3 DEF Unmoved, Returns
  <2> QED BY <2>5, <2>6
<1>5. ASSUME Unmoved(s), Returns(s)
      PROVE  Here(s) \in DOMAIN last
  <2>1. PICK x \in Sources(s) :
          Here(s) = IF inputs[x[1]][x[2]].name = NoName THEN x[2]
                    ELSE inputs[x[1]][x[2]].name
    BY <1>5 DEF Unmoved
  <2>2. Here(s) = KeyAt(x[2])
    <3>1. CASE x[2][2] = "call"
      BY <2>1, <3>1, NamesAre
    <3>2. CASE x[2][2] # "call"
      <4>1. s \notin Absolute
        <5> SUFFICES ASSUME s \in Absolute PROVE FALSE
          OBVIOUS
        <5>1. PICK y \in Sources(s) : inputs[y[1]][y[2]].name = NoName
          BY <1>5 DEF Returns
        <5>2. y[2][2] = "call" /\ y[2] \in DOMAIN profile
          BY <5>1, NamesAre
        <5>3. x[2] \in DOMAIN profile
          BY NamesAre
        <5>4. CASE \A p \in DOMAIN profile : p[2] = "wrapper"
          BY <5>2, <5>4
        <5>5. CASE \E p : DOMAIN profile = {p}
          <6>1. PICK p : DOMAIN profile = {p}
            BY <5>5
          <6>2. x[2] \in {p} /\ y[2] \in {p}
            BY <5>2, <5>3, <6>1
          <6>3. x[2] = y[2]
            BY <6>2
          <6> QED BY <3>2, <5>2, <6>3
        <5> QED BY <1>2, <5>4, <5>5 DEF OfOneKind
      <4>2. Origin(s) = <<s, "call", 0, "relative">>
        BY <4>1 DEF Origin, Path
      <4>3. Here(s) = Origin(s)
        BY <2>1, <3>2, NamesAre
      <4> QED BY <3>2, <4>2, <4>3, NamesAre
    <3> QED BY <3>1, <3>2
  <2>3. x[2] \in DOMAIN profile /\ KeyOf(x[2], profile[x[2]]) = KeyAt(x[2])
    BY NamesAre
  <2> QED BY <1>2, <2>2, <2>3 DEF Keys
<1> QED BY <1>4, <1>5

\* What the plugin loads for a site is what the dumps saw of it, for any number
\* of dumps, places and samples, and it loads that for every site that stands
\* where they saw it, but for those named by absolute paths (LoadedIsWhole).
THEOREM LoadedIsWholeHolds == Spec => []LoadedIsWhole
<1>1. PInv => LoadedIsWhole
  <2> SUFFICES ASSUME PInv, profile # NoProfile, NEW s \in Sites
               PROVE  /\ Here(s) \in DOMAIN last <=> Unmoved(s) /\ Returns(s)
                      /\ Coherent(s) /\ Unmoved(s) /\ Returns(s) =>
                           LET e == profile[last[Here(s)]]
                           IN /\ e.count = Min({MaxCount, Creations(s)})
                              /\ IF reservoir = 0
                                    \/ Total(Observed(s)) <= reservoir
                                   THEN e.tally = Observed(s)
                                   ELSE /\ Total(e.tally) = reservoir
                                        /\ \A v \in Sizes :
                                             e.tally[v] <= Observed(s)[v]
    BY DEF LoadedIsWhole
  <2>1. Here(s) \in DOMAIN last <=> Unmoved(s) /\ Returns(s)
    BY SiteKnown
  <2>2. ASSUME Coherent(s), Here(s) \in DOMAIN last
        PROVE  LET e == profile[last[Here(s)]]
               IN /\ e.count = Min({MaxCount, Creations(s)})
                  /\ KeptOf(e.tally, Observed(s), reservoir)
    <3>1. Creations(s) \in Nat /\ MaxCount \in Nat
      BY ObservedIs, ProfilesAssumption
    <3>2. Min({MaxCount, Creations(s)})
            = IF MaxCount <= Creations(s) THEN MaxCount ELSE Creations(s)
      BY <3>1, MinOfTwo
    <3> QED BY <2>2, <3>2, EntrySaw
  <2> QED BY <2>1, <2>2 DEF KeptOf
<1> QED BY <1>1, NumbersInvariance, PTL

-----------------------------------------------------------------------------
(***************************************************************************)
(* What apply makes of it                                                  *)
(***************************************************************************)

\* What a patch does to a site, in the terms of its samples.
LEMMA PatchIs ==
  ASSUME NEW c, Typed(c), NEW t \in Tally, NEW count \in Nat,
         NEW options \in Options
  PROVE  LET d == Patch(c, Summary(count, t), options.globals, options.hasher)
             mul == Multiplier(options.globals.mul)
         IN /\ d # c =>
                 /\ count >= MinCount /\ Peak(t) >= 4
                 /\ Literal(c) \in Nat /\ Peak(t) > Literal(c)
                 /\ Peak(t) >= GrowthFactor * Literal(c)
                 /\ d.cap \in Nat
                 /\ mul[1] <= mul[2]
                      => d.cap < 2 * Peak(t) \/ d.cap < Peak(t) + 8
            /\ /\ c.kind # "tree" /\ c.form # "macro" /\ c.cap # Dynamic
               /\ count >= MinCount
               /\ Peak(t) >= 4 /\ Peak(t) >= GrowthFactor * Literal(c)
               /\ mul[1] >= mul[2]
               /\ options.globals.from \in {"max", "p95", "p99"}
               => 100 * Upto(t, d.cap) >= 95 * Total(t)
<1> DEFINE stats == Summary(count, t)
           globals == options.globals
           mul == Multiplier(globals.mul)
           to == ProposeCap(stats, Literal(c), globals)
           d == Patch(c, stats, globals, options.hasher)
<1>1. Literal(c) \in Nat \cup {Dynamic}
  BY DEF Literal, Typed
<1>2. /\ globals \in Policies
      /\ \A v \in Sizes : CeilDiv(v * mul[1], mul[2]) <= 2^30
  BY PipelineAssumption
<1>3. /\ to # NoChange =>
           /\ to \in Nat
           /\ count >= MinCount /\ Peak(t) >= 4
           /\ Literal(c) \in Nat /\ Peak(t) > Literal(c)
           /\ Peak(t) >= GrowthFactor * Literal(c)
           /\ mul[1] <= mul[2] => to < 2 * Peak(t) \/ to < Peak(t) + 8
           /\ mul[1] >= mul[2] /\ globals.from \in {"max", "p95", "p99"}
                => 100 * Upto(t, to) >= 95 * Total(t)
      /\ /\ Literal(c) \in Nat /\ count >= MinCount
         /\ Peak(t) >= 4 /\ Peak(t) >= GrowthFactor * Literal(c)
         => to # NoChange
  <2> HIDE DEF globals
  <2> QED BY <1>1, <1>2, ProposalIs
<1> HIDE DEF stats, to, mul
<1>4. CASE c.kind = "tree" \/ c.form = "macro" \/ to = NoChange
  <2>1. d = c
    BY <1>4 DEF Patch, to
  <2>2. c.cap # Dynamic => Literal(c) \in Nat
    BY DEF Literal, Typed
  <2> HIDE DEF d
  <2> QED BY <1>3, <1>4, <2>1, <2>2 DEF d, stats, mul
<1>5. CASE ~ (c.kind = "tree" \/ c.form = "macro" \/ to = NoChange)
  <2>1. d = IF c.form \in Inherent THEN Constructor(c, to, options.hasher)
                                   ELSE Dispatched(c, to, options.hasher)
    BY <1>5 DEF Patch, to
  <2>2. options.hasher \in Injected
    BY PipelineAssumption DEF Injected
  <2>3. d.cap = to
    BY <2>1, <2>2, ConstructorForms, DispatchedForms DEF Typed
  <2> HIDE DEF d
  <2> QED BY <1>3, <1>5, <2>3 DEF d, stats, mul
<1> QED BY <1>4, <1>5

\* An apply that changes a site has patched it with what the dumps saw of it.
LEMMA ApplyIs ==
  ASSUME PInv, NEW options \in Options, Apply(options), NEW s \in Sites
  PROVE  /\ profile # NoProfile /\ Typed(text[s])
         /\ text'[s] = IF text[s].wrapped \/ Here(s) \notin DOMAIN last
                         THEN text[s]
                       ELSE Patch(text[s], Loaded(Here(s)), options.globals,
                                  options.hasher)
<1>1. text'[s] = Patched(s, options.globals, options.hasher)
  BY DEF Apply
<1> QED BY <1>1 DEF Patched, Apply, PInv, AllTyped

\* apply leaves the sites alone that were not measured, or were not seen to
\* outgrow fourfold a capacity that is written there, and no capacity it gives is
\* twice too large or, below eight, the next multiple of eight, unless a policy
\* scales up (PatchedWithinPeak).
THEOREM PatchedWithinPeakHolds == Spec => PatchedWithinPeak
<1>1. ASSUME PInv, [Next]_vars, vars' # vars, command' # NotApply,
             NEW s \in Sites, text'[s] # text[s]
      PROVE  LET peak == Peak(Observed(s))
                 had == Literal(text[s])
             IN /\ Creations(s) >= MinCount
                /\ ~ text[s].wrapped
                /\ had # Dynamic
                /\ peak > had
                /\ peak >= Max({4, GrowthFactor * had})
                /\ Modest(command'.globals) =>
                     text'[s].cap < Max({2 * peak, peak + 8})
  <2> DEFINE peak == Peak(Observed(s))
             had == Literal(text[s])
             e == profile[last[Here(s)]]
  <2>1. PICK options \in Options : Apply(options) /\ command' = options
    BY <1>1, OnlyApply
  <2> DEFINE mul == Multiplier(options.globals.mul)
  <2>2. /\ profile # NoProfile /\ Typed(text[s])
        /\ ~ text[s].wrapped /\ Here(s) \in DOMAIN last
        /\ text'[s] = Patch(text[s], Loaded(Here(s)), options.globals,
                            options.hasher)
    BY <1>1, <2>1, ApplyIs
  <2>3. /\ Loaded(Here(s)) = Summary(e.count, e.tally)
        /\ e.count \in Nat /\ e.count <= Creations(s)
        /\ e.tally \in Tally
        /\ \A v \in Sizes : e.tally[v] <= Observed(s)[v]
    BY <1>1, <2>2, EntrySaw
  <2>4. Creations(s) \in Nat /\ Observed(s) \in Tally
    BY <1>1, <2>2, ObservedIs
  <2> HIDE DEF e
  <2>5. Peak(e.tally) \in Nat /\ peak \in Nat /\ Peak(e.tally) <= peak
    BY <2>3, <2>4, PeakGrows, PeakIs
  <2>6. /\ e.count >= MinCount /\ Peak(e.tally) >= 4
        /\ had \in Nat /\ Peak(e.tally) > had
        /\ Peak(e.tally) >= GrowthFactor * had
        /\ text'[s].cap \in Nat
        /\ mul[1] <= mul[2] => \/ text'[s].cap < 2 * Peak(e.tally)
                               \/ text'[s].cap < Peak(e.tally) + 8
    BY <1>1, <2>2, <2>3, PatchIs
  <2>7. Modest(options.globals) => mul[1] <= mul[2]
    <3>1. options.globals.mul \in Int \X (Nat \ {0})
      BY PipelineAssumption DEF Policies
    <3> QED BY <3>1 DEF Modest, Multiplier
  <2> HIDE DEF peak, had
  <2>8. Max({2 * peak, peak + 8})
          = IF 2 * peak >= peak + 8 THEN 2 * peak ELSE peak + 8
    BY <2>5, MaxOfTwo
  <2> DEFINE cap == text'[s].cap
  <2>9. mul[1] <= mul[2] => cap < Max({2 * peak, peak + 8})
    <3> HIDE DEF mul, cap
    <3>1. mul[1] <= mul[2] => cap < 2 * Peak(e.tally) \/ cap < Peak(e.tally) + 8
      BY <2>6 DEF mul, cap
    <3>2. cap \in Nat
      BY <2>6 DEF cap
    <3> QED BY <2>5, <2>8, <3>1, <3>2
  <2>10. peak > had /\ peak >= Max({4, GrowthFactor * had})
    <3>1. GrowthFactor * had \in Nat
      BY <2>6 DEF GrowthFactor
    <3>2. Max({4, GrowthFactor * had})
            = IF 4 >= GrowthFactor * had THEN 4 ELSE GrowthFactor * had
      BY <3>1, MaxOfTwo
    <3> QED BY <2>5, <2>6, <3>1, <3>2
  <2>11. Creations(s) >= MinCount
    BY <2>3, <2>4, <2>6 DEF MinCount
  <2>12. had # Dynamic
    BY <2>6, ProfilesAssumption
  <2> HIDE DEF mul
  <2> QED BY <2>1, <2>2, <2>7, <2>9, <2>10, <2>11, <2>12 DEF peak, had
<1>2. PInv /\ [Next]_vars =>
        [ Applies => \A s \in Sites :
            text'[s] # text[s] =>
              LET peak == Peak(Observed(s))
                  had == Literal(text[s])
              IN /\ Creations(s) >= MinCount
                 /\ ~ text[s].wrapped
                 /\ had # Dynamic
                 /\ peak > had
                 /\ peak >= Max({4, GrowthFactor * had})
                 /\ Modest(command'.globals)
                    /\ (Own(s) = NoPolicy \/ Modest(Own(s)))
                    => text'[s].cap < Max({2 * peak, peak + 8}) ]_vars
  BY <1>1 DEF Applies
<1> QED BY <1>2, NumbersInvariance, PTL DEF Spec, PatchedWithinPeak

\* The whole way from the benches to the sources: a site that outgrew its
\* capacity fourfold, by ten creations or more and all at the place where it
\* stands, gets room for 95 of 100 of the sizes that were seen, whatever the
\* dumps and the merge made of them in between, if no sample was left out and
\* neither the command line's policy nor one in the profile asks for less
\* (GrowthCovered).
THEOREM GrowthCoveredHolds == Spec => GrowthCovered
<1>1. ASSUME PInv, [Next]_vars, vars' # vars, command' # NotApply,
             Generous(command'.globals), reservoir = 0,
             NEW s \in Sites, Coherent(s), Unmoved(s), Returns(s),
             Patchable(text[s]), Creations(s) >= MinCount,
             Peak(Observed(s)) >= Max({4, GrowthFactor * Literal(text[s])})
      PROVE  100 * Upto(Observed(s), text'[s].cap) >= 95 * Total(Observed(s))
  <2> DEFINE e == profile[last[Here(s)]]
  <2>1. PICK options \in Options : Apply(options) /\ command' = options
    BY <1>1, OnlyApply
  <2> DEFINE mul == Multiplier(options.globals.mul)
  <2>2. profile # NoProfile /\ Typed(text[s])
    BY <1>1, <2>1, ApplyIs
  <2>3. Creations(s) \in Nat /\ Observed(s) \in Tally
    BY <1>1, <2>2, ObservedIs
  <2>4. Here(s) \in DOMAIN last
    BY <1>1, <2>2, SiteKnown
  <2>5. text'[s] = Patch(text[s], Loaded(Here(s)), options.globals,
                         options.hasher)
    BY <1>1, <2>1, <2>4, ApplyIs DEF Patchable
  <2>6. /\ Loaded(Here(s)) = Summary(e.count, e.tally)
        /\ e.count \in Nat
        /\ e.count = IF MaxCount <= Creations(s)
                       THEN MaxCount ELSE Creations(s)
        /\ e.tally = Observed(s)
    BY <1>1, <2>2, <2>4, EntrySaw DEF KeptOf
  <2>7. e.count >= MinCount
    BY <1>1, <2>3, <2>6, PipelineAssumption, ProfilesAssumption DEF MinCount
  <2>8. /\ Peak(Observed(s)) >= 4
        /\ Peak(Observed(s)) >= GrowthFactor * Literal(text[s])
    <3>1. Literal(text[s]) \in Nat
      BY <1>1, <2>2 DEF Patchable, Literal, Typed
    <3>2. GrowthFactor * Literal(text[s]) \in Nat
      BY <3>1 DEF GrowthFactor
    <3>3. Peak(Observed(s)) \in Nat
      BY <2>3, PeakIs
    <3>4. Max({4, GrowthFactor * Literal(text[s])})
            = IF 4 >= GrowthFactor * Literal(text[s])
                THEN 4 ELSE GrowthFactor * Literal(text[s])
      BY <3>2, MaxOfTwo
    <3> QED BY <1>1, <3>2, <3>3, <3>4
  <2>9. mul[1] >= mul[2] /\ options.globals.from \in {"max", "p95", "p99"}
    <3>1. options.globals.mul \in Int \X (Nat \ {0})
      BY PipelineAssumption DEF Policies
    <3>2. Generous(options.globals)
      BY <1>1, <2>1
    <3> QED BY <3>1, <3>2 DEF Generous, Multiplier
  <2> HIDE DEF e, mul
  <2>10. text'[s] = Patch(text[s], Summary(e.count, Observed(s)),
                          options.globals, options.hasher)
    BY <2>5, <2>6
  <2> QED BY <1>1, <2>2, <2>3, <2>6, <2>7, <2>8, <2>9, <2>10, PatchIs
          DEF Patchable, mul
<1>2. PInv /\ [Next]_vars =>
        [ Applies /\ Generous(command'.globals) /\ reservoir = 0
          => \A s \in Sites :
               LET c == Literal(text[s])
               IN /\ Coherent(s) /\ Unmoved(s) /\ Returns(s)
                  /\ Own(s) = NoPolicy \/ Generous(Own(s))
                  /\ Patchable(text[s])
                  /\ Creations(s) >= MinCount
                  /\ Peak(Observed(s)) >= Max({4, GrowthFactor * c})
                  => 100 * Upto(Observed(s), text'[s].cap)
                       >= 95 * Total(Observed(s)) ]_vars
  BY <1>1 DEF Applies
<1> QED BY <1>2, NumbersInvariance, PTL DEF Spec, GrowthCovered
=============================================================================
