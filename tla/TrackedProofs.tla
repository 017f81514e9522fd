----------------------------- MODULE TrackedProofs ---------------------------
(***************************************************************************)
(* Proofs about module Tracked.                                            *)
(***************************************************************************)
EXTENDS Tracked, FiniteSetTheorems, TLAPS

\* A buffer holds what is in it.
Fits(r) == r.kind.capacity # "none" => r.len <= r.cap

\* A wrapper was counted when it was made.
Known == \A w \in Held : Registered(at[w])

\* What a wrapper would report now covers what its value owes.
Sized == \A v \in Live : owed[v] <= Sample(v)

IInv == TypeOK /\ SoleOwner /\ Accounting /\ Known /\ Sized /\ PeakReported

\* Only a collection with a buffer is sampled by its capacity, whatever macro or
\* lint made it: a look at the tables.
LEMMA KindFacts ==
  \A k \in Kinds : k.sampled = "capacity" => k.capacity # "none"
<1> DEFINE Samples(k) == k.sampled = "capacity" => k.capacity # "none"
<1>1. \A o : /\ Samples(Kind("kept", "capacity", o)) /\ Samples(Kind("current", "capacity", o))
            /\ Samples(Kind("current", "len", o))
            /\ Samples(Kind("none", "len", o))
  BY DEF Kind
<1>2. SUFFICES ASSUME NEW k \in Instrumented
               PROVE  Samples(k)
  <2>1. \A e \in Expansion : e.kind \in Instrumented
    <3>1. \A e \in Expansions(VecMacros) \cup Expansions(BTreeMacros)
                   \cup Expansions(BytesMacros) :
            e.kind \in Instrumented
      BY
        DEF Expansions, VecMacros, BTreeMacros, BytesMacros, Wrapping, Owned,
            Instrumented
    <3>2. \A e \in Expansions(HashMapMacros) \cup Expansions(HashSetMacros)
                   \cup Expansions(IndexMapMacros) \cup Expansions(IndexSetMacros) :
            e.kind \in Instrumented
      BY
        DEF Expansions, HashMapMacros, HashSetMacros, IndexMapMacros,
            IndexSetMacros, Wrapping, Owned, Instrumented
    <3>3. \A e \in Expansions(DashMapMacros) \cup Expansions(SccMapMacros)
                   \cup Expansions(SccSetMacros) \cup Expansions(SccTreeMacros) :
            e.kind \in Instrumented
      BY
        DEF Expansions, DashMapMacros, SccMapMacros, SccSetMacros,
            SccTreeMacros, Wrapping, Owned, Instrumented
    <3>4. \A e \in Expansions(SmallVecMacros) \cup Expansions(StringMacros)
                   \cup Expansions(HashbrownMacros)
                   \cup Expansions(BinaryHeapMacros) :
            e.kind \in Instrumented
      BY
        DEF Expansions, SmallVecMacros, StringMacros, HashbrownMacros,
            BinaryHeapMacros, Wrapping, Instrumented
    <3>5. \A e \in Expansions(DeclaredMacros) : e.kind \in Instrumented
      BY
        DEF Expansions, DeclaredMacros, VecMacros, BTreeMacros, BytesMacros,
            HashMapMacros, HashSetMacros, IndexMapMacros, IndexSetMacros,
            DashMapMacros, SccMapMacros, SccSetMacros, SccTreeMacros,
            Wrapping, Owned, Instrumented
    <3> QED BY <3>1, <3>2, <3>3, <3>4, <3>5 DEF Expansion, WrapFrom, Inspected
  <2> QED BY <2>1 DEF Kinds
<1> HIDE DEF Samples
<1>3. CASE k \in {TrackedVec, TrackedVecDeque, TrackedHashMap, TrackedHashSet}
  BY <1>1, <1>3 DEF TrackedVec, TrackedVecDeque, TrackedHashMap, TrackedHashSet
<1>4. CASE k \in {TrackedBTreeMap, TrackedBTreeSet, TrackedBytesMut,
                  TrackedIndexMap, TrackedIndexSet}
  BY <1>1, <1>4
    DEF TrackedBTreeMap, TrackedBTreeSet, TrackedBytesMut, TrackedIndexMap,
        TrackedIndexSet
<1>5. CASE k \in {TrackedDashMap, TrackedSccHashMap, TrackedSccHashSet,
                  TrackedSccTreeIndex}
  BY <1>1, <1>5
    DEF TrackedDashMap, TrackedSccHashMap, TrackedSccHashSet,
        TrackedSccTreeIndex
<1>6. CASE k \in {TrackedSmallVec, TrackedString, TrackedBinaryHeap,
                  TrackedHashbrownMap}
  BY <1>1, <1>6
    DEF TrackedSmallVec, TrackedString, TrackedBinaryHeap, TrackedHashbrownMap
<1> QED BY <1>3, <1>4, <1>5, <1>6 DEF Instrumented

\* The measures that are reported are natural numbers.
LEMMA MeasuresAreNat ==
  ASSUME TypeOK, NEW v \in Live
  PROVE  Sample(v) \in Nat /\ Inspection(v) \in Nat
BY TrackedAssumption DEF TypeOK, Live, Contents, Sample, Inspection

\* What a collection made by New is: nothing existed in its place, it is empty
\* and has room for what it holds.
LEMMA NewValue ==
  ASSUME TypeOK, NEW v \in Values, NEW s \in Sites, NEW hint \in Hints, New(v,
         s, hint)
  PROVE  \E r \in Contents :
           v \notin Live /\ contents' = [contents EXCEPT ![v] = r] /\ Fits(r)
<1> DEFINE k == expansion[s].kind
<1>1. PICK c \in Room(k, hint) :
        contents' = [contents EXCEPT ![v] = Fresh(k, s, 0, c)]
  BY DEF New
<1>2. k \in Kinds
  BY DEF TypeOK, Kinds
<1>3. c \in 0..MaxCap
  BY TrackedAssumption DEF Room
<1> HIDE DEF k
<1>4. Fresh(k, s, 0, c) \in Contents /\ Fits(Fresh(k, s, 0, c))
  BY <1>2, <1>3, TrackedAssumption DEF Fresh, Contents, Fits
<1> QED BY <1>1, <1>4 DEF New

\* What a collection of n elements is that no macro of captrack's has made.
LEMMA CollectedValue ==
  ASSUME TypeOK, NEW v \in Values, NEW k \in KindsInUse, NEW n \in 0..MaxCap,
         Collect(v, k, n)
  PROVE  \E r \in Contents :
           /\ v \notin Live
           /\ contents' = [contents EXCEPT ![v] = r]
           /\ Fits(r)
           /\ r.len = n
<1>1. PICK c \in Room(k, n) :
        contents' = [contents EXCEPT ![v] = Fresh(k, Elsewhere, n, c)]
  BY DEF Collect
<1>2. k \in Kinds
  BY DEF TypeOK, Kinds, KindsInUse
<1>3. c \in 0..MaxCap /\ (k.capacity # "none" => n <= c)
  BY TrackedAssumption DEF Room
<1>4. /\ Fresh(k, Elsewhere, n, c) \in Contents
      /\ Fits(Fresh(k, Elsewhere, n, c))
      /\ Fresh(k, Elsewhere, n, c).len = n
  BY <1>2, <1>3 DEF Fresh, Contents, Fits
<1> QED BY <1>1, <1>4 DEF Collect

\* What a collection is after it has been used.
LEMMA MutatedValue ==
  ASSUME TypeOK, NEW v \in Values, Mutate(v)
  PROVE  \E r \in Contents : /\ v \in Live
                             /\ contents' = [contents EXCEPT ![v] = r]
                             /\ Fits(r)
                             /\ r.kind = contents[v].kind
<1> DEFINE old == contents[v]
           r == contents'[v]
<1>1. v \in Live
  BY DEF Mutate, Insert, Remove, Trim
<1>2. old \in Contents /\ Fits(old)
      /\ contents \in [Values -> Contents \cup {Nothing}]
  BY <1>1 DEF TypeOK, Live, Fits
<1>3. /\ contents' = [contents EXCEPT ![v] = r]
      /\ r \in Contents
      /\ r.kind = old.kind
      /\ r.kind.capacity # "none" => r.len <= r.cap
  <2>1. CASE Insert(v)
    <3>1. PICK c \in Room(old.kind, old.len + 1) :
            contents' = [contents EXCEPT
                           ![v] = [old EXCEPT !.len = old.len + 1, !.cap = c]]
      BY <2>1 DEF Insert
    <3>2. r = [old EXCEPT !.len = old.len + 1, !.cap = c]
      BY <1>2, <3>1
    <3>3. /\ old.len + 1 \in 0..MaxCap
          /\ c \in 0..MaxCap
          /\ old.kind.capacity # "none" => old.len + 1 <= c
      BY <1>2, <2>1, <3>1, TrackedAssumption DEF Insert, Room, Contents
    <3> QED BY <1>2, <3>1, <3>2, <3>3 DEF Contents
  <2>2. CASE Remove(v)
    <3>1. PICK c \in Room(old.kind, old.len - 1) :
            contents' = [contents EXCEPT
                           ![v] = [old EXCEPT !.len = old.len - 1, !.cap = c]]
      BY <2>2 DEF Remove
    <3>2. r = [old EXCEPT !.len = old.len - 1, !.cap = c]
      BY <1>2, <3>1
    <3>3. /\ old.len - 1 \in 0..MaxCap
          /\ c \in 0..MaxCap
          /\ old.kind.capacity # "none" => old.len - 1 <= c
      BY <1>2, <2>2, <3>1, TrackedAssumption DEF Remove, Room, Contents
    <3> QED BY <1>2, <3>1, <3>2, <3>3 DEF Contents
  <2>3. CASE Trim(v)
    <3>1. contents' = [contents EXCEPT ![v] = [old EXCEPT !.cap = old.len]]
      BY <2>3, <1>2 DEF Trim
    <3>2. r = [old EXCEPT !.cap = old.len]
      BY <1>2, <3>1
    <3> QED BY <1>2, <3>1, <3>2, TrackedAssumption DEF Contents
  <2> QED BY <2>1, <2>2, <2>3 DEF Mutate
<1> QED BY <1>1, <1>3 DEF Fits

\* What Count does to the counters of a location.
LEMMA Counted ==
  ASSUME TypeOK, NEW l \in Locations, NEW n \in Nat, Count(l, n)
  PROVE  /\ {observations', top'} \subseteq [Locations -> Nat]
         /\ observations' = [observations EXCEPT ![l] = @ + 1]
         /\ \A m \in Locations : top[m] <= top'[m]
         /\ n <= top'[l]
BY DEF TypeOK, Count, Larger

\* What record_sample does, at a registered location and at any other.
LEMMA Reported ==
  ASSUME TypeOK, NEW l \in Locations, NEW n \in Nat, RecordSample(l, n)
  PROVE  /\ {observations', top', orphans'} \subseteq [Locations -> Nat]
         /\ creations' = creations
         /\ \A m \in Locations : top[m] <= top'[m]
         /\ Registered(l) => n <= top'[l] /\ UNCHANGED orphans
                             /\ observations' = [observations EXCEPT ![l] = @ + 1]
         /\ ~Registered(l) => UNCHANGED observations
<1>1. CASE Registered(l)
  BY <1>1, Counted DEF RecordSample, TypeOK
<1>2. CASE ~Registered(l)
  BY <1>2 DEF RecordSample, TypeOK
<1> QED BY <1>1, <1>2

\* Type correctness is inductive beside SoleOwner: what a wrapper reports exists.
LEMMA KeepsTypeOK ==
  ASSUME TypeOK, SoleOwner, [TrackedNext]_vars
  PROVE  TypeOK'
<1> USE TrackedAssumption
<1>1. ASSUME NEW w \in Wrappers, NEW v \in Values, NEW s \in Sites,
             NEW hint \in Hints, Construct(w, v, s, hint)
      PROVE  TypeOK'
  <2>1. PICK r \in Contents :
          /\ v \notin Live
          /\ contents' = [contents EXCEPT ![v] = r]
          /\ Fits(r)
    BY <1>1, NewValue DEF Construct
  <2> QED
    BY <1>1, <2>1
      DEF Construct, Enter, RecordCreation, TypeOK, Live, Held, Locations, Fits
<1>2. ASSUME NEW s \in Sites, ConstructPanics(s)
      PROVE  TypeOK'
  BY <1>2
    DEF ConstructPanics, RecordCreation, program, TypeOK, Live, Held, Locations
<1>3. ASSUME NEW v \in Values, NEW s \in Sites, NEW hint \in Hints,
             ConstructOwned(v, s, hint)
      PROVE  TypeOK'
  <2>1. PICK r \in Contents :
          /\ v \notin Live
          /\ contents' = [contents EXCEPT ![v] = r]
          /\ Fits(r)
    BY <1>3, NewValue DEF ConstructOwned
  <2> QED
    BY <1>3, <2>1, Counted
      DEF ConstructOwned, RecordInitial, RecordCreation, TypeOK, Live, Held,
          Locations, Fits
<1>4. ASSUME NEW v \in Values, NEW s \in Sites, NEW hint \in Hints,
             ConstructInspected(v, s, hint)
      PROVE  TypeOK'
  <2>1. PICK r \in Contents :
          /\ v \notin Live
          /\ contents' = [contents EXCEPT ![v] = r]
          /\ Fits(r)
    BY <1>4, NewValue DEF ConstructInspected
  <2> QED
    BY <1>4, <2>1
      DEF ConstructInspected, counters, TypeOK, Contents, Live, Held,
          SoleOwner, Kinds, Larger, Locations, Fits
<1>5. ASSUME NEW v \in Values, NEW k \in KindsInUse, NEW n \in 0..MaxCap,
             CollectBare(v, k, n)
      PROVE  TypeOK'
  <2>1. PICK r \in Contents :
          /\ v \notin Live
          /\ contents' = [contents EXCEPT ![v] = r]
          /\ Fits(r)
          /\ r.len = n
    BY <1>5, CollectedValue DEF CollectBare
  <2> QED
    BY <1>5, <2>1
      DEF CollectBare, counters, TypeOK, Contents, Live, Held, SoleOwner,
          Kinds, Larger, Locations, Fits
<1>6. ASSUME NEW w \in Wrappers, NEW v \in Values, NEW s \in Sites, Wrap(w, v, s)
      PROVE  TypeOK'
  BY <1>6
    DEF Wrap, Enter, RecordCreation, history, WrapFrom, TypeOK, Live, Held,
        Locations
<1>7. ASSUME NEW v \in Values, Use(v)
      PROVE  TypeOK'
  <2>1. PICK r \in Contents :
          /\ v \in Live
          /\ contents' = [contents EXCEPT ![v] = r]
          /\ Fits(r)
          /\ r.kind = contents[v].kind
    BY <1>7, MutatedValue DEF Use
  <2> QED
    BY <1>7, <2>1
      DEF Use, counters, TypeOK, Contents, Live, Held, SoleOwner, Kinds,
          Larger, Locations, Fits
<1>8. ASSUME NEW w \in Wrappers, NEW v \in Values, Replace(w, v)
      PROVE  TypeOK'
  BY <1>8
    DEF Replace, counters, history, TypeOK, Contents, Live, Held, SoleOwner,
        Kinds, Larger, Locations
<1>9. ASSUME NEW v \in Values, NEW l \in Locations, Inspect(v, l)
      PROVE  TypeOK'
  BY <1>9, Reported, MeasuresAreNat
    DEF Inspect, InspectedAt, program, TypeOK, Live, Held, SoleOwner
<1>10. ASSUME NEW w \in Wrappers, NEW l \in Locations, InspectWrapped(w, l)
      PROVE  TypeOK'
  BY <1>10, Counted, MeasuresAreNat
    DEF InspectWrapped, RecordInitial, RecordCreation, program, history,
        TypeOK, Live, Held, SoleOwner
<1>11. ASSUME NEW w \in Wrappers, Drop(w)
      PROVE  TypeOK'
  BY <1>11, Reported, MeasuresAreNat
    DEF Drop, Leave, Report, Gone, Discard, TypeOK, Live, Held, Larger,
        Locations
<1>12. ASSUME NEW w \in Wrappers, IntoInner(w)
      PROVE  TypeOK'
  BY <1>12, Reported, MeasuresAreNat
    DEF IntoInner, Leave, Report, TypeOK, Live, Held, SoleOwner, Larger,
        Locations
<1>13. ASSUME NEW w \in Wrappers, Consume(w)
      PROVE  TypeOK'
  BY <1>13, Reported, MeasuresAreNat
    DEF Consume, Leave, Report, Gone, Discard, TypeOK, Live, Held, Larger,
        Locations
<1>14. ASSUME NEW w \in Wrappers, Forget(w)
      PROVE  TypeOK'
  BY <1>14
    DEF Forget, Leave, Gone, Discard, counters, TypeOK, Contents, Live, Held,
        SoleOwner, Kinds, Larger, Locations
<1>15. ASSUME NEW v \in Values, DropBare(v)
      PROVE  TypeOK'
  BY <1>15
    DEF DropBare, Gone, Discard, counters, TypeOK, Contents, Live, Held,
        SoleOwner, Kinds, Larger, Locations
<1>16. CASE UNCHANGED vars
  BY <1>16
    DEF vars, program, counters, history, TypeOK, Contents, Live, Held,
        SoleOwner, Kinds, Larger, Locations
<1> QED
  BY <1>1, <1>2, <1>3, <1>4, <1>5, <1>6, <1>7, <1>8, <1>9, <1>10, <1>11, <1>12,
     <1>13, <1>14, <1>15, <1>16
    DEF TrackedNext, ValueStep, WrapperStep

\* Ownership is kept: what leaves a wrapper leaves it once.
LEMMA KeepsSoleOwner ==
  ASSUME TypeOK, SoleOwner, [TrackedNext]_vars
  PROVE  SoleOwner'
<1> USE TrackedAssumption
<1>1. ASSUME NEW w \in Wrappers, NEW v \in Values, NEW s \in Sites,
             NEW hint \in Hints, Construct(w, v, s, hint)
      PROVE  SoleOwner'
  <2>1. PICK r \in Contents :
          /\ v \notin Live
          /\ contents' = [contents EXCEPT ![v] = r]
          /\ Fits(r)
    BY <1>1, NewValue DEF Construct
  <2> QED
    BY <1>1, <2>1 DEF Construct, Enter, TypeOK, Live, Held, SoleOwner
<1>2. ASSUME NEW s \in Sites, ConstructPanics(s)
      PROVE  SoleOwner'
  BY <1>2 DEF ConstructPanics, program, Live, Held, SoleOwner
<1>3. ASSUME NEW v \in Values, NEW s \in Sites, NEW hint \in Hints,
             ConstructOwned(v, s, hint)
      PROVE  SoleOwner'
  <2>1. PICK r \in Contents :
          /\ v \notin Live
          /\ contents' = [contents EXCEPT ![v] = r]
          /\ Fits(r)
    BY <1>3, NewValue DEF ConstructOwned
  <2> QED
    BY <1>3, <2>1 DEF ConstructOwned, TypeOK, Live, Held, SoleOwner
<1>4. ASSUME NEW v \in Values, NEW s \in Sites, NEW hint \in Hints,
             ConstructInspected(v, s, hint)
      PROVE  SoleOwner'
  <2>1. PICK r \in Contents :
          /\ v \notin Live
          /\ contents' = [contents EXCEPT ![v] = r]
          /\ Fits(r)
    BY <1>4, NewValue DEF ConstructInspected
  <2> QED
    BY <1>4, <2>1 DEF ConstructInspected, TypeOK, Live, Held, SoleOwner
<1>5. ASSUME NEW v \in Values, NEW k \in KindsInUse, NEW n \in 0..MaxCap,
             CollectBare(v, k, n)
      PROVE  SoleOwner'
  <2>1. PICK r \in Contents :
          /\ v \notin Live
          /\ contents' = [contents EXCEPT ![v] = r]
          /\ Fits(r)
          /\ r.len = n
    BY <1>5, CollectedValue DEF CollectBare
  <2> QED
    BY <1>5, <2>1 DEF CollectBare, TypeOK, Live, Held, SoleOwner
<1>6. ASSUME NEW w \in Wrappers, NEW v \in Values, NEW s \in Sites, Wrap(w, v, s)
      PROVE  SoleOwner'
  BY <1>6 DEF Wrap, Enter, WrapFrom, TypeOK, Live, Held, SoleOwner
<1>7. ASSUME NEW v \in Values, Use(v)
      PROVE  SoleOwner'
  <2>1. PICK r \in Contents :
          /\ v \in Live
          /\ contents' = [contents EXCEPT ![v] = r]
          /\ Fits(r)
          /\ r.kind = contents[v].kind
    BY <1>7, MutatedValue DEF Use
  <2> QED
    BY <1>7, <2>1 DEF Use, Live, Held, SoleOwner
<1>8. ASSUME NEW w \in Wrappers, NEW v \in Values, Replace(w, v)
      PROVE  SoleOwner'
  BY <1>8 DEF Replace, TypeOK, Live, Held, SoleOwner
<1>9. ASSUME NEW v \in Values, NEW l \in Locations, Inspect(v, l)
      PROVE  SoleOwner'
  BY <1>9 DEF Inspect, InspectedAt, program, Live, Held, SoleOwner
<1>10. ASSUME NEW w \in Wrappers, NEW l \in Locations, InspectWrapped(w, l)
      PROVE  SoleOwner'
  BY <1>10 DEF InspectWrapped, program, Live, Held, SoleOwner
<1>11. ASSUME NEW w \in Wrappers, Drop(w)
      PROVE  SoleOwner'
  BY <1>11 DEF Drop, Leave, Gone, Discard, TypeOK, Live, Held, SoleOwner
<1>12. ASSUME NEW w \in Wrappers, IntoInner(w)
      PROVE  SoleOwner'
  BY <1>12 DEF IntoInner, Leave, TypeOK, Live, Held, SoleOwner
<1>13. ASSUME NEW w \in Wrappers, Consume(w)
      PROVE  SoleOwner'
  BY <1>13 DEF Consume, Leave, Gone, Discard, TypeOK, Live, Held, SoleOwner
<1>14. ASSUME NEW w \in Wrappers, Forget(w)
      PROVE  SoleOwner'
  BY <1>14 DEF Forget, Leave, Gone, Discard, TypeOK, Live, Held, SoleOwner
<1>15. ASSUME NEW v \in Values, DropBare(v)
      PROVE  SoleOwner'
  BY <1>15 DEF DropBare, Gone, Discard, TypeOK, Live, Held, SoleOwner
<1>16. CASE UNCHANGED vars
  BY <1>16 DEF vars, program, Live, Held, SoleOwner
<1> QED
  BY <1>1, <1>2, <1>3, <1>4, <1>5, <1>6, <1>7, <1>8, <1>9, <1>10, <1>11, <1>12,
     <1>13, <1>14, <1>15, <1>16
    DEF TrackedNext, ValueStep, WrapperStep

\* No step unregisters a location or fills a wrapper without counting it.
LEMMA KeepsKnown ==
  ASSUME TypeOK, SoleOwner, Known, [TrackedNext]_vars
  PROVE  Known'
<1> USE TrackedAssumption
<1>1. ASSUME NEW w \in Wrappers, NEW v \in Values, NEW s \in Sites,
             NEW hint \in Hints, Construct(w, v, s, hint)
      PROVE  Known'
  <2>1. PICK r \in Contents :
          /\ v \notin Live
          /\ contents' = [contents EXCEPT ![v] = r]
          /\ Fits(r)
    BY <1>1, NewValue DEF Construct
  <2> QED
    BY <1>1, <2>1
      DEF Construct, Enter, RecordCreation, TypeOK, Held, Known, Registered,
          Locations
<1>2. ASSUME NEW s \in Sites, ConstructPanics(s)
      PROVE  Known'
  BY <1>2
    DEF ConstructPanics, RecordCreation, program, TypeOK, Held, Known,
        Registered
<1>3. ASSUME NEW v \in Values, NEW s \in Sites, NEW hint \in Hints,
             ConstructOwned(v, s, hint)
      PROVE  Known'
  <2>1. PICK r \in Contents :
          /\ v \notin Live
          /\ contents' = [contents EXCEPT ![v] = r]
          /\ Fits(r)
    BY <1>3, NewValue DEF ConstructOwned
  <2> QED
    BY <1>3, <2>1
      DEF ConstructOwned, RecordInitial, RecordCreation, TypeOK, Held, Known,
          Registered
<1>4. ASSUME NEW v \in Values, NEW s \in Sites, NEW hint \in Hints,
             ConstructInspected(v, s, hint)
      PROVE  Known'
  <2>1. PICK r \in Contents :
          /\ v \notin Live
          /\ contents' = [contents EXCEPT ![v] = r]
          /\ Fits(r)
    BY <1>4, NewValue DEF ConstructInspected
  <2> QED
    BY <1>4, <2>1
      DEF ConstructInspected, counters, TypeOK, Contents, Live, Held,
          SoleOwner, Known, Registered, Locations, Fits
<1>5. ASSUME NEW v \in Values, NEW k \in KindsInUse, NEW n \in 0..MaxCap,
             CollectBare(v, k, n)
      PROVE  Known'
  <2>1. PICK r \in Contents :
          /\ v \notin Live
          /\ contents' = [contents EXCEPT ![v] = r]
          /\ Fits(r)
          /\ r.len = n
    BY <1>5, CollectedValue DEF CollectBare
  <2> QED
    BY <1>5, <2>1
      DEF CollectBare, counters, TypeOK, Contents, Live, Held, SoleOwner,
          Known, Registered, Locations, Fits
<1>6. ASSUME NEW w \in Wrappers, NEW v \in Values, NEW s \in Sites, Wrap(w, v, s)
      PROVE  Known'
  BY <1>6
    DEF Wrap, Enter, RecordCreation, WrapFrom, TypeOK, Held, Known, Registered,
        Locations
<1>7. ASSUME NEW v \in Values, Use(v)
      PROVE  Known'
  <2>1. PICK r \in Contents :
          /\ v \in Live
          /\ contents' = [contents EXCEPT ![v] = r]
          /\ Fits(r)
          /\ r.kind = contents[v].kind
    BY <1>7, MutatedValue DEF Use
  <2> QED
    BY <1>7, <2>1
      DEF Use, counters, TypeOK, Contents, Live, Held, SoleOwner, Known,
          Registered, Locations, Fits
<1>8. ASSUME NEW w \in Wrappers, NEW v \in Values, Replace(w, v)
      PROVE  Known'
  BY <1>8
    DEF Replace, counters, TypeOK, Contents, Live, Held, SoleOwner, Known,
        Registered, Locations
<1>9. ASSUME NEW v \in Values, NEW l \in Locations, Inspect(v, l)
      PROVE  Known'
  BY <1>9, Reported, MeasuresAreNat
    DEF Inspect, InspectedAt, program, Held, SoleOwner, Known, Registered
<1>10. ASSUME NEW w \in Wrappers, NEW l \in Locations, InspectWrapped(w, l)
      PROVE  Known'
  BY <1>10
    DEF InspectWrapped, RecordInitial, RecordCreation, program, TypeOK, Held,
        Known, Registered
<1>11. ASSUME NEW w \in Wrappers, Drop(w)
      PROVE  Known'
  BY <1>11, Reported, MeasuresAreNat
    DEF Drop, Leave, Report, Gone, Discard, TypeOK, Held, Known, Registered,
        Locations
<1>12. ASSUME NEW w \in Wrappers, IntoInner(w)
      PROVE  Known'
  BY <1>12, Reported, MeasuresAreNat
    DEF IntoInner, Leave, Report, TypeOK, Held, SoleOwner, Known, Registered,
        Locations
<1>13. ASSUME NEW w \in Wrappers, Consume(w)
      PROVE  Known'
  BY <1>13, Reported, MeasuresAreNat
    DEF Consume, Leave, Report, Gone, Discard, TypeOK, Held, Known, Registered,
        Locations
<1>14. ASSUME NEW w \in Wrappers, Forget(w)
      PROVE  Known'
  BY <1>14
    DEF Forget, Leave, counters, TypeOK, Contents, Live, Held, SoleOwner,
        Known, Registered, Locations
<1>15. ASSUME NEW v \in Values, DropBare(v)
      PROVE  Known'
  BY <1>15
    DEF DropBare, counters, TypeOK, Contents, Live, Held, SoleOwner, Known,
        Registered, Locations
<1>16. CASE UNCHANGED vars
  BY <1>16
    DEF vars, program, counters, TypeOK, Contents, Live, Held, SoleOwner,
        Known, Registered, Locations
<1> QED
  BY <1>1, <1>2, <1>3, <1>4, <1>5, <1>6, <1>7, <1>8, <1>9, <1>10, <1>11, <1>12,
     <1>13, <1>14, <1>15, <1>16
    DEF TrackedNext, ValueStep, WrapperStep

\* What a value owes stays within what its wrapper would report.
LEMMA KeepsSized ==
  ASSUME TypeOK, SoleOwner, Sized, [TrackedNext]_vars
  PROVE  Sized'
<1> USE TrackedAssumption, KindFacts
<1>1. ASSUME NEW w \in Wrappers, NEW v \in Values, NEW s \in Sites,
             NEW hint \in Hints, Construct(w, v, s, hint)
      PROVE  Sized'
  <2>1. PICK r \in Contents :
          /\ v \notin Live
          /\ contents' = [contents EXCEPT ![v] = r]
          /\ Fits(r)
    BY <1>1, NewValue DEF Construct
  <2> QED
    BY <1>1, <2>1 DEF Construct, TypeOK, Contents, Live, Sized, Sample
<1>2. ASSUME NEW s \in Sites, ConstructPanics(s)
      PROVE  Sized'
  BY <1>2 DEF ConstructPanics, program, Live, Sized, Sample
<1>3. ASSUME NEW v \in Values, NEW s \in Sites, NEW hint \in Hints,
             ConstructOwned(v, s, hint)
      PROVE  Sized'
  <2>1. PICK r \in Contents :
          /\ v \notin Live
          /\ contents' = [contents EXCEPT ![v] = r]
          /\ Fits(r)
    BY <1>3, NewValue DEF ConstructOwned
  <2> QED
    BY <1>3, <2>1 DEF ConstructOwned, TypeOK, Contents, Live, Sized, Sample
<1>4. ASSUME NEW v \in Values, NEW s \in Sites, NEW hint \in Hints,
             ConstructInspected(v, s, hint)
      PROVE  Sized'
  <2>1. PICK r \in Contents :
          /\ v \notin Live
          /\ contents' = [contents EXCEPT ![v] = r]
          /\ Fits(r)
    BY <1>4, NewValue DEF ConstructInspected
  <2> QED
    BY <1>4, <2>1 DEF ConstructInspected, TypeOK, Contents, Live, Sized, Sample
<1>5. ASSUME NEW v \in Values, NEW k \in KindsInUse, NEW n \in 0..MaxCap,
             CollectBare(v, k, n)
      PROVE  Sized'
  <2>1. PICK r \in Contents :
          /\ v \notin Live
          /\ contents' = [contents EXCEPT ![v] = r]
          /\ Fits(r)
          /\ r.len = n
    BY <1>5, CollectedValue DEF CollectBare
  <2> QED
    BY <1>5, <2>1 DEF CollectBare, TypeOK, Contents, Live, Sized, Sample, Fits
<1>6. ASSUME NEW w \in Wrappers, NEW v \in Values, NEW s \in Sites, Wrap(w, v, s)
      PROVE  Sized'
  BY <1>6 DEF Wrap, history, WrapFrom, Live, Sized, Sample
<1>7. ASSUME NEW v \in Values, Use(v)
      PROVE  Sized'
  <2>1. PICK r \in Contents :
          /\ v \in Live
          /\ contents' = [contents EXCEPT ![v] = r]
          /\ Fits(r)
          /\ r.kind = contents[v].kind
    BY <1>7, MutatedValue DEF Use
  <2>2. /\ contents[v] \in Contents /\ r.kind \in Kinds
        /\ contents'[v] = r /\ \A x \in Values \ {v} : contents'[x] = contents[x]
    BY <2>1 DEF TypeOK, Live, Contents
  <2>3. owed'[v] \in {r.len, Larger(owed[v], r.len)}
        /\ (owed'[v] # r.len => OwesPeak(r.kind) /\ r.cap >= contents[v].cap)
    BY <1>7, <2>1, <2>2 DEF Use, TypeOK
  <2>4. owed[v] <= Sample(v) /\ owed[v] \in Nat
    BY <2>1 DEF Sized, TypeOK
  <2>5. r.len \in Nat /\ r.cap \in Nat /\ contents[v].cap \in Nat
    BY <2>1, <2>2 DEF Contents
  <2>6. CASE owed'[v] = r.len
    <3>1. owed'[v] <= Sample(v)'
      BY <2>1, <2>2, <2>5, <2>6 DEF Sample, Fits
    <3> QED BY <1>7, <2>1, <2>2, <3>1 DEF Use, TypeOK, Live, Sized, Sample
  <2>7. CASE owed'[v] # r.len
    <3>1. r.kind.sampled = "capacity" /\ r.kind.capacity # "none"
      BY <2>3, <2>7 DEF OwesPeak
    <3>2. owed'[v] <= r.cap
      BY <2>1, <2>3, <2>4, <2>5, <2>7, <3>1 DEF Sample, Larger, Fits
    <3>3. owed'[v] <= Sample(v)'
      BY <2>2, <3>1, <3>2 DEF Sample
    <3> QED BY <1>7, <2>1, <2>2, <3>3 DEF Use, TypeOK, Live, Sized, Sample
  <2> QED BY <2>6, <2>7
<1>8. ASSUME NEW w \in Wrappers, NEW v \in Values, Replace(w, v)
      PROVE  Sized'
  BY <1>8 DEF Replace, history, Live, Sized, Sample
<1>9. ASSUME NEW v \in Values, NEW l \in Locations, Inspect(v, l)
      PROVE  Sized'
  BY <1>9 DEF Inspect, InspectedAt, program, Live, Sized, Sample
<1>10. ASSUME NEW w \in Wrappers, NEW l \in Locations, InspectWrapped(w, l)
      PROVE  Sized'
  BY <1>10 DEF InspectWrapped, program, history, Live, Sized, Sample
<1>11. ASSUME NEW w \in Wrappers, Drop(w)
      PROVE  Sized'
  BY <1>11, MeasuresAreNat DEF Drop, Gone, Discard, Live, Sized, Sample
<1>12. ASSUME NEW w \in Wrappers, IntoInner(w)
      PROVE  Sized'
  BY <1>12 DEF IntoInner, Live, Sized, Sample
<1>13. ASSUME NEW w \in Wrappers, Consume(w)
      PROVE  Sized'
  BY <1>13, MeasuresAreNat DEF Consume, Gone, Discard, Live, Sized, Sample
<1>14. ASSUME NEW w \in Wrappers, Forget(w)
      PROVE  Sized'
  BY <1>14 DEF Forget, Gone, Discard, TypeOK, Live, Sized, Sample
<1>15. ASSUME NEW v \in Values, DropBare(v)
      PROVE  Sized'
  BY <1>15 DEF DropBare, Gone, Discard, TypeOK, Live, Sized, Sample
<1>16. CASE UNCHANGED vars
  BY <1>16 DEF vars, program, history, Live, Sized, Sample
<1> QED
  BY <1>1, <1>2, <1>3, <1>4, <1>5, <1>6, <1>7, <1>8, <1>9, <1>10, <1>11, <1>12,
     <1>13, <1>14, <1>15, <1>16
    DEF TrackedNext, ValueStep, WrapperStep

\* A wrapper that ends at a registered location reports what it owes.
LEMMA KeepsPeak ==
  ASSUME TypeOK, SoleOwner, Known, Sized, PeakReported, [TrackedNext]_vars
  PROVE  PeakReported'
<1> USE TrackedAssumption
<1>1. ASSUME NEW w \in Wrappers, NEW v \in Values, NEW s \in Sites,
             NEW hint \in Hints, Construct(w, v, s, hint)
      PROVE  PeakReported'
  <2>1. PICK r \in Contents :
          /\ v \notin Live
          /\ contents' = [contents EXCEPT ![v] = r]
          /\ Fits(r)
    BY <1>1, NewValue DEF Construct
  <2> QED
    BY <1>1, <2>1 DEF Construct, PeakReported
<1>2. ASSUME NEW s \in Sites, ConstructPanics(s)
      PROVE  PeakReported'
  BY <1>2 DEF ConstructPanics, PeakReported
<1>3. ASSUME NEW v \in Values, NEW s \in Sites, NEW hint \in Hints,
             ConstructOwned(v, s, hint)
      PROVE  PeakReported'
  <2>1. PICK r \in Contents :
          /\ v \notin Live
          /\ contents' = [contents EXCEPT ![v] = r]
          /\ Fits(r)
    BY <1>3, NewValue DEF ConstructOwned
  <2> QED
    BY <1>3, <2>1, Counted
      DEF ConstructOwned, RecordInitial, TypeOK, PeakReported, Locations
<1>4. ASSUME NEW v \in Values, NEW s \in Sites, NEW hint \in Hints,
             ConstructInspected(v, s, hint)
      PROVE  PeakReported'
  <2>1. PICK r \in Contents :
          /\ v \notin Live
          /\ contents' = [contents EXCEPT ![v] = r]
          /\ Fits(r)
    BY <1>4, NewValue DEF ConstructInspected
  <2> QED
    BY <1>4, <2>1
      DEF ConstructInspected, counters, TypeOK, Contents, Live, Held,
          SoleOwner, PeakReported, Larger, Locations, Fits
<1>5. ASSUME NEW v \in Values, NEW k \in KindsInUse, NEW n \in 0..MaxCap,
             CollectBare(v, k, n)
      PROVE  PeakReported'
  <2>1. PICK r \in Contents :
          /\ v \notin Live
          /\ contents' = [contents EXCEPT ![v] = r]
          /\ Fits(r)
          /\ r.len = n
    BY <1>5, CollectedValue DEF CollectBare
  <2> QED
    BY <1>5, <2>1
      DEF CollectBare, counters, TypeOK, Contents, Live, Held, SoleOwner,
          PeakReported, Larger, Locations, Fits
<1>6. ASSUME NEW w \in Wrappers, NEW v \in Values, NEW s \in Sites, Wrap(w, v, s)
      PROVE  PeakReported'
  BY <1>6 DEF Wrap, history, WrapFrom, PeakReported
<1>7. ASSUME NEW v \in Values, Use(v)
      PROVE  PeakReported'
  <2>1. PICK r \in Contents :
          /\ v \in Live
          /\ contents' = [contents EXCEPT ![v] = r]
          /\ Fits(r)
          /\ r.kind = contents[v].kind
    BY <1>7, MutatedValue DEF Use
  <2> QED
    BY <1>7, <2>1
      DEF Use, counters, TypeOK, Contents, Live, Held, SoleOwner, PeakReported,
          Larger, Locations, Fits
<1>8. ASSUME NEW w \in Wrappers, NEW v \in Values, Replace(w, v)
      PROVE  PeakReported'
  BY <1>8
    DEF Replace, counters, history, TypeOK, Contents, Live, Held, SoleOwner,
        PeakReported, Larger, Locations
<1>9. ASSUME NEW v \in Values, NEW l \in Locations, Inspect(v, l)
      PROVE  PeakReported'
  BY <1>9, Reported, MeasuresAreNat
    DEF Inspect, InspectedAt, TypeOK, SoleOwner, PeakReported
<1>10. ASSUME NEW w \in Wrappers, NEW l \in Locations, InspectWrapped(w, l)
      PROVE  PeakReported'
  BY <1>10, Counted, MeasuresAreNat
    DEF InspectWrapped, RecordInitial, history, TypeOK, SoleOwner, PeakReported
<1>11. ASSUME NEW w \in Wrappers, Drop(w)
      PROVE  PeakReported'
  BY <1>11, Reported, MeasuresAreNat
    DEF Drop, Leave, Report, Gone, Discard, TypeOK, Held, Sized, Known,
        PeakReported, Larger, Locations
<1>12. ASSUME NEW w \in Wrappers, IntoInner(w)
      PROVE  PeakReported'
  BY <1>12, Reported, MeasuresAreNat
    DEF IntoInner, Leave, Report, TypeOK, Held, SoleOwner, Sized, Known,
        PeakReported, Larger, Locations
<1>13. ASSUME NEW w \in Wrappers, Consume(w)
      PROVE  PeakReported'
  BY <1>13, Reported, MeasuresAreNat
    DEF Consume, Leave, Report, Gone, Discard, TypeOK, Held, Sized, Known,
        PeakReported, Larger, Locations
<1>14. ASSUME NEW w \in Wrappers, Forget(w)
      PROVE  PeakReported'
  BY <1>14
    DEF Forget, counters, TypeOK, Contents, Live, Held, SoleOwner,
        PeakReported, Larger, Locations
<1>15. ASSUME NEW v \in Values, DropBare(v)
      PROVE  PeakReported'
  BY <1>15
    DEF DropBare, counters, TypeOK, Contents, Live, Held, SoleOwner,
        PeakReported, Larger, Locations
<1>16. CASE UNCHANGED vars
  BY <1>16
    DEF vars, program, counters, history, TypeOK, Contents, Live, Held,
        SoleOwner, PeakReported, Larger, Locations
<1> QED
  BY <1>1, <1>2, <1>3, <1>4, <1>5, <1>6, <1>7, <1>8, <1>9, <1>10, <1>11, <1>12,
     <1>13, <1>14, <1>15, <1>16
    DEF TrackedNext, ValueStep, WrapperStep

\* A location has finitely many open wrappers.
LEMMA OpenIsFinite ==
  ASSUME NEW l \in Locations
  PROVE  IsFiniteSet(Open(l)) /\ Cardinality(Open(l)) \in Nat
<1>1. Open(l) \subseteq Wrappers
  BY DEF Open, Held
<1> QED BY <1>1, TrackedAssumption, FS_Subset, FS_CardinalityType

\* Entering a wrapper opens one at its location and none elsewhere.
LEMMA EnterOpens ==
  ASSUME TypeOK, NEW w \in Wrappers, NEW v \in Values, NEW s \in Sites,
         Enter(w, v, s)
  PROVE  \A l \in Locations : Cardinality(Open(l)')
                                = Cardinality(Open(l)) + (IF l = s THEN 1 ELSE 0)
<1> SUFFICES ASSUME NEW l \in Locations
             PROVE  Cardinality(Open(l)')
                       = Cardinality(Open(l)) + (IF l = s THEN 1 ELSE 0)
  OBVIOUS
<1>1. w \notin Open(l)
  BY DEF Enter, Open
<1>2. Open(l)' = IF l = s THEN Open(l) \cup {w} ELSE Open(l)
  BY TrackedAssumption DEF Enter, Open, Held, TypeOK
<1>3. Cardinality(Open(l) \cup {w}) = Cardinality(Open(l)) + 1
  BY <1>1, OpenIsFinite, FS_AddElement
<1>4. CASE l = s
  BY <1>2, <1>3, <1>4
<1>5. CASE l # s
  BY <1>2, <1>5, OpenIsFinite
<1> QED BY <1>4, <1>5

\* Leaving one closes it.
LEMMA LeaveCloses ==
  ASSUME TypeOK, NEW w \in Wrappers, Leave(w)
  PROVE  /\ at[w] \in Sites
         /\ \A l \in Locations : Cardinality(Open(l)')
                                   = Cardinality(Open(l)) - (IF l = at[w] THEN 1 ELSE 0)
<1>1. w \in Held /\ at[w] \in Sites
  BY DEF Leave, TypeOK
<1> SUFFICES ASSUME NEW l \in Locations
             PROVE  Cardinality(Open(l)')
                       = Cardinality(Open(l)) - (IF l = at[w] THEN 1 ELSE 0)
  BY <1>1
<1>2. l = at[w] <=> w \in Open(l)
  BY <1>1 DEF Open
<1>3. Open(l)' = IF l = at[w] THEN Open(l) \ {w} ELSE Open(l)
  BY <1>1 DEF Leave, Open, Held, TypeOK
<1>4. CASE l = at[w]
  <2>1. Cardinality(Open(l) \ {w}) = Cardinality(Open(l)) - 1
    BY <1>2, <1>4, OpenIsFinite, FS_RemoveElement
  <2> QED BY <1>3, <1>4, <2>1
<1>5. CASE l # at[w]
  BY <1>3, <1>5, OpenIsFinite
<1> QED BY <1>4, <1>5

\* The counts of which Accounting is the balance.
LEMMA CountsAreNat ==
  ASSUME TypeOK
  PROVE  /\ creations \in [Locations -> Nat] /\ observations \in [Locations -> Nat]
         /\ inspected \in [Locations -> Nat] /\ lost \in [Locations -> Nat]
         /\ \A l \in Locations : Cardinality(Open(l)) \in Nat
BY OpenIsFinite DEF TypeOK

\* A wrapper that ends is closed, and observed in its place.
LEMMA EndBalances ==
  ASSUME TypeOK, Known, Accounting, NEW w \in Wrappers, Leave(w), w \in Held,
         holds[w] \in Live, RecordSample(at[w], Sample(holds[w])),
         UNCHANGED <<inspected, lost>>
  PROVE  Accounting'
<1>1. /\ at[w] \in Sites /\ at[w] \in Locations
      /\ \A l \in Locations : Cardinality(Open(l)')
                                = Cardinality(Open(l)) - (IF l = at[w] THEN 1 ELSE 0)
  BY LeaveCloses DEF Locations
<1>2. Registered(at[w])
  BY <1>1 DEF Known, Registered
<1>3. creations' = creations /\ observations' = [observations EXCEPT ![at[w]] = @ + 1]
  BY <1>1, <1>2, MeasuresAreNat, Reported
<1>4. ASSUME NEW l \in Locations
      PROVE  creations'[l] + inspected'[l]
               = observations'[l] + Cardinality(Open(l)') + lost'[l]
  <2>1. observations'[l] = observations[l] + (IF l = at[w] THEN 1 ELSE 0)
    BY <1>3, CountsAreNat
  <2>2. creations[l] + inspected[l] = observations[l] + Cardinality(Open(l)) + lost[l]
    BY DEF Accounting
  <2> QED BY <1>1, <1>3, <2>1, <2>2, CountsAreNat
<1> QED BY <1>4 DEF Accounting

\* The counters and the open wrappers stay in balance.
LEMMA KeepsAccounting ==
  ASSUME TypeOK, SoleOwner, Known, Accounting, [TrackedNext]_vars
  PROVE  Accounting'
<1> USE TrackedAssumption, OpenIsFinite
<1>1. ASSUME NEW w \in Wrappers, NEW v \in Values, NEW s \in Sites,
             NEW hint \in Hints, Construct(w, v, s, hint)
      PROVE  Accounting'
  BY <1>1, EnterOpens DEF Construct, RecordCreation, TypeOK, Accounting
<1>2. ASSUME NEW s \in Sites, ConstructPanics(s)
      PROVE  Accounting'
  <2>1. \A l \in Locations : Open(l)' = Open(l)
    BY <1>2 DEF ConstructPanics, program, Open, Held
  <2> QED
    BY <1>2, <2>1
      DEF ConstructPanics, RecordCreation, TypeOK, Accounting, Locations
<1>3. ASSUME NEW v \in Values, NEW s \in Sites, NEW hint \in Hints,
             ConstructOwned(v, s, hint)
      PROVE  Accounting'
  <2>1. \A l \in Locations : Open(l)' = Open(l)
    BY <1>3 DEF ConstructOwned, Open, Held
  <2> QED
    BY <1>3, <2>1
      DEF ConstructOwned, RecordInitial, RecordCreation, Count, TypeOK,
          Accounting
<1>4. ASSUME NEW v \in Values, NEW s \in Sites, NEW hint \in Hints,
             ConstructInspected(v, s, hint)
      PROVE  Accounting'
  <2>1. \A l \in Locations : Open(l)' = Open(l)
    BY <1>4 DEF ConstructInspected, Open, Held
  <2> QED
    BY <1>4, <2>1
      DEF ConstructInspected, counters, TypeOK, Accounting, Locations
<1>5. ASSUME NEW v \in Values, NEW k \in KindsInUse, NEW n \in 0..MaxCap,
             CollectBare(v, k, n)
      PROVE  Accounting'
  <2>1. \A l \in Locations : Open(l)' = Open(l)
    BY <1>5 DEF CollectBare, Open, Held
  <2> QED
    BY <1>5, <2>1 DEF CollectBare, counters, TypeOK, Accounting, Locations
<1>6. ASSUME NEW w \in Wrappers, NEW v \in Values, NEW s \in Sites, Wrap(w, v, s)
      PROVE  Accounting'
  <2>1. /\ Enter(w, v, s) /\ s \in Locations
        /\ creations' = [creations EXCEPT ![s] = @ + 1]
        /\ UNCHANGED <<observations, inspected, lost>>
    BY <1>6 DEF Wrap, RecordCreation, history, Locations
  <2>2. \A l \in Locations : Cardinality(Open(l)')
                                = Cardinality(Open(l)) + (IF l = s THEN 1 ELSE 0)
    BY <2>1, EnterOpens
  <2> QED BY <2>1, <2>2, CountsAreNat DEF Accounting
<1>7. ASSUME NEW v \in Values, Use(v)
      PROVE  Accounting'
  <2>1. \A l \in Locations : Open(l)' = Open(l)
    BY <1>7 DEF Use, Open, Held
  <2> QED
    BY <1>7, <2>1 DEF Use, counters, TypeOK, Accounting, Locations
<1>8. ASSUME NEW w \in Wrappers, NEW v \in Values, Replace(w, v)
      PROVE  Accounting'
  <2>1. \A l \in Locations : Open(l)' = Open(l)
    BY <1>8 DEF Replace, Open, Held
  <2> QED
    BY <1>8, <2>1 DEF Replace, counters, history, TypeOK, Accounting, Locations
<1>9. ASSUME NEW v \in Values, NEW l \in Locations, Inspect(v, l)
      PROVE  Accounting'
  <2>1. \A m \in Locations : Open(m)' = Open(m)
    BY <1>9 DEF Inspect, program, Open, Held
  <2>2. Inspection(v) \in Nat /\ RecordSample(l, Inspection(v)) /\ UNCHANGED lost
    BY <1>9, MeasuresAreNat DEF Inspect, SoleOwner
  <2>3. CASE Registered(l)
    <3>1. observations' = [observations EXCEPT ![l] = @ + 1]
          /\ UNCHANGED creations
      BY <2>2, <2>3, Reported
    <3>2. inspected' = [inspected EXCEPT ![l] = @ + 1]
      BY <1>9, <2>3 DEF Inspect
    <3> QED BY <2>1, <2>2, <3>1, <3>2 DEF TypeOK, Accounting
  <2>4. CASE ~Registered(l)
    BY <1>9, <2>1, <2>2, <2>4, Reported DEF Inspect, Accounting
  <2> QED BY <2>3, <2>4
<1>10. ASSUME NEW w \in Wrappers, NEW l \in Locations, InspectWrapped(w, l)
      PROVE  Accounting'
  <2>1. \A m \in Locations : Open(m)' = Open(m)
    BY <1>10 DEF InspectWrapped, program, Open, Held
  <2> QED
    BY <1>10, <2>1
      DEF InspectWrapped, RecordInitial, RecordCreation, history, Count,
          TypeOK, Accounting
<1>11. ASSUME NEW w \in Wrappers, Drop(w)
      PROVE  Accounting'
  <2>1. Leave(w) /\ w \in Held /\ holds[w] \in Live
    BY <1>11 DEF Drop, Leave, SoleOwner
  <2>2. RecordSample(at[w], Sample(holds[w])) /\ UNCHANGED <<inspected, lost>>
    BY <1>11 DEF Drop, Report
  <2> QED BY <2>1, <2>2, EndBalances
<1>12. ASSUME NEW w \in Wrappers, IntoInner(w)
      PROVE  Accounting'
  <2>1. Leave(w) /\ w \in Held /\ holds[w] \in Live
    BY <1>12 DEF IntoInner, Leave, SoleOwner
  <2>2. RecordSample(at[w], Sample(holds[w])) /\ UNCHANGED <<inspected, lost>>
    BY <1>12 DEF IntoInner, Report
  <2> QED BY <2>1, <2>2, EndBalances
<1>13. ASSUME NEW w \in Wrappers, Consume(w)
      PROVE  Accounting'
  <2>1. Leave(w) /\ w \in Held /\ holds[w] \in Live
    BY <1>13 DEF Consume, Leave, SoleOwner
  <2>2. RecordSample(at[w], Sample(holds[w])) /\ UNCHANGED <<inspected, lost>>
    BY <1>13 DEF Consume, Report
  <2> QED BY <2>1, <2>2, EndBalances
<1>14. ASSUME NEW w \in Wrappers, Forget(w)
      PROVE  Accounting'
  <2>1. Leave(w) /\ lost' = [lost EXCEPT ![at[w]] = @ + 1]
    BY <1>14 DEF Forget
  <2>2. UNCHANGED <<creations, observations, inspected>>
    BY <1>14 DEF Forget, counters
  <2>3. at[w] \in Locations
    BY <2>1, LeaveCloses DEF Locations
  <2>4. SUFFICES ASSUME NEW l \in Locations
                 PROVE  creations'[l] + inspected'[l]
                          = observations'[l] + Cardinality(Open(l)') + lost'[l]
    BY DEF Accounting
  <2>5. Cardinality(Open(l)') = Cardinality(Open(l)) - (IF l = at[w] THEN 1 ELSE 0)
    BY <2>1, LeaveCloses
  <2>6. lost'[l] = lost[l] + (IF l = at[w] THEN 1 ELSE 0) /\ lost[l] \in Nat
    BY <2>1, <2>3 DEF TypeOK
  <2> QED BY <2>2, <2>5, <2>6 DEF TypeOK, Accounting
<1>15. ASSUME NEW v \in Values, DropBare(v)
      PROVE  Accounting'
  <2>1. \A l \in Locations : Open(l)' = Open(l)
    BY <1>15 DEF DropBare, Open, Held
  <2> QED
    BY <1>15, <2>1 DEF DropBare, counters, TypeOK, Accounting, Locations
<1>16. CASE UNCHANGED vars
  BY <1>16
    DEF vars, program, counters, history, TypeOK, Accounting, Locations, Open,
        Held
<1> QED
  BY <1>1, <1>2, <1>3, <1>4, <1>5, <1>6, <1>7, <1>8, <1>9, <1>10, <1>11, <1>12,
     <1>13, <1>14, <1>15, <1>16
    DEF TrackedNext, ValueStep, WrapperStep

\* The initial states satisfy the inductive invariant.
LEMMA InitIInv ==
  ASSUME TrackedInit
  PROVE  IInv
<1>1. Live = {} /\ Held = {}
  BY DEF TrackedInit, Init, Live, Held
<1>2. \A l \in Locations : Cardinality(Open(l)) = 0
  BY <1>1, FS_EmptySet DEF Open
<1>3. TypeOK
  BY <1>1 DEF TrackedInit, Init, TypeOK
<1>4. SoleOwner /\ Known /\ Sized
  BY <1>1 DEF TrackedInit, SoleOwner, Known, Sized
<1>5. Accounting /\ PeakReported
  BY <1>2 DEF TrackedInit, Accounting, PeakReported
<1> QED BY <1>3, <1>4, <1>5 DEF IInv

\* The conjunction of ownership, of the counters' balance and of what a
\* wrapper is about to report is an invariant of every program.
THEOREM Invariance == TrackedSpec => []IInv
<1>1. TrackedInit => IInv
  BY InitIInv
<1>2. IInv /\ [TrackedNext]_vars => IInv'
  BY KeepsTypeOK, KeepsSoleOwner, KeepsKnown, KeepsSized, KeepsPeak,
     KeepsAccounting
    DEF IInv
<1> QED BY <1>1, <1>2, PTL DEF TrackedSpec

\* Type correctness, tracked/*.rs.
THEOREM TypeCorrect == TrackedSpec => []TypeOK
<1>1. IInv => TypeOK
  BY DEF IInv
<1> QED BY <1>1, Invariance, PTL

\* No collection is freed twice or used after that, however the program moves
\* it in and out of wrappers: the ptr::read and mem::forget of into_inner,
\* into_iter and freeze (tracked/vec.rs:84-127) move it exactly once.
THEOREM OwnedOnce == TrackedSpec => []SoleOwner
<1>1. IInv => SoleOwner
  BY DEF IInv
<1> QED BY <1>1, Invariance, PTL

\* Every creation is observed once, or its wrapper still exists, or it was
\* forgotten or panicked (registry.rs:56-59).
THEOREM AccountsBalance == TrackedSpec => []Accounting
<1>1. IInv => Accounting
  BY DEF IInv
<1> QED BY <1>1, Invariance, PTL

\* The largest sample of a location covers what its wrappers' values owed: the
\* longest they have been since shrink_to_fit, of a buffer that stays, and the
\* length they ended with, of any other.
THEOREM PeakCovers == TrackedSpec => []PeakReported
<1>1. IInv => PeakReported
  BY DEF IInv
<1> QED BY <1>1, Invariance, PTL

\* What a step of the bare program may do to a collection.
Bares(v) ==
  \/ \E s \in Sites, hint \in Hints : New(v, s, hint)
  \/ \E k \in KindsInUse, n \in 0..MaxCap : Collect(v, k, n)
  \/ Mutate(v)
  \/ Discard(v)

\* A step with telemetry changes at most one collection, as a bare step does.
LEMMA StepIsBare ==
  ASSUME TypeOK, SoleOwner, TrackedNext
  PROVE  /\ UNCHANGED expansion
         /\ (\E v \in Values : Bares(v)) \/ UNCHANGED contents
<1> DEFINE Goal == /\ UNCHANGED expansion
                   /\ (\E v \in Values : Bares(v)) \/ UNCHANGED contents
<1>1. ASSUME NEW w \in Wrappers, NEW v \in Values, NEW s \in Sites,
             NEW hint \in Hints,
             Construct(w, v, s, hint)
      PROVE  Goal
  BY <1>1 DEF Construct, Bares
<1>2. ASSUME NEW w \in Wrappers, NEW v \in Values,
             \/ \E s \in Sites : Wrap(w, v, s)
             \/ Replace(w, v)
      PROVE  Goal
  BY <1>2 DEF Wrap, Replace
<1>3. ASSUME NEW w \in Wrappers, \E l \in Locations : InspectWrapped(w, l)
      PROVE  Goal
  BY <1>3 DEF InspectWrapped, program
<1>4. ASSUME NEW w \in Wrappers, Drop(w) \/ Consume(w) \/ Forget(w)
      PROVE  Goal
  <2>1. holds[w] \in Values
    BY <1>4 DEF Drop, Consume, Forget, Leave, SoleOwner, Live
  <2> QED BY <1>4, <2>1 DEF Drop, Consume, Forget, Gone, Bares
<1>5. ASSUME NEW w \in Wrappers, IntoInner(w)
      PROVE  Goal
  BY <1>5 DEF IntoInner
<1>6. ASSUME NEW v \in Values, NEW s \in Sites, NEW hint \in Hints,
             ConstructOwned(v, s, hint) \/ ConstructInspected(v, s, hint)
      PROVE  Goal
  BY <1>6 DEF ConstructOwned, ConstructInspected, Bares
<1>7. ASSUME NEW v \in Values, NEW k \in KindsInUse, NEW n \in 0..MaxCap,
             CollectBare(v, k, n)
      PROVE  Goal
  BY <1>7 DEF CollectBare, Bares
<1>8. ASSUME NEW v \in Values, Use(v) \/ DropBare(v)
      PROVE  Goal
  BY <1>8 DEF Use, DropBare, Gone, Bares
<1>9. ASSUME NEW v \in Values, \E l \in Locations : Inspect(v, l)
      PROVE  Goal
  BY <1>9 DEF Inspect, program
<1>10. ASSUME NEW s \in Sites, ConstructPanics(s)
       PROVE  Goal
  BY <1>10 DEF ConstructPanics, program
<1> HIDE DEF Goal
<1>11. Goal
  BY <1>1, <1>2, <1>3, <1>4, <1>5, <1>6, <1>7, <1>8, <1>9, <1>10
     DEF TrackedNext, ValueStep, WrapperStep
<1> QED BY <1>11 DEF Goal

\* lib.rs:162-163, "works symmetrically in both feature modes": without its
\* wrappers and the registry, the program with telemetry is the program built
\* without it.
THEOREM SymmetricModes == TrackedSpec => ImplementsBare
<1>1. TrackedInit => Init
  BY DEF TrackedInit
<1>2. IInv /\ [TrackedNext]_vars => [Next]_<<expansion, contents>>
  <2> SUFFICES ASSUME IInv, TrackedNext
               PROVE  [Next]_<<expansion, contents>>
    BY DEF vars, program
  <2>1. UNCHANGED expansion
        /\ ((\E v \in Values : Bares(v)) \/ UNCHANGED contents)
    BY StepIsBare DEF IInv
  <2> QED BY <2>1 DEF Bares, Next
<1> QED BY <1>1, <1>2, Invariance, PTL DEF TrackedSpec, ImplementsBare, Spec

=============================================================================
