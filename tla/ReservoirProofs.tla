--------------------------- MODULE ReservoirProofs ---------------------------
(***************************************************************************)
(* What holds of a reservoir for any number of threads, readers and        *)
(* samples and any capacity, however its callers interleave.               *)
(***************************************************************************)
EXTENDS Reservoir, FiniteSetTheorems, TLAPS

\* The steps of record and of entry_from keep every variable in its range
\* (reservoir.rs:70-88, dump.rs:43-56).
THEOREM TypeCorrect == Spec => []TypeOK
<1>1. Init => TypeOK
  <2>1. Init => poisoned \in BOOLEAN
    BY DEF Init
  <2>2. QED
    BY <2>1, ReservoirAssumption DEF Init, TypeOK
<1>2. TypeOK /\ [Next]_vars => TypeOK'
  <2> SUFFICES ASSUME TypeOK, [Next]_vars PROVE TypeOK'
    OBVIOUS
  <2> USE DEF TypeOK, recorderVars, readerVars
  <2>1. ASSUME NEW t \in Threads, NEW v \in Samples, FetchAdd(t, v)
        PROVE  TypeOK'
    BY <2>1 DEF FetchAdd
  <2>2. ASSUME NEW t \in Threads, Lock(t)
        PROVE  TypeOK'
    BY <2>2 DEF Lock
  <2>3. ASSUME NEW t \in Threads, Push(t)
        PROVE  TypeOK'
    BY <2>3 DEF Push, Leave
  <2>4. ASSUME NEW t \in Threads, Replace(t)
        PROVE  TypeOK'
    <3>1. PICK j \in 0 .. seen[t] :
            /\ j < Len(buf)
            /\ buf' = [buf EXCEPT ![j + 1] = value[t]]
      BY <2>4 DEF Replace
    <3>2. buf' \in Seq(Samples)
      BY <3>1, <2>4 DEF Replace
    <3>3. QED
      BY <3>2, <2>4 DEF Replace, Leave
  <2>5. ASSUME NEW t \in Threads, Discard(t)
        PROVE  TypeOK'
    BY <2>5 DEF Discard, Leave
  <2>6. ASSUME NEW t \in Threads, IndexPanic(t)
        PROVE  TypeOK'
    BY <2>6 DEF IndexPanic, Leave
  <2>7. ASSUME NEW r \in Readers, EntryFrom(r)
        PROVE  TypeOK'
    BY <2>7 DEF EntryFrom, ReadSamples, ReadTotal
  <2>8. CASE UNCHANGED vars
    BY <2>8 DEF vars
  <2>9. QED
    BY <2>1, <2>2, <2>3, <2>4, <2>5, <2>6, <2>7, <2>8 DEF Next, Enter
<1>3. QED
  BY <1>1, <1>2, PTL DEF Spec

-----------------------------------------------------------------------------
\* How many threads will still push is a natural number.
LEMMA PushingFinite ==
  IsFiniteSet(Pushing) /\ Cardinality(Pushing) \in Nat
<1>1. IsFiniteSet(Pushing)
  BY FS_Subset, ReservoirAssumption DEF Pushing
<1>2. QED
  BY <1>1, FS_CardinalityType

\* A step that leaves the buffer, the counter and the set of pushing
\* threads alone leaves their balance alone.
LEMMA PushingUnchanged ==
  ASSUME PushAccounting, Pushing' = Pushing, UNCHANGED <<buf, seenCount>>
  PROVE  PushAccounting'
BY DEF PushAccounting, Lesser

\* Drawing a ticket adds one to the counter, and one to the threads that
\* will push exactly when the ticket is below the capacity.
LEMMA FetchAddBalance ==
  ASSUME TypeOK, PushAccounting,
         NEW t \in Threads, NEW v \in Samples, FetchAdd(t, v)
  PROVE  PushAccounting'
<1> USE ReservoirAssumption
<1>1. CASE seenCount < Cap
  <2>1. Pushing' = Pushing \cup {t} /\ t \notin Pushing
    BY <1>1 DEF TypeOK, FetchAdd, Pushing
  <2>2. Cardinality(Pushing') = Cardinality(Pushing) + 1
    BY <2>1, PushingFinite, FS_AddElement
  <2>3. QED
    BY <1>1, <2>2, PushingFinite DEF TypeOK, FetchAdd, PushAccounting, Lesser
<1>2. CASE ~(seenCount < Cap)
  <2>1. Pushing' = Pushing
    BY <1>2 DEF TypeOK, FetchAdd, Pushing
  <2>2. QED
    BY <1>2, <2>1, PushingFinite DEF TypeOK, FetchAdd, PushAccounting, Lesser
<1>3. QED
  BY <1>1, <1>2

\* A push moves one thread's contribution into the buffer.
LEMMA PushBalance ==
  ASSUME TypeOK, PushAccounting, NEW t \in Threads, Push(t)
  PROVE  PushAccounting'
<1> USE ReservoirAssumption
<1>1. Pushing' = Pushing \ {t} /\ t \in Pushing
  BY DEF TypeOK, Push, Leave, Pushing
<1>2. Cardinality(Pushing') = Cardinality(Pushing) - 1
  BY <1>1, PushingFinite, FS_RemoveElement
<1>3. Len(buf') = Len(buf) + 1 /\ seenCount' = seenCount /\ Len(buf) \in Nat
  BY DEF TypeOK, Push, Leave
<1>4. QED
  BY <1>2, <1>3, PushingFinite DEF PushAccounting, Lesser

\* reservoir.rs:70-88: the reservoir takes exactly one sample for each of
\* the first Cap tickets, no matter in which order their owners get the
\* mutex or how many of the later callers panic.
THEOREM PushAccountingHolds == Spec => []PushAccounting
<1>1. Init => PushAccounting
  <2> SUFFICES ASSUME Init PROVE PushAccounting
    OBVIOUS
  <2>1. Pushing = {}
    BY DEF Init, Pushing
  <2>2. QED
    BY <2>1, FS_EmptySet, ReservoirAssumption DEF Init, PushAccounting, Lesser
<1>2. TypeOK /\ PushAccounting /\ [Next]_vars => PushAccounting'
  <2> SUFFICES ASSUME TypeOK, PushAccounting, [Next]_vars
               PROVE  PushAccounting'
    OBVIOUS
  <2>1. ASSUME NEW t \in Threads, NEW v \in Samples, FetchAdd(t, v)
        PROVE  PushAccounting'
    BY <2>1, FetchAddBalance
  <2>2. ASSUME NEW t \in Threads, Lock(t)
        PROVE  PushAccounting'
    <3>1. Pushing' = Pushing
      BY <2>2 DEF TypeOK, Lock, Pushing
    <3>2. QED
      BY <2>2, <3>1, PushingUnchanged DEF Lock
  <2>3. ASSUME NEW t \in Threads, Push(t)
        PROVE  PushAccounting'
    BY <2>3, PushBalance
  <2>4. ASSUME NEW t \in Threads, Replace(t)
        PROVE  PushAccounting'
    <3>1. Pushing' = Pushing
      BY <2>4, ReservoirAssumption DEF TypeOK, Replace, Leave, Pushing
    <3>2. Len(buf') = Len(buf) /\ seenCount' = seenCount
      BY <2>4 DEF TypeOK, Replace, Leave
    <3>3. QED
      BY <3>1, <3>2 DEF PushAccounting, Lesser
  <2>5. ASSUME NEW t \in Threads, Discard(t) \/ IndexPanic(t)
        PROVE  PushAccounting'
    <3>1. Pushing' = Pushing
      BY <2>5, ReservoirAssumption
         DEF TypeOK, Discard, IndexPanic, Leave, Pushing
    <3>2. QED
      BY <2>5, <3>1, PushingUnchanged DEF Discard, IndexPanic, Leave
  <2>6. ASSUME NEW r \in Readers, EntryFrom(r)
        PROVE  PushAccounting'
    BY <2>6, PushingUnchanged DEF EntryFrom, recorderVars, Pushing
  <2>7. CASE UNCHANGED vars
    BY <2>7, PushingUnchanged DEF vars, recorderVars, Pushing
  <2>8. QED
    BY <2>1, <2>2, <2>3, <2>4, <2>5, <2>6, <2>7 DEF Next, Enter
<1>3. QED
  BY <1>1, <1>2, TypeCorrect, PTL DEF Spec

\* reservoir.rs:43, "at most cap elements": the bound survives the race
\* between tickets and critical sections.
THEOREM BoundedHolds == Spec => []Bounded
<1>1. TypeOK /\ PushAccounting => Bounded
  BY PushingFinite, ReservoirAssumption DEF TypeOK, PushAccounting, Bounded, Lesser
<1>2. QED
  BY <1>1, TypeCorrect, PushAccountingHolds, PTL

-----------------------------------------------------------------------------
\* What a reader holds halfway through entry_from and after it: its snapshot
\* is no longer than the counter, as it is now or as it was read.
ReaderInv ==
  \A r \in Readers :
    /\ rpc[r] = "reading" => Len(snap[r]) <= seenCount
    /\ rpc[r] = "reported" => Len(snap[r]) <= total[r]

\* dump.rs:31, "Always >= samples.len()": record counts before it pushes and
\* entry_from snapshots before it reads the counter, so no interleaving of
\* the four steps reports more samples than observations.
THEOREM TotalCoversSamplesHolds == Spec => []TotalCoversSamples
<1>1. Init => ReaderInv
  BY DEF Init, ReaderInv
<1>2. TypeOK /\ PushAccounting /\ ReaderInv /\ [Next]_vars => ReaderInv'
  <2> SUFFICES ASSUME TypeOK, PushAccounting, ReaderInv, [Next]_vars
               PROVE  ReaderInv'
    OBVIOUS
  <2>1. Len(buf) <= seenCount
    BY PushingFinite, ReservoirAssumption DEF TypeOK, PushAccounting, Lesser
  <2>2. ASSUME NEW t \in Threads, NEW v \in Samples, FetchAdd(t, v)
        PROVE  ReaderInv'
    <3>1. \A r \in Readers : Len(snap[r]) \in Nat
      BY DEF TypeOK
    <3>2. UNCHANGED readerVars /\ seenCount' = seenCount + 1 /\ seenCount \in Nat
      BY <2>2 DEF FetchAdd, TypeOK
    <3>3. QED
      BY <3>1, <3>2 DEF ReaderInv, readerVars
  <2>3. ASSUME NEW t \in Threads, Lock(t) \/ Enter(t)
        PROVE  ReaderInv'
    <3>1. UNCHANGED <<readerVars, seenCount>>
      BY <2>3 DEF Lock, Enter, Push, Replace, Discard, IndexPanic, Leave
    <3>2. QED
      BY <3>1 DEF ReaderInv, readerVars
  <2>4. ASSUME NEW r \in Readers, EntryFrom(r)
        PROVE  ReaderInv'
    BY <2>1, <2>4 DEF EntryFrom, ReadSamples, ReadTotal, ReaderInv, TypeOK
  <2>5. CASE UNCHANGED vars
    BY <2>5 DEF vars, readerVars, ReaderInv
  <2>6. QED
    BY <2>2, <2>3, <2>4, <2>5 DEF Next
<1>3. ReaderInv => TotalCoversSamples
  BY DEF ReaderInv, TotalCoversSamples
<1>4. QED
  BY <1>1, <1>2, <1>3, TypeCorrect, PushAccountingHolds, PTL DEF Spec

-----------------------------------------------------------------------------
\* Until the reservoir overflows, each sample offered so far is in the buffer
\* or in the hands of the thread that will push it.
VerbatimInv ==
  /\ IsFiniteSet(offered)
  /\ seenCount = Cardinality(offered)
  /\ \A t \in Threads : pc[t] \in {"claimed", "locked"} => seen[t] < seenCount
  /\ seenCount <= Cap =>
       offered = ToSet(buf) \cup {value[t] : t \in Pushing}

\* Appending adds exactly the appended element to a sequence's elements.
LEMMA AppendElements ==
  ASSUME NEW S, NEW s \in Seq(S), NEW v \in S
  PROVE  ToSet(Append(s, v)) = ToSet(s) \cup {v}
<1> DEFINE a == Append(s, v)
<1>1. Len(s) \in Nat /\ DOMAIN s = 1 .. Len(s) /\ DOMAIN a = 1 .. (Len(s) + 1)
  OBVIOUS
<1>2. a[Len(s) + 1] = v /\ \A i \in DOMAIN s : a[i] = s[i]
  OBVIOUS
<1>3. QED
  BY <1>1, <1>2 DEF ToSet

\* reservoir.rs:5-6, "for N <= CAP every sample is stored verbatim": holds
\* for concurrent callers too, once their calls have ended.
THEOREM VerbatimBelowCapHolds == Spec => []VerbatimBelowCap
<1> USE ReservoirAssumption
<1>1. Init => VerbatimInv
  BY FS_EmptySet DEF Init, VerbatimInv, Pushing, ToSet
<1>2. TypeOK /\ VerbatimInv /\ [Next]_vars => VerbatimInv'
  <2> SUFFICES ASSUME TypeOK, VerbatimInv, [Next]_vars
               PROVE  VerbatimInv'
    OBVIOUS
  <2>1. ASSUME NEW t \in Threads, NEW v \in Samples, FetchAdd(t, v)
        PROVE  VerbatimInv'
    <3>1. IsFiniteSet(offered') /\ seenCount' = Cardinality(offered')
      BY <2>1, FS_AddElement DEF FetchAdd, VerbatimInv
    <3>2. \A u \in Threads : pc'[u] \in {"claimed", "locked"} => seen'[u] < seenCount'
      BY <2>1 DEF FetchAdd, VerbatimInv, TypeOK
    <3>3. ASSUME seenCount' <= Cap
          PROVE  offered' = ToSet(buf') \cup {value'[u] : u \in Pushing'}
      <4>1. Pushing' = Pushing \cup {t} /\ t \notin Pushing
        BY <2>1, <3>3 DEF FetchAdd, Pushing, TypeOK
      <4>2. \A u \in Pushing : value'[u] = value[u]
        BY <2>1, <4>1 DEF FetchAdd, Pushing, TypeOK
      <4>3. {value'[u] : u \in Pushing'} = {value[u] : u \in Pushing} \cup {v}
        BY <2>1, <4>1, <4>2 DEF FetchAdd, Pushing, TypeOK
      <4>4. offered = ToSet(buf) \cup {value[u] : u \in Pushing}
        <5>1. seenCount <= Cap
          BY <2>1, <3>3 DEF FetchAdd, TypeOK
        <5>2. QED
          BY <5>1 DEF VerbatimInv
      <4>5. buf' = buf /\ offered' = offered \cup {v}
        BY <2>1 DEF FetchAdd
      <4>6. QED
        BY <4>3, <4>4, <4>5
    <3>4. QED
      BY <3>1, <3>2, <3>3 DEF VerbatimInv
  <2>2. ASSUME NEW t \in Threads, Lock(t)
        PROVE  VerbatimInv'
    <3>1. Pushing' = Pushing
      BY <2>2 DEF TypeOK, Lock, Pushing
    <3>2. UNCHANGED <<buf, seenCount, value, seen, offered>>
      BY <2>2 DEF Lock
    <3>3. \A u \in Threads : pc'[u] \in {"claimed", "locked"} => seen'[u] < seenCount'
      BY <2>2, <3>2 DEF Lock, VerbatimInv, TypeOK
    <3>4. QED
      BY <3>1, <3>2, <3>3 DEF VerbatimInv
  <2>3. ASSUME NEW t \in Threads, Push(t)
        PROVE  VerbatimInv'
    <3>1. Pushing' = Pushing \ {t} /\ t \in Pushing
      BY <2>3 DEF TypeOK, Push, Leave, Pushing
    <3>2. ToSet(buf') = ToSet(buf) \cup {value[t]}
      <4>1. buf \in Seq(Samples) /\ value[t] \in Samples
        BY <2>3 DEF TypeOK, Push
      <4>2. buf' = Append(buf, value[t])
        BY <2>3 DEF Push
      <4>3. ToSet(Append(buf, value[t])) = ToSet(buf) \cup {value[t]}
        BY <4>1, AppendElements
      <4>4. QED
        BY <4>2, <4>3
    <3>3. ToSet(buf') \cup {value'[u] : u \in Pushing'}
            = ToSet(buf) \cup {value[u] : u \in Pushing}
      BY <2>3, <3>1, <3>2 DEF Push, Leave
    <3>4. QED
      BY <2>3, <3>3 DEF Push, Leave, VerbatimInv, TypeOK
  <2>4. ASSUME NEW t \in Threads, Replace(t) \/ Discard(t) \/ IndexPanic(t)
        PROVE  VerbatimInv'
    <3>1. seenCount' > Cap
      BY <2>4 DEF TypeOK, VerbatimInv, Replace, Discard, IndexPanic, Leave
    <3>2. QED
      BY <2>4, <3>1 DEF TypeOK, VerbatimInv, Replace, Discard, IndexPanic, Leave
  <2>5. ASSUME NEW r \in Readers, EntryFrom(r)
        PROVE  VerbatimInv'
    BY <2>5 DEF EntryFrom, recorderVars, Pushing, VerbatimInv
  <2>6. CASE UNCHANGED vars
    BY <2>6 DEF vars, recorderVars, Pushing, VerbatimInv
  <2>7. QED
    BY <2>1, <2>2, <2>3, <2>4, <2>5, <2>6 DEF Next, Enter
<1>3. TypeOK /\ PushAccounting /\ VerbatimInv => VerbatimBelowCap
  <2> SUFFICES ASSUME TypeOK, PushAccounting, VerbatimInv, seenCount <= Cap,
                      \A t \in Threads : pc[t] \in {"idle", "panicked"}
               PROVE  /\ ToSet(buf) = offered
                      /\ Len(buf) = Cardinality(offered)
    BY DEF VerbatimBelowCap
  <2>1. Pushing = {}
    BY DEF Pushing
  <2>2. ToSet(buf) = offered
    BY <2>1 DEF VerbatimInv
  <2>3. Len(buf) = seenCount
    BY <2>1, FS_EmptySet DEF TypeOK, PushAccounting, Lesser
  <2>4. QED
    BY <2>2, <2>3 DEF VerbatimInv
<1>4. QED
  BY <1>1, <1>2, <1>3, TypeCorrect, PushAccountingHolds, PTL DEF Spec
=============================================================================
