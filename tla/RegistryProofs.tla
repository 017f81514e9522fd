---------------------------- MODULE RegistryProofs ----------------------------
(***************************************************************************)
(* What holds of the registry for any number of threads, sites, samples,   *)
(* scans and any capacity.                                                 *)
(***************************************************************************)
EXTENDS Registry, FiniteSetTheorems, SequenceTheorems, TLAPS

USE DEF entryVars, threadVars, scanVars, historyVars, Goto, Registered, Free

\* Storing into a slot keeps a sequence's length and the set of its values.
LEMMA StoreSlot ==
  ASSUME NEW S, NEW q \in Seq(S), NEW i \in Nat, NEW v \in S
  PROVE  /\ [q EXCEPT ![i] = v] \in Seq(S)
         /\ Len([q EXCEPT ![i] = v]) = Len(q)
<1>1. CASE i \in 1 .. Len(q)
  BY <1>1, ExceptSeq
<1>2. CASE i \notin 1 .. Len(q)
  <2>1. [q EXCEPT ![i] = v] = q
    BY <1>2
  <2>2. QED
    BY <2>1
<1>3. QED
  BY <1>1, <1>2

\* Every step of a call or a scan keeps each variable in its range
\* (registry.rs:101-151, dump.rs:43-62).
LEMMA TypeStep == TypeOK /\ [Next]_vars => TypeOK'
<1> SUFFICES ASSUME TypeOK, [Next]_vars PROVE TypeOK'
  OBVIOUS
<1> USE RegistryAssumption DEF TypeOK
<1>1. ASSUME NEW t \in Threads, NEW s \in Sites, NEW n \in Names,
             RecordCreation(t, s, n)
      PROVE  TypeOK'
  BY <1>1 DEF RecordCreation
<1>2. ASSUME NEW t \in Threads, NEW s \in Sites, NEW n \in Names,
             NEW v \in Samples, RecordInitial(t, s, n, v)
      PROVE  TypeOK'
  BY <1>2 DEF RecordInitial
<1>3. ASSUME NEW t \in Threads, NEW s \in Sites, NEW v \in Samples,
             RecordSample(t, s, v)
      PROVE  TypeOK'
  BY <1>3 DEF RecordSample
<1>4. ASSUME NEW t \in Threads, CountCreation(t)
      PROVE  TypeOK'
  <2>1. call[t].sample # NoSample => call[t].sample \in Samples
    OBVIOUS
  <2>2. QED
    BY <1>4, <2>1 DEF CountCreation
<1>5. ASSUME NEW t \in Threads, GetMiss(t)
      PROVE  TypeOK'
  BY <1>5 DEF GetMiss
<1>6. ASSUME NEW t \in Threads, Insert(t)
      PROVE  TypeOK'
  <2> DEFINE s == call[t].site
  <2>1. s \in Sites /\ call[t].name \in Names
    BY <1>6 DEF Insert
  <2>2. CASE NewCapStats(s, call[t].name)
    BY <1>6, <2>1, <2>2 DEF Insert, NewCapStats
  <2>3. CASE UNCHANGED entryVars
    BY <1>6, <2>1, <2>3 DEF Insert
  <2>4. QED
    BY <1>6, <2>2, <2>3 DEF Insert
<1>7. ASSUME NEW t \in Threads, GetEntry(t)
      PROVE  TypeOK'
  BY <1>7 DEF GetEntry
<1>8. ASSUME NEW t \in Threads, Orphan(t)
      PROVE  TypeOK'
  BY <1>8 DEF Orphan
<1>9. ASSUME NEW t \in Threads, FetchAdd(t)
      PROVE  TypeOK'
  BY <1>9 DEF FetchAdd
<1>10. ASSUME NEW t \in Threads, Push(t)
       PROVE  TypeOK'
  BY <1>10 DEF Push, LeaveEntry
<1>11. ASSUME NEW t \in Threads, Replace(t)
       PROVE  TypeOK'
  <2> DEFINE s == call[t].site
  <2>1. PICK j \in 0 .. seen[t] :
          j < Cap /\ buf' = [buf EXCEPT ![s][j + 1] = call[t].sample]
    BY <1>11 DEF Replace
  <2>2. s \in Sites /\ call[t].sample \in Samples
    BY <1>11 DEF Replace
  <2>3. [buf[s] EXCEPT ![j + 1] = call[t].sample] \in Seq(Samples)
    <3>1. buf[s] \in Seq(Samples) /\ j + 1 \in Nat
      BY <2>2
    <3>2. QED
      BY <3>1, <2>2, StoreSlot
  <2>4. buf' \in [Sites -> Seq(Samples)]
    BY <2>1, <2>2, <2>3
  <2>5. QED
    BY <1>11, <2>4 DEF Replace, LeaveEntry
<1>12. ASSUME NEW t \in Threads, Discard(t)
       PROVE  TypeOK'
  BY <1>12 DEF Discard, LeaveEntry
<1>13. ASSUME NEW d \in Scanners, BeginScan(d)
       PROVE  TypeOK'
  BY <1>13 DEF BeginScan
<1>14. ASSUME NEW d \in Scanners, NEW s \in Sites, Visit(d, s)
       PROVE  TypeOK'
  <2>1. Registered(s) => EntryFrom(s) \in Entries
    BY DEF EntryFrom, Entries
  <2>2. dump' \in [Scanners -> SUBSET Entries]
    BY <1>14, <2>1 DEF Visit
  <2>3. QED
    BY <1>14, <2>2 DEF Visit
<1>15. CASE UNCHANGED vars
  BY <1>15 DEF vars
<1>16. QED
  BY <1>1, <1>2, <1>3, <1>4, <1>5, <1>6, <1>7, <1>8, <1>9, <1>10, <1>11,
     <1>12, <1>13, <1>14, <1>15 DEF Next, Call, Step, Scan

THEOREM TypeCorrect == Spec => []TypeOK
<1>1. Init => TypeOK
  BY RegistryAssumption DEF Init, TypeOK
<1>2. QED
  BY <1>1, TypeStep, PTL DEF Spec

-----------------------------------------------------------------------------
\* Steps that touch neither the entries, their locks nor a recording thread.
LEMMA EntryInvFrame ==
  ASSUME TypeOK, EntryInv, NEW t \in Threads,
         UNCHANGED <<seenCount, buf, entryLock, seen>>,
         pc[t] \notin {"entered", "ticketed"},
         pc' = [pc EXCEPT ![t] = pc'[t]],
         pc'[t] \notin {"entered", "ticketed"},
         \A u \in Threads \ {t} : call'[u] = call[u],
         \A s \in Sites : Registered(s) => Registered(s)',
         \A s \in Sites : ~Registered(s)' => creationCount'[s] = creationCount[s]
  PROVE  EntryInv'
<1>1. \A u \in Threads \ {t} : pc'[u] = pc[u]
  BY DEF TypeOK
<1>2. \A s \in Sites : entryLock[s] # t
  BY RegistryAssumption DEF EntryInv
<1>3. \A s \in Sites : ~Free(s) => entryLock[s] \in Threads \ {t}
  BY <1>2 DEF TypeOK
<1>4. \A u \in Threads : pc'[u] \in {"entered", "ticketed"} => u # t /\ pc'[u] = pc[u]
  BY <1>1
<1>5. \A u \in Threads : call[u].site \in Sites
  BY DEF TypeOK
<1>6. QED
  BY <1>1, <1>2, <1>3, <1>4, <1>5 DEF EntryInv

LEMMA EntryInvStep == TypeOK /\ EntryInv /\ [Next]_vars => EntryInv'
<1> SUFFICES ASSUME TypeOK, EntryInv, [Next]_vars PROVE EntryInv'
  OBVIOUS
<1> USE RegistryAssumption
<1>1. ASSUME NEW t \in Threads, NEW s \in Sites, NEW n \in Names,
             RecordCreation(t, s, n)
      PROVE  EntryInv'
  BY <1>1, EntryInvFrame DEF RecordCreation, TypeOK
<1>2. ASSUME NEW t \in Threads, NEW s \in Sites, NEW n \in Names,
             NEW v \in Samples, RecordInitial(t, s, n, v)
      PROVE  EntryInv'
  BY <1>2, EntryInvFrame DEF RecordInitial, TypeOK
<1>3. ASSUME NEW t \in Threads, NEW s \in Sites, NEW v \in Samples,
             RecordSample(t, s, v)
      PROVE  EntryInv'
  BY <1>3, EntryInvFrame DEF RecordSample, TypeOK
<1>4. ASSUME NEW t \in Threads, CountCreation(t)
      PROVE  EntryInv'
  BY <1>4, EntryInvFrame DEF CountCreation, TypeOK
<1>5. ASSUME NEW t \in Threads, GetMiss(t)
      PROVE  EntryInv'
  BY <1>5, EntryInvFrame DEF GetMiss, TypeOK
<1>6. ASSUME NEW t \in Threads, Orphan(t)
      PROVE  EntryInv'
  BY <1>6, EntryInvFrame DEF Orphan, TypeOK
<1>7. ASSUME NEW t \in Threads, Insert(t)
      PROVE  EntryInv'
  <2> DEFINE s == call[t].site
  <2>1. s \in Sites /\ call[t].name \in Names
    BY <1>7 DEF Insert, TypeOK
  <2>2. UNCHANGED <<seenCount, buf>>
    <3>1. CASE ~Registered(s) /\ NewCapStats(s, call[t].name)
      BY <2>1, <3>1 DEF NewCapStats, EntryInv, TypeOK
    <3>2. CASE UNCHANGED entryVars
      BY <3>2
    <3>3. QED
      BY <1>7, <3>1, <3>2 DEF Insert
  <2>3. \A r \in Sites : Registered(r) => Registered(r)'
    BY <1>7, <2>1 DEF Insert, NewCapStats, TypeOK
  <2>4. \A r \in Sites : creationCount'[r] = creationCount[r]
    BY <1>7, <2>1 DEF Insert, NewCapStats, EntryInv, TypeOK
  <2>5. QED
    BY <1>7, <2>2, <2>3, <2>4, EntryInvFrame DEF Insert, TypeOK
<1>8. ASSUME NEW t \in Threads, GetEntry(t)
      PROVE  EntryInv'
  BY <1>8 DEF GetEntry, EntryInv, TypeOK
<1>9. ASSUME NEW t \in Threads, FetchAdd(t)
      PROVE  EntryInv'
  BY <1>9 DEF FetchAdd, EntryInv, TypeOK
<1>10. ASSUME NEW t \in Threads, Push(t)
       PROVE  EntryInv'
  BY <1>10 DEF Push, LeaveEntry, EntryInv, TypeOK, Lesser
<1>11. ASSUME NEW t \in Threads, Replace(t)
       PROVE  EntryInv'
  BY <1>11 DEF Replace, LeaveEntry, EntryInv, TypeOK, Lesser
<1>12. ASSUME NEW t \in Threads, Discard(t)
       PROVE  EntryInv'
  BY <1>12 DEF Discard, LeaveEntry, EntryInv, TypeOK, Lesser
<1>13. ASSUME NEW d \in Scanners, Scan(d)
       PROVE  EntryInv'
  BY <1>13 DEF Scan, BeginScan, Visit, EntryInv
<1>14. CASE UNCHANGED vars
  BY <1>14 DEF vars, EntryInv
<1>15. QED
  BY <1>1, <1>2, <1>3, <1>4, <1>5, <1>6, <1>7, <1>8, <1>9, <1>10, <1>11,
     <1>12, <1>13, <1>14 DEF Next, Call, Step

\* An entry is locked from the ticket of a record to its store.
THEOREM EntryInvHolds == Spec => []EntryInv
<1>1. Init => EntryInv
  BY RegistryAssumption DEF Init, EntryInv, Lesser
<1>2. QED
  BY <1>1, EntryInvStep, TypeCorrect, PTL DEF Spec

\* reservoir.rs:81-86: through the registry `buf[j]` is always in range.
THEOREM FullWhenReplacingHolds == Spec => []FullWhenReplacing
<1>1. TypeOK /\ EntryInv => FullWhenReplacing
  BY RegistryAssumption DEF TypeOK, EntryInv, FullWhenReplacing, Lesser
<1>2. QED
  BY <1>1, TypeCorrect, EntryInvHolds, PTL

-----------------------------------------------------------------------------
\* dump.rs:43-56 under scan: an entry is dumped between two records, so its
\* samples and its total_observed belong together.
THEOREM DumpedEntriesAreCutsHolds == Spec => []DumpedEntriesAreCuts
<1>1. Init => DumpedEntriesAreCuts
  BY DEF Init, DumpedEntriesAreCuts
<1>2. TypeOK /\ EntryInv /\ DumpedEntriesAreCuts /\ [Next]_vars
        => DumpedEntriesAreCuts'
  <2> SUFFICES ASSUME TypeOK, EntryInv, DumpedEntriesAreCuts, [Next]_vars
               PROVE  DumpedEntriesAreCuts'
    OBVIOUS
  <2>1. CASE UNCHANGED dump
    BY <2>1 DEF DumpedEntriesAreCuts
  <2>2. ASSUME NEW d \in Scanners, BeginScan(d)
        PROVE  DumpedEntriesAreCuts'
    BY <2>2 DEF BeginScan, DumpedEntriesAreCuts, TypeOK
  <2>3. ASSUME NEW d \in Scanners, NEW s \in Sites, Visit(d, s)
        PROVE  DumpedEntriesAreCuts'
    <3>1. Len(EntryFrom(s).samples) = Lesser(EntryFrom(s).total_observed, Cap)
      BY <2>3 DEF Visit, EntryFrom, EntryInv
    <3>2. \A c \in Scanners : dump'[c] \subseteq dump[c] \cup {EntryFrom(s)}
      BY <2>3 DEF Visit, TypeOK
    <3>3. QED
      BY <3>1, <3>2 DEF DumpedEntriesAreCuts
  <2>4. (\E t \in Threads : Call(t) \/ Step(t)) \/ UNCHANGED vars => UNCHANGED dump
    BY DEF Call, Step, RecordCreation, RecordInitial, RecordSample,
           CountCreation, GetMiss, Insert, GetEntry, Orphan, FetchAdd,
           Push, Replace, Discard, LeaveEntry, vars
  <2>5. QED
    BY <2>1, <2>2, <2>3, <2>4 DEF Next, Scan
<1>3. QED
  BY <1>1, <1>2, TypeCorrect, EntryInvHolds, PTL DEF Spec

-----------------------------------------------------------------------------
\* registry.rs:64 and 109-116: a registered entry keeps its name, and a lost
\* race to insert never resets its counters or its reservoir.
THEOREM EntryNeverResetHolds == Spec => EntryNeverReset
<1> DEFINE Keeps ==
      \A s \in Sites : Registered(s) =>
        /\ name'[s] = name[s]
        /\ creationCount'[s] >= creationCount[s]
        /\ seenCount'[s] >= seenCount[s]
        /\ Len(buf'[s]) >= Len(buf[s])
<1>1. TypeOK /\ [Next]_vars => [Keeps]_vars
  <2> SUFFICES ASSUME TypeOK, Next PROVE Keeps
    OBVIOUS
  <2>1. \A s \in Sites : creationCount[s] >= creationCount[s]
                       /\ seenCount[s] >= seenCount[s] /\ Len(buf[s]) >= Len(buf[s])
    BY DEF TypeOK
  <2>2. ASSUME NEW t \in Threads, Call(t)
        PROVE  Keeps
    BY <2>1, <2>2 DEF Call, RecordCreation, RecordInitial, RecordSample
  <2>3. ASSUME NEW t \in Threads, CountCreation(t)
        PROVE  Keeps
    BY <2>1, <2>3 DEF CountCreation, TypeOK
  <2>4. ASSUME NEW t \in Threads, GetMiss(t) \/ GetEntry(t) \/ Orphan(t)
        PROVE  Keeps
    BY <2>1, <2>4 DEF GetMiss, GetEntry, Orphan
  <2>5. ASSUME NEW t \in Threads, Insert(t)
        PROVE  Keeps
    BY <2>1, <2>5 DEF Insert, NewCapStats, TypeOK
  <2>6. ASSUME NEW t \in Threads, FetchAdd(t)
        PROVE  Keeps
    BY <2>1, <2>6 DEF FetchAdd, TypeOK
  <2>7. ASSUME NEW t \in Threads, Push(t)
        PROVE  Keeps
    BY <2>1, <2>7 DEF Push, LeaveEntry, TypeOK
  <2>8. ASSUME NEW t \in Threads, Replace(t)
        PROVE  Keeps
    BY <2>1, <2>8 DEF Replace, LeaveEntry, TypeOK
  <2>9. ASSUME NEW t \in Threads, Discard(t)
        PROVE  Keeps
    BY <2>1, <2>9 DEF Discard, LeaveEntry
  <2>10. ASSUME NEW d \in Scanners, Scan(d)
         PROVE  Keeps
    BY <2>1, <2>10 DEF Scan, BeginScan, Visit
  <2>11. QED
    BY <2>2, <2>3, <2>4, <2>5, <2>6, <2>7, <2>8, <2>9, <2>10 DEF Next, Step
<1>2. QED
  BY <1>1, TypeCorrect, PTL DEF Spec, EntryNeverReset

-----------------------------------------------------------------------------
\* A step that moves nobody in or out of record_creation, and counts nothing,
\* leaves the balance of each site alone.
LEMMA CreationFrame ==
  ASSUME CreationExactlyOnce, UNCHANGED <<started, creationCount>>,
         \A s \in Sites : Creating(s)' = Creating(s)
  PROVE  CreationExactlyOnce'
BY DEF CreationExactlyOnce

\* A call begins: one more started, one more under way.
LEMMA CreationBegins ==
  ASSUME TypeOK, CreationExactlyOnce, NEW t \in Threads, NEW s \in Sites,
         NEW c \in [site : {s}, name : Names, sample : Samples \cup {NoSample}],
         pc[t] = "idle", pc' = [pc EXCEPT ![t] = "get"],
         call' = [call EXCEPT ![t] = c],
         started' = [started EXCEPT ![s] = @ + 1], UNCHANGED creationCount
  PROVE  CreationExactlyOnce'
<1>1. \A r \in Sites \ {s} : Creating(r)' = Creating(r)
  BY DEF TypeOK, Creating
<1>2. Creating(s)' = Creating(s) \cup {t} /\ t \notin Creating(s)
  BY DEF TypeOK, Creating
<1>3. IsFiniteSet(Creating(s)) /\ Cardinality(Creating(s)) \in Nat
  BY RegistryAssumption, FS_Subset, FS_CardinalityType DEF Creating
<1>4. Cardinality(Creating(s)') = Cardinality(Creating(s)) + 1
  BY <1>2, <1>3, FS_AddElement
<1>5. QED
  BY <1>1, <1>3, <1>4 DEF TypeOK, CreationExactlyOnce

\* registry.rs:101-117: however calls race to insert an entry, each one is
\* counted once, and never before it began.
THEOREM CreationExactlyOnceHolds == Spec => []CreationExactlyOnce
<1> USE RegistryAssumption
<1>1. Init => CreationExactlyOnce
  <2> SUFFICES ASSUME Init PROVE CreationExactlyOnce
    OBVIOUS
  <2>1. ASSUME NEW s \in Sites
        PROVE  Cardinality(Creating(s)) = 0
    <3>1. Creating(s) = {}
      BY DEF Init, Creating
    <3>2. QED
      BY <3>1, FS_EmptySet
  <2>2. QED
    BY <2>1 DEF Init, CreationExactlyOnce
<1>2. TypeOK /\ EntryInv /\ CreationExactlyOnce /\ [Next]_vars
        => CreationExactlyOnce'
  <2> SUFFICES ASSUME TypeOK, EntryInv, CreationExactlyOnce, [Next]_vars
               PROVE  CreationExactlyOnce'
    OBVIOUS
  <2>1. ASSUME NEW t \in Threads, NEW s \in Sites, NEW n \in Names,
               RecordCreation(t, s, n)
        PROVE  CreationExactlyOnce'
    BY <2>1, CreationBegins DEF RecordCreation
  <2>2. ASSUME NEW t \in Threads, NEW s \in Sites, NEW n \in Names,
               NEW v \in Samples, RecordInitial(t, s, n, v)
        PROVE  CreationExactlyOnce'
    BY <2>2, CreationBegins DEF RecordInitial
  <2>3. ASSUME NEW t \in Threads, NEW s \in Sites, NEW v \in Samples,
               RecordSample(t, s, v)
        PROVE  CreationExactlyOnce'
    <3>1. \A r \in Sites : Creating(r)' = Creating(r)
      BY <2>3 DEF RecordSample, Creating, TypeOK
    <3>2. QED
      BY <2>3, <3>1, CreationFrame DEF RecordSample
  <2>4. ASSUME NEW t \in Threads, CountCreation(t)
        PROVE  CreationExactlyOnce'
    <3>1. PICK s \in Sites : s = call[t].site
      BY DEF TypeOK
    <3>2. \A r \in Sites \ {s} : Creating(r)' = Creating(r)
      BY <2>4, <3>1 DEF CountCreation, Creating, TypeOK
    <3>3. Creating(s)' = Creating(s) \ {t} /\ t \in Creating(s)
      BY <2>4, <3>1 DEF CountCreation, Creating, TypeOK
    <3>4. IsFiniteSet(Creating(s)) /\ Cardinality(Creating(s)) \in Nat
      BY FS_Subset, FS_CardinalityType DEF Creating
    <3>5. Cardinality(Creating(s)') = Cardinality(Creating(s)) - 1
      BY <3>3, <3>4, FS_RemoveElement
    <3>6. QED
      BY <2>4, <3>1, <3>2, <3>4, <3>5
         DEF CountCreation, TypeOK, CreationExactlyOnce
  <2>5. ASSUME NEW t \in Threads, GetMiss(t)
        PROVE  CreationExactlyOnce'
    <3>1. \A r \in Sites : Creating(r)' = Creating(r)
      BY <2>5 DEF GetMiss, Creating, TypeOK
    <3>2. QED
      BY <2>5, <3>1, CreationFrame DEF GetMiss
  <2>6. ASSUME NEW t \in Threads, Insert(t)
        PROVE  CreationExactlyOnce'
    <3>1. \A r \in Sites : Creating(r)' = Creating(r)
      BY <2>6 DEF Insert, Creating, TypeOK
    <3>2. creationCount' = creationCount
      BY <2>6 DEF Insert, NewCapStats, EntryInv, TypeOK
    <3>3. QED
      BY <2>6, <3>1, <3>2, CreationFrame DEF Insert
  <2>7. ASSUME NEW t \in Threads, GetEntry(t) \/ Orphan(t) \/ FetchAdd(t)
                                 \/ Push(t) \/ Replace(t) \/ Discard(t)
        PROVE  CreationExactlyOnce'
    <3>1. \A r \in Sites : Creating(r)' = Creating(r)
      BY <2>7 DEF GetEntry, Orphan, FetchAdd, Push, Replace, Discard,
                  LeaveEntry, Creating, TypeOK
    <3>2. UNCHANGED <<started, creationCount>>
      BY <2>7 DEF GetEntry, Orphan, FetchAdd, Push, Replace, Discard, LeaveEntry
    <3>3. QED
      BY <3>1, <3>2, CreationFrame
  <2>8. ASSUME NEW d \in Scanners, Scan(d)
        PROVE  CreationExactlyOnce'
    BY <2>8, CreationFrame DEF Scan, BeginScan, Visit, Creating
  <2>9. CASE UNCHANGED vars
    BY <2>9, CreationFrame DEF vars, Creating
  <2>10. QED
    BY <2>1, <2>2, <2>3, <2>4, <2>5, <2>6, <2>7, <2>8, <2>9 DEF Next, Call, Step
<1>3. QED
  BY <1>1, <1>2, TypeCorrect, EntryInvHolds, PTL DEF Spec
-----------------------------------------------------------------------------
\* Past its first `get` a thread of record_creation is at a site that has an
\* entry, and entries are never removed: registry.rs:113, "After insert ... the
\* entry exists", so a record_initial's sample meets it (InitialIsKept).
THEOREM InitialIsKeptHolds == Spec => []InitialIsKept
<1> USE RegistryAssumption
<1>1. Init => InitialIsKept
  BY DEF Init, InitialIsKept
<1>2. TypeOK /\ InitialIsKept /\ [Next]_vars => InitialIsKept'
  <2> SUFFICES ASSUME TypeOK, InitialIsKept, [Next]_vars PROVE InitialIsKept'
    OBVIOUS
  <2>1. ASSUME NEW t \in Threads, Call(t)
        PROVE  InitialIsKept'
    <3>1. /\ UNCHANGED name
          /\ \A u \in Threads \ {t} : pc'[u] = pc[u] /\ call'[u] = call[u]
          /\ pc'[t] \in {"get", "sample"}
          /\ pc'[t] = "sample" => call'[t].name = Unregistered
      BY <2>1 DEF Call, RecordCreation, RecordInitial, RecordSample, TypeOK
    <3> QED
      BY <3>1 DEF InitialIsKept
  <2>2. ASSUME NEW t \in Threads, CountCreation(t)
        PROVE  InitialIsKept'
    BY <2>2 DEF CountCreation, InitialIsKept, TypeOK
  <2>3. ASSUME NEW t \in Threads, Insert(t)
        PROVE  InitialIsKept'
    <3>1. \A s \in Sites : Registered(s) => Registered(s)'
      BY <2>3 DEF Insert, NewCapStats, TypeOK
    <3>2. Registered(call[t].site)'
      BY <2>3 DEF Insert, NewCapStats, TypeOK
    <3>3. \A u \in Threads : call[u].site \in Sites
      BY DEF TypeOK
    <3>4. \A u \in Threads \ {t} : pc'[u] = pc[u]
      BY <2>3 DEF Insert, TypeOK
    <3> QED
      BY <2>3, <3>1, <3>2, <3>3, <3>4 DEF Insert, InitialIsKept
  <2>4. ASSUME NEW t \in Threads, GetMiss(t) \/ GetEntry(t) \/ Orphan(t)
                                  \/ FetchAdd(t)
        PROVE  InitialIsKept'
    BY <2>4 DEF GetMiss, GetEntry, Orphan, FetchAdd, InitialIsKept, TypeOK
  <2>5. ASSUME NEW t \in Threads, Push(t) \/ Replace(t) \/ Discard(t)
        PROVE  InitialIsKept'
    BY <2>5 DEF Push, Replace, Discard, LeaveEntry, InitialIsKept, TypeOK
  <2>6. ASSUME NEW d \in Scanners, Scan(d)
        PROVE  InitialIsKept'
    BY <2>6 DEF Scan, BeginScan, Visit, InitialIsKept
  <2>7. CASE UNCHANGED vars
    BY <2>7 DEF vars, InitialIsKept
  <2> QED
    BY <2>1, <2>2, <2>3, <2>4, <2>5, <2>6, <2>7 DEF Next, Step
<1> QED
  BY <1>1, <1>2, TypeCorrect, PTL DEF Spec

-----------------------------------------------------------------------------
\* A call under way that has a sample to store.
Offers(t) == pc[t] # "idle" /\ call[t].sample # NoSample

\* The samples of a site that are stored or lost.
Settled(s) == dropped[s] \cup ToSet(buf[s])

\* Where the samples are: each in the hands of one call at most, and settled
\* only when that call is over; no reservoir holds one twice.
SampleInv ==
  /\ \A s \in Sites : Settled(s) \subseteq offered[s] /\ IsInjective(buf[s])
  /\ \A t \in Threads :
       Offers(t) => call[t].sample \in offered[call[t].site]
                                         \ Settled(call[t].site)
  /\ \A t, u \in Threads :
       t # u /\ Offers(t) /\ Offers(u) /\ call[t].site = call[u].site
         => call[t].sample # call[u].sample

\* Pushing a value that is not there yet.
LEMMA AppendElements ==
  ASSUME NEW S, NEW q \in Seq(S), NEW v \in S, v \notin ToSet(q), IsInjective(q)
  PROVE  /\ ToSet(Append(q, v)) = ToSet(q) \cup {v}
         /\ IsInjective(Append(q, v))
<1>1. /\ DOMAIN q = 1 .. Len(q) /\ Len(q) \in Nat
      /\ DOMAIN Append(q, v) = 1 .. Len(q) + 1
      /\ \A i \in 1 .. Len(q) : Append(q, v)[i] = q[i]
      /\ Append(q, v)[Len(q) + 1] = v
  OBVIOUS
<1>2. 1 .. Len(q) + 1 = 1 .. Len(q) \cup {Len(q) + 1}
  BY <1>1
<1> QED
  BY <1>1, <1>2 DEF ToSet, IsInjective

\* Storing a value that is not there yet into a slot: what was in it is gone.
LEMMA StoreElements ==
  ASSUME NEW S, NEW q \in Seq(S), NEW i \in 1 .. Len(q), NEW v \in S,
         v \notin ToSet(q), IsInjective(q)
  PROVE  /\ ToSet([q EXCEPT ![i] = v]) = (ToSet(q) \cup {v}) \ {q[i]}
         /\ IsInjective([q EXCEPT ![i] = v])
<1>1. /\ DOMAIN q = 1 .. Len(q)
      /\ DOMAIN [q EXCEPT ![i] = v] = 1 .. Len(q)
      /\ \A j \in 1 .. Len(q) :
           [q EXCEPT ![i] = v][j] = IF j = i THEN v ELSE q[j]
  OBVIOUS
<1> QED
  BY <1>1 DEF ToSet, IsInjective

\* A step that offers nothing: whoever takes it may settle its own sample, and
\* then its call is over.
LEMMA SampleInvFrame ==
  ASSUME TypeOK, SampleInv, NEW t \in Threads,
         UNCHANGED <<call, offered>>,
         \A u \in Threads \ {t} : pc'[u] = pc[u],
         Offers(t)' => Offers(t),
         \A s \in Sites :
           /\ Settled(s)' \subseteq Settled(s) \cup
                {v \in {call[t].sample} :
                   Offers(t) /\ ~ Offers(t)' /\ s = call[t].site}
           /\ IsInjective(buf'[s])
  PROVE  SampleInv'
<1>1. \A u \in Threads : Offers(u)' => Offers(u)
  BY DEF Offers
<1>2. \A u \in Threads : call[u].site \in Sites
  BY DEF TypeOK
<1>3. \A s \in Sites : Settled(s)' \subseteq offered'[s]
  BY DEF SampleInv
<1>4. ASSUME NEW u \in Threads, Offers(u)'
      PROVE  call'[u].sample \in offered'[call'[u].site] \ Settled(call[u].site)'
  <2>1. call[u].sample \in offered[call[u].site] \ Settled(call[u].site)
    BY <1>1, <1>4 DEF SampleInv
  <2>2. Settled(call[u].site)' \subseteq Settled(call[u].site) \cup
          {v \in {call[t].sample} :
             Offers(t) /\ ~ Offers(t)' /\ call[u].site = call[t].site}
    BY <1>2
  <2>3. Offers(t) /\ ~ Offers(t)' /\ call[u].site = call[t].site
          => call[u].sample # call[t].sample
    BY <1>1, <1>4 DEF SampleInv
  <2>4. call[u].sample \notin Settled(call[u].site)'
    BY <2>1, <2>2, <2>3
  <2> QED
    BY <2>1, <2>4
<1> QED
  BY <1>1, <1>3, <1>4 DEF SampleInv

\* A step that offers a fresh sample.
LEMMA SampleInvBegins ==
  ASSUME TypeOK, SampleInv, NEW t \in Threads, NEW s \in Sites, NEW v \in Samples,
         Fresh(v), UNCHANGED <<buf, dropped>>,
         \A u \in Threads \ {t} : pc'[u] = pc[u] /\ call'[u] = call[u],
         call'[t].site = s, call'[t].sample = v,
         offered' = [offered EXCEPT ![s] = @ \cup {v}]
  PROVE  SampleInv'
<1>1. \A r \in Sites : Settled(r)' = Settled(r)
  BY DEF Settled
<1>2. \A r \in Sites : offered'[r] = IF r = s THEN offered[r] \cup {v} ELSE offered[r]
  BY DEF TypeOK
<1>3. \A r \in Sites : v \notin offered[r] /\ v \notin Settled(r)
  BY DEF Fresh, SampleInv
<1>4. \A u \in Threads : call[u].site \in Sites
  BY DEF TypeOK
<1>5. \A u \in Threads \ {t} :
        Offers(u)' => /\ Offers(u)
                      /\ call'[u].sample \in offered[call[u].site]
                                               \ Settled(call[u].site)
  BY DEF Offers, SampleInv
<1>6. \A u \in Threads \ {t} : Offers(u)' => call'[u].sample # v
  BY <1>3, <1>4, <1>5
<1>7. \A u \in Threads :
        Offers(u)' => call'[u].sample \in offered'[call'[u].site]
                                            \ Settled(call[u].site)'
  BY <1>1, <1>2, <1>3, <1>4, <1>5
<1>8. \A r \in Sites : Settled(r)' \subseteq offered'[r] /\ IsInjective(buf'[r])
  BY <1>1, <1>2 DEF SampleInv
<1>9. \A u, w \in Threads :
        u # w /\ Offers(u)' /\ Offers(w)' /\ call'[u].site = call'[w].site
          => call'[u].sample # call'[w].sample
  <2> TAKE u, w \in Threads
  <2>1. CASE u = t \/ w = t
    BY <1>6, <2>1
  <2>2. CASE u # t /\ w # t
    BY <1>5, <2>2 DEF SampleInv
  <2> QED BY <2>1, <2>2
<1> QED
  BY <1>7, <1>8, <1>9 DEF SampleInv

\* Every step keeps the samples where they belong.
LEMMA SampleInvStep ==
  TypeOK /\ EntryInv /\ SampleInv /\ [Next]_vars => SampleInv'
<1> SUFFICES ASSUME TypeOK, EntryInv, SampleInv, [Next]_vars PROVE SampleInv'
  OBVIOUS
<1> USE RegistryAssumption
<1>0. \A s \in Sites : IsInjective(buf[s])
  BY DEF SampleInv
<1>1. ASSUME NEW t \in Threads, NEW s \in Sites, NEW n \in Names,
             RecordCreation(t, s, n)
      PROVE  SampleInv'
  <2>1. /\ UNCHANGED <<buf, dropped, offered>>
        /\ \A u \in Threads \ {t} : pc'[u] = pc[u] /\ call'[u] = call[u]
        /\ ~ Offers(t)'
    BY <1>1 DEF RecordCreation, TypeOK, Offers
  <2>2. \A r \in Sites : Settled(r)' = Settled(r)
    BY <2>1 DEF Settled
  <2>3. \A u \in Threads : Offers(u)' => Offers(u) /\ call'[u] = call[u]
    BY <2>1 DEF Offers
  <2>4. \A u \in Threads : call[u].site \in Sites
    BY DEF TypeOK
  <2> QED
    BY <2>1, <2>2, <2>3, <2>4 DEF SampleInv
<1>2. ASSUME NEW t \in Threads, NEW s \in Sites, NEW n \in Names,
             NEW v \in Samples, RecordInitial(t, s, n, v)
      PROVE  SampleInv'
  BY <1>2, SampleInvBegins DEF RecordInitial, TypeOK
<1>3. ASSUME NEW t \in Threads, NEW s \in Sites, NEW v \in Samples,
             RecordSample(t, s, v)
      PROVE  SampleInv'
  BY <1>3, SampleInvBegins DEF RecordSample, TypeOK
<1>4. ASSUME NEW t \in Threads,
             CountCreation(t) \/ GetMiss(t) \/ Insert(t) \/ GetEntry(t)
               \/ FetchAdd(t)
      PROVE  SampleInv'
  <2>1. UNCHANGED <<call, offered, dropped>>
    BY <1>4 DEF CountCreation, GetMiss, Insert, GetEntry, FetchAdd
  <2>2. buf' = buf
    BY <1>4 DEF CountCreation, GetMiss, Insert, GetEntry, FetchAdd, NewCapStats,
                EntryInv, TypeOK
  <2>3. \A u \in Threads \ {t} : pc'[u] = pc[u]
    BY <1>4 DEF CountCreation, GetMiss, Insert, GetEntry, FetchAdd, TypeOK
  <2>4. Offers(t)' => Offers(t)
    BY <1>4 DEF CountCreation, GetMiss, Insert, GetEntry, FetchAdd, Offers
  <2>5. \A s \in Sites : Settled(s)' = Settled(s)
    BY <2>1, <2>2 DEF Settled
  <2> QED
    BY <1>0, <2>1, <2>2, <2>3, <2>4, <2>5, SampleInvFrame
<1>5. ASSUME NEW t \in Threads, Orphan(t)
      PROVE  SampleInv'
  <2>1. /\ UNCHANGED <<call, offered, buf>>
        /\ \A u \in Threads \ {t} : pc'[u] = pc[u]
        /\ Offers(t) /\ ~ Offers(t)'
    BY <1>5 DEF Orphan, Offers, TypeOK
  <2>2. \A s \in Sites :
          dropped'[s] = dropped[s] \cup
                          {v \in {call[t].sample} : s = call[t].site}
    BY <1>5 DEF Orphan, TypeOK
  <2>3. \A s \in Sites : Settled(s)' \subseteq Settled(s) \cup
          {v \in {call[t].sample} :
             Offers(t) /\ ~ Offers(t)' /\ s = call[t].site}
    BY <2>1, <2>2 DEF Settled
  <2> QED
    BY <1>0, <2>1, <2>3, SampleInvFrame
<1>6. ASSUME NEW t \in Threads, Push(t) \/ Replace(t) \/ Discard(t)
      PROVE  SampleInv'
  <2> DEFINE s == call[t].site
             v == call[t].sample
  <2>1. /\ UNCHANGED <<call, offered, dropped>>
        /\ \A u \in Threads \ {t} : pc'[u] = pc[u]
        /\ Offers(t) /\ ~ Offers(t)'
        /\ s \in Sites /\ v \in Samples /\ buf[s] \in Seq(Samples)
        /\ v \notin ToSet(buf[s]) /\ IsInjective(buf[s])
    BY <1>6 DEF Push, Replace, Discard, LeaveEntry, Offers, TypeOK, SampleInv,
                Settled
  <2>2. /\ \A r \in Sites \ {s} : buf'[r] = buf[r]
        /\ ToSet(buf'[s]) \subseteq ToSet(buf[s]) \cup {v}
        /\ IsInjective(buf'[s])
    <3>1. CASE Push(t)
      <4>1. buf'[s] = Append(buf[s], v) /\ \A r \in Sites \ {s} : buf'[r] = buf[r]
        BY <2>1, <3>1 DEF Push, TypeOK
      <4> QED BY <2>1, <4>1, AppendElements
    <3>2. CASE Replace(t)
      <4>1. PICK j \in 0 .. seen[t] :
              j < Cap /\ buf' = [buf EXCEPT ![s][j + 1] = v]
        BY <3>2 DEF Replace
      <4>2. Len(buf[s]) = Cap
        BY <3>2, RegistryAssumption DEF Replace, EntryInv, Lesser, TypeOK
      <4>3. j + 1 \in 1 .. Len(buf[s])
        BY <4>1, <4>2 DEF TypeOK
      <4>4. /\ buf'[s] = [buf[s] EXCEPT ![j + 1] = v]
            /\ \A r \in Sites \ {s} : buf'[r] = buf[r]
        BY <2>1, <4>1 DEF TypeOK
      <4>5. /\ ToSet([buf[s] EXCEPT ![j + 1] = v])
                  = (ToSet(buf[s]) \cup {v}) \ {buf[s][j + 1]}
            /\ IsInjective([buf[s] EXCEPT ![j + 1] = v])
        <5> HIDE DEF s, v
        <5> QED BY <2>1, <4>3, StoreElements
      <4> QED BY <4>4, <4>5
    <3>3. CASE Discard(t)
      BY <2>1, <3>3 DEF Discard
    <3> QED BY <1>6, <3>1, <3>2, <3>3
  <2>3. \A r \in Sites : Settled(r)' \subseteq Settled(r) \cup
          {w \in {v} : Offers(t) /\ ~ Offers(t)' /\ r = s}
    BY <2>1, <2>2 DEF Settled
  <2>4. \A r \in Sites : IsInjective(buf'[r])
    BY <1>0, <2>2
  <2> QED
    BY <2>1, <2>3, <2>4, SampleInvFrame
<1>7. ASSUME NEW d \in Scanners, Scan(d)
      PROVE  SampleInv'
  BY <1>7 DEF Scan, BeginScan, Visit, SampleInv, Settled, Offers
<1>8. CASE UNCHANGED vars
  BY <1>8 DEF vars, SampleInv, Settled, Offers
<1> QED
  BY <1>1, <1>2, <1>3, <1>4, <1>5, <1>6, <1>7, <1>8 DEF Next, Call, Step

\* No sample is stored twice, and none is settled while its call is under way,
\* whichever calls and races there are.
THEOREM SampleInvHolds == Spec => []SampleInv
<1>1. Init => SampleInv
  BY DEF Init, SampleInv, Settled, Offers, ToSet, IsInjective
<1> QED
  BY <1>1, SampleInvStep, TypeCorrect, EntryInvHolds, PTL DEF Spec

-----------------------------------------------------------------------------
\* The offers of a site are finite, and observed, lost or on their way.
ObservationInv ==
  ObservationExactlyOnce /\ \A s \in Sites : IsFiniteSet(offered[s])

\* A step that moves nobody to or from a ticket, and loses nothing.
LEMMA ObservationFrame ==
  ASSUME ObservationInv, UNCHANGED <<seenCount, offered, dropped>>,
         \A s \in Sites : Offering(s)' = Offering(s)
  PROVE  ObservationInv'
BY DEF ObservationInv, ObservationExactlyOnce

\* The sets that are counted are finite.
LEMMA OffersFinite ==
  ASSUME TypeOK, SampleInv, ObservationInv, NEW s \in Sites
  PROVE  /\ IsFiniteSet(offered[s]) /\ Cardinality(offered[s]) \in Nat
         /\ IsFiniteSet(dropped[s]) /\ Cardinality(dropped[s]) \in Nat
         /\ IsFiniteSet(Offering(s)) /\ Cardinality(Offering(s)) \in Nat
<1>1. dropped[s] \subseteq offered[s]
  BY DEF SampleInv, Settled
<1>2. Offering(s) \subseteq Threads
  BY DEF Offering
<1> QED
  BY <1>1, <1>2, RegistryAssumption, FS_Subset, FS_CardinalityType
     DEF ObservationInv

\* A sample is offered: one more offer, one more on its way.
LEMMA ObservationBegins ==
  ASSUME TypeOK, SampleInv, ObservationInv,
         NEW t \in Threads, NEW s \in Sites, NEW v \in Samples,
         pc[t] = "idle", Fresh(v), UNCHANGED <<seenCount, dropped>>,
         \A u \in Threads \ {t} : pc'[u] = pc[u] /\ call'[u] = call[u],
         pc'[t] \in {"get", "sample"}, call'[t].site = s, call'[t].sample = v,
         offered' = [offered EXCEPT ![s] = @ \cup {v}]
  PROVE  ObservationInv'
<1> USE RegistryAssumption
<1>1. \A r \in Sites \ {s} : Offering(r)' = Offering(r)
  BY DEF Offering
<1>2. Offering(s)' = Offering(s) \cup {t} /\ t \notin Offering(s)
  BY DEF Offering
<1>3. /\ Cardinality(offered[s]) \in Nat /\ Cardinality(Offering(s)) \in Nat
      /\ IsFiniteSet(offered[s]) /\ IsFiniteSet(Offering(s))
      /\ Cardinality(dropped[s]) \in Nat
  BY OffersFinite
<1>4. Cardinality(Offering(s)') = Cardinality(Offering(s)) + 1
  <2>1. Cardinality(Offering(s) \cup {t}) = Cardinality(Offering(s)) + 1
    BY <1>2, <1>3, FS_AddElement
  <2> QED BY <1>2, <2>1
<1>5. v \notin offered[s]
  BY DEF Fresh
<1>6. /\ Cardinality(offered[s] \cup {v}) = Cardinality(offered[s]) + 1
      /\ IsFiniteSet(offered[s] \cup {v})
  BY <1>3, <1>5, FS_AddElement
<1>7. \A r \in Sites :
        offered'[r] = IF r = s THEN offered[r] \cup {v} ELSE offered[r]
  BY DEF TypeOK
<1>8. \A r \in Sites : IsFiniteSet(offered'[r])
  BY <1>6, <1>7 DEF ObservationInv
<1>9. ASSUME NEW r \in Sites
      PROVE  Cardinality(offered'[r]) =
               seenCount'[r] + Cardinality(dropped'[r]) + Cardinality(Offering(r)')
  <2>1. Cardinality(offered[r]) =
          seenCount[r] + Cardinality(dropped[r]) + Cardinality(Offering(r))
    BY DEF ObservationInv, ObservationExactlyOnce
  <2>2. CASE r # s
    BY <1>1, <1>7, <2>1, <2>2
  <2>3. CASE r = s
    <3>1. Cardinality(offered'[s]) = Cardinality(offered[s]) + 1
      BY <1>6, <1>7
    <3>2. seenCount[s] \in Nat
      BY DEF TypeOK
    <3> QED
      BY <1>3, <1>4, <2>1, <2>3, <3>1, <3>2
  <2> QED BY <2>2, <2>3
<1> QED
  BY <1>8, <1>9 DEF ObservationInv, ObservationExactlyOnce

\* The thread that draws a ticket, or meets no entry, was offering.
LEMMA OfferingEnds ==
  ASSUME TypeOK, SampleInv, ObservationInv, NEW t \in Threads,
         pc[t] \in {"sample", "entered"}, UNCHANGED call,
         \A u \in Threads \ {t} : pc'[u] = pc[u],
         pc'[t] \in {"idle", "ticketed"}
  PROVE  /\ \A r \in Sites \ {call[t].site} : Offering(r)' = Offering(r)
         /\ Cardinality(Offering(call[t].site)')
              = Cardinality(Offering(call[t].site)) - 1
<1> USE RegistryAssumption
<1> DEFINE s == call[t].site
<1>1. s \in Sites /\ call[t].sample # NoSample
  BY DEF TypeOK
<1>2. \A r \in Sites \ {s} : Offering(r)' = Offering(r)
  BY DEF Offering
<1>3. Offering(s)' = Offering(s) \ {t} /\ t \in Offering(s)
  BY <1>1 DEF Offering
<1>4. IsFiniteSet(Offering(s))
  BY <1>1, OffersFinite
<1>5. Cardinality(Offering(s) \ {t}) = Cardinality(Offering(s)) - 1
  BY <1>3, <1>4, FS_RemoveElement
<1> QED
  BY <1>2, <1>3, <1>5

\* Every step counts each offered sample once.
LEMMA ObservationStep ==
  TypeOK /\ EntryInv /\ SampleInv /\ ObservationInv /\ [Next]_vars
    => ObservationInv'
<1> SUFFICES ASSUME TypeOK, EntryInv, SampleInv, ObservationInv, [Next]_vars
             PROVE  ObservationInv'
  OBVIOUS
<1> USE RegistryAssumption
<1>1. ASSUME NEW t \in Threads, NEW s \in Sites, NEW n \in Names,
             RecordCreation(t, s, n)
      PROVE  ObservationInv'
  <2>1. \A r \in Sites : Offering(r)' = Offering(r)
    BY <1>1 DEF RecordCreation, Offering, TypeOK
  <2> QED
    BY <1>1, <2>1, ObservationFrame DEF RecordCreation
<1>2. ASSUME NEW t \in Threads, NEW s \in Sites, NEW n \in Names,
             NEW v \in Samples, RecordInitial(t, s, n, v)
      PROVE  ObservationInv'
  BY <1>2, ObservationBegins DEF RecordInitial, TypeOK
<1>3. ASSUME NEW t \in Threads, NEW s \in Sites, NEW v \in Samples,
             RecordSample(t, s, v)
      PROVE  ObservationInv'
  BY <1>3, ObservationBegins DEF RecordSample, TypeOK
<1>4. ASSUME NEW t \in Threads,
             CountCreation(t) \/ GetMiss(t) \/ Insert(t) \/ GetEntry(t)
               \/ Push(t) \/ Replace(t) \/ Discard(t)
      PROVE  ObservationInv'
  <2>1. \A r \in Sites : Offering(r)' = Offering(r)
    BY <1>4 DEF CountCreation, GetMiss, Insert, GetEntry, Push, Replace,
                Discard, LeaveEntry, Offering, TypeOK
  <2>2. UNCHANGED <<offered, dropped>>
    BY <1>4 DEF CountCreation, GetMiss, Insert, GetEntry, Push, Replace,
                Discard, LeaveEntry
  <2>3. seenCount' = seenCount
    BY <1>4 DEF CountCreation, GetMiss, Insert, GetEntry, Push, Replace,
                Discard, LeaveEntry, NewCapStats, EntryInv, TypeOK
  <2> QED
    BY <2>1, <2>2, <2>3, ObservationFrame
<1>5. ASSUME NEW t \in Threads, Orphan(t)
      PROVE  ObservationInv'
  <2> DEFINE s == call[t].site
             v == call[t].sample
  <2>1. /\ UNCHANGED <<call, seenCount, offered>>
        /\ \A u \in Threads \ {t} : pc'[u] = pc[u]
        /\ pc[t] = "sample" /\ pc'[t] = "idle"
        /\ s \in Sites
        /\ \A r \in Sites :
             dropped'[r] = IF r = s THEN dropped[r] \cup {v} ELSE dropped[r]
    BY <1>5 DEF Orphan, TypeOK
  <2>2. v \notin dropped[s]
    <3>1. Offers(t)
      BY <2>1 DEF Offers, TypeOK
    <3> QED
      BY <2>1, <3>1 DEF SampleInv, Settled
  <2>3. /\ IsFiniteSet(dropped[s]) /\ Cardinality(dropped[s]) \in Nat
        /\ Cardinality(Offering(s)) \in Nat
    BY <2>1, OffersFinite
  <2>4. Cardinality(dropped'[s]) = Cardinality(dropped[s]) + 1
    <3>1. Cardinality(dropped[s] \cup {v}) = Cardinality(dropped[s]) + 1
      BY <2>2, <2>3, FS_AddElement
    <3> QED BY <2>1, <3>1
  <2>5. /\ \A r \in Sites \ {s} : Offering(r)' = Offering(r)
        /\ Cardinality(Offering(s)') = Cardinality(Offering(s)) - 1
    BY <2>1, OfferingEnds
  <2>6. ASSUME NEW r \in Sites
        PROVE  Cardinality(offered'[r]) =
               seenCount'[r] + Cardinality(dropped'[r]) + Cardinality(Offering(r)')
    <3>1. /\ Cardinality(offered[r]) =
             seenCount[r] + Cardinality(dropped[r]) + Cardinality(Offering(r))
          /\ seenCount[r] \in Nat
      BY DEF ObservationInv, ObservationExactlyOnce, TypeOK
    <3>2. CASE r # s
      BY <2>1, <2>5, <3>1, <3>2
    <3>3. CASE r = s
      BY <2>1, <2>3, <2>4, <2>5, <3>1, <3>3
    <3> QED BY <3>2, <3>3
  <2> QED
    BY <2>1, <2>6 DEF ObservationInv, ObservationExactlyOnce
<1>6. ASSUME NEW t \in Threads, FetchAdd(t)
      PROVE  ObservationInv'
  <2> DEFINE s == call[t].site
  <2>1. /\ UNCHANGED <<call, offered, dropped>>
        /\ \A u \in Threads \ {t} : pc'[u] = pc[u]
        /\ pc[t] = "entered" /\ pc'[t] = "ticketed"
        /\ s \in Sites
        /\ \A r \in Sites :
             seenCount'[r] = IF r = s THEN seenCount[r] + 1 ELSE seenCount[r]
    BY <1>6 DEF FetchAdd, TypeOK
  <2>2. /\ Cardinality(dropped[s]) \in Nat
        /\ Cardinality(Offering(s)) \in Nat
    BY <2>1, OffersFinite
  <2>3. /\ \A r \in Sites \ {s} : Offering(r)' = Offering(r)
        /\ Cardinality(Offering(s)') = Cardinality(Offering(s)) - 1
    BY <2>1, OfferingEnds
  <2>4. ASSUME NEW r \in Sites
        PROVE  Cardinality(offered'[r]) =
               seenCount'[r] + Cardinality(dropped'[r]) + Cardinality(Offering(r)')
    <3>1. /\ Cardinality(offered[r]) =
             seenCount[r] + Cardinality(dropped[r]) + Cardinality(Offering(r))
          /\ seenCount[r] \in Nat
      BY DEF ObservationInv, ObservationExactlyOnce, TypeOK
    <3>2. CASE r # s
      BY <2>1, <2>3, <3>1, <3>2
    <3>3. CASE r = s
      BY <2>1, <2>2, <2>3, <3>1, <3>3
    <3> QED BY <3>2, <3>3
  <2> QED
    BY <2>1, <2>4 DEF ObservationInv, ObservationExactlyOnce
<1>7. ASSUME NEW d \in Scanners, Scan(d)
      PROVE  ObservationInv'
  BY <1>7, ObservationFrame DEF Scan, BeginScan, Visit, Offering
<1>8. CASE UNCHANGED vars
  BY <1>8, ObservationFrame DEF vars, Offering
<1> QED
  BY <1>1, <1>2, <1>3, <1>4, <1>5, <1>6, <1>7, <1>8 DEF Next, Call, Step

\* registry.rs:45-46: however calls interleave, each offered sample is counted
\* by total_observed once, or was an orphan, or is still on its way.
THEOREM ObservationExactlyOnceHolds == Spec => []ObservationExactlyOnce
<1>1. Init => ObservationInv
  <2> SUFFICES ASSUME Init PROVE ObservationInv
    OBVIOUS
  <2>1. ASSUME NEW s \in Sites
        PROVE  /\ offered[s] = {} /\ dropped[s] = {} /\ Offering(s) = {}
               /\ seenCount[s] = 0
    BY DEF Init, Offering
  <2>2. Cardinality({}) = 0 /\ IsFiniteSet({})
    BY FS_EmptySet
  <2> QED
    BY <2>1, <2>2, 0 = 0 + 0 + 0 DEF ObservationInv, ObservationExactlyOnce
<1>2. ObservationInv => ObservationExactlyOnce
  BY DEF ObservationInv
<1> QED
  BY <1>1, <1>2, ObservationStep, TypeCorrect, EntryInvHolds, SampleInvHolds,
     PTL DEF Spec

-----------------------------------------------------------------------------
\* Between two records a site's abstract count is its counter; a ticket that
\* has not been redeemed does not count.
Observations(s) == IF Ticketed(s) THEN seenCount[s] - 1 ELSE seenCount[s]

\* A step that the abstract site statistics do not see.
LEMMA Stutters ==
  ASSUME UNCHANGED <<name, creationCount, seenCount, buf>>,
         \A s \in Sites : Ticketed(s)' = Ticketed(s)
  PROVE  UNCHANGED Abstract!vars
BY DEF Abstract!vars

\* A record that is stored or passed over is one abstract observation.
LEMMA RecordObserves ==
  ASSUME TypeOK, EntryInv, SampleInv, NEW t \in Threads,
         Push(t) \/ Replace(t) \/ Discard(t)
  PROVE  Abstract!Observe(call[t].site, call[t].sample)
<1> USE RegistryAssumption
<1> DEFINE s == call[t].site
           v == call[t].sample
<1>1. /\ s \in Sites /\ v \in Samples /\ Registered(s)
      /\ pc[t] = "ticketed" /\ seenCount[s] = seen[t] + 1 /\ seen[t] \in Nat
      /\ Len(buf[s]) = Lesser(seen[t], Cap)
      /\ v \notin ToSet(buf[s]) /\ IsInjective(buf[s])
      /\ buf[s] \in Seq(Samples)
  <2>1. pc[t] = "ticketed"
    BY DEF Push, Replace, Discard
  <2>2. s \in Sites /\ v \in Samples /\ seen[t] \in Nat /\ buf[s] \in Seq(Samples)
    BY <2>1 DEF TypeOK
  <2>3. /\ Registered(s) /\ seenCount[s] = seen[t] + 1
        /\ Len(buf[s]) = Lesser(seen[t], Cap)
    BY <2>1, <2>2 DEF EntryInv
  <2>4. Offers(t)
    BY <2>1, <2>2 DEF Offers
  <2>5. v \notin ToSet(buf[s]) /\ IsInjective(buf[s])
    BY <2>2, <2>4 DEF SampleInv, Settled
  <2> QED BY <2>1, <2>2, <2>3, <2>5
<1>2. \A u \in Threads : pc[u] = "ticketed" /\ call[u].site = s => u = t
  BY <1>1 DEF EntryInv
<1>3. /\ UNCHANGED <<call, name, creationCount, seenCount>>
      /\ pc' = [pc EXCEPT ![t] = "idle"]
  BY DEF Push, Replace, Discard, LeaveEntry
<1>4. Ticketed(s) /\ ~ Ticketed(s)'
  BY <1>1, <1>2, <1>3 DEF Ticketed, TypeOK
<1>5. \A r \in Sites \ {s} : Ticketed(r)' = Ticketed(r)
  BY <1>1, <1>3 DEF Ticketed, TypeOK
<1>6. /\ Observations(s) = seen[t]
      /\ [r \in Sites |-> Observations(r)]'
           = [[r \in Sites |-> Observations(r)] EXCEPT ![s] = @ + 1]
  BY <1>1, <1>3, <1>4, <1>5 DEF Observations
<1>7. \/ /\ seen[t] < Cap
         /\ [r \in Sites |-> ToSet(buf[r])]'
              = [[r \in Sites |-> ToSet(buf[r])] EXCEPT ![s] = @ \cup {v}]
      \/ /\ seen[t] >= Cap
         /\ \E out \in ToSet(buf[s]) \cup {v} :
              [r \in Sites |-> ToSet(buf[r])]'
                = [[r \in Sites |-> ToSet(buf[r])] EXCEPT ![s] = (@ \cup {v}) \ {out}]
  <2>1. CASE Push(t)
    <3>1. seen[t] < Cap /\ buf' = [buf EXCEPT ![s] = Append(@, v)]
      BY <2>1 DEF Push
    <3>2. ToSet(Append(buf[s], v)) = ToSet(buf[s]) \cup {v}
      BY <1>1, AppendElements
    <3> QED
      BY <1>1, <3>1, <3>2 DEF TypeOK
  <2>2. CASE Replace(t)
    <3>1. PICK j \in 0 .. seen[t] :
            j < Cap /\ buf' = [buf EXCEPT ![s][j + 1] = v]
      BY <2>2 DEF Replace
    <3>2. seen[t] >= Cap /\ j + 1 \in 1 .. Len(buf[s])
      BY <1>1, <2>2, <3>1 DEF Replace, Lesser
    <3>3. ToSet([buf[s] EXCEPT ![j + 1] = v])
            = (ToSet(buf[s]) \cup {v}) \ {buf[s][j + 1]}
      <4> HIDE DEF s, v
      <4> QED BY <1>1, <3>2, StoreElements
    <3>4. buf[s][j + 1] \in ToSet(buf[s])
      BY <1>1, <3>2 DEF ToSet
    <3>5. /\ buf'[s] = [buf[s] EXCEPT ![j + 1] = v]
          /\ \A r \in Sites \ {s} : buf'[r] = buf[r]
      BY <1>1, <3>1 DEF TypeOK
    <3>6. [r \in Sites |-> ToSet(buf[r])]'
            = [[r \in Sites |-> ToSet(buf[r])]
                 EXCEPT ![s] = (@ \cup {v}) \ {buf[s][j + 1]}]
      BY <1>1, <3>3, <3>5
    <3> QED
      BY <1>1, <3>2, <3>4, <3>6
  <2>3. CASE Discard(t)
    <3>1. seen[t] >= Cap /\ buf' = buf
      BY <2>3 DEF Discard
    <3>2. (ToSet(buf[s]) \cup {v}) \ {v} = ToSet(buf[s])
      BY <1>1
    <3> QED
      BY <1>1, <3>1, <3>2
  <2> QED BY <2>1, <2>2, <2>3
<1> QED
  BY <1>1, <1>3, <1>6, <1>7 DEF Abstract!Observe, Abstract!Registered, Observations

\* Every step of the registry is a step of one site's statistics, or none.
LEMMA StepIsAbstract ==
  TypeOK /\ EntryInv /\ SampleInv /\ [Next]_vars
    => [Abstract!Next]_(Abstract!vars)
<1> SUFFICES ASSUME TypeOK, EntryInv, SampleInv, [Next]_vars
             PROVE  Abstract!Next \/ UNCHANGED Abstract!vars
  OBVIOUS
<1> USE RegistryAssumption
<1>1. ASSUME NEW t \in Threads, Call(t)
      PROVE  UNCHANGED Abstract!vars
  <2>1. \A s \in Sites : Ticketed(s)' = Ticketed(s)
    BY <1>1 DEF Call, RecordCreation, RecordInitial, RecordSample, Ticketed,
                TypeOK
  <2> QED
    BY <1>1, <2>1, Stutters DEF Call, RecordCreation, RecordInitial, RecordSample
<1>2. ASSUME NEW t \in Threads, GetMiss(t) \/ GetEntry(t) \/ Orphan(t)
      PROVE  UNCHANGED Abstract!vars
  <2>1. \A s \in Sites : Ticketed(s)' = Ticketed(s)
    BY <1>2 DEF GetMiss, GetEntry, Orphan, Ticketed, TypeOK
  <2> QED
    BY <1>2, <2>1, Stutters DEF GetMiss, GetEntry, Orphan
<1>3. ASSUME NEW t \in Threads, CountCreation(t)
      PROVE  Abstract!Create(call[t].site) /\ call[t].site \in Sites
  <2>1. \A s \in Sites : Ticketed(s)' = Ticketed(s)
    BY <1>3 DEF CountCreation, Ticketed, TypeOK
  <2> QED
    BY <1>3, <2>1 DEF CountCreation, Abstract!Create, Abstract!Registered, TypeOK
<1>4. ASSUME NEW t \in Threads, Insert(t)
      PROVE  \/ UNCHANGED Abstract!vars
             \/ /\ Abstract!Register(call[t].site, call[t].name)
                /\ call[t].site \in Sites /\ call[t].name \in Names
  <2>1. \A s \in Sites : Ticketed(s)' = Ticketed(s)
    BY <1>4 DEF Insert, Ticketed, TypeOK
  <2>2. UNCHANGED <<creationCount, seenCount, buf>>
    BY <1>4 DEF Insert, NewCapStats, EntryInv, TypeOK
  <2>3. CASE name' = name
    BY <2>1, <2>2, <2>3, Stutters
  <2>4. CASE name' # name
    BY <1>4, <2>1, <2>2, <2>4
       DEF Insert, NewCapStats, Abstract!Register, Abstract!Registered, TypeOK
  <2> QED BY <2>3, <2>4
<1>5. ASSUME NEW t \in Threads, FetchAdd(t)
      PROVE  UNCHANGED Abstract!vars
  <2> DEFINE s == call[t].site
  <2>1. s \in Sites /\ entryLock[s] = t /\ pc[t] = "entered"
    BY <1>5 DEF FetchAdd, EntryInv, TypeOK
  <2>2. ~ Ticketed(s)
    BY <2>1 DEF EntryInv, Ticketed
  <2>3. Ticketed(s)' /\ \A r \in Sites \ {s} : Ticketed(r)' = Ticketed(r)
    BY <1>5, <2>1 DEF FetchAdd, Ticketed, TypeOK
  <2>4. \A r \in Sites : Observations(r)' = Observations(r)
    BY <1>5, <2>1, <2>2, <2>3 DEF FetchAdd, Observations, TypeOK
  <2> QED
    BY <1>5, <2>4 DEF FetchAdd, Abstract!vars, Observations
<1>6. ASSUME NEW t \in Threads, Push(t) \/ Replace(t) \/ Discard(t)
      PROVE  /\ Abstract!Observe(call[t].site, call[t].sample)
             /\ call[t].site \in Sites /\ call[t].sample \in Samples
  BY <1>6, RecordObserves DEF Push, Replace, Discard, TypeOK
<1>7. ASSUME NEW d \in Scanners, Scan(d)
      PROVE  UNCHANGED Abstract!vars
  BY <1>7, Stutters DEF Scan, BeginScan, Visit, Ticketed
<1>8. CASE UNCHANGED vars
  BY <1>8, Stutters DEF vars, Ticketed
<1>9. ASSUME NEW t \in Threads, Step(t)
      PROVE  Abstract!Next \/ UNCHANGED Abstract!vars
  <2>1. CASE CountCreation(t)
    BY <1>3, <2>1 DEF Abstract!Next
  <2>2. CASE Insert(t)
    BY <1>4, <2>2 DEF Abstract!Next
  <2>3. CASE Push(t) \/ Replace(t) \/ Discard(t)
    <3>1. /\ Abstract!Observe(call[t].site, call[t].sample)
          /\ call[t].site \in Sites /\ call[t].sample \in Samples
      BY <1>6, <2>3
    <3>2. \E v \in Samples : Abstract!Observe(call[t].site, v)
      BY <3>1 DEF Abstract!Observe
    <3> QED
      BY <3>1, <3>2 DEF Abstract!Next
  <2> QED
    BY <1>2, <1>5, <1>9, <2>1, <2>2, <2>3 DEF Step
<1> QED
  BY <1>1, <1>7, <1>8, <1>9 DEF Next

\* The registry, with its map, its locks and its races, does for each site what
\* four atomic updates would do: ImplementsSiteStats.
THEOREM RegistryImplementsSiteStats == Spec => ImplementsSiteStats
<1>1. Init => Abstract!Init
  BY DEF Init, Abstract!Init, Ticketed, ToSet
<1> QED
  BY <1>1, StepIsAbstract, TypeCorrect, EntryInvHolds, SampleInvHolds, PTL
     DEF Spec, ImplementsSiteStats, Abstract!Spec
=============================================================================
