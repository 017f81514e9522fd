------------------------------ MODULE Reservoir ------------------------------
(***************************************************************************)
(* One captrack sample reservoir (src/src/reservoir.rs) shared directly by *)
(* several threads, and the reader that serialises it                      *)
(* (src/src/dump.rs, entry_from).                                          *)
(*                                                                         *)
(* `record` draws a ticket from the atomic `seen_count` and only then      *)
(* takes the mutex of `buf`, so tickets and critical sections may be       *)
(* ordered differently.  The model keeps these two steps apart.            *)
(*                                                                         *)
(* A sample is an identity, not a number: no branch of `record` looks at   *)
(* the value it stores.  Each sample is offered once, which bounds a run   *)
(* by Cardinality(Samples) calls.  The random slot of Algorithm R is a     *)
(* nondeterministic one.  A panic inside the critical section poisons the  *)
(* mutex; record and snapshot both recover the guard of a poisoned one.    *)
(***************************************************************************)
EXTENDS Naturals, Sequences, FiniteSets, SequencesExt

CONSTANTS
  Threads,   \* callers of record
  Readers,   \* callers of entry_from
  Samples,   \* the values offered, each by one call
  Cap,       \* CAPTRACK_SAMPLE_CAP: the most samples the reservoir keeps
  NoThread,  \* holder of a free mutex
  NoSample   \* argument register of a thread that never called record

\* env_cap discards a zero, and falls back to a positive default.
ASSUME ReservoirAssumption ==
  /\ Cap \in Nat \ {0}
  /\ IsFiniteSet(Threads)
  /\ NoThread \notin Threads
  /\ NoSample \notin Samples

VARIABLES
  buf,        \* the retained samples
  seenCount,  \* seen_count
  holder,     \* thread inside the critical section of buf's mutex
  poisoned,   \* a thread has panicked inside it
  pc,         \* where each recording thread is
  value,      \* argument of each thread's current call
  seen,       \* ticket of each thread's current call
  rpc,        \* where each reader is
  snap,       \* samples field of each reader's entry
  total,      \* total_observed field of each reader's entry
  offered     \* history: the samples passed to record so far

recorderVars == <<pc, value, seen, offered>>
readerVars   == <<rpc, snap, total>>
vars == <<buf, seenCount, holder, poisoned, recorderVars, readerVars>>

Lesser(a, b) == IF a <= b THEN a ELSE b

(***************************************************************************)
(* record                                                                  *)
(***************************************************************************)

\* Slip: the ticket is read as the count after the call instead of before it.
FetchAddAfter(t, v) ==
  /\ pc[t] = "idle"
  /\ v \notin offered
  /\ offered' = offered \cup {v}
  /\ seen' = [seen EXCEPT ![t] = seenCount + 1]
  /\ seenCount' = seenCount + 1
  /\ value' = [value EXCEPT ![t] = v]
  /\ pc' = [pc EXCEPT ![t] = "claimed"]
  /\ UNCHANGED <<buf, holder, poisoned, readerVars>>

\* Draw the ticket: fetch_add, before the mutex is taken.
FetchAdd(t, v) ==
  /\ pc[t] = "idle"
  /\ v \notin offered
  /\ offered' = offered \cup {v}
  /\ seen' = [seen EXCEPT ![t] = seenCount]
  /\ seenCount' = seenCount + 1
  /\ value' = [value EXCEPT ![t] = v]
  /\ pc' = [pc EXCEPT ![t] = "claimed"]
  /\ UNCHANGED <<buf, holder, poisoned, readerVars>>

\* Slip: the result of lock() is unwrapped, so that a poisoned mutex makes
\* the caller panic in its turn.
LockUnwrapped(t) ==
  /\ pc[t] = "claimed"
  /\ holder = NoThread
  /\ holder' = IF poisoned THEN NoThread ELSE t
  /\ pc' = [pc EXCEPT ![t] = IF poisoned THEN "panicked" ELSE "locked"]
  /\ UNCHANGED <<buf, seenCount, poisoned, value, seen, offered, readerVars>>

\* The guard of a poisoned mutex is recovered (into_inner), so only a held
\* one keeps the caller out.
Lock(t) ==
  /\ pc[t] = "claimed"
  /\ holder = NoThread
  /\ holder' = t
  /\ pc' = [pc EXCEPT ![t] = "locked"]
  /\ UNCHANGED <<buf, seenCount, poisoned, value, seen, offered, readerVars>>

\* Slip: an unwinding thread leaves the mutex locked.
LeaveLocked(t, next) ==
  /\ holder' = IF next = "panicked" THEN t ELSE NoThread
  /\ poisoned' = (poisoned \/ next = "panicked")
  /\ pc' = [pc EXCEPT ![t] = next]
  /\ UNCHANGED <<seenCount, value, seen, offered, readerVars>>

\* The guard is dropped on every way out of record; dropped by a thread
\* that is unwinding it also poisons the mutex.
Leave(t, next) ==
  /\ holder' = NoThread
  /\ poisoned' = (poisoned \/ next = "panicked")
  /\ pc' = [pc EXCEPT ![t] = next]
  /\ UNCHANGED <<seenCount, value, seen, offered, readerVars>>

\* Slip: the ticket is stored in place of the value.
PushTicket(t) ==
  /\ pc[t] = "locked"
  /\ seen[t] < Cap
  /\ buf' = Append(buf, seen[t])
  /\ Leave(t, "idle")

\* The ticket says the reservoir is not yet full.
Push(t) ==
  /\ pc[t] = "locked"
  /\ seen[t] < Cap
  /\ buf' = Append(buf, value[t])
  /\ Leave(t, "idle")

\* The ticket says the reservoir is full, and slot j is hit.
Replace(t) ==
  /\ pc[t] = "locked"
  /\ seen[t] >= Cap
  /\ \E j \in 0 .. seen[t] :
       /\ j < Cap
       /\ j < Len(buf)
       /\ buf' = [buf EXCEPT ![j + 1] = value[t]]
  /\ Leave(t, "idle")

\* The random index misses the reservoir.
Discard(t) ==
  /\ pc[t] = "locked"
  /\ seen[t] >= Cap
  /\ \E j \in 0 .. seen[t] : j >= Cap
  /\ UNCHANGED buf
  /\ Leave(t, "idle")

\* `buf[j]` with j inside the capacity but beyond what has been pushed.
IndexPanic(t) ==
  /\ pc[t] = "locked"
  /\ seen[t] >= Cap
  /\ \E j \in 0 .. seen[t] : j < Cap /\ j >= Len(buf)
  /\ UNCHANGED buf
  /\ Leave(t, "panicked")

(***************************************************************************)
(* entry_from: the snapshot (under the mutex), then the counter (not).     *)
(***************************************************************************)

ReadSamples(r) ==
  /\ holder = NoThread
  /\ snap' = [snap EXCEPT ![r] = buf]
  /\ UNCHANGED total

ReadTotal(r) ==
  /\ total' = [total EXCEPT ![r] = seenCount]
  /\ UNCHANGED snap

\* Slip: the counter is read before the snapshot.
EntryFromReversed(r) ==
  /\ \/ /\ rpc[r] \in {"idle", "reported"}
        /\ ReadTotal(r)
        /\ rpc' = [rpc EXCEPT ![r] = "reading"]
     \/ /\ rpc[r] = "reading"
        /\ ReadSamples(r)
        /\ rpc' = [rpc EXCEPT ![r] = "reported"]
  /\ UNCHANGED <<buf, seenCount, holder, poisoned, recorderVars>>

EntryFrom(r) ==
  /\ \/ /\ rpc[r] \in {"idle", "reported"}
        /\ ReadSamples(r)
        /\ rpc' = [rpc EXCEPT ![r] = "reading"]
     \/ /\ rpc[r] = "reading"
        /\ ReadTotal(r)
        /\ rpc' = [rpc EXCEPT ![r] = "reported"]
  /\ UNCHANGED <<buf, seenCount, holder, poisoned, recorderVars>>

-----------------------------------------------------------------------------
Init ==
  /\ buf = <<>>
  /\ seenCount = 0
  /\ holder = NoThread
  /\ poisoned = FALSE
  /\ pc = [t \in Threads |-> "idle"]
  /\ value = [t \in Threads |-> NoSample]
  /\ seen = [t \in Threads |-> 0]
  /\ rpc = [r \in Readers |-> "idle"]
  /\ snap = [r \in Readers |-> <<>>]
  /\ total = [r \in Readers |-> 0]
  /\ offered = {}

Enter(t) == Push(t) \/ Replace(t) \/ Discard(t) \/ IndexPanic(t)

Next ==
  \/ \E t \in Threads :
       \/ \E v \in Samples : FetchAdd(t, v)
       \/ Lock(t)
       \/ Enter(t)
  \/ \E r \in Readers : EntryFrom(r)

Spec == Init /\ [][Next]_vars

\* The scheduler runs every thread that is inside record.  Nobody has to
\* call record or entry_from, and a call can wait for the mutex only while
\* some other of the finitely many calls is served.
FairSpec == Spec /\ \A t \in Threads : WF_vars(Lock(t)) /\ WF_vars(Enter(t))

-----------------------------------------------------------------------------
\* The values of the variables: registers, program counters, the buffer.
TypeOK ==
  /\ buf \in Seq(Samples)
  /\ seenCount \in Nat
  /\ holder \in Threads \cup {NoThread}
  /\ poisoned \in BOOLEAN
  /\ pc \in [Threads -> {"idle", "claimed", "locked", "panicked"}]
  /\ value \in [Threads -> Samples \cup {NoSample}]
  /\ \A t \in Threads : pc[t] \in {"claimed", "locked"} => value[t] \in Samples
  /\ seen \in [Threads -> Nat]
  /\ rpc \in [Readers -> {"idle", "reading", "reported"}]
  /\ snap \in [Readers -> Seq(Samples)]
  /\ total \in [Readers -> Nat]
  /\ offered \in SUBSET Samples

\* The threads that hold a ticket below the capacity and have not pushed.
Pushing == {t \in Threads : pc[t] \in {"claimed", "locked"} /\ seen[t] < Cap}

\* Each of the first Cap tickets is either already in the buffer or in the
\* hands of a thread that will push it, however the critical sections are
\* reordered against the tickets, and also after another thread panicked
\* inside its own and left the mutex poisoned.
PushAccounting == Len(buf) + Cardinality(Pushing) = Lesser(seenCount, Cap)

\* "Current reservoir - at most cap elements" (reservoir.rs:43).
Bounded == Len(buf) <= Cap

\* "For N <= CAP every sample is stored verbatim (no eviction)"
\* (reservoir.rs:5-6): once no call is under way, a reservoir that was
\* offered at most Cap samples holds each of them exactly once.
VerbatimBelowCap ==
  (seenCount <= Cap /\ \A t \in Threads : pc[t] \in {"idle", "panicked"}) =>
    /\ ToSet(buf) = offered
    /\ Len(buf) = Cardinality(offered)

\* "Always >= samples.len()" (dump.rs:31): an entry never reports fewer
\* observations than samples, because the counter goes up before the push
\* and is read after the snapshot.
TotalCoversSamples ==
  \A r \in Readers : rpc[r] = "reported" => Len(snap[r]) <= total[r]

\* "Thread-safe: `record` may be called from any thread concurrently"
\* (reservoir.rs:41): no call indexes past what has been pushed.
NoIndexPanic == \A t \in Threads : pc[t] # "panicked"

\* A call that drew a ticket gets through the mutex and ends, even after
\* another thread panicked while holding it.
RecordEnds ==
  \A t \in Threads : pc[t] = "claimed" ~> pc[t] \in {"idle", "panicked"}
=============================================================================
