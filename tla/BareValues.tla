------------------------------ MODULE BareValues ------------------------------
(***************************************************************************)
(* A program built without the `telemetry` feature: its collections, which *)
(* captrack's macros create bare (src/src/ctor.rs, the not(telemetry) arms *)
(* of src/src/lib.rs), whose Tracked* types are aliases (aliases.rs) and   *)
(* on which into_inner and cap_inspect_at do nothing.  This is what a      *)
(* program promises to be with telemetry as well.                          *)
(***************************************************************************)
EXTENDS Collections, Naturals

CONSTANTS
  Values,     \* collections
  Sites,      \* construction sites that have been given to captrack
  Hints,      \* capacities a site asks for
  MaxCap,     \* bound: length and capacity of a collection
  Nothing,    \* contents of a value that does not exist
  Elsewhere   \* origin of a collection no captrack macro created

VARIABLES
  expansion,  \* what the text of each site is
  contents    \* [kind, from, len, cap] of each value that exists

\* What a collection is made of.
Contents == [kind : Kinds, from : Sites \cup {Elsewhere}, len : 0..MaxCap, cap : 0..MaxCap]

Live == {v \in Values : contents[v] # Nothing}

\* Capacities an allocation for n elements may get.
Room(k, n) == IF k.capacity = "none" THEN {0} ELSE n..MaxCap

Fresh(k, from, n, c) == [kind |-> k, from |-> from, len |-> n, cap |-> c]

\* with_capacity, or new for a kind that has no buffer.
New(v, s, hint) ==
  /\ v \notin Live
  /\ expansion[s].form # "wrap_from"
  /\ \E c \in Room(expansion[s].kind, hint) :
       contents' = [contents EXCEPT ![v] = Fresh(expansion[s].kind, s, 0, c)]

\* Any other expression that makes a collection.
Collect(v, k, n) ==
  /\ v \notin Live
  /\ \E c \in Room(k, n) : contents' = [contents EXCEPT ![v] = Fresh(k, Elsewhere, n, c)]

\* Bound: collections made elsewhere are of the kinds some site names.
KindsInUse == {expansion[s].kind : s \in Sites}

\* One more element: the buffer grows when it is full.  Below that, a hash
\* table may use the place of a removed element and keep its room.
Insert(v) ==
  /\ v \in Live
  /\ contents[v].len < MaxCap
  /\ LET k == contents[v].kind
         n == contents[v].len + 1
     IN \E c \in Room(k, n) :
          /\ n <= contents[v].cap =>
               IF k.capacity = "current" THEN c >= contents[v].cap ELSE c = contents[v].cap
          /\ contents' = [contents EXCEPT ![v] = [@ EXCEPT !.len = n, !.cap = c]]

\* One element less.  A buffer stays; of what a hash table or a BytesMut has
\* room for, some may go with it, or come back if nothing else is left.
Remove(v) ==
  /\ v \in Live
  /\ contents[v].len > 0
  /\ LET k == contents[v].kind
         n == contents[v].len - 1
     IN \E c \in Room(k, n) :
          /\ k.capacity = "kept" => c = contents[v].cap
          /\ contents' = [contents EXCEPT ![v] = [@ EXCEPT !.len = n, !.cap = c]]

\* shrink_to_fit.
Trim(v) ==
  /\ v \in Live
  /\ contents[v].kind.capacity # "none"
  /\ contents' = [contents EXCEPT ![v].cap = contents[v].len]

\* It is dropped, forgotten, or consumed: into_iter, freeze.
Discard(v) ==
  /\ v \in Live
  /\ contents' = [contents EXCEPT ![v] = Nothing]

\* It is moved, into_inner or cap_inspect_at is called on it.
IntoInnerOff == UNCHANGED contents
CapInspectOff == UNCHANGED contents

Mutate(v) == Insert(v) \/ Remove(v) \/ Trim(v)

Init ==
  /\ expansion \in [Sites -> Expansion]
  /\ contents = [v \in Values |-> Nothing]

Next ==
  /\ \/ \E v \in Values :
          \/ \E s \in Sites, hint \in Hints : New(v, s, hint)
          \/ \E k \in KindsInUse, n \in 0..MaxCap : Collect(v, k, n)
          \/ Mutate(v)
          \/ Discard(v)
     \/ IntoInnerOff \/ CapInspectOff
  /\ UNCHANGED expansion

Spec == Init /\ [][Next]_<<expansion, contents>>
=============================================================================
