------------------------------- MODULE Plugin -------------------------------
(***************************************************************************)
(* What the lint plugin does to one construction site: the instrument lint *)
(* (captrack-pgo-lint/src/instrument.rs) and the capacity lint (lib.rs).   *)
(*                                                                         *)
(* A site is an expression that yields a tracked collection.  Of its text  *)
(* the model keeps                                                         *)
(*   kind     "list", "hash" (its type has a hasher) or "tree" (no         *)
(*            with_capacity: BTreeMap, BTreeSet, scc::TreeIndex);          *)
(*   form     the inherent constructors "new", "with_capacity" and         *)
(*            "with_hasher" (with_capacity_and_hasher), a "macro" (vec!,   *)
(*            smallvec!), or "other": Default::default() and any function  *)
(*            that returns the collection;                                 *)
(*   cap      its capacity, or Dynamic;                                    *)
(*   hasher   of the value: "std", "fx", "ahash" or "foldhash" as --hasher *)
(*            writes them, or "own", however it is written;                *)
(*   let      the binding: "none" (the expression initialises no plain     *)
(*            let), "free" (no type is written), "omitted" (HashMap<K,V>), *)
(*            "pinned" (HashMap<K,V,S>) or "alias" (no arguments: Map);    *)
(*   wants    the hasher of the type written there;                        *)
(*   below    whether the expression stands on a line below that type;     *)
(*   byvalue  whether some use needs the bare collection by value;         *)
(*   wrapped, inspected: what instrument did to the site and to such uses. *)
(* Expressions inside other macros are not touched and left out.           *)
(***************************************************************************)
EXTENDS Profiles

Kinds == {"list", "hash", "tree"}
Forms == {"new", "with_capacity", "with_hasher", "macro", "other"}
Fast == {"fx", "ahash", "foldhash"}
Hashers == Fast \cup {"std", "own"}
Lets == {"none", "free", "omitted", "pinned", "alias"}

Call ==
  [kind : Kinds, form : Forms, cap : Nat \cup {Dynamic}, hasher : Hashers,
   let : Lets, wants : Hashers, below : BOOLEAN, byvalue : BOOLEAN,
   wrapped : BOOLEAN, inspected : BOOLEAN]

\* is_tracked_method
Inherent == {"new", "with_capacity", "with_hasher"}

\* The type written at the binding, if any, is the type of the value.
Agrees(c) == c.let \in {"none", "free"} \/ c.wants = c.hasher

-----------------------------------------------------------------------------
(***************************************************************************)
(* The instrument lint                                                     *)
(***************************************************************************)

\* Every use goes through a reference: no return, argument, field, operand.
Borrowed(c) == ~ c.byvalue

\* is_safe_instrument_context: the value may become a wrapper when nothing
\* says its type and no use needs the bare collection.
Wrappable(c) == c.let = "free" /\ Borrowed(c)

\* build_wrap_from_suggestion: the expression becomes the wrapper's argument.
Wrap(c) == [c EXCEPT !.wrapped = TRUE]

\* try_phase_l_injection: the collection is inspected at its uses by value, if
\* the expression is the initialiser of a let.
InspectUses(c) ==
  [c EXCEPT !.inspected = @ \/ (c.let # "none" /\ ~ Borrowed(c))]

\* emit_macro_wrap_from_suggestion: vec! and smallvec! with elements, as a whole.
InstrumentMacro(c) == IF Wrappable(c) THEN Wrap(c) ELSE InspectUses(c)

\* check_expr: an inherent constructor, unless it stands inside a wrapper and
\* so is no initialiser any more, or such a macro.
Instrument(c) ==
  IF c.wrapped THEN c
  ELSE IF c.form = "macro" THEN InstrumentMacro(c)
  ELSE IF c.form \notin Inherent THEN c
  ELSE IF Wrappable(c) THEN Wrap(c) ELSE InspectUses(c)

-----------------------------------------------------------------------------
(***************************************************************************)
(* The capacity lint                                                       *)
(***************************************************************************)

\* build_suggestion without a hasher: new and with_capacity become
\* with_capacity, with_capacity_and_hasher keeps its hasher.
Resized(c, to) ==
  [c EXCEPT !.cap = to,
            !.form = IF @ = "with_hasher" THEN @ ELSE "with_capacity"]

\* Slip: the hasher that stands there is replaced, whatever it is.
HashedAnyway(c, to, hasher) ==
  [c EXCEPT !.cap = to, !.form = "with_hasher", !.hasher = hasher]

\* build_suggestion with a hasher: one that stands there is only replaced
\* when --hasher could have put it there.
Hashed(c, to, hasher) ==
  [c EXCEPT !.cap = to, !.form = "with_hasher",
            !.hasher = IF c.form = "with_hasher" /\ @ \notin Fast THEN @
                                                                  ELSE hasher]

\* emit_with_suggestion, once a capacity is proposed.  --hasher, when it is not
\* "none", extends the type at the binding when that leaves the hasher out, and
\* stays away when it says something else.
Constructor(c, to, hasher) ==
  IF hasher = "none" \/ c.kind # "hash" \/ c.let \in {"pinned", "alias"}
    THEN Resized(c, to)
  ELSE IF c.let = "omitted"
    THEN [Hashed(c, to, hasher) EXCEPT !.let = "pinned", !.wants = hasher]
  ELSE Hashed(c, to, hasher)

\* emit_with_default_dispatch_suggestion replaces the whole expression by a
\* constructor of the bare type, whose hasher is the standard one unless
\* --hasher applies, which a type at the binding prevents.
Dispatched(c, to, hasher) ==
  IF hasher # "none" /\ c.kind = "hash" /\ c.let \in {"none", "free"}
    THEN [c EXCEPT !.cap = to, !.form = "with_hasher", !.hasher = hasher]
    ELSE [c EXCEPT !.cap = to, !.form = "with_capacity", !.hasher = "std"]

\* The capacity to be patched, as the text gives it.  That of an "other"
\* expression counts as zero; its form says nothing of it.
Literal(c) == IF c.form \in Inherent THEN c.cap ELSE 0

\* check_call_site, for a site the profile has statistics of.
Patch(c, stats, globals, hasher) ==
  LET to == ProposeCap(stats, Literal(c), globals)
  IN IF c.kind = "tree" \/ c.form = "macro" \/ to = NoChange THEN c
     ELSE IF c.form \in Inherent THEN Constructor(c, to, hasher)
     ELSE Dispatched(c, to, hasher)
=============================================================================
