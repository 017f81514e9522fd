----------------------------- MODULE Collections -----------------------------
(***************************************************************************)
(* The collections captrack tracks and the macros that create them, as     *)
(* tables.  A kind says whether the collection has a capacity that can be  *)
(* asked for and read, and whether removing elements leaves it as it is;   *)
(* which of its measures the wrapper's final sample is; and what the       *)
(* wrapper offers beyond into_inner and Drop.  Hashers and element types   *)
(* are left out: they change neither what is recorded nor how the          *)
(* collection grows.                                                       *)
(*                                                                         *)
(* "kept" is the capacity of a buffer.  "current" is that of a hash table, *)
(* its elements and the insertions it has room for, which counts the       *)
(* places of removed elements out until it is rehashed, and of a BytesMut, *)
(* which gives up the part that is split off or advanced over.             *)
(***************************************************************************)
Kind(capacity, sampled, offers) ==
  [capacity |-> capacity, sampled |-> sampled, offers |-> offers]

TrackedVec == Kind("kept", "capacity", {"into_iter"})
TrackedVecDeque == Kind("kept", "capacity", {"into_iter"})
TrackedString == Kind("kept", "capacity", {"cap_inspect"})
TrackedBytesMut == Kind("current", "capacity", {"freeze"})
TrackedSmallVec == Kind("kept", "capacity", {"into_iter"})
TrackedBinaryHeap == Kind("kept", "capacity", {"into_iter", "cap_inspect"})
TrackedHashMap == Kind("current", "capacity", {"into_iter"})
TrackedHashSet == Kind("current", "capacity", {"into_iter"})
TrackedIndexMap == Kind("current", "capacity", {"into_iter"})
TrackedIndexSet == Kind("current", "capacity", {"into_iter"})
TrackedHashbrownMap == Kind("current", "capacity", {"into_iter", "cap_inspect"})
TrackedDashMap == Kind("current", "len", {})
TrackedSccHashMap == Kind("current", "len", {})
TrackedSccHashSet == Kind("current", "len", {})
TrackedSccTreeIndex == Kind("none", "len", {})
TrackedBTreeMap == Kind("none", "len", {"into_iter"})
TrackedBTreeSet == Kind("none", "len", {"into_iter"})

-----------------------------------------------------------------------------
(***************************************************************************)
(* What a construction site's text expands to with telemetry: a call that  *)
(* creates a wrapper, one that creates a bare collection and records the   *)
(* capacity it was asked for, or an expression of the program's that       *)
(* `captrack-pgo instrument` has either wrapped, or left as it is and had  *)
(* inspected where the collection is used.                                 *)
(***************************************************************************)
Wrapping(k) == [kind |-> k, form |-> "wrapping"]
Owned(k) == [kind |-> k, form |-> "owned"]
WrapFrom(k) == [kind |-> k, form |-> "wrap_from"]
Inspected(k) == [kind |-> k, form |-> "inspected"]

VecMacros == [tvec |-> Wrapping(TrackedVec), tvec_owned |-> Owned(TrackedVec),
              tvecdeque |-> Wrapping(TrackedVecDeque),
              tvecdeque_owned |-> Owned(TrackedVecDeque)]
BTreeMacros == [tbtreemap |-> Wrapping(TrackedBTreeMap),
                tbtreeset |-> Wrapping(TrackedBTreeSet)]
BytesMacros == [tbytesmut |-> Wrapping(TrackedBytesMut),
                tbytesmut_owned |-> Owned(TrackedBytesMut)]
HashMapMacros == [tfxmap |-> Wrapping(TrackedHashMap),
                  tfxmap_owned |-> Owned(TrackedHashMap)]
HashSetMacros == [tfxset |-> Wrapping(TrackedHashSet),
                  tfxset_owned |-> Owned(TrackedHashSet)]
IndexMapMacros == [tmap |-> Wrapping(TrackedIndexMap),
                   tmap_owned |-> Owned(TrackedIndexMap)]
IndexSetMacros == [tset |-> Wrapping(TrackedIndexSet),
                   tset_owned |-> Owned(TrackedIndexSet)]
DashMapMacros == [tdashmap |-> Wrapping(TrackedDashMap),
                  tdashmap_owned |-> Owned(TrackedDashMap)]
SccMapMacros == [tsccmap |-> Wrapping(TrackedSccHashMap),
                 tsccmap_owned |-> Owned(TrackedSccHashMap)]
SccSetMacros == [tsccset |-> Wrapping(TrackedSccHashSet),
                 tsccset_owned |-> Owned(TrackedSccHashSet)]
SccTreeMacros == [tscctree |-> Wrapping(TrackedSccTreeIndex)]
SmallVecMacros == [tsmallvec |-> Wrapping(TrackedSmallVec)]
StringMacros == [tstring |-> Wrapping(TrackedString)]
HashbrownMacros == [thashbrownmap |-> Wrapping(TrackedHashbrownMap)]
BinaryHeapMacros == [tbinaryheap |-> Wrapping(TrackedBinaryHeap)]

\* declare_collections!: the macros of a family hand on to captrack's own.
DeclaredMacros ==
  [vec |-> VecMacros.tvec, vecdeque |-> VecMacros.tvecdeque,
   btreemap |-> BTreeMacros.tbtreemap, btreeset |-> BTreeMacros.tbtreeset,
   bytesmut |-> BytesMacros.tbytesmut, scctree |-> SccTreeMacros.tscctree,
   fxmap |-> HashMapMacros.tfxmap, fxset |-> HashSetMacros.tfxset,
   map |-> IndexMapMacros.tmap, set |-> IndexSetMacros.tset,
   dashmap |-> DashMapMacros.tdashmap, sccmap |-> SccMapMacros.tsccmap,
   sccset |-> SccSetMacros.tsccset]

\* The types whose expressions the plugin wraps or has inspected.
Instrumented ==
  {TrackedVec, TrackedVecDeque, TrackedHashMap, TrackedHashSet, TrackedBTreeMap,
   TrackedBTreeSet, TrackedBytesMut, TrackedIndexMap, TrackedIndexSet,
   TrackedDashMap, TrackedSccHashMap, TrackedSccHashSet, TrackedSccTreeIndex,
   TrackedSmallVec, TrackedString, TrackedBinaryHeap, TrackedHashbrownMap}

Expansions(macros) == {macros[name] : name \in DOMAIN macros}

Expansion ==
  UNION {Expansions(VecMacros), Expansions(BTreeMacros),
         Expansions(BytesMacros), Expansions(HashMapMacros),
         Expansions(HashSetMacros), Expansions(IndexMapMacros),
         Expansions(IndexSetMacros), Expansions(DashMapMacros),
         Expansions(SccMapMacros), Expansions(SccSetMacros),
         Expansions(SccTreeMacros), Expansions(SmallVecMacros),
         Expansions(StringMacros), Expansions(HashbrownMacros),
         Expansions(BinaryHeapMacros), Expansions(DeclaredMacros),
         {WrapFrom(k) : k \in Instrumented}, {Inspected(k) : k \in Instrumented}}

Kinds == {e.kind : e \in Expansion}
=============================================================================
