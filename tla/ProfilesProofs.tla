---------------------------- MODULE ProfilesProofs ----------------------------
(***************************************************************************)
(* Proofs about module Profiles, for any tally of samples: what a sum over *)
(* a finite set is, that a percentile covers what it says, and how far the *)
(* capacities that analyze advises and the lint proposes can be from the   *)
(* samples they were made of.                                              *)
(*                                                                         *)
(* Sums and extremes are over finite sets of any size, so they are reasoned*)
(* about by induction: a property that every subset has whose proper       *)
(* subsets have it, all subsets have.  The property is given as the set of *)
(* the subsets that have it.                                               *)
(***************************************************************************)
EXTENDS Profiles, FiniteSetTheorems, TLAPS

\* Induction over the subsets of a finite set: of those that are not good there
\* would be a smallest one.
LEMMA SubsetInduction ==
  ASSUME NEW S, IsFiniteSet(S), NEW Good,
         \A T \in SUBSET S :
           (\A U \in SUBSET T : U # T => U \in Good) => T \in Good
  PROVE  \A T \in SUBSET S : T \in Good
<1> DEFINE Bad == {T \in SUBSET S : T \notin Good}
           P == SUBSET S
           R == StrictSubsetOrdering(S)
<1> SUFFICES ASSUME Bad # {} PROVE FALSE
  OBVIOUS
<1>1. IsWellFoundedOn(R, P)
  <2>1. IsWellFoundedOn(StrictSubsetOrdering(S), FiniteSubsetsOf(S))
    BY FS_StrictSubsetOrderingWellFounded
  <2>2. FiniteSubsetsOf(S) = SUBSET S
    BY FS_FiniteSubsetsOfFinite
  <2> QED BY <2>1, <2>2
<1>2. PICK T \in Bad : \A U \in Bad : ~ (<<U, T>> \in R)
  <2>1. Bad \subseteq P
    OBVIOUS
  <2> HIDE DEF Bad, P, R
  <2> QED BY <1>1, <2>1, WFMin
<1>3. \A U \in SUBSET T : U # T => U \in Good
  BY <1>2 DEF StrictSubsetOrdering
<1> QED BY <1>3

-----------------------------------------------------------------------------
(***************************************************************************)
(* Sums.  SumFunctionOnSet is a fold, which takes one element after        *)
(* another out of its set.                                                 *)
(***************************************************************************)

\* The element that a fold takes out next.
Pick(T) == CHOOSE x \in T : TRUE

\* g is what a sum over the subsets of S unfolds to.
Folds(f, S, g) ==
  g = [T \in SUBSET S |->
         IF T = {} THEN 0 ELSE f[Pick(T)] + g[T \ {Pick(T)}]]

\* A sum is the value at its set of some function that unfolds so.
LEMMA SumIsFold ==
  ASSUME NEW f, NEW S
  PROVE  SumFunctionOnSet(f, S) = (CHOOSE g : Folds(f, S, g))[S]
BY DEF SumFunctionOnSet, FoldFunctionOnSet, MapThenFoldSet, Folds, Pick

\* What is left when an element is taken out is a proper subset.
LEMMA PickIn ==
  ASSUME NEW T, T # {}
  PROVE  Pick(T) \in T /\ T \ {Pick(T)} \in SUBSET T /\ T \ {Pick(T)} # T
BY DEF Pick

\* Such functions agree where both are defined.
LEMMA FoldUnique ==
  ASSUME NEW S, NEW T \in SUBSET S, IsFiniteSet(T), NEW f, NEW g, NEW h,
         Folds(f, S, g), Folds(f, T, h)
  PROVE  \A U \in SUBSET T : g[U] = h[U]
<1> DEFINE Good == {U \in SUBSET T : g[U] = h[U]}
<1>1. ASSUME NEW U \in SUBSET T, \A V \in SUBSET U : V # U => V \in Good
      PROVE  U \in Good
  <2>1. CASE U = {}
    BY <2>1 DEF Folds
  <2>2. CASE U # {}
    <3>1. g[U \ {Pick(U)}] = h[U \ {Pick(U)}]
      BY <1>1, <2>2, PickIn
    <3>2. g[U] = f[Pick(U)] + g[U \ {Pick(U)}]
      BY <2>2 DEF Folds
    <3>3. h[U] = f[Pick(U)] + h[U \ {Pick(U)}]
      BY <2>2 DEF Folds
    <3> QED BY <3>1, <3>2, <3>3
  <2> QED BY <2>1, <2>2
<1>2. \A U \in SUBSET T : U \in Good
  <2> HIDE DEF Good
  <2> QED BY <1>1, SubsetInduction
<1> QED BY <1>2

\* And there is one, for every finite set.
LEMMA FoldExists ==
  ASSUME NEW S, IsFiniteSet(S), NEW f
  PROVE  \E g : Folds(f, S, g)
<1> DEFINE Good == {T \in SUBSET S : \E g : Folds(f, T, g)}
<1>1. ASSUME NEW T \in SUBSET S, \A U \in SUBSET T : U # T => U \in Good
      PROVE  T \in Good
  <2> DEFINE F(U) == CHOOSE g : Folds(f, U, g)
             V(U) == F(U)[U]
             h == [U \in SUBSET T |->
                     IF U # T THEN V(U)
                     ELSE IF T = {} THEN 0
                     ELSE f[Pick(T)] + V(T \ {Pick(T)})]
  <2>1. \A U \in SUBSET T : U # T => Folds(f, U, F(U))
    BY <1>1
  <2> HIDE DEF F
  <2>2. ASSUME NEW U \in SUBSET T
        PROVE  h[U] = IF U = {} THEN 0 ELSE f[Pick(U)] + h[U \ {Pick(U)}]
    <3>1. CASE U = T
      BY <3>1, PickIn
    <3>2. CASE U # T /\ U = {}
      <4>1. Folds(f, U, F(U)) /\ h[U] = F(U)[U]
        BY <2>1, <3>2
      <4> QED BY <3>2, <4>1 DEF Folds
    <3>3. CASE U # T /\ U # {}
      <4> DEFINE W == U \ {Pick(U)}
      <4>1. W \in SUBSET U /\ W \in SUBSET T /\ W # T /\ U \in SUBSET U
        BY <3>3, PickIn
      <4>2. Folds(f, U, F(U)) /\ Folds(f, W, F(W))
        BY <2>1, <3>3, <4>1
      <4>3. IsFiniteSet(W)
        BY FS_Subset
      <4>4. F(U)[W] = F(W)[W]
        <5> HIDE DEF W
        <5> QED BY <4>1, <4>2, <4>3, FoldUnique
      <4>5. F(U)[U] = f[Pick(U)] + F(U)[W]
        BY <3>3, <4>1, <4>2 DEF Folds
      <4>6. h[U] = V(U) /\ h[W] = V(W)
        BY <3>3, <4>1
      <4> QED BY <3>3, <4>4, <4>5, <4>6
    <3> QED BY <3>1, <3>2, <3>3
  <2>3. Folds(f, T, h)
    <3>1. h = [U \in SUBSET T |->
                 IF U = {} THEN 0 ELSE f[Pick(U)] + h[U \ {Pick(U)}]]
      <4>1. h = [U \in SUBSET T |-> h[U]]
        OBVIOUS
      <4> HIDE DEF h
      <4> QED BY <2>2, <4>1
    <3> HIDE DEF h
    <3> QED BY <3>1 DEF Folds
  <2> QED BY <2>3
<1>2. \A T \in SUBSET S : T \in Good
  <2> HIDE DEF Good
  <2> QED BY <1>1, SubsetInduction
<1> QED BY <1>2

\* So a sum is the picked summand and the sum over the others.
LEMMA SumUnfolds ==
  ASSUME NEW S, IsFiniteSet(S), NEW f
  PROVE  SumFunctionOnSet(f, S) =
           IF S = {} THEN 0
           ELSE f[Pick(S)] + SumFunctionOnSet(f, S \ {Pick(S)})
<1> DEFINE F(U) == CHOOSE g : Folds(f, U, g)
           W == S \ {Pick(S)}
<1>1. W \in SUBSET S /\ S \in SUBSET S /\ IsFiniteSet(W)
  BY FS_Subset
<1>2. Folds(f, S, F(S)) /\ Folds(f, W, F(W))
  BY <1>1, FoldExists
<1>3. SumFunctionOnSet(f, S) = F(S)[S] /\ SumFunctionOnSet(f, W) = F(W)[W]
  BY SumIsFold
<1> HIDE DEF F, W
<1>4. F(S)[W] = F(W)[W]
  BY <1>1, <1>2, FoldUnique
<1>5. F(S)[S] = IF S = {} THEN 0 ELSE f[Pick(S)] + F(S)[W]
  BY <1>1, <1>2 DEF Folds, W
<1> QED BY <1>3, <1>4, <1>5 DEF W

\* Any one summand may be taken out.
LEMMA SumAny ==
  ASSUME NEW S, IsFiniteSet(S), NEW f, \A x \in S : f[x] \in Nat
  PROVE  /\ SumFunctionOnSet(f, S) \in Nat
         /\ \A x \in S :
              /\ SumFunctionOnSet(f, S \ {x}) \in Nat
              /\ SumFunctionOnSet(f, S)
                   = f[x] + SumFunctionOnSet(f, S \ {x})
<1> DEFINE F(T) == SumFunctionOnSet(f, T)
           Good == {T \in SUBSET S :
                      /\ F(T) \in Nat
                      /\ \A x \in T : F(T) = f[x] + F(T \ {x})}
<1>1. ASSUME NEW T \in SUBSET S, \A U \in SUBSET T : U # T => U \in Good
      PROVE  T \in Good
  <2>1. F(T) = IF T = {} THEN 0 ELSE f[Pick(T)] + F(T \ {Pick(T)})
    BY SumUnfolds, FS_Subset
  <2>2. CASE T = {}
    BY <2>1, <2>2
  <2>3. CASE T # {}
    <3> DEFINE c == Pick(T)
    <3>1. c \in T /\ f[c] \in Nat /\ F(T \ {c}) \in Nat
          /\ F(T) = f[c] + F(T \ {c})
      BY <1>1, <2>1, <2>3, PickIn
    <3> HIDE DEF c
    <3>2. ASSUME NEW x \in T, x # c
          PROVE  F(T) = f[x] + F(T \ {x})
      <4>1. F(T \ {c}) = f[x] + F((T \ {c}) \ {x})
        BY <1>1, <3>1, <3>2
      <4>2. F(T \ {x}) = f[c] + F((T \ {x}) \ {c})
        BY <1>1, <3>1, <3>2
      <4>3. (T \ {c}) \ {x} = (T \ {x}) \ {c}
        OBVIOUS
      <4>4. F((T \ {c}) \ {x}) \in Nat /\ f[x] \in Nat
        <5>1. (T \ {c}) \ {x} \in SUBSET T /\ (T \ {c}) \ {x} # T
          BY <3>1
        <5> QED BY <1>1, <5>1
      <4> HIDE DEF F
      <4> QED BY <3>1, <4>1, <4>2, <4>3, <4>4
    <3>3. F(T) \in Nat /\ \A x \in T : F(T) = f[x] + F(T \ {x})
      <4>1. F(T) \in Nat
        <5> HIDE DEF F
        <5> QED BY <3>1
      <4> QED BY <3>1, <3>2, <4>1
    <3> HIDE DEF F
    <3> QED BY <3>3
  <2> QED BY <2>2, <2>3
<1>2. \A T \in SUBSET S : T \in Good
  <2> HIDE DEF Good
  <2> QED BY <1>1, SubsetInduction
<1> QED BY <1>2

\* A sum compares as its summands do: no more than k times as much.
LEMMA SumScale ==
  ASSUME NEW S, IsFiniteSet(S), NEW f, NEW g, NEW k \in Nat,
         \A x \in S : f[x] \in Nat /\ g[x] \in Nat /\ f[x] <= k * g[x]
  PROVE  SumFunctionOnSet(f, S) <= k * SumFunctionOnSet(g, S)
<1> DEFINE F(T) == SumFunctionOnSet(f, T)
           G(T) == SumFunctionOnSet(g, T)
           Good == {T \in SUBSET S : F(T) <= k * G(T)}
<1>1. ASSUME NEW T \in SUBSET S, \A U \in SUBSET T : U # T => U \in Good
      PROVE  T \in Good
  <2>1. CASE T = {}
    <3>1. F(T) = 0 /\ G(T) = 0
      BY <2>1, SumUnfolds, FS_Subset
    <3> QED BY <3>1
  <2>2. CASE T # {}
    <3>1. PICK c \in T : TRUE
      BY <2>2
    <3> DEFINE W == T \ {c}
    <3>2. /\ F(T) = f[c] + F(W) /\ F(W) \in Nat
          /\ G(T) = g[c] + G(W) /\ G(W) \in Nat
      BY SumAny, FS_Subset
    <3>3. F(W) <= k * G(W)
      BY <1>1
    <3>4. f[c] \in Nat /\ g[c] \in Nat /\ f[c] <= k * g[c]
      OBVIOUS
    <3>5. \A a, b, u, v \in Nat :
            a <= k * b /\ u <= k * v => a + u <= k * (b + v)
      OBVIOUS
    <3> HIDE DEF F, G, W
    <3>6. f[c] + F(W) <= k * (g[c] + G(W))
      BY <3>2, <3>3, <3>4, <3>5
    <3>7. F(T) <= k * G(T)
      BY <3>2, <3>6
    <3> QED BY <3>7 DEF Good, F, G
  <2> QED BY <2>1, <2>2
<1>2. \A T \in SUBSET S : T \in Good
  <2> HIDE DEF Good
  <2> QED BY <1>1, SubsetInduction
<1> QED BY <1>2

\* So does a sum of summands that are no larger.
LEMMA SumLe ==
  ASSUME NEW S, IsFiniteSet(S), NEW f, NEW g,
         \A x \in S : f[x] \in Nat /\ g[x] \in Nat /\ f[x] <= g[x]
  PROVE  SumFunctionOnSet(f, S) <= SumFunctionOnSet(g, S)
<1>1. SumFunctionOnSet(g, S) \in Nat
  BY SumAny
<1>2. \A x \in S : f[x] \in Nat /\ g[x] \in Nat /\ f[x] <= 1 * g[x]
  OBVIOUS
<1>3. SumFunctionOnSet(f, S) <= 1 * SumFunctionOnSet(g, S)
  BY <1>2, SumScale
<1> QED BY <1>1, <1>3

\* And sums of the same summands are the same.
LEMMA SumSame ==
  ASSUME NEW S, IsFiniteSet(S), NEW f, NEW g,
         \A x \in S : f[x] \in Nat /\ f[x] = g[x]
  PROVE  SumFunctionOnSet(f, S) = SumFunctionOnSet(g, S)
<1>1. SumFunctionOnSet(f, S) \in Nat /\ SumFunctionOnSet(g, S) \in Nat
  BY SumAny
<1>2. SumFunctionOnSet(f, S) <= SumFunctionOnSet(g, S)
  BY SumLe
<1>3. SumFunctionOnSet(g, S) <= SumFunctionOnSet(f, S)
  BY SumLe
<1> QED BY <1>1, <1>2, <1>3

\* A sum over a set is the sum over a part of it and the sum over the rest.
LEMMA SumSplit ==
  ASSUME NEW S, IsFiniteSet(S), NEW f, \A x \in S : f[x] \in Nat,
         NEW T \in SUBSET S
  PROVE  /\ SumFunctionOnSet(f, T) \in Nat
         /\ SumFunctionOnSet(f, S \ T) \in Nat
         /\ SumFunctionOnSet(f, S)
              = SumFunctionOnSet(f, T) + SumFunctionOnSet(f, S \ T)
<1> DEFINE F(U) == SumFunctionOnSet(f, U)
           Good == {U \in SUBSET S : F(U) = F(U \cap T) + F(U \ T)}
<1>1. ASSUME NEW U \in SUBSET S, \A V \in SUBSET U : V # U => V \in Good
      PROVE  U \in Good
  <2>1. CASE U = {}
    <3>1. U \cap T = {} /\ U \ T = {}
      BY <2>1
    <3>2. F({}) = 0
      BY SumUnfolds, FS_EmptySet
    <3> QED BY <2>1, <3>1, <3>2
  <2>2. CASE U # {}
    <3>1. PICK c \in U : TRUE
      BY <2>2
    <3> DEFINE W == U \ {c}
    <3>2. F(U) = f[c] + F(W) /\ F(W) \in Nat
      BY SumAny, FS_Subset
    <3>3. F(W) = F(W \cap T) + F(W \ T)
      BY <1>1
    <3>4. F(W \cap T) \in Nat /\ F(W \ T) \in Nat /\ f[c] \in Nat
      BY SumAny, FS_Subset
    <3>5. CASE c \in T
      <4>1. /\ c \in U \cap T
            /\ W \cap T = (U \cap T) \ {c}
            /\ W \ T = U \ T
        BY <3>5
      <4>2. F(U \cap T) = f[c] + F((U \cap T) \ {c})
        BY <4>1, SumAny, FS_Subset
      <4>3. F(U \cap T) = f[c] + F(W \cap T) /\ F(W \ T) = F(U \ T)
        BY <4>1, <4>2
      <4>4. F(U) = F(U \cap T) + F(U \ T)
        <5> HIDE DEF F, W
        <5> QED BY <3>2, <3>3, <3>4, <4>3
      <4> QED BY <4>4
    <3>6. CASE c \notin T
      <4>1. /\ c \in U \ T
            /\ W \ T = (U \ T) \ {c}
            /\ W \cap T = U \cap T
        BY <3>6
      <4>2. F(U \ T) = f[c] + F((U \ T) \ {c})
        BY <4>1, SumAny, FS_Subset
      <4>3. F(U \ T) = f[c] + F(W \ T) /\ F(W \cap T) = F(U \cap T)
        BY <4>1, <4>2
      <4>4. F(U) = F(U \cap T) + F(U \ T)
        <5> HIDE DEF F, W
        <5> QED BY <3>2, <3>3, <3>4, <4>3
      <4> QED BY <4>4
    <3> QED BY <3>5, <3>6
  <2> QED BY <2>1, <2>2
<1>2. \A U \in SUBSET S : U \in Good
  <2> HIDE DEF Good
  <2> QED BY <1>1, SubsetInduction
<1>3. S \cap T = T
  OBVIOUS
<1>4. F(S) = F(S \cap T) + F(S \ T)
  BY <1>2
<1>5. F(T) \in Nat /\ F(S \ T) \in Nat
  BY SumAny, FS_Subset
<1> QED BY <1>3, <1>4, <1>5

\* A sum that is not zero has a summand that is not.
LEMMA SumPositive ==
  ASSUME NEW S, IsFiniteSet(S), NEW f, \A x \in S : f[x] \in Nat,
         SumFunctionOnSet(f, S) # 0
  PROVE  \E x \in S : f[x] > 0
<1> SUFFICES ASSUME \A x \in S : f[x] = 0
             PROVE  SumFunctionOnSet(f, S) = 0
  OBVIOUS
<1>1. \A x \in S : f[x] \in Nat /\ f[x] <= 0 * f[x]
  OBVIOUS
<1>2. SumFunctionOnSet(f, S) <= 0 * SumFunctionOnSet(f, S)
  BY <1>1, SumScale
<1>3. SumFunctionOnSet(f, S) \in Nat
  BY SumAny
<1> QED BY <1>2, <1>3

\* Sums add up summand by summand.
LEMMA SumAdd ==
  ASSUME NEW S, IsFiniteSet(S), NEW f, NEW g, NEW h,
         \A x \in S : f[x] \in Nat /\ g[x] \in Nat /\ h[x] = f[x] + g[x]
  PROVE  SumFunctionOnSet(h, S)
           = SumFunctionOnSet(f, S) + SumFunctionOnSet(g, S)
<1> DEFINE F(T) == SumFunctionOnSet(f, T)
           G(T) == SumFunctionOnSet(g, T)
           H(T) == SumFunctionOnSet(h, T)
           Good == {T \in SUBSET S : H(T) = F(T) + G(T)}
<1>1. ASSUME NEW T \in SUBSET S, \A U \in SUBSET T : U # T => U \in Good
      PROVE  T \in Good
  <2>1. CASE T = {}
    <3>1. F(T) = 0 /\ G(T) = 0 /\ H(T) = 0
      BY <2>1, SumUnfolds, FS_Subset
    <3> QED BY <3>1
  <2>2. CASE T # {}
    <3>1. PICK c \in T : TRUE
      BY <2>2
    <3> DEFINE W == T \ {c}
    <3>2. /\ \A x \in S : h[x] \in Nat
          /\ f[c] \in Nat /\ g[c] \in Nat /\ h[c] = f[c] + g[c]
      OBVIOUS
    <3>3. /\ F(T) = f[c] + F(W) /\ F(W) \in Nat
          /\ G(T) = g[c] + G(W) /\ G(W) \in Nat
          /\ H(T) = h[c] + H(W) /\ H(W) \in Nat
      BY <3>2, SumAny, FS_Subset
    <3>4. H(W) = F(W) + G(W)
      BY <1>1
    <3>5. H(T) = F(T) + G(T)
      <4> HIDE DEF F, G, H, W
      <4> QED BY <3>2, <3>3, <3>4
    <3> QED BY <3>5
  <2> QED BY <2>1, <2>2
<1>2. \A T \in SUBSET S : T \in Good
  <2> HIDE DEF Good
  <2> QED BY <1>1, SubsetInduction
<1> QED BY <1>2

\* A sum of one summand.
LEMMA SumOne ==
  ASSUME NEW x, NEW f, f[x] \in Nat
  PROVE  SumFunctionOnSet(f, {x}) = f[x]
<1>1. IsFiniteSet({x}) /\ IsFiniteSet({})
  BY FS_Singleton, FS_EmptySet
<1>2. SumFunctionOnSet(f, {x}) = f[x] + SumFunctionOnSet(f, {x} \ {x})
  BY <1>1, SumAny
<1>3. {x} \ {x} = {} /\ SumFunctionOnSet(f, {}) = 0
  BY <1>1, SumUnfolds
<1> QED BY <1>2, <1>3

\* What the summands are called is irrelevant: those of B, or the pairs of one
\* of them and p.
LEMMA SumPairs ==
  ASSUME NEW B, IsFiniteSet(B), NEW p, NEW f, NEW g,
         \A b \in B : f[b] \in Nat /\ g[<<b, p>>] = f[b]
  PROVE  /\ IsFiniteSet({<<b, p>> : b \in B})
         /\ SumFunctionOnSet(g, {<<b, p>> : b \in B}) = SumFunctionOnSet(f, B)
<1> DEFINE Pairs(T) == {<<b, p>> : b \in T}
           F(T) == SumFunctionOnSet(f, T)
           G(T) == SumFunctionOnSet(g, Pairs(T))
           Good == {T \in SUBSET B : IsFiniteSet(Pairs(T)) /\ G(T) = F(T)}
<1>1. ASSUME NEW T \in SUBSET B, \A U \in SUBSET T : U # T => U \in Good
      PROVE  T \in Good
  <2>1. CASE T = {}
    <3>1. Pairs(T) = {}
      BY <2>1
    <3>2. \A h : SumFunctionOnSet(h, {}) = 0
      BY SumUnfolds, FS_EmptySet
    <3> QED BY <2>1, <3>1, <3>2, FS_EmptySet
  <2>2. CASE T # {}
    <3>1. PICK c \in T : TRUE
      BY <2>2
    <3> DEFINE W == T \ {c}
    <3>2. W \in Good
      BY <1>1
    <3>3. Pairs(T) = Pairs(W) \cup {<<c, p>>} /\ <<c, p>> \notin Pairs(W)
      OBVIOUS
    <3>4. IsFiniteSet(Pairs(T))
      <4>1. IsFiniteSet(Pairs(W))
        BY <3>2
      <4> HIDE DEF Pairs, W
      <4>2. IsFiniteSet(Pairs(W) \cup {<<c, p>>})
        BY <4>1, FS_AddElement
      <4> QED BY <3>3, <4>2
    <3>5. /\ <<c, p>> \in Pairs(T)
          /\ Pairs(T) \ {<<c, p>>} = Pairs(W)
          /\ \A x \in Pairs(T) : g[x] \in Nat
      BY <3>3
    <3>6. G(T) = g[<<c, p>>] + G(W)
      <4> HIDE DEF Pairs, W
      <4> QED BY <3>4, <3>5, SumAny
    <3>7. F(T) = f[c] + F(W)
      BY SumAny, FS_Subset
    <3> QED BY <3>2, <3>4, <3>6, <3>7
  <2> QED BY <2>1, <2>2
<1>2. \A T \in SUBSET B : T \in Good
  <2> HIDE DEF Good
  <2> QED BY <1>1, SubsetInduction
<1> QED BY <1>2

-----------------------------------------------------------------------------
(***************************************************************************)
(* Largest and smallest elements, quotients and powers of two              *)
(***************************************************************************)

\* A finite set of numbers has a largest and a smallest element.
LEMMA Extremes ==
  ASSUME NEW S \in SUBSET Nat, IsFiniteSet(S), S # {}
  PROVE  /\ \E x \in S : \A y \in S : x >= y
         /\ \E x \in S : \A y \in S : x <= y
<1> DEFINE Good == {T \in SUBSET S :
                      \/ T = {}
                      \/ /\ \E x \in T : \A y \in T : x >= y
                         /\ \E x \in T : \A y \in T : x <= y}
<1>1. ASSUME NEW T \in SUBSET S, \A U \in SUBSET T : U # T => U \in Good
      PROVE  T \in Good
  <2>1. CASE \E c \in T : T = {c}
    BY <2>1
  <2>2. CASE T # {} /\ ~ \E c \in T : T = {c}
    <3>1. PICK c \in T : TRUE
      BY <2>2
    <3>2. T \ {c} \in Good /\ T \ {c} # {}
      <4>1. T # {c}
        BY <2>2
      <4>2. T \ {c} \in SUBSET T /\ T \ {c} # T /\ T \ {c} # {}
        BY <3>1, <4>1
      <4> QED BY <1>1, <4>2
    <3>3. PICK x \in T \ {c} : \A y \in T \ {c} : x >= y
      BY <3>2
    <3>4. \E z \in {x, c} : \A y \in T : z >= y
      BY <3>3
    <3>5. PICK w \in T \ {c} : \A y \in T \ {c} : w <= y
      BY <3>2
    <3>6. \E z \in {w, c} : \A y \in T : z <= y
      BY <3>5
    <3> QED BY <3>4, <3>6
  <2> QED BY <2>1, <2>2
<1>2. \A T \in SUBSET S : T \in Good
  <2> HIDE DEF Good
  <2> QED BY <1>1, SubsetInduction
<1> QED BY <1>2

\* The largest element of a finite set of numbers is one of them.
LEMMA MaxIs ==
  ASSUME NEW S \in SUBSET Nat, IsFiniteSet(S), S # {}
  PROVE  Max(S) \in S /\ \A y \in S : y <= Max(S)
<1>1. \E x \in S : \A y \in S : x >= y
  BY Extremes
<1> QED BY <1>1 DEF Max

\* Every set of numbers has a smallest element.
LEMMA MinIs ==
  ASSUME NEW S \in SUBSET Nat, S # {}
  PROVE  Min(S) \in S /\ \A y \in S : Min(S) <= y
<1>1. PICK s \in S : TRUE
  OBVIOUS
<1> DEFINE R == {y \in S : y <= s}
<1>2. IsFiniteSet(R) /\ R \in SUBSET Nat /\ s \in R
  <2>1. s \in Nat /\ R \in SUBSET (0 .. s) /\ R \in SUBSET Nat /\ s \in R
    <3>1. s \in Nat /\ s <= s
      BY <1>1
    <3>2. \A y \in R : y \in Nat /\ y <= s
      OBVIOUS
    <3>3. \A y \in R : y \in 0 .. s
      BY <3>1, <3>2
    <3> QED BY <1>1, <3>1, <3>2, <3>3
  <2>2. IsFiniteSet(0 .. s)
    BY <2>1, FS_Interval
  <2> HIDE DEF R
  <2> QED BY <2>1, <2>2, FS_Subset
<1>3. PICK x \in R : \A y \in R : x <= y
  <2> HIDE DEF R
  <2> QED BY <1>2, Extremes
<1>4. \A y \in S : x <= y
  BY <1>3
<1> QED BY <1>3, <1>4 DEF Min

\* The larger and the smaller of two.
LEMMA MaxOfTwo ==
  ASSUME NEW a \in Int, NEW b \in Int
  PROVE  Max({a, b}) = IF a >= b THEN a ELSE b
BY DEF Max

\* The same for the smaller of two.
LEMMA MinOfTwo ==
  ASSUME NEW a \in Int, NEW b \in Int
  PROVE  Min({a, b}) = IF a <= b THEN a ELSE b
BY DEF Min

\* CeilDiv(x, y) is the least quotient that multiplied by y reaches x.
LEMMA CeilDivIs ==
  ASSUME NEW x \in Nat, NEW y \in Nat \ {0}
  PROVE  /\ CeilDiv(x, y) \in Nat
         /\ x <= y * CeilDiv(x, y)
         /\ y * CeilDiv(x, y) < x + y
BY DEF CeilDiv

\* Multiples compare as what is multiplied does.
LEMMA Monotone ==
  ASSUME NEW y \in Nat, NEW a \in Nat, NEW b \in Nat, a <= b
  PROVE  y * a <= y * b /\ y * a \in Nat /\ y * b \in Nat
OBVIOUS

\* So it is no larger than any other that reaches x.
LEMMA CeilDivLe ==
  ASSUME NEW x \in Nat, NEW y \in Nat \ {0}, NEW c \in Nat, x <= y * c
  PROVE  CeilDiv(x, y) <= c
<1> DEFINE q == CeilDiv(x, y)
<1>1. q \in Nat /\ y * q < x + y
  BY CeilDivIs
<1> HIDE DEF q
<1>2. SUFFICES ASSUME q >= c + 1 PROVE FALSE
  BY <1>1 DEF q
<1>3. y * (c + 1) <= y * q /\ y * c \in Nat
  BY <1>1, <1>2, Monotone
<1>4. y * (c + 1) = y * c + y
  OBVIOUS
<1>5. y * q \in Nat
  BY <1>1
<1> QED BY <1>1, <1>3, <1>4, <1>5

\* The powers of two in reach double.
LEMMA Powers ==
  /\ 2^0 = 1
  /\ \A k \in 0 .. 30 : 2^k \in Nat
  /\ \A k \in 1 .. 30 : 2^k = 2 * 2^(k - 1)
<1> DEFINE P == [k \in 0 .. 30 |-> 2^k]
<1>1. P[0] = 1
  OBVIOUS
<1>2. /\ P[1] = 2 * P[0] /\ P[2] = 2 * P[1] /\ P[3] = 2 * P[2]
         /\ P[4] = 2 * P[3] /\ P[5] = 2 * P[4] /\ P[6] = 2 * P[5]
         /\ P[7] = 2 * P[6] /\ P[8] = 2 * P[7] /\ P[9] = 2 * P[8]
         /\ P[10] = 2 * P[9] /\ P[11] = 2 * P[10] /\ P[12] = 2 * P[11]
         /\ P[13] = 2 * P[12] /\ P[14] = 2 * P[13] /\ P[15] = 2 * P[14]
         /\ P[16] = 2 * P[15] /\ P[17] = 2 * P[16] /\ P[18] = 2 * P[17]
         /\ P[19] = 2 * P[18] /\ P[20] = 2 * P[19] /\ P[21] = 2 * P[20]
         /\ P[22] = 2 * P[21] /\ P[23] = 2 * P[22] /\ P[24] = 2 * P[23]
         /\ P[25] = 2 * P[24] /\ P[26] = 2 * P[25] /\ P[27] = 2 * P[26]
         /\ P[28] = 2 * P[27] /\ P[29] = 2 * P[28] /\ P[30] = 2 * P[29]
  OBVIOUS
<1>3. \A k \in 0 .. 30 : P[k] = 2^k
  OBVIOUS
<1> HIDE DEF P
<1>4. \A k \in 1 .. 30 : P[k] = 2 * P[k - 1]
  BY <1>2
<1>5. \A k \in 0 .. 30 : P[k] \in Nat
  BY <1>1, <1>2
<1> QED BY <1>1, <1>3, <1>4, <1>5

\* The next power of two suffices, and is less than twice too much.
LEMMA Pow2Is ==
  ASSUME NEW x \in Nat, 1 <= x, x <= 2^30
  PROVE  Pow2(x) \in Nat /\ x <= Pow2(x) /\ Pow2(x) < 2 * x
<1> DEFINE S == {p \in {2^k : k \in 0 .. 30} : p >= x}
<1>1. \A k \in 0 .. 30 : 2^k \in Nat
  BY Powers
<1>2. S \in SUBSET Nat /\ 2^30 \in S
  BY <1>1
<1>3. Pow2(x) \in S /\ \A y \in S : Pow2(x) <= y
  <2> HIDE DEF S
  <2>1. Min(S) \in S /\ \A y \in S : Min(S) <= y
    BY <1>2, MinIs
  <2> QED BY <2>1 DEF Pow2, S
<1>4. PICK k \in 0 .. 30 : Pow2(x) = 2^k /\ x <= 2^k
  BY <1>3
<1>5. CASE k = 0
  BY <1>4, <1>5, Powers
<1>6. CASE k # 0
  <2>1. /\ k \in 1 .. 30 /\ k - 1 \in 0 .. 30
        /\ 2^k = 2 * 2^(k - 1) /\ 2^k \in Nat /\ 2^(k - 1) \in Nat
    <3>1. k \in 1 .. 30 /\ k - 1 \in 0 .. 30
      BY <1>6
    <3> QED BY <1>1, <3>1, Powers
  <2>2. 2^(k - 1) < x
    <3>1. SUFFICES ASSUME 2^(k - 1) >= x PROVE FALSE
      BY <2>1
    <3>2. 2^(k - 1) \in S
      BY <2>1, <3>1
    <3>3. 2^k <= 2^(k - 1)
      BY <1>3, <1>4, <3>2
    <3>4. 2^(k - 1) >= 1
      BY <2>1, <3>1
    <3> QED BY <2>1, <3>3, <3>4
  <2> QED BY <1>4, <2>1, <2>2
<1> QED BY <1>5, <1>6

-----------------------------------------------------------------------------
(***************************************************************************)
(* Summaries                                                               *)
(***************************************************************************)

\* How many samples there are, and how many up to some size.
LEMMA Counted ==
  ASSUME NEW t \in Tally
  PROVE  /\ Total(t) \in Nat
         /\ Total(t) = SumFunctionOnSet(t, Sizes)
         /\ \A v \in Int : Upto(t, v) \in Nat /\ Upto(t, v) <= Total(t)
<1>1. /\ IsFiniteSet(Sizes) /\ Sizes \subseteq Nat
      /\ DOMAIN t = Sizes /\ \A x \in Sizes : t[x] \in Nat
  BY ProfilesAssumption DEF Tally
<1>2. Total(t) = SumFunctionOnSet(t, Sizes) /\ Total(t) \in Nat
  BY <1>1, SumAny DEF Total, SumFunction
<1>3. ASSUME NEW v \in Int
      PROVE  Upto(t, v) \in Nat /\ Upto(t, v) <= Total(t)
  <2> DEFINE T == {u \in Sizes : u <= v}
  <2>1. T \in SUBSET Sizes
    OBVIOUS
  <2>2. Upto(t, v) = SumFunctionOnSet(t, T)
    BY DEF Upto
  <2> HIDE DEF T
  <2>3. /\ SumFunctionOnSet(t, T) \in Nat
        /\ SumFunctionOnSet(t, Sizes \ T) \in Nat
        /\ SumFunctionOnSet(t, Sizes)
             = SumFunctionOnSet(t, T) + SumFunctionOnSet(t, Sizes \ T)
    <3>1. IsFiniteSet(Sizes) /\ \A x \in Sizes : t[x] \in Nat
      BY <1>1
    <3> QED BY <2>1, <3>1, SumSplit
  <2>4. SumFunctionOnSet(t, T) <= SumFunctionOnSet(t, Sizes)
    BY <2>3
  <2> QED BY <1>2, <2>2, <2>3, <2>4
<1> QED BY <1>2, <1>3

\* A larger size is reached by no fewer samples.
LEMMA UptoGrows ==
  ASSUME NEW t \in Tally, NEW u \in Int, NEW v \in Int, u <= v
  PROVE  Upto(t, u) <= Upto(t, v)
<1> DEFINE T == {x \in Sizes : x <= v}
           U == {x \in Sizes : x <= u}
<1>1. T \in SUBSET Sizes /\ U \in SUBSET T
  <2>1. \A x \in Sizes : x \in Int /\ (x <= u => x <= v)
    BY ProfilesAssumption
  <2> QED BY <2>1
<1>2. IsFiniteSet(T) /\ \A x \in T : t[x] \in Nat
  BY <1>1, ProfilesAssumption, FS_Subset DEF Tally
<1>3. Upto(t, v) = SumFunctionOnSet(t, T) /\ Upto(t, u) = SumFunctionOnSet(t, U)
  BY DEF Upto
<1> HIDE DEF T, U
<1>4. /\ SumFunctionOnSet(t, U) \in Nat
      /\ SumFunctionOnSet(t, T \ U) \in Nat
      /\ SumFunctionOnSet(t, T)
           = SumFunctionOnSet(t, U) + SumFunctionOnSet(t, T \ U)
  BY <1>1, <1>2, SumSplit
<1> QED BY <1>3, <1>4

\* There are samples when some size is seen.
LEMMA SeenCounts ==
  ASSUME NEW t \in Tally
  PROVE  Seen(t) # {} <=> Total(t) > 0
<1>1. IsFiniteSet(Sizes) /\ \A x \in Sizes : t[x] \in Nat
  BY ProfilesAssumption DEF Tally
<1>2. Total(t) \in Nat /\ Total(t) = SumFunctionOnSet(t, Sizes)
  BY Counted
<1>3. ASSUME Total(t) > 0 PROVE Seen(t) # {}
  <2>1. \E x \in Sizes : t[x] > 0
    BY <1>1, <1>2, <1>3, SumPositive
  <2> QED BY <2>1 DEF Seen
<1>4. ASSUME Seen(t) # {} PROVE Total(t) > 0
  <2>1. PICK x \in Sizes : t[x] > 0
    BY <1>4 DEF Seen
  <2>2. Total(t) = t[x] + SumFunctionOnSet(t, Sizes \ {x})
        /\ SumFunctionOnSet(t, Sizes \ {x}) \in Nat
    BY <1>1, <1>2, SumAny
  <2> QED BY <1>1, <2>1, <2>2
<1> QED BY <1>3, <1>4

\* The largest size that is seen, which all the samples reach.
LEMMA PeakIs ==
  ASSUME NEW t \in Tally
  PROVE  /\ Peak(t) \in Sizes /\ Peak(t) \in Nat
         /\ Peak(t) \in Seen(t) \cup {0}
         /\ \A v \in Seen(t) : v <= Peak(t)
         /\ Upto(t, Peak(t)) = Total(t)
<1>1. /\ IsFiniteSet(Sizes) /\ Sizes \subseteq Nat /\ 0 \in Sizes
      /\ \A x \in Sizes : t[x] \in Nat
  BY ProfilesAssumption DEF Tally
<1> DEFINE S == Seen(t) \cup {0}
<1>2. S \in SUBSET Sizes /\ S \in SUBSET Nat /\ S # {}
  BY <1>1 DEF Seen
<1>3. IsFiniteSet(S)
  BY <1>1, <1>2, FS_Subset
<1>4. Peak(t) \in S /\ \A v \in S : v <= Peak(t)
  <2> HIDE DEF S
  <2>1. Max(S) \in S /\ \A v \in S : v <= Max(S)
    BY <1>2, <1>3, MaxIs
  <2> QED BY <2>1 DEF Peak, S
<1> DEFINE T == {u \in Sizes : u <= Peak(t)}
<1>5. T \in SUBSET Sizes /\ \A x \in Sizes \ T : t[x] = 0
  BY <1>1, <1>4 DEF Seen
<1>6. Upto(t, Peak(t)) = SumFunctionOnSet(t, T)
  BY DEF Upto
<1> HIDE DEF T
<1>7. IsFiniteSet(Sizes \ T)
  BY <1>1, FS_Difference
<1>8. SumFunctionOnSet(t, Sizes \ T) = 0
  <2>1. \A x \in Sizes \ T : t[x] \in Nat
    BY <1>1
  <2>2. ~ \E x \in Sizes \ T : t[x] > 0
    BY <1>5
  <2> QED BY <1>7, <2>1, <2>2, SumPositive
<1>9. /\ SumFunctionOnSet(t, T) \in Nat
      /\ SumFunctionOnSet(t, Sizes)
           = SumFunctionOnSet(t, T) + SumFunctionOnSet(t, Sizes \ T)
  BY <1>1, <1>5, SumSplit
<1>10. Total(t) = SumFunctionOnSet(t, Sizes)
  BY Counted
<1>11. Upto(t, Peak(t)) = Total(t)
  BY <1>6, <1>8, <1>9, <1>10
<1>12. Peak(t) \in Sizes /\ Peak(t) \in Nat
  BY <1>2, <1>4
<1> QED BY <1>4, <1>11, <1>12

\* The nearest rank of a percentile is the number of a sample, and that many
\* samples are the asked percentage.
LEMMA RankIs ==
  ASSUME NEW p \in 1 .. 100, NEW n \in Nat, n > 0
  PROVE  Rank(p, n) \in Nat /\ Rank(p, n) <= n /\ 100 * Rank(p, n) >= p * n
<1> DEFINE q == CeilDiv(p * n, 100)
<1>1. p * n \in Nat /\ p * n <= 100 * n
  <2>1. n * p <= n * 100 /\ n * p \in Nat
    BY Monotone
  <2> QED BY <2>1
<1>2. q \in Nat /\ p * n <= 100 * q
  BY <1>1, CeilDivIs
<1>3. q <= n
  BY <1>1, CeilDivLe
<1>4. Rank(p, n) = IF 1 >= q THEN 1 ELSE q
  BY <1>2, MaxOfTwo DEF Rank
<1> HIDE DEF q
<1> QED BY <1>1, <1>2, <1>3, <1>4

\* A percentile of some samples is no larger than the largest, and reached by
\* that percentage of them.
LEMMA PercentileIs ==
  ASSUME NEW t \in Tally, Total(t) > 0, NEW p \in 1 .. 100
  PROVE  /\ Percentile(t, p) \in Sizes /\ Percentile(t, p) \in Nat
         /\ Percentile(t, p) <= Peak(t)
         /\ 100 * Upto(t, Percentile(t, p)) >= p * Total(t)
<1> DEFINE n == Total(t)
           S == {v \in Sizes : Upto(t, v) >= Rank(p, n)}
<1>1. n \in Nat /\ Rank(p, n) \in Nat /\ Rank(p, n) <= n
      /\ 100 * Rank(p, n) >= p * n
  BY Counted, RankIs
<1>2. Peak(t) \in Sizes /\ Upto(t, Peak(t)) = n
  BY PeakIs
<1>3. S \in SUBSET Nat /\ S \in SUBSET Sizes /\ Peak(t) \in S
  BY <1>1, <1>2, ProfilesAssumption
<1>4. /\ Percentile(t, p) \in S
      /\ Percentile(t, p) <= Peak(t)
  <2>1. Percentile(t, p) = Min(S)
    BY DEF Percentile
  <2> HIDE DEF S
  <2>2. S \in SUBSET Nat /\ S # {}
    BY <1>3
  <2>3. Min(S) \in S /\ \A y \in S : Min(S) <= y
    BY <2>2, MinIs
  <2> QED BY <1>3, <2>1, <2>3
<1>5. /\ Upto(t, Percentile(t, p)) \in Nat
      /\ Upto(t, Percentile(t, p)) >= Rank(p, n)
  BY <1>3, <1>4, Counted
<1>6. 100 * Upto(t, Percentile(t, p)) >= p * n
  <2> HIDE DEF n
  <2> DEFINE u == Upto(t, Percentile(t, p))
             r == Rank(p, n)
  <2>1. u \in Nat /\ r \in Nat /\ n \in Nat /\ u >= r /\ 100 * r >= p * n
    BY <1>1, <1>5
  <2>2. p * n \in Nat
    BY <2>1
  <2> HIDE DEF u, r
  <2>3. 100 * u >= p * n
    BY <2>1, <2>2
  <2> QED BY <2>3 DEF u
<1> QED BY <1>3, <1>4, <1>6

\* The mean is no larger than the largest sample, and positive only when there
\* is a positive one.
LEMMA MeanIs ==
  ASSUME NEW t \in Tally
  PROVE  /\ Sum(t) \in Nat
         /\ Sum(t) <= Peak(t) * Total(t)
<1>1. /\ IsFiniteSet(Sizes) /\ Sizes \subseteq Nat
      /\ \A x \in Sizes : t[x] \in Nat
  BY ProfilesAssumption DEF Tally
<1> DEFINE f == [v \in Sizes |-> v * t[v]]
<1>2. ASSUME NEW x \in Sizes
      PROVE  f[x] \in Nat /\ t[x] \in Nat /\ f[x] <= Peak(t) * t[x]
  <2>1. x \in Nat /\ t[x] \in Nat /\ f[x] = x * t[x] /\ Peak(t) \in Nat
    BY <1>1, PeakIs
  <2>2. CASE t[x] = 0
    BY <2>1, <2>2
  <2>3. CASE t[x] # 0
    <3>1. x <= Peak(t)
      BY <2>1, <2>3, PeakIs DEF Seen
    <3>2. t[x] * x <= t[x] * Peak(t) /\ t[x] * x \in Nat
      BY <2>1, <3>1, Monotone
    <3> QED BY <2>1, <3>2
  <2> QED BY <2>2, <2>3
<1>3. DOMAIN f = Sizes
  OBVIOUS
<1>4. Sum(t) = SumFunctionOnSet(f, Sizes)
  BY <1>3 DEF Sum, SumFunction
<1> HIDE DEF f
<1>5. SumFunctionOnSet(f, Sizes) \in Nat
  BY <1>1, <1>2, SumAny
<1>6. SumFunctionOnSet(f, Sizes) <= Peak(t) * SumFunctionOnSet(t, Sizes)
  BY <1>1, <1>2, PeakIs, SumScale
<1> QED BY <1>4, <1>5, <1>6, Counted

-----------------------------------------------------------------------------
(***************************************************************************)
(* Capacities                                                              *)
(***************************************************************************)

\* Factors that are not zero cancel.
LEMMA Cancel ==
  ASSUME NEW y \in Nat \ {0}, NEW a \in Nat, NEW b \in Nat, y * a <= y * b
  PROVE  a <= b
<1>1. SUFFICES ASSUME b + 1 <= a PROVE FALSE
  OBVIOUS
<1>2. y * (b + 1) <= y * a /\ y * b \in Nat
  BY <1>1, Monotone
<1>3. y * (b + 1) = y * b + y
  OBVIOUS
<1>4. y * a \in Nat
  OBVIOUS
<1> QED BY <1>2, <1>3, <1>4

\* What a policy may be scaled from, of the samples of a site, is a fraction no
\* larger than the largest sample.
LEMMA SourceIs ==
  ASSUME NEW t \in Tally, NEW count,
         NEW from \in {"max", "mean", "median", "p95", "p99"}
  PROVE  LET x == Source(Summary(count, t), from)
         IN /\ x[1] \in Nat
            /\ x[2] \in Nat \ {0}
            /\ x[1] <= x[2] * Peak(t)
<1>1. /\ Peak(t) \in Nat /\ Total(t) \in Nat
      /\ Sum(t) \in Nat /\ Sum(t) <= Peak(t) * Total(t)
  BY PeakIs, Counted, MeanIs
<1>2. CASE Seen(t) = {}
  <2>1. /\ Source(Summary(count, t), from)[1] = 0
        /\ Source(Summary(count, t), from)[2] = 1
    BY <1>2 DEF Source, Summary
  <2> QED BY <1>1, <2>1
<1>3. CASE Seen(t) # {}
  <2>1. Total(t) > 0
    BY <1>3, SeenCounts
  <2>2. \A p \in {50, 95, 99} :
          Percentile(t, p) \in Nat /\ Percentile(t, p) <= Peak(t)
    <3>1. \A p \in {50, 95, 99} : p \in 1 .. 100
      OBVIOUS
    <3> QED BY <2>1, <3>1, PercentileIs
  <2>3. CASE from = "mean"
    <3>1. Source(Summary(count, t), from) = <<Sum(t), Total(t)>>
      BY <1>3, <2>3 DEF Source, Summary
    <3>2. Peak(t) * Total(t) = Total(t) * Peak(t)
      BY <1>1
    <3> QED BY <1>1, <2>1, <3>1, <3>2
  <2>4. CASE from # "mean"
    <3>1. Source(Summary(count, t), from)
            \in {<<v, 1>> : v \in {Peak(t), Percentile(t, 50),
                                   Percentile(t, 95), Percentile(t, 99)}}
      BY <1>3, <2>4 DEF Source, Summary
    <3> QED BY <1>1, <2>2, <3>1
  <2> QED BY <2>3, <2>4
<1> QED BY <1>2, <1>3

\* The largest sample and the upper percentiles are sizes that 95 of 100
\* samples reach.
LEMMA SourceReaches ==
  ASSUME NEW t \in Tally, NEW count, Seen(t) # {},
         NEW from \in {"max", "p95", "p99"}
  PROVE  LET x == Source(Summary(count, t), from)
         IN /\ x[2] = 1
            /\ x[1] \in Nat
            /\ 100 * Upto(t, x[1]) >= 95 * Total(t)
<1>1. /\ Total(t) > 0 /\ Total(t) \in Nat
      /\ Peak(t) \in Nat /\ Upto(t, Peak(t)) = Total(t)
  BY SeenCounts, Counted, PeakIs
<1>2. 95 \in 1 .. 100 /\ 99 \in 1 .. 100
  OBVIOUS
<1>3. CASE from = "max"
  <2>1. Source(Summary(count, t), from) = <<Peak(t), 1>>
    BY <1>3 DEF Source, Summary
  <2> QED BY <1>1, <2>1
<1>4. CASE from = "p95"
  <2>1. Source(Summary(count, t), from) = <<Percentile(t, 95), 1>>
    BY <1>4 DEF Source, Summary
  <2> QED BY <1>1, <1>2, <2>1, PercentileIs
<1>5. CASE from = "p99"
  <2>1. Source(Summary(count, t), from) = <<Percentile(t, 99), 1>>
    BY <1>5 DEF Source, Summary
  <2>2. /\ Percentile(t, 99) \in Nat
        /\ 100 * Upto(t, Percentile(t, 99)) >= 99 * Total(t)
    BY <1>1, <1>2, PercentileIs
  <2>3. Upto(t, Percentile(t, 99)) \in Nat
    BY <2>2, Counted
  <2>4. 100 * Upto(t, Percentile(t, 99)) >= 95 * Total(t)
    BY <1>1, <2>2, <2>3
  <2> QED BY <2>1, <2>2, <2>4
<1> QED BY <1>3, <1>4, <1>5

\* A fraction no larger than peak, multiplied: no more than peak multiplied, no
\* more than peak when it is scaled down, and no less than itself when it is
\* scaled up.
LEMMA Multiplied ==
  ASSUME NEW x \in Nat, NEW y \in Nat \ {0}, NEW peak \in Nat, x <= y * peak,
         NEW m \in Nat, NEW n \in Nat \ {0}
  PROVE  LET q == CeilDiv(x * m, y * n)
         IN /\ q \in Nat
            /\ q <= CeilDiv(peak * m, n)
            /\ m <= n => q <= peak
            /\ m >= n => x <= y * q
<1> DEFINE q == CeilDiv(x * m, y * n)
           c == CeilDiv(peak * m, n)
<1>1. /\ x * m \in Nat /\ peak * m \in Nat
      /\ y * n \in Nat /\ y * n # 0
  <2>1. \A i, j \in Nat : i * j \in Nat
    OBVIOUS
  <2>2. \A i, j \in Nat \ {0} : i * j # 0
    OBVIOUS
  <2> QED BY <2>1, <2>2
<1>2. q \in Nat /\ x * m <= (y * n) * q
  BY <1>1, CeilDivIs
<1>3. c \in Nat /\ peak * m <= n * c
  BY <1>1, CeilDivIs
<1>4. q <= c
  <2> HIDE DEF c
  <2>1. m * x <= m * (y * peak) /\ y * (peak * m) <= y * (n * c)
    <3>1. y * peak \in Nat /\ n * c \in Nat
      BY <1>3
    <3>2. m * x <= m * (y * peak)
      BY <3>1, Monotone
    <3>3. y * (peak * m) <= y * (n * c)
      BY <1>1, <1>3, <3>1, Monotone
    <3> QED BY <3>2, <3>3
  <2>2. /\ m * x = x * m
        /\ m * (y * peak) = y * (peak * m)
        /\ y * (n * c) = (y * n) * c
    BY <1>3
  <2>3. x * m <= (y * n) * c
    <3>1. y * (peak * m) \in Nat /\ (y * n) * c \in Nat
      BY <1>1, <1>3
    <3> QED BY <1>1, <2>1, <2>2, <3>1
  <2> QED BY <1>1, <1>3, <2>3, CeilDivLe
<1>5. m <= n => c <= peak
  <2>1. SUFFICES ASSUME m <= n PROVE c <= peak
    OBVIOUS
  <2>2. peak * m <= peak * n /\ peak * n = n * peak
    BY <2>1, Monotone
  <2>3. peak * m <= n * peak
    BY <2>2
  <2> QED BY <1>1, <2>3, CeilDivLe
<1>6. m >= n => x <= y * q
  <2> HIDE DEF q
  <2>1. SUFFICES ASSUME n <= m PROVE x <= y * q
    BY <1>2
  <2>2. x * n <= x * m /\ x * n = n * x /\ x * n \in Nat
    BY <2>1, Monotone
  <2>3. (y * n) * q = n * (y * q) /\ y * q \in Nat
    BY <1>2
  <2>4. n * (y * q) \in Nat
    BY <2>3
  <2>5. n * x <= n * (y * q)
    BY <1>1, <1>2, <2>2, <2>3, <2>4
  <2> QED BY <2>3, <2>5, Cancel
<1> QED BY <1>2, <1>3, <1>4, <1>5, <1>6

\* Rounding never takes away, adds less than as much again, or less than eight.
LEMMA RoundedIs ==
  ASSUME NEW x \in Nat, x <= 2^30, NEW round \in {"pow2", "to8", "exact"}
  PROVE  /\ Rounded(x, round) \in Nat
         /\ x <= Rounded(x, round)
         /\ \/ Rounded(x, round) < 2 * x
            \/ Rounded(x, round) < x + 8
            \/ x = 0 /\ Rounded(x, round) <= 8
         /\ round = "pow2" /\ x > 0 => Rounded(x, round) < 2 * x
<1>1. CASE round = "exact"
  <2>1. Rounded(x, round) = x
    BY <1>1 DEF Rounded
  <2> QED BY <1>1, <2>1
<1>2. CASE round = "pow2"
  <2> DEFINE y == IF x >= 1 THEN x ELSE 1
  <2>1. Rounded(x, round) = Pow2(y)
    BY <1>2, MaxOfTwo DEF Rounded
  <2>2. y \in Nat /\ 1 <= y /\ y <= 2^30 /\ x <= y
    BY Powers
  <2>3. Pow2(y) \in Nat /\ y <= Pow2(y) /\ Pow2(y) < 2 * y
    BY <2>2, Pow2Is
  <2> QED BY <2>1, <2>2, <2>3
<1>3. CASE round = "to8"
  <2> DEFINE q == CeilDiv(x, 8)
  <2>1. q \in Nat /\ x <= 8 * q /\ 8 * q < x + 8
    BY CeilDivIs
  <2>2. Rounded(x, round) = IF 8 >= 8 * q THEN 8 ELSE 8 * q
    BY <1>3, <2>1, MaxOfTwo DEF Rounded
  <2> HIDE DEF q
  <2> QED BY <1>3, <2>1, <2>2
<1> QED BY <1>1, <1>2, <1>3

\* What the lint proposes is proposed for a site with ten creations whose
\* largest sample is four at least and outgrew its capacity, a number, fourfold,
\* and for every such site; it is no more than half too large when it is not
\* scaled up, and covers 95 of 100 samples when a high percentile is not scaled
\* down.
THEOREM ProposalIs ==
  ASSUME NEW t \in Tally, NEW count \in Nat, NEW cap \in Nat \cup {Dynamic},
         NEW globals \in Policies,
         \A v \in Sizes : CeilDiv(v * Multiplier(globals.mul)[1],
                                  Multiplier(globals.mul)[2]) <= 2^30
  PROVE  LET to == ProposeCap(Summary(count, t), cap, globals)
             mul == Multiplier(globals.mul)
         IN /\ to # NoChange =>
                 /\ to \in Nat /\ cap \in Nat
                 /\ count >= MinCount /\ Peak(t) >= 4
                 /\ Peak(t) > cap /\ Peak(t) >= GrowthFactor * cap
                 /\ mul[1] <= mul[2] => to < 2 * Peak(t) \/ to < Peak(t) + 8
                 /\ mul[1] >= mul[2] /\ globals.from \in {"max", "p95", "p99"}
                      => 100 * Upto(t, to) >= 95 * Total(t)
            /\ /\ cap \in Nat /\ count >= MinCount
               /\ Peak(t) >= 4 /\ Peak(t) >= GrowthFactor * cap
               => to # NoChange
<1> DEFINE stats == Summary(count, t)
           to == ProposeCap(stats, cap, globals)
           mul == Multiplier(globals.mul)
           x == Source(stats, globals.from)
           scaled == Scaled(stats, globals.from, mul)
           rounded == Rounded(scaled, globals.round)
<1>1. /\ stats.count = count /\ stats.policy = NoPolicy
      /\ stats.peak = Peak(t)
  <2>1. CASE Seen(t) = {}
    <3>1. Peak(t) = 0
      BY <2>1, PeakIs
    <3> QED BY <2>1, <3>1 DEF Summary
  <2>2. CASE Seen(t) # {}
    BY <2>2 DEF Summary
  <2> QED BY <2>1, <2>2
<1>2. Peak(t) \in Nat /\ Peak(t) \in Sizes
  BY PeakIs
<1>3. to = IF Outgrows(stats, cap) THEN rounded ELSE NoChange
  <2> HIDE DEF stats
  <2> QED BY <1>1 DEF ProposeCap
<1>4. /\ globals.from \in {"max", "mean", "median", "p95", "p99"}
      /\ globals.round \in {"pow2", "to8", "exact"}
      /\ mul[1] \in Nat /\ mul[2] \in Nat \ {0}
  BY DEF Policies, Multiplier
<1>5. /\ x[1] \in Nat /\ x[2] \in Nat \ {0} /\ x[1] <= x[2] * Peak(t)
  BY <1>4, SourceIs
<1>6. /\ scaled \in Nat /\ scaled <= 2^30
      /\ mul[1] <= mul[2] => scaled <= Peak(t)
      /\ mul[1] >= mul[2] => x[1] <= x[2] * scaled
  <2>1. scaled = CeilDiv(x[1] * mul[1], x[2] * mul[2])
    BY DEF Scaled
  <2>2. CeilDiv(Peak(t) * mul[1], mul[2]) <= 2^30
    BY <1>2
  <2>3. CeilDiv(Peak(t) * mul[1], mul[2]) \in Nat
    <3>1. Peak(t) * mul[1] \in Nat
      BY <1>2, <1>4
    <3> QED BY <1>4, <3>1, CeilDivIs
  <2> HIDE DEF x, mul, scaled
  <2>4. /\ scaled \in Nat /\ scaled <= CeilDiv(Peak(t) * mul[1], mul[2])
        /\ mul[1] <= mul[2] => scaled <= Peak(t)
        /\ mul[1] >= mul[2] => x[1] <= x[2] * scaled
    <3> DEFINE q(a, b, m, n) == CeilDiv(a * m, b * n)
    <3>1. ASSUME NEW a \in Nat, NEW b \in Nat \ {0}, a <= b * Peak(t),
                 NEW m \in Nat, NEW n \in Nat \ {0}
          PROVE  /\ q(a, b, m, n) \in Nat
                 /\ q(a, b, m, n) <= CeilDiv(Peak(t) * m, n)
                 /\ m <= n => q(a, b, m, n) <= Peak(t)
                 /\ m >= n => a <= b * q(a, b, m, n)
      BY <1>2, <3>1, Multiplied
    <3>2. scaled = q(x[1], x[2], mul[1], mul[2])
      BY <2>1
    <3> HIDE DEF q
    <3> QED BY <1>4, <1>5, <3>1, <3>2
  <2>5. 2^30 \in Nat
    BY Powers
  <2> QED BY <2>2, <2>3, <2>4, <2>5
<1>7. /\ rounded \in Nat /\ scaled <= rounded
      /\ \/ rounded < 2 * scaled
         \/ rounded < scaled + 8
         \/ scaled = 0 /\ rounded <= 8
  <2> HIDE DEF scaled
  <2> QED BY <1>4, <1>6, RoundedIs
<1>8. ASSUME Outgrows(stats, cap)
      PROVE  /\ to = rounded /\ cap \in Nat
             /\ count >= MinCount /\ Peak(t) >= 4
             /\ Peak(t) > cap /\ Peak(t) >= GrowthFactor * cap
             /\ mul[1] <= mul[2] => to < 2 * Peak(t) \/ to < Peak(t) + 8
             /\ mul[1] >= mul[2] /\ globals.from \in {"max", "p95", "p99"}
                  => 100 * Upto(t, to) >= 95 * Total(t)
  <2>1. to = rounded
    BY <1>3, <1>8
  <2>2. /\ cap \in Nat /\ count >= MinCount /\ Peak(t) >= 4
        /\ Peak(t) > cap /\ Peak(t) >= GrowthFactor * cap
    <3> HIDE DEF stats
    <3> QED BY <1>1, <1>2, <1>8, ProfilesAssumption DEF Outgrows, GrowthFactor
  <2>3. ASSUME mul[1] <= mul[2]
        PROVE  to < 2 * Peak(t) \/ to < Peak(t) + 8
    <3> HIDE DEF to, rounded, scaled, mul
    <3> QED BY <1>2, <1>6, <1>7, <2>1, <2>2, <2>3
  <2>4. ASSUME mul[1] >= mul[2], globals.from \in {"max", "p95", "p99"}
        PROVE  100 * Upto(t, to) >= 95 * Total(t)
    <3>1. Seen(t) # {}
      BY <2>2, PeakIs
    <3>2. x[2] = 1 /\ x[1] \in Nat /\ 100 * Upto(t, x[1]) >= 95 * Total(t)
      BY <2>4, <3>1, SourceReaches
    <3> HIDE DEF to, rounded, scaled, mul, x
    <3>3. x[1] <= scaled
      BY <1>6, <2>4, <3>2
    <3>4. x[1] <= to /\ to \in Nat
      BY <1>6, <1>7, <2>1, <3>2, <3>3
    <3>5. Upto(t, x[1]) <= Upto(t, to) /\ Upto(t, x[1]) \in Nat
          /\ Upto(t, to) \in Nat /\ Total(t) \in Nat
      BY <3>2, <3>4, UptoGrows, Counted
    <3> QED BY <3>2, <3>5
  <2> HIDE DEF to, rounded, mul
  <2> QED BY <2>1, <2>2, <2>3, <2>4
<1>9. ASSUME cap \in Nat, count >= MinCount, Peak(t) >= 4,
             Peak(t) >= GrowthFactor * cap
      PROVE  Outgrows(stats, cap)
  <2> HIDE DEF stats
  <2> QED BY <1>1, <1>2, <1>9, ProfilesAssumption DEF Outgrows, GrowthFactor
<1>10. rounded # NoChange
  BY <1>7, ProfilesAssumption
<1> HIDE DEF to, rounded, mul, stats
<1>11. to # NoChange <=> Outgrows(stats, cap)
  BY <1>3, <1>10
<1>12. to = ProposeCap(Summary(count, t), cap, globals)
       /\ mul = Multiplier(globals.mul)
  BY DEF to, mul, stats
<1> QED BY <1>7, <1>8, <1>9, <1>11, <1>12

\* analyze recommends a policy for thirty samples and more, the one of their
\* shape.
LEMMA RecommendedIs ==
  ASSUME NEW t \in Tally, Recommended(t) # NoPolicy
  PROVE  /\ Total(t) >= MinSamples
         /\ \/ /\ MostlyZero(t) /\ Seen(t) = {0}
               /\ Recommended(t) = Policy("max", <<1, 1>>, "exact")
            \/ /\ MostlyZero(t)
               /\ Recommended(t) = Policy("p99", <<1, 1>>, "pow2")
            \/ /\ ~ MostlyZero(t) /\ UnimodalTight(t)
               /\ Recommended(t) = Policy("max", <<1, 1>>, "pow2")
            \/ /\ ~ MostlyZero(t) /\ ~ UnimodalTight(t)
               /\ Recommended(t) = Policy("median", <<2, 1>>, "pow2")
            \/ /\ ~ MostlyZero(t) /\ ~ UnimodalTight(t)
               /\ Recommended(t) = Policy("p95", <<1, 2>>, "pow2")
<1>1. Shape(t) \notin {"InsufficientData", "UnimodalSpread"}
  BY DEF Recommended
<1>2. Total(t) \in Nat
  BY Counted
<1>3. Total(t) >= MinSamples
  BY <1>1, <1>2 DEF Shape, MinSamples
<1>4. CASE MostlyZero(t)
  <2>1. Shape(t) = "MostlyZero"
    BY <1>2, <1>3, <1>4 DEF Shape, MinSamples
  <2> QED BY <1>3, <1>4, <2>1 DEF Recommended
<1>5. CASE ~ MostlyZero(t) /\ UnimodalTight(t)
  <2>1. Shape(t) = "UnimodalTight"
    BY <1>2, <1>3, <1>5 DEF Shape, MinSamples
  <2> QED BY <1>3, <1>5, <2>1 DEF Recommended
<1>6. CASE ~ MostlyZero(t) /\ ~ UnimodalTight(t)
  <2>1. Shape(t) \in {"Bimodal", "HeavyTail"}
    BY <1>1, <1>2, <1>3, <1>6 DEF Shape, MinSamples
  <2> QED BY <1>3, <1>6, <2>1 DEF Recommended
<1> QED BY <1>4, <1>5, <1>6

\* The advice that analyze writes fits the samples it was given for.
LEMMA AdviceIs ==
  ASSUME NEW t \in Tally, NEW count, Recommended(t) # NoPolicy
  PROVE  LET policy == Recommended(t)
             cap == Advised(Summary(count, t), policy)
         IN /\ Total(t) >= MinSamples
            /\ UnimodalTight(t) /\ ~ MostlyZero(t)
                 => Peak(t) <= cap /\ cap < 2 * Peak(t)
            /\ policy.from = "median" => 2 * Upto(t, cap) >= Total(t)
            /\ MostlyZero(t) => 100 * Upto(t, cap) >= 99 * Total(t)
            /\ policy.from = "p95" => cap <= Percentile(t, 95)
<1> DEFINE stats == Summary(count, t)
           cap == Advised(stats, Recommended(t))
<1>1. /\ Total(t) >= MinSamples /\ Total(t) \in Nat /\ Total(t) > 0
      /\ Seen(t) # {}
  BY RecommendedIs, Counted, SeenCounts DEF MinSamples
<1>2. stats = [count |-> count, peak |-> Peak(t),
               p50 |-> Percentile(t, 50), p95 |-> Percentile(t, 95),
               p99 |-> Percentile(t, 99), mean |-> <<Sum(t), Total(t)>>,
               policy |-> NoPolicy]
  BY <1>1 DEF Summary
<1>3. /\ Peak(t) \in Sizes /\ Peak(t) \in Nat
      /\ Upto(t, Peak(t)) = Total(t)
  BY PeakIs
<1>4. ASSUME NEW p \in {50, 95, 99}
      PROVE  /\ Percentile(t, p) \in Sizes /\ Percentile(t, p) \in Nat
             /\ 100 * Upto(t, Percentile(t, p)) >= p * Total(t)
  <2>1. p \in 1 .. 100
    OBVIOUS
  <2> QED BY <1>1, <2>1, PercentileIs
<1>5. \A v \in Sizes : v \in Nat /\ v <= 2^30 /\ 2 * v <= 2^30
  BY ProfilesAssumption, Powers
<1> HIDE DEF stats
\* A size that is rounded up is no less, and reached by no fewer samples.
<1>6. ASSUME NEW v \in Nat, NEW x \in Nat, v <= x, x <= 2^30,
             cap = IF x = 0 THEN 0 ELSE Rounded(x, "pow2")
      PROVE  /\ cap \in Nat
             /\ v <= cap
             /\ x > 0 => cap < 2 * x
             /\ Upto(t, v) \in Nat /\ Upto(t, cap) \in Nat
             /\ Upto(t, v) <= Upto(t, cap)
  <2> HIDE DEF cap
  <2>1. /\ Rounded(x, "pow2") \in Nat /\ x <= Rounded(x, "pow2")
        /\ x > 0 => Rounded(x, "pow2") < 2 * x
    BY <1>6, RoundedIs
  <2>2. cap \in Nat /\ v <= cap /\ (x > 0 => cap < 2 * x)
    BY <1>6, <2>1
  <2> QED BY <2>2, UptoGrows, Counted
<1>7. CASE Seen(t) = {0} /\ MostlyZero(t)
           /\ Recommended(t) = Policy("max", <<1, 1>>, "exact")
  <2>1. Peak(t) = 0
    BY <1>7, PeakIs
  <2>2. Scaled(stats, "max", <<1, 1>>) = 0
    BY <1>2, <2>1 DEF Scaled, Source, CeilDiv
  <2>3. cap = 0
    BY <1>7, <2>2 DEF Advised, Policy
  <2> HIDE DEF cap
  <2>4. 100 * Upto(t, cap) >= 99 * Total(t)
    BY <1>1, <1>3, <2>1, <2>3
  <2> QED BY <1>1, <1>7, <2>4 DEF Policy, cap, stats
<1>8. CASE MostlyZero(t) /\ Recommended(t) = Policy("p99", <<1, 1>>, "pow2")
  <2> DEFINE x == Percentile(t, 99)
  <2>1. x \in Nat /\ x <= 2^30 /\ 100 * Upto(t, x) >= 99 * Total(t)
    BY <1>4, <1>5
  <2>2. Scaled(stats, "p99", <<1, 1>>) = x
    BY <1>2, <2>1 DEF Scaled, Source, CeilDiv
  <2>3. cap = IF x = 0 THEN 0 ELSE Rounded(x, "pow2")
    BY <1>8, <2>2 DEF Advised, Policy
  <2> HIDE DEF x
  <2>4. Upto(t, x) \in Nat /\ Upto(t, cap) \in Nat
        /\ Upto(t, x) <= Upto(t, cap)
    BY <1>6, <2>1, <2>3
  <2> HIDE DEF cap
  <2>5. 100 * Upto(t, cap) >= 99 * Total(t)
    BY <1>1, <2>1, <2>4
  <2> QED BY <1>1, <1>8, <2>5 DEF Policy, cap, stats
<1>9. CASE /\ ~ MostlyZero(t) /\ UnimodalTight(t)
           /\ Recommended(t) = Policy("max", <<1, 1>>, "pow2")
  <2> DEFINE x == Peak(t)
  <2>1. x > 0
    <3>1. Sum(t) > 0 /\ Sum(t) \in Nat /\ Sum(t) <= x * Total(t)
      BY <1>9, MeanIs DEF UnimodalTight
    <3>2. x # 0
      <4>1. 0 * Total(t) = 0
        BY <1>1
      <4> QED BY <3>1, <4>1
    <3> QED BY <1>3, <3>2
  <2>2. Scaled(stats, "max", <<1, 1>>) = x
    BY <1>2, <1>3 DEF Scaled, Source, CeilDiv
  <2>3. cap = IF x = 0 THEN 0 ELSE Rounded(x, "pow2")
    BY <1>9, <2>2 DEF Advised, Policy
  <2>4. x \in Nat /\ x <= 2^30
    BY <1>3, <1>5
  <2> HIDE DEF x
  <2>5. x <= cap /\ cap < 2 * x
    BY <1>6, <2>1, <2>3, <2>4
  <2> QED BY <1>1, <1>9, <2>5 DEF Policy, cap, stats, x
<1>10. CASE /\ ~ MostlyZero(t) /\ ~ UnimodalTight(t)
            /\ Recommended(t) = Policy("median", <<2, 1>>, "pow2")
  <2> DEFINE v == Percentile(t, 50)
             x == 2 * v
  <2>1. v \in Nat /\ x \in Nat /\ v <= x /\ x <= 2^30
        /\ 100 * Upto(t, v) >= 50 * Total(t)
    BY <1>4, <1>5
  <2>2. Scaled(stats, "median", <<2, 1>>) = x
    BY <1>2, <2>1 DEF Scaled, Source, CeilDiv
  <2>3. cap = IF x = 0 THEN 0 ELSE Rounded(x, "pow2")
    BY <1>10, <2>2 DEF Advised, Policy
  <2> HIDE DEF v, x
  <2>4. Upto(t, v) \in Nat /\ Upto(t, cap) \in Nat
        /\ Upto(t, v) <= Upto(t, cap)
    BY <1>6, <2>1, <2>3
  <2> HIDE DEF cap
  <2>5. 2 * Upto(t, cap) >= Total(t)
    BY <1>1, <2>1, <2>4
  <2> QED BY <1>1, <1>10, <2>5 DEF Policy, cap, stats
<1>11. CASE /\ ~ MostlyZero(t) /\ ~ UnimodalTight(t)
            /\ Recommended(t) = Policy("p95", <<1, 2>>, "pow2")
  <2> DEFINE v == Percentile(t, 95)
             x == CeilDiv(v, 2)
  <2>1. v \in Nat /\ v <= 2^30
    BY <1>4, <1>5
  <2>2. x \in Nat /\ v <= 2 * x /\ 2 * x < v + 2
    <3>1. 2 \in Nat \ {0}
      OBVIOUS
    <3> HIDE DEF v
    <3> QED BY <2>1, <3>1, CeilDivIs
  <2>3. Scaled(stats, "p95", <<1, 2>>) = x
    BY <1>2, <2>1 DEF Scaled, Source
  <2>4. cap = IF x = 0 THEN 0 ELSE Rounded(x, "pow2")
    BY <1>11, <2>3 DEF Advised, Policy
  <2> HIDE DEF x
  <2>5. x <= 2^30
    BY <2>1, <2>2, Powers
  <2>6. cap \in Nat /\ (x > 0 => cap < 2 * x)
    BY <1>6, <2>2, <2>4, <2>5
  <2>7. cap <= v
    <3> HIDE DEF cap, v
    <3>1. CASE x = 0
      <4>1. cap = 0
        BY <2>4, <3>1
      <4> QED BY <2>1, <4>1
    <3> QED BY <2>1, <2>2, <2>6, <3>1
  <2> HIDE DEF cap
  <2> QED BY <1>1, <1>11, <2>7 DEF Policy, cap, stats
<1> QED BY <1>7, <1>8, <1>9, <1>10, <1>11, RecommendedIs DEF stats
=============================================================================
