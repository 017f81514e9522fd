------------------------------ MODULE Profiles ------------------------------
(***************************************************************************)
(* What captrack-pgo computes from the samples of a construction site: the *)
(* summary (src/src/stats.rs), the shape of their distribution and the     *)
(* policy it recommends (analyze.rs), and the capacity the lint proposes   *)
(* (captrack-pgo-lint/src/rules.rs).                                       *)
(*                                                                         *)
(* Samples are a tally: how many of them have each size.  All of this code *)
(* sorts its samples first or adds them up, so their order is irrelevant.  *)
(* Quotients and cap_mul are fractions; the code's floating point agrees   *)
(* with them for numbers of this size, but may be off by one at a bucket's *)
(* edge.                                                                   *)
(***************************************************************************)
EXTENDS Integers, FiniteSetsExt, Functions

CONSTANTS
  Sizes,      \* bound: the sizes a sample may have
  MaxCount,   \* the largest creation_count: saturating_add
  Dynamic,    \* a capacity in the source that is not a literal
  NoPolicy,   \* an absent policy
  NoChange    \* no capacity is proposed

ASSUME ProfilesAssumption ==
  /\ Sizes \subseteq Nat /\ IsFiniteSet(Sizes)
  /\ 0 \in Sizes
  /\ \A v \in Sizes : 2 * v <= 2^30
  /\ MaxCount \in Nat
  /\ Dynamic \notin Nat /\ NoChange \notin Nat

Tally == [Sizes -> Nat]
NoSamples == [v \in Sizes |-> 0]
Total(t) == SumFunction(t)
Upto(t, v) == SumFunctionOnSet(t, {u \in Sizes : u <= v})
Seen(t) == {v \in Sizes : t[v] > 0}

-----------------------------------------------------------------------------
(***************************************************************************)
(* Summary                                                                 *)
(***************************************************************************)

CeilDiv(x, y) == (x + y - 1) \div y

\* Slip: the rank is rounded down.
RankDown(p, n) == Max({1, (p * n) \div 100})

\* The nearest rank, counted from one.
Rank(p, n) == Max({1, CeilDiv(p * n, 100)})

Percentile(t, p) == Min({v \in Sizes : Upto(t, v) >= Rank(p, Total(t))})

Peak(t) == Max(Seen(t) \cup {0})
Sum(t) == SumFunction([v \in Sizes |-> v * t[v]])
SumOfSquares(t) == SumFunction([v \in Sizes |-> v * v * t[v]])

\* SiteStats as the lint reads it; the mean is <<sum, number of samples>>.
Summary(count, t) ==
  IF Seen(t) = {}
    THEN [count |-> count, peak |-> 0, p50 |-> 0, p95 |-> 0, p99 |-> 0,
          mean |-> <<0, 1>>, policy |-> NoPolicy]
    ELSE [count |-> count, peak |-> Peak(t),
          p50 |-> Percentile(t, 50), p95 |-> Percentile(t, 95),
          p99 |-> Percentile(t, 99), mean |-> <<Sum(t), Total(t)>>,
          policy |-> NoPolicy]

-----------------------------------------------------------------------------
(***************************************************************************)
(* Capacity policies                                                       *)
(***************************************************************************)

Policies ==
  [from : {"max", "mean", "median", "p95", "p99"},
   mul : Int \X (Nat \ {0}),
   round : {"pow2", "to8", "exact"}]

Policy(from, mul, round) == [from |-> from, mul |-> mul, round |-> round]

\* The fraction a policy scales, of a site's summary.
Source(stats, from) ==
  CASE from = "max" -> <<stats.peak, 1>>
    [] from = "mean" -> stats.mean
    [] from = "median" -> <<stats.p50, 1>>
    [] from = "p95" -> <<stats.p95, 1>>
    [] from = "p99" -> <<stats.p99, 1>>

Scaled(stats, from, mul) ==
  LET x == Source(stats, from) IN CeilDiv(x[1] * mul[1], x[2] * mul[2])

\* The least power of two that is at least x, which 2^30 always is.
Pow2(x) == Min({p \in {2^k : k \in 0..30} : p >= x})

\* A cap_mul that is not positive counts as one.
Multiplier(mul) == IF mul[1] <= 0 THEN <<1, 1>> ELSE mul

Rounded(x, round) ==
  CASE round = "pow2" -> Pow2(Max({x, 1}))
    [] round = "to8" -> Max({8, 8 * CeilDiv(x, 8)})
    [] round = "exact" -> x

MinCount == 10
GrowthFactor == 4

\* Slip: rules 4 to 6 are left out.
OutgrowsAnyway(stats, cap) ==
  /\ stats.count >= MinCount
  /\ stats.peak > 0
  /\ cap # Dynamic

\* Rules 1 to 6: whether a site outgrows the capacity it is created with.
Outgrows(stats, cap) ==
  /\ stats.count >= MinCount
  /\ stats.peak > 0
  /\ cap # Dynamic
  /\ stats.peak > cap
  /\ stats.peak >= IF cap = 0 THEN 4 ELSE GrowthFactor * cap

\* Slip: the scaled size is added to the capacity that is there.
ProposeCapAdded(stats, cap, globals) ==
  LET policy == IF stats.policy = NoPolicy THEN globals ELSE stats.policy
  IN IF Outgrows(stats, cap)
       THEN Rounded(cap + Scaled(stats, policy.from, Multiplier(policy.mul)),
                    policy.round)
       ELSE NoChange

\* A site's own policy overrides the one of the command line.
ProposeCap(stats, cap, globals) ==
  LET policy == IF stats.policy = NoPolicy THEN globals ELSE stats.policy
  IN IF Outgrows(stats, cap)
       THEN Rounded(Scaled(stats, policy.from, Multiplier(policy.mul)),
                    policy.round)
       ELSE NoChange

-----------------------------------------------------------------------------
(***************************************************************************)
(* Shapes of distributions                                                 *)
(***************************************************************************)

MinSamples == 30
Buckets == 10

MostlyZero(t) == 2 * t[0] > Total(t)

\* The coefficient of variation is below 0.10.
UnimodalTight(t) ==
  /\ Sum(t) > 0
  /\ 100 * (Total(t) * SumOfSquares(t) - Sum(t) * Sum(t)) < Sum(t) * Sum(t)

\* Two neighbouring peaks of the histogram, and between them a bucket below
\* three tenths of the smaller one.
Bimodal(t) ==
  LET low == Min(Seen(t))
      bucket(v) ==
        Min({((v - low) * Buckets) \div (Peak(t) - low), Buckets - 1})
      counts == [i \in 0 .. Buckets - 1 |->
                   SumFunctionOnSet(t, {v \in Seen(t) : bucket(v) = i})]
      height(i) == IF i \in DOMAIN counts THEN counts[i] ELSE 0
      peaks == {i \in DOMAIN counts : /\ height(i) > height(i - 1)
                                      /\ height(i) > height(i + 1)}
  IN /\ Peak(t) > low
     /\ \E i, j \in peaks :
          /\ i < j
          /\ (i + 1 .. j - 1) \cap peaks = {}
          /\ \E k \in i + 1 .. j - 1 :
               10 * counts[k] < 3 * Min({counts[i], counts[j]})

HeavyTail(t) ==
  /\ Percentile(t, 50) > 0
  /\ Percentile(t, 99) > 10 * Percentile(t, 50)

\* Slip: Bimodal is tried before UnimodalTight.
ShapeBimodalFirst(t) ==
  IF Total(t) < MinSamples THEN "InsufficientData"
  ELSE IF MostlyZero(t) THEN "MostlyZero"
  ELSE IF Bimodal(t) THEN "Bimodal"
  ELSE IF UnimodalTight(t) THEN "UnimodalTight"
  ELSE IF HeavyTail(t) THEN "HeavyTail"
  ELSE "UnimodalSpread"

\* classify: the first shape that fits.
Shape(t) ==
  IF Total(t) < MinSamples THEN "InsufficientData"
  ELSE IF MostlyZero(t) THEN "MostlyZero"
  ELSE IF UnimodalTight(t) THEN "UnimodalTight"
  ELSE IF Bimodal(t) THEN "Bimodal"
  ELSE IF HeavyTail(t) THEN "HeavyTail"
  ELSE "UnimodalSpread"

\* recommend_policy
Recommended(t) ==
  CASE Shape(t) \in {"InsufficientData", "UnimodalSpread"} -> NoPolicy
    [] Shape(t) = "UnimodalTight" -> Policy("max", <<1, 1>>, "pow2")
    [] Shape(t) = "Bimodal" -> Policy("median", <<2, 1>>, "pow2")
    [] Shape(t) = "HeavyTail" -> Policy("p95", <<1, 2>>, "pow2")
    [] Shape(t) = "MostlyZero" ->
         IF Seen(t) = {0} THEN Policy("max", <<1, 1>>, "exact")
                          ELSE Policy("p99", <<1, 1>>, "pow2")

\* The capacity the report shows for a policy: unlike the lint's, it may be
\* zero however it is rounded.
Advised(stats, policy) ==
  LET x == Scaled(stats, policy.from, policy.mul)
  IN IF x = 0 THEN 0 ELSE Rounded(x, policy.round)
=============================================================================
