----------------------------- MODULE MCPipeline -----------------------------
(***************************************************************************)
(* Site "a" takes every form the lints tell apart, "b" stands beside it to *)
(* be mistaken for it.  The tallies are chosen at the edges of the rules:  *)
(* twenty-one samples whose 95th percentile is the twentieth, nine and ten *)
(* creations, a peak of one less than four, an empty tally, and one for    *)
(* each shape, which two benches together have the samples for.            *)
(***************************************************************************)
EXTENDS Pipeline

Basic ==
  [kind |-> "list", form |-> "new", cap |-> 0, hasher |-> "std",
   let |-> "free", wants |-> "std", below |-> FALSE, byvalue |-> FALSE,
   wrapped |-> FALSE, inspected |-> FALSE]

Hash == [Basic EXCEPT !.kind = "hash"]
Given(h) == [Hash EXCEPT !.form = "with_hasher", !.cap = 1, !.hasher = h]

Texts ==
  {Basic,
   [Basic EXCEPT !.form = "with_capacity", !.cap = 4],
   [Basic EXCEPT !.form = "with_capacity", !.cap = Dynamic],
   [Basic EXCEPT !.form = "macro"],
   [Basic EXCEPT !.kind = "tree"],
   [Basic EXCEPT !.byvalue = TRUE],
   [Basic EXCEPT !.form = "other", !.let = "none"],
   [Hash EXCEPT !.form = "other", !.let = "omitted"],
   Hash,
   Given("own"),
   Given("ahash"),
   [Given("std") EXCEPT !.let = "omitted"],
   [Hash EXCEPT !.let = "omitted"],
   [Hash EXCEPT !.let = "omitted", !.below = TRUE],
   [Hash EXCEPT !.let = "alias"],
   [Given("own") EXCEPT !.let = "pinned", !.wants = "own"]}

MCPrograms == {[s \in Sites |-> IF s = "a" THEN c ELSE Basic] : c \in Texts}

Times(n, S) == [v \in Sizes |-> IF v \in S THEN n ELSE 0]
And(t, u) == [v \in Sizes |-> t[v] + u[v]]
Run(n, t) == [count |-> n, tally |-> t]

Edge == And(Times(19, {1}), Times(2, {40}))
Clusters == And(Times(20, {1}), Times(12, {64}))
Tight == And(Times(15, {40}), Times(15, {44}))
Tail == And(Times(29, {5}), Times(1, {44, 64}))
Zeros == And(Times(18, {0}), And(Times(14, {1}), Times(1, {40})))

Beside == Run(10, Times(10, {5}))
MCRuns ==
  [b \in Benches |->
     {[s \in Sites |-> IF s = "a" THEN r ELSE Beside] :
        r \in IF b = "x"
                THEN {Run(21, Edge), Run(32, Clusters), Run(30, Tight),
                      Run(31, Tail), Run(33, Zeros)}
                ELSE {Run(5, Times(5, {5})), Run(30, Tight)}}]

MCByHand ==
  {Run(9, Times(9, {64})), Run(10, Times(10, {3})), Run(12, NoSamples),
   Run(21, Edge)}

Option(from, mul, round, hasher) ==
  [globals |-> Policy(from, mul, round), hasher |-> hasher]
MCOptions ==
  {Option("p95", <<1, 1>>, "pow2", "none"), Option("p99", <<3, 2>>, "to8", "fx"),
   Option("mean", <<0, 1>>, "exact", "ahash")}
=============================================================================
