----------------------------- MODULE Quantiles -----------------------------
(***************************************************************************)
(* The latency columns of one window: nearest-rank quantiles over the      *)
(* samples, with their denominators.  A quantile is given in percent and   *)
(* durations are integers.  The code takes the ceiling of a float64        *)
(* product; 0.50, 0.90 and 0.99 are near enough to their decimals that the *)
(* product is an integer exactly when q * n is a multiple of 100.          *)
(***************************************************************************)
EXTENDS Integers, Sequences, FiniteSets, Functions

Clamp(r, n) == IF r < 0 THEN 0 ELSE IF r > n - 1 THEN n - 1 ELSE r

Rank_Floor(q, n) == Clamp((q * n) \div 100, n)

\* The index, from 0, of quantile q in n sorted values.
Rank(q, n) == Clamp((q * n + 99) \div 100 - 1, n)

quantile(sorted, q) == IF sorted = << >> THEN 0 ELSE sorted[Rank(q, Len(sorted)) + 1]

\* slices.Sorted: all the samples, in an order in which none is above the next.
Sorted(ds) ==
    LET I == 1 .. Len(ds)
        order == CHOOSE p \in Bijection(I, I) : \A i, j \in I : i < j => ds[p[i]] =< ds[p[j]]
    IN  [i \in I |-> ds[order[i]]]

quantilesOf(ds) ==
    LET s == Sorted(ds)  n == Len(ds) IN
    [count |-> n,
     p50 |-> quantile(s, 50), p90 |-> quantile(s, 90), p99 |-> quantile(s, 99),
     max |-> IF n = 0 THEN 0 ELSE s[n],
     min |-> IF n = 0 THEN 0 ELSE s[1]]

\* Summarize, for Latencies l.  (The code keeps no minimum of the convergence
\* samples, whose least value has no use there.)
Summarize(l) ==
    [convergence |-> quantilesOf(l.samples), reaction |-> quantilesOf(l.reaction),
     dropped |-> l.dropped, stale |-> l.stale, unstamped |-> l.unstamped]

(***************************************************************************)
(* What a nearest-rank quantile is: a value that was observed, with at     *)
(* least q percent of the sample at or below it and less than q percent    *)
(* below it.                                                               *)
(***************************************************************************)
NearestRank(s, v, q) ==
    /\ v \in {s[i] : i \in 1 .. Len(s)}
    /\ 100 * Cardinality({i \in 1 .. Len(s) : s[i] <= v}) >= q * Len(s)
    /\ 100 * Cardinality({i \in 1 .. Len(s) : s[i] < v}) < q * Len(s)
=============================================================================
