-------------------------------- MODULE Sums --------------------------------
(***************************************************************************)
(* A total over a set, as Set.Totals, Parse and sumDeltas take it: of the  *)
(* ticks or the memory of processes, of the series of a counter.           *)
(***************************************************************************)
EXTENDS Integers, FiniteSetsExt

Total(f, S) == MapThenSumSet(LAMBDA x : f[x], S)
=============================================================================
