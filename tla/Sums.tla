--------------------------------- MODULE Sums ---------------------------------
(***************************************************************************)
(* Sums of sequences, as recursive functions: the folds of the community   *)
(* modules take an operator, which the provers cannot look into.           *)
(***************************************************************************)
EXTENDS Integers, Sequences

\* Of the first n, for every n.
PartialSums(s) == LET sum[n \in 0..Len(s)] == IF n = 0 THEN 0 ELSE sum[n - 1] + s[n] IN sum

SumOf(s) == PartialSums(s)[Len(s)]
===============================================================================
