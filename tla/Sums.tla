---------------------------------- MODULE Sums ----------------------------------
(* The sum of the first n terms of f, as a recursive function. *)
EXTENDS Integers

SumTo(n, f) ==
  LET sum[k \in 0..n] == IF k = 0 THEN 0 ELSE sum[k - 1] + f[k]
  IN  sum[n]
=================================================================================
