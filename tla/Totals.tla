-------------------------------- MODULE Totals --------------------------------
(* Sums of sequences of integers. *)
EXTENDS Integers, Sequences

\* The sums of the first 0, 1, ..., Len(s) elements of s.
Partial(s) ==
    LET sum[n \in 0 .. Len(s)] == IF n = 0 THEN 0 ELSE sum[n - 1] + s[n]
    IN  sum

Total(s) == Partial(s)[Len(s)]
===============================================================================
