------------------------------- MODULE Powers -------------------------------
(* The shift of C, for the sizes of buckets and the masks of addresses.      *)
EXTENDS Naturals

\* 1 << n
Shift[n \in Nat] == IF n = 0 THEN 1 ELSE 2 * Shift[n - 1]
=============================================================================
