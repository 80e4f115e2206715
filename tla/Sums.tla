-------------------------------- MODULE Sums ---------------------------------
(***************************************************************************)
(* Totals of integer-paise amounts.  An amount list is a function from     *)
(* numbers (ledger row ids, settlement numbers) to integers; numbers       *)
(* outside its domain contribute nothing.  The Go code totals with loops;  *)
(* the totals are recursive functions here, so that both TLC and the proof *)
(* system can use them.                                                    *)
(***************************************************************************)
EXTENDS Integers

\* The contribution of number i to the total of F.
At(F, i) == IF i \in DOMAIN F THEN F[i] ELSE 0

\* The total of F over the numbers 1..n.
SumTo(F, n) ==
    LET sum[i \in Nat] == IF i = 0 THEN 0 ELSE sum[i - 1] + At(F, i)
    IN  sum[n]

Least(a, b) == IF a <= b THEN a ELSE b
=============================================================================
