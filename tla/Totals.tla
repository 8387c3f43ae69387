------------------------------- MODULE Totals -------------------------------
(***************************************************************************)
(* Sums over numbered rows.  The tables of the database have integer keys, *)
(* so a column restricted to the first n rows is a function on 1..n, and a *)
(* total such as "the quantity all reservations still hold on a balance"   *)
(* is a sum over that function.  Written as a recursive function, not as a *)
(* RECURSIVE operator, so that TLAPS can reason about it (Totals_proofs).  *)
(* A total over rows that are not numbered is a fold.                      *)
(***************************************************************************)
EXTENDS Integers, Folds

\* The sum f[1] + ... + f[n].
Total(f, n) ==
  LET upTo[i \in 0..n] == IF i = 0 THEN 0 ELSE upTo[i - 1] + f[i]
  IN  upTo[n]

\* The sum of f[x] over the elements of a finite set.
SumOver(f, S) ==
  MapThenFoldSet(LAMBDA x, y : x + y, 0, LAMBDA a : f[a], LAMBDA T : CHOOSE a \in T : TRUE, S)
=============================================================================
