-------------------------------- MODULE Sums --------------------------------
(* Sums of the values of a function over 1..n, as the SQL SUM aggregates of  *)
(* the financial tables take them, and over a set of rows.  As recursive     *)
(* functions, whose laws can be proved; those of the community modules'      *)
(* folds, which take operators, cannot.                                      *)
EXTENDS Integers

\* SUM(f[1], ..., f[n]).
Total(f, n) ==
  LET upTo[m \in 0..n] == IF m = 0 THEN 0 ELSE upTo[m - 1] + f[m]
  IN  upTo[n]

\* SUM(f) over the rows of S.
SumOver(f, S) ==
  LET total[T \in SUBSET S] ==
        IF T = {} THEN 0 ELSE LET x == CHOOSE x \in T : TRUE IN f[x] + total[T \ {x}]
  IN  total[S]
=============================================================================
