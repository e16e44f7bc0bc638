-------------------------------- MODULE Sums --------------------------------
(***************************************************************************)
(* Sums of integers.  A loop of the source that adds to an accumulator is  *)
(* the running sum of what its iterations add, and an SQL SUM is a sum     *)
(* over a set of rows.  The sums are recursive functions and folds, not    *)
(* RECURSIVE operators, so that the proof modules can reason about them.   *)
(***************************************************************************)
EXTENDS Integers, Sequences, FiniteSetsExt

\* RunningSum(w)[i] is the sum of the first i elements of w.
RunningSum(w) ==
  LET upTo[i \in 0..Len(w)] == IF i = 0 THEN 0 ELSE upTo[i - 1] + w[i]
  IN  upTo

Total(w) == RunningSum(w)[Len(w)]

\* The sum of f over a set.
SumOver(S, f) == MapThenSumSet(LAMBDA x : f[x], S)

Lesser(a, b) == IF a <= b THEN a ELSE b
=============================================================================
