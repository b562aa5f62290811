------------------------------- MODULE Arithmetic -------------------------------
(* Sums and products of what several threads report, and powers of two.     *)
EXTENDS Integers, FiniteSetsExt

(* The sum of the values that f has on the finite set S                     *)
SumOver(f, S) == MapThenSumSet(LAMBDA x : f[x], S)

(* Their product                                                            *)
Product(f, S) ==
  MapThenFoldSet(LAMBDA v, w : v * w, 1, LAMBDA x : f[x], LAMBDA X : CHOOSE x \in X : TRUE, S)

(* Sizes of up to 1 GiB, for which x & (x - 1) is 0                         *)
PowerOfTwo[n \in 0 .. 30] == IF n = 0 THEN 1 ELSE 2 * PowerOfTwo[n - 1]

PowersOfTwo == {PowerOfTwo[n] : n \in 0 .. 30}
================================================================================
