-------------------------------- MODULE Sums --------------------------------
(* How the prices are rounded and added up: Python's round() is half to     *)
(* even, _round_half_up is half up, sum() goes over a list or the part of   *)
(* it that passes a test.                                                   *)
EXTENDS Integers, Sequences, FiniteSets, Functions

(* ------------------------------ rounding ------------------------------- *)
HalfUp(n, d) == (2 * n + d) \div (2 * d)

HalfEven(n, d) == LET q == n \div d
                      twice == 2 * (n % d)
                  IN IF twice > d \/ (twice = d /\ q % 2 = 1) THEN q + 1 ELSE q

Greatest(a, b) == IF a > b THEN a ELSE b
Distance(a, b) == IF a > b THEN a - b ELSE b - a
Ceil(n, d) == (n + d - 1) \div d

(* -------------------------------- sums --------------------------------- *)
SumOf(f) == FoldFunction(+, 0, f)
Total(s, Value(_)) == SumOf([i \in DOMAIN s |-> Value(s[i])])

\* The k-th of a set of numbers, and what passes a test of a list, in its order.
Nth(S, k) == CHOOSE i \in S : Cardinality({j \in S : j <= i}) = k
Picked(s, Test(_)) ==
  LET at == {i \in DOMAIN s : Test(s[i])} IN [k \in 1..Cardinality(at) |-> s[Nth(at, k)]]
TotalOf(s, Test(_), Value(_)) == Total(s, LAMBDA x : IF Test(x) THEN Value(x) ELSE 0)
=============================================================================
