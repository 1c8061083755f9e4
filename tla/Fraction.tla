------------------------------ MODULE Fraction ------------------------------
(* Exact arithmetic for the Decimal values of the engines: a fraction is a   *)
(* pair in lowest terms with a positive denominator.  The code computes with *)
(* 28 digits (core/numerics.py); the rounding of the last one is not         *)
(* modelled.                                                                 *)
EXTENDS Integers

Size(n) == IF n < 0 THEN -n ELSE n

\* Euclid's algorithm.
Gcd[p \in Nat \X Nat] == IF p[2] = 0 THEN p[1] ELSE Gcd[<<p[2], p[1] % p[2]>>]

\* n / d for any d > 0.
Ratio(n, d) == LET g == Gcd[<<Size(n), d>>] IN [n |-> n \div g, d |-> d \div g]

Whole(n) == [n |-> n, d |-> 1]

Plus(x, y)  == Ratio(x.n * y.d + y.n * x.d, x.d * y.d)
Minus(x, y) == Ratio(x.n * y.d - y.n * x.d, x.d * y.d)
Times(x, y) == Ratio(x.n * y.n, x.d * y.d)
Over(x, y)  == Ratio(x.n * y.d, x.d * y.n)    \* y > 0

Positive(x) == x.n > 0
AtMost(x, y) == x.n * y.d <= y.n * x.d
=============================================================================
