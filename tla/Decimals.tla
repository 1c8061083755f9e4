------------------------------ MODULE Decimals ------------------------------
(* Arithmetic of a decimal context: a result is the exact one, rounded half  *)
(* even to Precision significant digits (metrics: 34, with room for every    *)
(* exponent that occurs).  A decimal is the fraction it is worth; its scale  *)
(* ("1.0" or "1") is not kept.                                               *)
EXTENDS Fraction

CONSTANT Precision

ASSUME PrecisionAssumption == Precision \in Nat \ {0}

Magnitude == [n : Nat \ {0}, d : Nat \ {0}]

Ten[k \in Nat] == IF k = 0 THEN 1 ELSE 10 * Ten[k - 1]

\* The power of ten that leaves x > 0 with Precision digits before the point.
Scale[x \in Magnitude] ==
    IF x.n >= x.d * Ten[Precision] THEN Scale[Ratio(x.n, 10 * x.d)] - 1
    ELSE IF x.n < x.d * Ten[Precision - 1] THEN Scale[Ratio(10 * x.n, x.d)] + 1
    ELSE 0

ByTen(x, k) == IF k < 0 THEN Ratio(x.n, x.d * Ten[-k]) ELSE Ratio(x.n * Ten[k], x.d)

HalfEven(x) ==
    LET q == x.n \div x.d
        rest == 2 * (x.n % x.d)
    IN  IF rest < x.d \/ (rest = x.d /\ q % 2 = 0) THEN q ELSE q + 1

Negated(x) == [x EXCEPT !.n = -x.n]

RoundedUp(x) == LET k == Scale[x] IN ByTen(Whole(HalfEven(ByTen(x, k))), -k)

Rounded(x) == CASE x.n = 0 -> x
                [] x.n > 0 -> RoundedUp(x)
                [] x.n < 0 -> Negated(RoundedUp(Negated(x)))

Sum(x, y)        == Rounded(Plus(x, y))
Difference(x, y) == Rounded(Minus(x, y))
Product(x, y)    == Rounded(Times(x, y))
Quotient(x, y)   == Rounded(IF y.n < 0 THEN Over(Negated(x), Negated(y)) ELSE Over(x, y))

\* x to a whole power.
Power(x, e) ==
    LET f[k \in Nat] == IF k = 0 THEN Whole(1) ELSE Times(f[k - 1], x)
    IN  Rounded(f[e])

\* The root has Precision digits at the scale k.
SquareRoot(x) ==
    IF x.n = 0 THEN x
    ELSE LET k == (Scale[x] + Precision) \div 2
             y == ByTen(x, 2 * k)
             c == CHOOSE r \in Ten[Precision - 1] .. Ten[Precision] :
                    r * r * y.d <= y.n /\ y.n < (r + 1) * (r + 1) * y.d
         IN  ByTen(Whole(IF 4 * y.n > (2 * c + 1) * (2 * c + 1) * y.d THEN c + 1 ELSE c), -k)

Below(x, y) == x.n * y.d < y.n * x.d
=============================================================================
