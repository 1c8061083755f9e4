-------------------------- MODULE CanonicalDecimals --------------------------
(* The forms that decimals take in hashed documents, one per layer: as they  *)
(* are written (core/identity.py), the coefficient and exponent of fixture   *)
(* specs (application/contracts.py), the text of quality inputs              *)
(* (data/quality/identity.py) and decimal-value-v1, which is also read back  *)
(* (metrics/v2_identity.py).  A decimal is [sign, digits, exponent], digits a *)
(* natural number.                                                           *)
EXTENDS Integers

CONSTANTS MaxDigits, MaxAdjusted,   \* the domain of evidence: 64 and 1000
          MaxFixedCharacters        \* 4096

Decimal == [sign : {0, 1}, digits : Nat, exponent : Int]

Pow10[k \in Nat] == IF k = 0 THEN 1 ELSE 10 * Pow10[k - 1]

\* The order of the numbers two decimals stand for.
Units(d, e) == (IF d.sign = 1 THEN -1 ELSE 1) * d.digits * Pow10[d.exponent - e]
Floor(d, c) == IF d.exponent < c.exponent THEN d.exponent ELSE c.exponent
SameNumber(d, c) == Units(d, Floor(d, c)) = Units(c, Floor(d, c))
Less(d, c)       == Units(d, Floor(d, c)) < Units(c, Floor(d, c))

Zero == [sign |-> 0, digits |-> 0, exponent |-> 0]

\* How many digits, and the exponent of the first (Decimal.adjusted).
DigitCount[n \in Nat] == IF n < 10 THEN 1 ELSE 1 + DigitCount[n \div 10]
Adjusted(d) == d.exponent + DigitCount[d.digits] - 1

\* format(value, "f"): the zeros of a positive exponent are written out.
Fixed(d) ==
    IF d.exponent <= 0 THEN d
    ELSE [d EXCEPT !.digits = d.digits * Pow10[d.exponent], !.exponent = 0]

Stripped[d \in Decimal] ==
    IF d.digits % 10 # 0 THEN d
    ELSE Stripped[[d EXCEPT !.digits = d.digits \div 10, !.exponent = d.exponent + 1]]

\* Mutant: zero keeps its sign.
NumberSigned(d) == IF d.digits = 0 THEN [Zero EXCEPT !.sign = d.sign] ELSE Stripped[d]

\* _scientific_identity_value of a Decimal.
Number(d) == IF d.digits = 0 THEN Zero ELSE Stripped[d]

\* canonical_decimal: written out when that is short enough, with an exponent
\* otherwise.
FixedLength(d) ==
    d.sign + (IF d.exponent >= 0 THEN DigitCount[d.digits] + d.exponent
              ELSE 1 + (IF DigitCount[d.digits] < 1 - d.exponent THEN 1 - d.exponent
                        ELSE DigitCount[d.digits]))
Text(d) ==
    LET s == Stripped[d]
    IN  IF d.digits = 0 THEN [fixed |-> Zero]
        ELSE IF FixedLength(s) <= MaxFixedCharacters THEN [fixed |-> Fixed(s)]
        ELSE [mantissa |-> [s EXCEPT !.exponent = 1 - DigitCount[s.digits]], e |-> Adjusted(s)]

-----------------------------------------------------------------------------
(* decimal-value-v1 *)

\* require_v2_decimal, and require_quality_decimal_domain.
InDomain(d) == /\ DigitCount[d.digits] <= MaxDigits
               /\ d.digits # 0 => Adjusted(d) \in -MaxAdjusted .. MaxAdjusted

\* Mutant: the trailing zeros go to waste.
DecimalValueTruncated(d) == IF d.digits = 0 THEN Zero ELSE [Stripped[d] EXCEPT !.exponent = d.exponent]

\* decimal_value_v1.
DecimalValue(d) == IF d.digits = 0 THEN Zero ELSE Stripped[d]

\* Whether parse_decimal_value_v1 takes a wire object; its value is the wire's.
Parses(w) == /\ w.digits = 0 => w.sign = 0 /\ w.exponent = 0
             /\ w.digits # 0 => w.digits % 10 # 0
             /\ DigitCount[w.digits] <= MaxDigits
             /\ Adjusted(w) \in -MaxAdjusted .. MaxAdjusted
             /\ DecimalValue(w) = w

-----------------------------------------------------------------------------

\* Over some decimals, taken as numbers and as wire objects: the layers that
\* identify numbers identify the same ones, in whatever scale or sign of zero
\* they come; what decimal-value-v1 writes it reads back as the same number,
\* at the limits of the domain too; and it reads one form of each number only.
FormsAgree(amounts) ==
    /\ \A d, c \in amounts :
          /\ Number(d) = Number(c) <=> SameNumber(d, c)
          /\ Text(d) = Text(c) <=> SameNumber(d, c)
          /\ InDomain(d) /\ InDomain(c) => (DecimalValue(d) = DecimalValue(c) <=> SameNumber(d, c))
          /\ Parses(d) /\ Parses(c) /\ SameNumber(d, c) => d = c
    /\ \A d \in amounts :
          InDomain(d) => Parses(DecimalValue(d)) /\ SameNumber(DecimalValue(d), d)
=============================================================================
