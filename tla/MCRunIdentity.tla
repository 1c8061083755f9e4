---------------------------- MODULE MCRunIdentity ----------------------------
(* Instances of RunIdentity for TLC: amounts written in several ways, and    *)
(* one instant told in two offsets beside another one.                       *)
EXTENDS RunIdentity

Dec(digits, exponent) == [sign |-> 0, digits |-> digits, exponent |-> exponent]
MinusZero == [sign |-> 1, digits |-> 0, exponent |-> 0]

MCFullCost == Dec(1, 4)
MCSpecs ==
    [cash : {Dec(10, 0), Dec(1, 1), Dec(1, 0), Zero},
     commission : {Zero, MinusZero, Dec(0, -2), Dec(50, -1), Dec(5, 0)},
     slippage : {Dec(9, 3), Dec(10, 3)},
     start : {[utc |-> 1, offset |-> 0], [utc |-> 1, offset |-> 8],
              [utc |-> 2, offset |-> 8]}]
=============================================================================
