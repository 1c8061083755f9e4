------------------------------- MODULE Metrics -------------------------------
(***************************************************************************)
(* metrics/: what MetricInputV2 accepts, and the five metrics that         *)
(* v2_calculator.py makes of it.  (calculator.py, the older one, does the  *)
(* same arithmetic on returns that its caller supplies.)                   *)
(*                                                                         *)
(* An equity list is a sequence of [observed_on, equity]; a return is the  *)
(* exact fraction equity / previous - 1.  A policy is [periods, days, ddof,*)
(* kind, rate].  A power is modelled for whole exponents: an annual rate   *)
(* of one period, and lists whose elapsed days divide those of a year.     *)
(* Overflow is not modelled.                                               *)
(***************************************************************************)
EXTENDS Decimals, Sequences

Valid(x) == [status |-> "valid", value |-> x]
Undefined(reason) == [status |-> "undefined", reason |-> reason]

-----------------------------------------------------------------------------
(* Inputs *)

\* _rational_return; the previous equity is positive.
RationalReturn(previous, current) ==
    Minus(Over(current.equity, previous.equity), Whole(1))

Ordered(equity) ==
    \A i \in 1 .. Len(equity) - 1 : equity[i].observed_on < equity[i + 1].observed_on

\* MetricInputV2.from_equity, for a schedule of sessions.
AcceptsV2(equity, sessions) ==
    /\ Len(equity) >= 2
    /\ \A i \in 1 .. Len(equity) - 1 : Positive(equity[i].equity)
    /\ AtMost(Whole(0), equity[Len(equity)].equity)
    /\ [i \in DOMAIN equity |-> equity[i].observed_on] = sessions
    /\ Ordered(equity)

\* Mutant: every return is that since the start.
ReturnsSinceStart(equity) ==
    [i \in 1 .. Len(equity) - 1 |-> RationalReturn(equity[1], equity[i + 1])]

Returns(equity) ==
    [i \in 1 .. Len(equity) - 1 |-> RationalReturn(equity[i], equity[i + 1])]

-----------------------------------------------------------------------------
(* The calculators; each step of the arithmetic is rounded *)

First(equity) == equity[1].equity
Final(equity) == equity[Len(equity)].equity

TotalReturn(equity) ==
    Valid(Difference(Quotient(Final(equity), First(equity)), Whole(1)))

Elapsed(equity) == equity[Len(equity)].observed_on - equity[1].observed_on

\* 1 / years, a whole number.
Exponent(equity, policy) == policy.days \div Elapsed(equity)

Growth(equity, policy) ==
    Difference(Power(Quotient(Final(equity), First(equity)), Exponent(equity, policy)),
               Whole(1))

Cagr(equity, policy) ==
    Valid(IF Final(equity).n = 0 THEN Whole(-1) ELSE Growth(equity, policy))

Total(values) ==
    LET sum[i \in 0 .. Len(values)] ==
          IF i = 0 THEN Whole(0) ELSE Sum(sum[i - 1], values[i])
    IN  sum[Len(values)]
Mean(values) == Quotient(Total(values), Whole(Len(values)))

Variance(values, policy) ==
    LET mean == Mean(values)
        square(v) == Power(Difference(v, mean), 2)
    IN  Quotient(Total([i \in DOMAIN values |-> square(values[i])]),
                 Whole(Len(values) - policy.ddof))

Volatility(values, policy) ==
    IF Len(values) <= policy.ddof
    THEN Undefined("insufficient_return_observations")
    ELSE Valid(Product(SquareRoot(Variance(values, policy)),
                       SquareRoot(Whole(policy.periods))))

PeriodicRate(policy) ==
    IF policy.kind = "annual_effective"
    THEN Difference(Power(Sum(Whole(1), policy.rate), 1 \div policy.periods), Whole(1))
    ELSE policy.rate

\* Mutant: the ratio is withheld when the mean, not the volatility, is zero.
SharpeOfMean(values, policy) ==
    LET volatility == Volatility(values, policy) IN
    IF volatility.status = "undefined"
    THEN Undefined("insufficient_return_observations")
    ELSE IF Mean(values).n = 0 THEN Undefined("zero_volatility")
    ELSE Valid(Difference(Mean(values), PeriodicRate(policy)))

Sharpe(values, policy) ==
    LET volatility == Volatility(values, policy) IN
    IF volatility.status = "undefined"
    THEN Undefined("insufficient_return_observations")
    ELSE IF volatility.value.n = 0 THEN Undefined("zero_volatility")
    ELSE Valid(Quotient(Product(Difference(Mean(values), PeriodicRate(policy)),
                                Whole(policy.periods)),
                        volatility.value))

\* The worst fall, once equity stands at e with peak behind it.
Fallen(before, peak, e) ==
    LET fall == Difference(Quotient(e, peak), Whole(1))
    IN  [peak  |-> peak,
         worst |-> IF Below(fall, before.worst) THEN fall ELSE before.worst]

\* Mutant: the peak is the last close.
DrawdownFromLastClose(equity) ==
    LET after[i \in 0 .. Len(equity)] ==
          IF i = 0 THEN [peak |-> First(equity), worst |-> Whole(0)]
          ELSE Fallen(after[i - 1], equity[i].equity, equity[i].equity)
    IN  Valid(after[Len(equity)].worst)

MaximumDrawdown(equity) ==
    LET after[i \in 0 .. Len(equity)] ==
          IF i = 0 THEN [peak |-> First(equity), worst |-> Whole(0)]
          ELSE LET before == after[i - 1]
                   e == equity[i].equity
               IN  Fallen(before, IF Below(before.peak, e) THEN e ELSE before.peak, e)
    IN  Valid(after[Len(equity)].worst)

\* calculate_metric_set_v2
MetricSetV2(equity, policy) ==
    LET returns == Returns(equity)
        values == [i \in DOMAIN returns |-> Rounded(returns[i])]
    IN  [total_return |-> TotalReturn(equity), cagr |-> Cagr(equity, policy),
         volatility |-> Volatility(values, policy), sharpe |-> Sharpe(values, policy),
         max_drawdown |-> MaximumDrawdown(equity)]
=============================================================================
