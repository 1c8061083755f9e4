----------------------------- MODULE MeasuredRun -----------------------------
(* The equity of a finished engine run, handed to both metric calculators    *)
(* over the schedule of the sessions of its bars.                            *)
EXTENDS ReferenceEngine, Metrics

CONSTANT Policies   \* annualization, ddof and risk-free rate of an evaluation

\* A policy is positive (AnnualizationV2), here in whole numbers, and a ddof not
\* negative.
ASSUME PoliciesAssumption ==
    \A p \in Policies : p.periods \in Nat \ {0} /\ p.days \in Nat \ {0} /\ p.ddof \in Nat

Equity == [i \in DOMAIN points |->
              [observed_on |-> bars[i].session, equity |-> points[i].equity]]
Sessions == [i \in DOMAIN bars |-> bars[i].session]

Measured == outcome = "returned" /\ AcceptsV2(Equity, Sessions)

\* Every run of two or more sessions that the engine finishes can be measured,
\* the exact returns of its input chain the first equity to the last (none is
\* lost, and the point of the first session has none of its own), and total
\* return and CAGR never differ in sign.
RunsAreMeasurable ==
    outcome = "returned" /\ Len(bars) >= 2 =>
        /\ Measured
        /\ LET returns == Returns(Equity)
               grown[i \in 1 .. Len(points)] ==
                  IF i = 1 THEN points[1].equity
                  ELSE Times(grown[i - 1], Plus(Whole(1), returns[i - 1]))
            IN  grown[Len(points)] = Final(Equity)
        /\ \A set \in {MetricSetV2(Equity, p) :
                       p \in {q \in Policies : q.days % Elapsed(Equity) = 0}} :
             /\ set.total_return.value.n > 0 => set.cagr.value.n >= 0
             /\ set.total_return.value.n < 0 => set.cagr.value.n <= 0

\* The maximum drawdown of a run is its worst fall from any session to a later
\* one, rounded or not: the running peak misses none, and the rounding of the
\* quotients never reorders them.
DrawdownIsWorstFall ==
    Measured =>
        LET equity == Equity
            fall(i, j) == Difference(Quotient(equity[j].equity, equity[i].equity), Whole(1))
            falls == UNION {{fall(i, j) : i \in 1 .. j} : j \in DOMAIN points}
            worst == MaximumDrawdown(equity).value
        IN  /\ worst \in falls
            /\ \A f \in falls : AtMost(worst, f)

\* A Sharpe ratio is withheld for zero volatility only when the returns, each
\* rounded once as ADR-0013 defines it, are one number, and always when the run
\* never left cash: the rounding of mean and squares hides no fluctuation of
\* theirs.  What the rounding of a return itself loses is not covered.  (That
\* constant returns other than zero need not be recognised is what
\* ConstantReturnsHaveNoSharpe shows.)
WithheldSharpeIsFlat ==
    Measured =>
        LET exact == Returns(Equity)
            returns == [i \in DOMAIN exact |-> Rounded(exact[i])]
            same == \A i, j \in DOMAIN returns : returns[i] = returns[j]
        IN  \A p \in {q \in Policies : q.ddof < Len(returns)} :
              LET withheld == Sharpe(returns, p) = Undefined("zero_volatility")
              IN  (withheld => same) /\ (trades = <<>> => withheld)

\* An accepted run returns unless a commission takes all (ReferenceEngine), and
\* what it returns can be measured without losing a return.
AcceptedRunsAreMeasured == AcceptedRunsReturn /\ RunsAreMeasurable

\* Rounding to few digits hides neither the worst fall of a run nor its
\* fluctuation.
RoundingHidesNothing == DrawdownIsWorstFall /\ WithheldSharpeIsFlat
=============================================================================
