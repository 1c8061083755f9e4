------------------------------ MODULE MCMetrics ------------------------------
(* The calculator on its own: three sessions of whole equities, computed     *)
(* with two significant digits.                                              *)
EXTENDS Metrics

CONSTANT Amounts   \* equities of a session

VARIABLES equity, measured

vars == <<equity, measured>>

Policy == [periods |-> 1, days |-> 2, ddof |-> 1, kind |-> "per_observation_simple",
           rate |-> Whole(0)]

Observations(a) == [i \in 1 .. 3 |-> [observed_on |-> i, equity |-> Whole(a[i])]]

Init ==
    /\ equity \in {Observations(a) : a \in [1 .. 3 -> Amounts]}
    /\ measured = {}

Measure ==
    /\ measured = {}
    /\ AcceptsV2(equity, <<1, 2, 3>>)
    /\ measured' = {MetricSetV2(equity, Policy).sharpe}
    /\ UNCHANGED equity

Spec == Init /\ [][Measure]_vars

\* docs/METRICS_V1.md and ADR-0013: the Sharpe ratio of returns that do not
\* fluctuate is undefined for zero volatility, and never reported as a number.
ConstantReturnsHaveNoSharpe ==
    Returns(equity)[1] = Returns(equity)[2] => measured \subseteq {Undefined("zero_volatility")}
=============================================================================
