------------------------------ MODULE Features ------------------------------
(* features/*: indicators over a sequence of prices, oldest first.  A mean,  *)
(* or a relative strength, is its numerator and denominator, for a           *)
(* comparison without rounding; an operator is applied past its warm-up,     *)
(* where the code has no None.                                               *)
EXTENDS Integers, Sequences, FiniteSetsExt

Latest(S) == CHOOSE t \in S : \A u \in S : u <= t
Earliest(S) == CHOOSE t \in S : \A u \in S : t <= u

\* The sum of f from a to b, and a power.
SumOver(f, a, b) ==
    LET sum[j \in a - 1 .. b] == IF j < a THEN 0 ELSE sum[j - 1] + f[j]
    IN  sum[b]
Power(base, n) ==
    LET power[j \in 0 .. n] == IF j = 0 THEN 1 ELSE power[j - 1] * base
    IN  power[n]

\* Fault: the window is centered on its value.
RollingSumCentered(values, window) ==
    [i \in 0 .. Len(values) |->
        MapThenSumSet(LAMBDA j : values[j], (i - window + 2 .. i + 1) \cap DOMAIN values)]

\* simple_moving_average, times its window.
RollingSum(values, window) ==
    LET rolling_sum[i \in 0 .. Len(values)] ==
          IF i = 0 THEN 0
          ELSE rolling_sum[i - 1] + values[i]
                 - (IF i > window THEN values[i - window] ELSE 0)
    IN  rolling_sum

Gain(closes, i) == IF closes[i] > closes[i - 1] THEN closes[i] - closes[i - 1] ELSE 0
Loss(closes, i) == IF closes[i] < closes[i - 1] THEN closes[i - 1] - closes[i] ELSE 0

\* The averages after one more change: as long as they are seeded, the sums of
\* the changes.
WilderStep(before, closes, i, period) ==
    LET seeding == i <= period + 1
        kept == IF seeding THEN 1 ELSE period - 1
        weight == IF seeding THEN 1 ELSE Power(period, i - period - 1)
    IN  [gain |-> before.gain * kept + Gain(closes, i) * weight,
         loss |-> before.loss * kept + Loss(closes, i) * weight]

\* wilder_rsi: the average gain and loss at i > period, both times
\* Power(period, i - period), which leaves their proportion.
WilderAverages(closes, period) ==
    LET average[i \in 1 .. Len(closes)] ==
          IF i = 1 THEN [gain |-> 0, loss |-> 0]
          ELSE WilderStep(average[i - 1], closes, i, period)
    IN  average

\* _rsi_value: numerator and denominator of the strength, out of 100.
RsiValue(a) ==
    CASE a.gain = 0 /\ a.loss = 0 -> [n |-> 50, d |-> 1]
      [] a.gain > 0 /\ a.loss = 0 -> [n |-> 100, d |-> 1]
      [] OTHER -> [n |-> 100 * a.gain, d |-> a.gain + a.loss]

\* Fault: the channel includes the value that is compared with it.
PriorMaxShifted(values, i, window) == Latest({values[j] : j \in i - window + 1 .. i})

PriorMax(values, i, window) == Latest({values[j] : j \in i - window .. i - 1})
PriorMin(values, i, window) == Earliest({values[j] : j \in i - window .. i - 1})

\* trailing_total_return, plus one.
Growth(closes, i, lookback) == [n |-> closes[i], d |-> closes[i - lookback]]
=============================================================================
