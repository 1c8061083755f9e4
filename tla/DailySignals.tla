---------------------------- MODULE DailySignals ----------------------------
(* strategies/trend.py, rsi_pullback.py (S1) and donchian.py (S2).  A market *)
(* closes one session after another; after any of them a strategy may be     *)
(* called with the bars so far and the schedule, which for S1 and S2 holds   *)
(* the next session too.  The bars are those of one asset and match the      *)
(* schedule: the strategies refuse any others.                               *)
EXTENDS Signals, FiniteSets

CONSTANTS
    Kinds,      \* what a bar can hold: high, low, close and more
    Delays,     \* how long after the close a bar may be available
    MaxBars,
    MaxLate,    \* bars that are not available at their close
    Window,     \* of price_above_sma_targets
    S1_SMA_WINDOW, S1_RSI_PERIOD, S1_ENTRY_RSI, S1_EXIT_RSI,
    S2_ENTRY_WINDOW, S2_EXIT_WINDOW

SignalsAssumption ==
    /\ \A k \in Kinds : /\ k.low \in Nat /\ k.close \in Nat \ {0} /\ k.high \in Nat
                       /\ k.low <= k.close /\ k.close <= k.high
    /\ Delays \subseteq Nat /\ MaxBars \in Nat
    /\ {Window, S1_SMA_WINDOW, S1_RSI_PERIOD, S2_ENTRY_WINDOW, S2_EXIT_WINDOW} \subseteq Nat \ {0}
    /\ S1_RSI_PERIOD < S1_SMA_WINDOW
    /\ {S1_ENTRY_RSI, S1_EXIT_RSI} \subseteq Nat /\ S1_ENTRY_RSI <= S1_EXIT_RSI
    /\ S2_EXIT_WINDOW <= S2_ENTRY_WINDOW

VARIABLE bars   \* the history, one bar per session

-----------------------------------------------------------------------------
(* Strategies *)

\* price_above_sma_targets: every bar with an average but the last.
SmaTargets(bs) ==
    LET closes == Closes(bs)
        rolling_sum == RollingSum(closes, Window)
        result[i \in Window - 1 .. Len(bs)] ==
          IF i = Window - 1 THEN Returned(<<>>)
          ELSE Emit(result[i - 1], Available(bs, i - Window + 1 .. i), session_open_at(i + 1),
                    closes[i] * Window > rolling_sum[i])
    IN  IF Len(bs) < 2 \/ Len(bs) <= Window THEN Returned(<<>>) ELSE result[Len(bs) - 1]

\* One bar in the loop of S1 and of S2: is_long changes at an entry or an exit,
\* and the decision waits for the bars it depends on and the state before it.
NextRound(last, bs, i, entries, exits, dependencies) ==
    LET long == IF last.is_long THEN i \notin exits ELSE i \in entries
        decided == Latest({last.state_available_at, Available(bs, dependencies[i])})
    IN  [is_long |-> long, state_available_at |-> decided,
         result |-> Emit(last.result, decided, session_open_at(i + 1), long)]

\* The loop, from the first bar that has all features.
Loop(bs, first, entries, exits, dependencies) ==
    LET round[i \in first - 1 .. Len(bs)] ==
          IF i = first - 1
          THEN [is_long |-> FALSE, state_available_at |-> 0, result |-> Returned(<<>>)]
          ELSE NextRound(round[i - 1], bs, i, entries, exits, dependencies)
    IN  IF Len(bs) < first THEN Returned(<<>>) ELSE round[Len(bs)].result

S1Entries(bs, rounds) ==
    LET rolling_sum == RollingSum(Closes(bs), S1_SMA_WINDOW)
        average == WilderAverages(Closes(bs), S1_RSI_PERIOD)
    IN  {i \in rounds : /\ RsiValue(average[i]).n < S1_ENTRY_RSI * RsiValue(average[i]).d
                        /\ bs[i].kind.close * S1_SMA_WINDOW > rolling_sum[i]}
S1Exits(bs, rounds) ==
    LET average == WilderAverages(Closes(bs), S1_RSI_PERIOD)
    IN  {i \in rounds : RsiValue(average[i]).n > S1_EXIT_RSI * RsiValue(average[i]).d}

\* Fault: a decision waits for its own bar only.
S1TargetsHasty(bs) ==
    LET rounds == S1_SMA_WINDOW .. Len(bs)
    IN  Loop(bs, S1_SMA_WINDOW, S1Entries(bs, rounds), S1Exits(bs, rounds),
             [i \in rounds |-> {i}])

\* daily_rsi2_pullback_targets; the RSI depends on every bar so far.
S1Targets(bs) ==
    LET rounds == S1_SMA_WINDOW .. Len(bs)
    IN  Loop(bs, S1_SMA_WINDOW, S1Entries(bs, rounds), S1Exits(bs, rounds),
             [i \in rounds |-> 1 .. i])

\* daily_donchian_targets; the channels end before the bar of the decision.
S2Targets(bs) ==
    LET rounds == S2_ENTRY_WINDOW + 1 .. Len(bs)
        entries == {i \in rounds : bs[i].kind.close > PriorMax(Highs(bs), i, S2_ENTRY_WINDOW)}
        exits == {i \in rounds : bs[i].kind.close < PriorMin(Lows(bs), i, S2_EXIT_WINDOW)}
    IN  Loop(bs, S2_ENTRY_WINDOW + 1, entries, exits,
             [i \in rounds |-> i - S2_ENTRY_WINDOW .. i])

-----------------------------------------------------------------------------

Init == bars = <<>>

\* A session closes; its bar may be available only later.
CloseSession(k, delay) ==
    /\ Len(bars) < MaxBars
    /\ delay > 0 => Cardinality({i \in DOMAIN bars :
                                   bars[i].available_at > session_close_at(i)}) < MaxLate
    /\ bars' = Append(bars, BarOf(Len(bars) + 1, k, delay))

Next == \E k \in Kinds, delay \in Delays : CloseSession(k, delay)

Spec == Init /\ [][Next]_bars

-----------------------------------------------------------------------------
(* Properties *)

Strategies == {"sma", "s1", "s2"}
Call(strategy, bs) == CASE strategy = "sma" -> SmaTargets(bs)
                        [] strategy = "s1"  -> S1Targets(bs)
                        [] strategy = "s2"  -> S2Targets(bs)

\* The bars are those of the schedule, and what a strategy returns passes
\* TargetPosition's validator: it was decided before it takes effect.
DailyOK ==
    /\ Len(bars) <= MaxBars
    /\ \A i \in DOMAIN bars : \E k \in Kinds, delay \in Delays : bars[i] = BarOf(i, k, delay)
    /\ \A strategy \in Strategies :
          LET result == Call(strategy, bars)
          IN  /\ result.raised \in BOOLEAN
              /\ \A n \in DOMAIN result.targets :
                    /\ result.targets[n].weight \in {0, 1}
                    /\ result.targets[n].decision_at < result.targets[n].effective_at

\* ADR-0002: a target uses nothing that was unknown when it was decided.
\* Whatever a bar that was not yet available at decision_at may have held, the
\* target is the same.
TargetsAreCausal ==
    \A strategy \in Strategies :
        LET here == Call(strategy, bars)
        IN  \A j \in DOMAIN bars, k \in Kinds :
              LET there == Call(strategy, [bars EXCEPT ![j].kind = k])
              IN  ~here.raised /\ ~there.raised =>
                    \A n \in DOMAIN here.targets :
                        here.targets[n].decision_at < bars[j].available_at =>
                            there.targets[n] = here.targets[n]

\* What a strategy returned before is returned again, with more behind it.
TargetsStay ==
    \A strategy \in Strategies :
        LET before == Call(strategy, bars)
            after == Call(strategy, bars')
        IN  /\ before.raised => after.raised
            /\ ~after.raised =>
                 /\ Len(before.targets) <= Len(after.targets)
                 /\ \A n \in DOMAIN before.targets : before.targets[n] = after.targets[n]

\* A further session adds targets and changes none, so that a backtest over
\* the whole history holds what was decided live; and a history that was
\* refused for a late bar stays refused.
NeverRepaints == [][TargetsStay]_bars

-----------------------------------------------------------------------------
(* The signals as the strategies define them *)

AboveMean(i, window) ==
    bars[i].kind.close * window > SumOver(Closes(bars), i - window + 1, i)

\* Wilder's average of the changes up to bar i, as the weighted sum it is.
Smoothed(change, i) ==
    LET p == S1_RSI_PERIOD
        weight(j) == IF j <= p + 1 THEN Power(p - 1, i - p - 1)
                     ELSE Power(p, j - p - 1) * Power(p - 1, i - j)
    IN  SumOver([j \in 2 .. i |-> change[j] * weight(j)], 2, i)
Gains == [j \in 2 .. Len(bars) |-> Gain(Closes(bars), j)]
Losses == [j \in 2 .. Len(bars) |-> Loss(Closes(bars), j)]

\* Whether the strength at bar i is below, or above, a level.
RsiBelow(i, level) ==
    LET g == Smoothed(Gains, i)
        l == Smoothed(Losses, i)
    IN  IF g + l = 0 THEN 50 < level ELSE 100 * g < level * (g + l)
RsiAbove(i, level) ==
    LET g == Smoothed(Gains, i)
        l == Smoothed(Losses, i)
    IN  IF g + l = 0 THEN 50 > level ELSE 100 * g > level * (g + l)

\* The position is on from an entry until the first exit after it.
HeldSince(first, i, Entry(_), Exit(_)) ==
    \E j \in first .. i : Entry(j) /\ \A m \in j + 1 .. i : ~Exit(m)

S1Entry(i) == RsiBelow(i, S1_ENTRY_RSI) /\ AboveMean(i, S1_SMA_WINDOW)
S1Exit(i) == RsiAbove(i, S1_EXIT_RSI)
S2Entry(i) == \A j \in i - S2_ENTRY_WINDOW .. i - 1 : bars[i].kind.close > bars[j].kind.high
S2Exit(i) == \A j \in i - S2_EXIT_WINDOW .. i - 1 : bars[i].kind.close < bars[j].kind.low

\* The rolling sums, the seeded averages, the shifted channels and the state
\* carried from bar to bar give each session the position of the definition:
\* above the mean; between an entry and the exit that follows.  Every session
\* after the warm-up has its target, but the last one of the SMA strategy.
TargetsMatchDefinition ==
    \A strategy \in Strategies :
        LET result == Call(strategy, bars)
            first == CASE strategy = "sma" -> Window
                       [] strategy = "s1" -> S1_SMA_WINDOW
                       [] strategy = "s2" -> S2_ENTRY_WINDOW + 1
            last == IF strategy = "sma" THEN Len(bars) - 1 ELSE Len(bars)
            long(i) == CASE strategy = "sma" -> AboveMean(i, Window)
                         [] strategy = "s1" -> HeldSince(first, i, S1Entry, S1Exit)
                         [] strategy = "s2" -> HeldSince(first, i, S2Entry, S2Exit)
        IN  ~result.raised =>
              /\ DOMAIN result.targets = 1 .. (IF last < first THEN 0 ELSE last - first + 1)
              /\ \A n \in DOMAIN result.targets :
                    /\ result.targets[n].effective_at = session_open_at(first + n)
                    /\ result.targets[n].weight = 1 <=> long(first + n - 1)
=============================================================================
