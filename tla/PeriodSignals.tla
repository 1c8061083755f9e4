---------------------------- MODULE PeriodSignals ----------------------------
(* strategies/weekly_dual_ma.py (S3), monthly_sma.py (S4) and                *)
(* dual_momentum.py (S5) on bars that PeriodBars derives.  Two assets are    *)
(* recorded day by day while time passes; at any time periods are derived    *)
(* from what is recorded, and some of them are offered to a strategy.        *)
(*                                                                           *)
(* The sessions of one calendar stand for its weeks in S3 and for its months *)
(* in S4 and S5.                                                             *)
EXTENDS PeriodBars

CONSTANTS
    Days,       \* what the bars of QQQ and DIA can hold on one day
    Delays,     \* how long after the close each of them may be available
    MaxBars, MaxLate, MaxTime,
    Schedules,  \* lengths of the schedule that derivation expects
    Eligible,   \* lengths of the schedule that strategies are given
    S3_FAST_WINDOW, S3_SLOW_WINDOW, S4_MONTHLY_SMA_WINDOW, S5_LOOKBACK_MONTHS

Asset == {"QQQ", "DIA"}

ASSUME PeriodSignalsAssumption ==
    /\ \A day \in Days, a \in Asset :
         LET k == day[a]
         IN  /\ {k.open, k.high, k.low, k.close} \subseteq Nat /\ 0 < k.close
             /\ k.low <= k.open /\ k.low <= k.close
             /\ k.open <= k.high /\ k.close <= k.high
    /\ \A d \in Delays, a \in Asset : d[a] \in Nat
    /\ {S3_FAST_WINDOW, S3_SLOW_WINDOW, S4_MONTHLY_SMA_WINDOW, S5_LOOKBACK_MONTHS}
          \subseteq Nat \ {0}
    /\ S3_FAST_WINDOW < S3_SLOW_WINDOW
    /\ Schedules \cup Eligible \subseteq DOMAIN PeriodOf

VARIABLES
    bars,       \* of each asset, one bar per session
    cutoff,     \* the present
    scheduled   \* how many sessions the expected schedule has

vars == <<bars, cutoff, scheduled>>

-----------------------------------------------------------------------------
(* Strategies *)

Consecutive(ps) == \A k \in 2 .. Len(ps) : ps[k].period = ps[k - 1].period + 1

\* The expected sessions of each period are those of the eligible schedule.
MatchesSchedule(ps, eligible) ==
    \A k \in DOMAIN ps : ps[k].expected = SessionsOf(ps[k].period, eligible)

\* The eligible session after a period, if there is one.
ExecutionSession(b) == Latest(b.expected) + 1

\* Fault: the schedule that the periods were derived from is believed.
PeriodTargetsBelieving(ps, eligible, window, long) ==
    LET result[k \in window - 1 .. Len(ps)] ==
          IF k = window - 1 THEN Returned(<<>>)
          ELSE IF ExecutionSession(ps[k]) > eligible THEN Raised
          ELSE Emit(result[k - 1], Available(ps, k - window + 1 .. k),
                    session_open_at(ExecutionSession(ps[k])), k \in long)
    IN  IF ~AllComplete(ps) \/ ~Consecutive(ps) THEN Raised
        ELSE IF Len(ps) < window THEN Returned(<<>>)
        ELSE result[Len(ps)]

\* What S3 and S4 share; long are the periods whose signal is on.
PeriodTargets(ps, eligible, window, long) ==
    LET result[k \in window - 1 .. Len(ps)] ==
          IF k = window - 1 THEN Returned(<<>>)
          ELSE IF ExecutionSession(ps[k]) > eligible THEN Raised
          ELSE Emit(result[k - 1], Available(ps, k - window + 1 .. k),
                    session_open_at(ExecutionSession(ps[k])), k \in long)
    IN  IF ~AllComplete(ps) \/ ~Consecutive(ps) \/ ~MatchesSchedule(ps, eligible) THEN Raised
        ELSE IF Len(ps) < window THEN Returned(<<>>)
        ELSE result[Len(ps)]

\* weekly_dual_ma_targets.
S3Targets(ps, eligible) ==
    LET fast == RollingSum(Closes(ps), S3_FAST_WINDOW)
        slow == RollingSum(Closes(ps), S3_SLOW_WINDOW)
    IN  PeriodTargets(ps, eligible, S3_SLOW_WINDOW,
                      {k \in S3_SLOW_WINDOW .. Len(ps) :
                          fast[k] * S3_SLOW_WINDOW > slow[k] * S3_FAST_WINDOW})

\* monthly_ten_month_sma_targets.
S4Targets(ps, eligible) ==
    LET sum == RollingSum(Closes(ps), S4_MONTHLY_SMA_WINDOW)
    IN  PeriodTargets(ps, eligible, S4_MONTHLY_SMA_WINDOW,
                      {k \in S4_MONTHLY_SMA_WINDOW .. Len(ps) :
                          ps[k].kind.close * S4_MONTHLY_SMA_WINDOW > sum[k]})

\* _selection: the asset that grew more, if it grew at all.
Selection(qqq, dia) ==
    LET selected == IF qqq.n * dia.d > dia.n * qqq.d
                    THEN [asset |-> "QQQ", growth |-> qqq]
                    ELSE [asset |-> "DIA", growth |-> dia]
    IN  CASE qqq.n * dia.d = dia.n * qqq.d -> "relative_tie"
          [] /\ qqq.n * dia.d # dia.n * qqq.d
             /\ selected.growth.n > selected.growth.d -> selected.asset
          [] OTHER -> "cash_non_positive"

\* Fault: series of one length are taken to be aligned.
AlignedByLength(qqq, dia) == Len(qqq) = Len(dia)

\* _validate_cross_series.
Aligned(qqq, dia) ==
    /\ Len(qqq) = Len(dia)
    /\ \A k \in DOMAIN qqq : /\ qqq[k].period = dia[k].period
                             /\ qqq[k].expected = dia[k].expected

\* monthly_dual_momentum_signals.
S5Signals(qqq, dia) ==
    IF \/ ~AllComplete(qqq) \/ ~AllComplete(dia)
       \/ qqq = <<>> \/ dia = <<>>
       \/ ~Consecutive(qqq) \/ ~Consecutive(dia)
       \/ ~Aligned(qqq, dia)
    THEN Raised
    ELSE LET lookback == S5_LOOKBACK_MONTHS
             signal(k) ==
               [period |-> qqq[k].period,
                decision_at |-> Latest({Available(qqq, k - lookback .. k),
                                        Available(dia, k - lookback .. k)}),
                selected |-> Selection(Growth(Closes(qqq), k, lookback),
                                       Growth(Closes(dia), k, lookback))]
         IN  Returned(IF Len(qqq) <= lookback THEN <<>>
                      ELSE [n \in 1 .. Len(qqq) - lookback |-> signal(n + lookback)])

-----------------------------------------------------------------------------

Init ==
    /\ bars = [a \in Asset |-> <<>>]
    /\ cutoff = session_open_at(1)
    /\ scheduled \in Schedules

\* The bars of the next session are recorded, after it has closed.
RecordDay(day, delays) ==
    LET i == Len(bars["QQQ"]) + 1
        late == {j \in 1 .. i - 1 : \E a \in Asset :
                                      bars[a][j].available_at > session_close_at(j)}
    IN  /\ i <= MaxBars
        /\ session_close_at(i) <= cutoff
        /\ (\E a \in Asset : delays[a] > 0) => Cardinality(late) < MaxLate
        /\ bars' = [a \in Asset |-> Append(bars[a], BarOf(i, day[a], delays[a]))]
        /\ UNCHANGED <<cutoff, scheduled>>

Wait ==
    /\ cutoff < MaxTime
    /\ cutoff' = cutoff + 2
    /\ UNCHANGED <<bars, scheduled>>

Next == Wait \/ \E day \in Days, delays \in Delays : RecordDay(day, delays)

Spec == Init /\ [][Next]_vars

-----------------------------------------------------------------------------
(* Properties *)

Derived(a) == Derive(bars[a], scheduled, cutoff)

\* The series that may be offered: consecutive ones of the periods that were
\* derived, or all but one of them.
Offers(a) ==
    LET ps == Derived(a).bars
    IN  {SubSeq(ps, m, n) : m, n \in DOMAIN ps} \cup {RemoveAt(ps, k) : k \in DOMAIN ps}

\* What is recorded is of the schedule; a derived bar passes the validator of
\* DerivedPeriodBar, and a target that of TargetPosition.
PeriodsOK ==
    /\ cutoff \in Nat /\ scheduled \in Schedules
    /\ \A a \in Asset :
         /\ \A i \in DOMAIN bars[a] : \E day \in Days, d \in Delays :
               bars[a][i] = BarOf(i, day[a], d[a])
         /\ \A k \in DOMAIN Derived(a).bars :
               LET b == Derived(a).bars[k]
               IN  /\ b.kind.low <= b.kind.open /\ b.kind.open <= b.kind.high
                   /\ b.kind.low <= b.kind.close /\ b.kind.close <= b.kind.high
                   /\ b.available_at <= b.cutoff_at
    /\ \A ps \in Offers("QQQ"), eligible \in Eligible :
         \A result \in {S3Targets(ps, eligible), S4Targets(ps, eligible)} :
            \A n \in DOMAIN result.targets :
               result.targets[n].decision_at < result.targets[n].effective_at

\* The complete bars that are derived of an asset stay, unless derivation raises.
KeepsComplete(a) ==
    LET before == Derived(a)
        after == Derived(a)'
    IN  ~after.raised =>
          \A k \in DOMAIN before.bars :
              Completeness(before.bars[k]) = "complete" =>
                  k \in DOMAIN after.bars /\ after.bars[k] = before.bars[k]

\* A complete period bar is the same in every later derivation, whatever was
\* recorded since and wherever the cutoff has moved: a signal and its identity
\* can rest on it.
CompleteIsFinal == [][\A a \in Asset : KeepsComplete(a)]_vars

\* Derivation hides no gap: when it returns, every session that had closed by
\* the cutoff is in a bar or leaves the last one marked as missing data, and
\* the bars before the last are complete.
GapsAreTold ==
    \A a \in Asset :
        LET result == Derived(a)
            missing == {i \in 1 .. scheduled : /\ i \notin DOMAIN bars[a]
                                              /\ session_close_at(i) <= cutoff}
            last == Len(result.bars)
        IN  ~result.raised =>
              /\ \A k \in 1 .. last - 1 : Completeness(result.bars[k]) = "complete"
              /\ missing \subseteq result.bars[last].expected
              /\ missing # {} <=> Completeness(result.bars[last]) = "incomplete_missing_data"

-----------------------------------------------------------------------------
(* The signals as the strategies define them, from daily bars and a calendar *)

\* The close of a period is that of its last session.
CloseOf(a, p, eligible) == bars[a][Latest(SessionsOf(p, eligible))].kind.close
MeanAbove(a, p, eligible, fast, slow) ==
    LET total(n) == SumOver([r \in p - n + 1 .. p |-> CloseOf(a, r, eligible)], p - n + 1, p)
    IN  total(fast) * slow > total(slow) * fast

\* Every session of the eligible schedule in the window of periods up to p is
\* recorded, and available when the decision is taken.
Informed(a, p, window, eligible, decided) ==
    \A i \in {j \in 1 .. eligible : PeriodOf[j] \in p - window + 1 .. p} :
        i \in DOMAIN bars[a] /\ bars[a][i].available_at <= decided

\* A target of S3 or S4 takes effect at the first eligible session after its
\* period, and holds what the closes of whole periods say; so also when the
\* periods were derived from a schedule that lacks sessions of the eligible
\* one, or when some are not offered.
TargetsMatchDailyBars ==
    \A ps \in Offers("QQQ"), eligible \in Eligible :
        \A s \in {"s3", "s4"} :
            LET result == IF s = "s3" THEN S3Targets(ps, eligible) ELSE S4Targets(ps, eligible)
                window == IF s = "s3" THEN S3_SLOW_WINDOW ELSE S4_MONTHLY_SMA_WINDOW
                fast == IF s = "s3" THEN S3_FAST_WINDOW ELSE 1
            IN  \A n \in DOMAIN result.targets :
                  LET target == result.targets[n]
                      p == ps[window - 1 + n].period
                      after == {i \in 1 .. eligible : PeriodOf[i] > p}
                  IN  /\ after # {}
                      /\ target.effective_at = session_open_at(Earliest(after))
                      /\ Informed("QQQ", p, window, eligible, target.decision_at)
                      /\ target.weight = 1 <=> MeanAbove("QQQ", p, eligible, fast, window)

\* S5 selects the asset that alone grew most over the lookback, if it grew; the
\* signal is dated after every bar of either asset that it compares.
MomentumMatchesDailyBars ==
    \A qqq \in Offers("QQQ"), dia \in Offers("DIA") :
        LET result == S5Signals(qqq, dia)
        IN  \A n \in DOMAIN result.targets :
              LET signal == result.targets[n]
                  p == signal.period
                  base(a) == CloseOf(a, p - S5_LOOKBACK_MONTHS, scheduled)
                  final(a) == CloseOf(a, p, scheduled)
                  grew(a) == final(a) > base(a)
                  leads(a, b) == final(a) * base(b) > final(b) * base(a)
              IN  /\ \A a \in Asset :
                       Informed(a, p, S5_LOOKBACK_MONTHS + 1, scheduled, signal.decision_at)
                  /\ \A a \in Asset :
                       signal.selected = a <=> grew(a) /\ \A b \in Asset \ {a} : leads(a, b)
                  /\ signal.selected = "relative_tie" <=>
                       \A a, b \in Asset : ~leads(a, b)
=============================================================================
