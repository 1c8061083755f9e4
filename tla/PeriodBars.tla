----------------------------- MODULE PeriodBars -----------------------------
(* research/frequency/resample.py: weekly or monthly bars from a prefix of   *)
(* daily bars, the schedule that is expected of them, and a cutoff.  The     *)
(* schedule covers whole periods, though its sessions may be wrong.          *)
EXTENDS Signals, SequencesExt

CONSTANT PeriodOf   \* the natural week or month of each session, in order

ASSUME PeriodsAssumption ==
    /\ PeriodOf \in Seq(Nat)
    /\ \A i, j \in DOMAIN PeriodOf : i <= j => PeriodOf[i] <= PeriodOf[j]

\* A session joins the last group of those before, or opens one of its own.
Joined(before, period) ==
    IF before # <<>> /\ Last(before) = period THEN before ELSE Append(before, period)

\* _group_sessions of the first n sessions: the periods, in order, and the
\* sessions of each.
Groups[n \in 0 .. Len(PeriodOf)] ==
    IF n = 0 THEN <<>> ELSE Joined(Groups[n - 1], PeriodOf[n])
SessionsOf(p, n) == {i \in 1 .. n : PeriodOf[i] = p}

\* The sum of the values of f.
Total(f) == MapThenSumSet(LAMBDA i : f[i], DOMAIN f)

\* Fault: every period bar has the cutoff of the call.
PeriodBarOfCall(bs, p, n, cutoff) ==
    LET expected == SessionsOf(p, n)
        observed == expected \cap DOMAIN bs
        values(field) == {bs[i].kind[field] : i \in observed}
    IN  [period |-> p, expected |-> expected, constituents |-> observed,
         available_at |-> Available(bs, observed),
         cutoff_at |-> cutoff,
         kind |-> [open |-> bs[Earliest(observed)].kind.open,
                   high |-> Latest(values("high")),
                   low |-> Earliest(values("low")),
                   close |-> bs[Latest(observed)].kind.close,
                   volume |-> Total([i \in observed |-> bs[i].kind.volume])]]

PeriodBar(bs, p, n, cutoff) ==
    LET expected == SessionsOf(p, n)
        observed == expected \cap DOMAIN bs
        values(field) == {bs[i].kind[field] : i \in observed}
    IN  [period |-> p, expected |-> expected, constituents |-> observed,
         available_at |-> Available(bs, observed),
         cutoff_at |-> IF observed = expected THEN Available(bs, observed) ELSE cutoff,
         kind |-> [open |-> bs[Earliest(observed)].kind.open,
                   high |-> Latest(values("high")),
                   low |-> Earliest(values("low")),
                   close |-> bs[Latest(observed)].kind.close,
                   volume |-> Total([i \in observed |-> bs[i].kind.volume])]]

\* An expected period of which no bar was observed, and that has begun to close.
ElapsedUnseen(bs, n, cutoff) ==
    {p \in Range(Groups[n]) : /\ SessionsOf(p, n) \cap DOMAIN bs = {}
                              /\ cutoff >= session_close_at(Earliest(SessionsOf(p, n)))}

\* Fault: an unobserved period is skipped, elapsed or not.
DeriveSkipping(bs, n, cutoff) ==
    IF \/ bs = <<>> \/ Len(bs) > n
       \/ \E i \in DOMAIN bs : bs[i].available_at > cutoff
    THEN [raised |-> TRUE, bars |-> <<>>]
    ELSE [raised |-> FALSE,
          bars |-> [k \in DOMAIN Groups[Len(bs)] |->
                       PeriodBar(bs, Groups[Len(bs)][k], n, cutoff)]]

\* derive_period_bars of the bars bs and the first n sessions.
Derive(bs, n, cutoff) ==
    IF \/ bs = <<>> \/ Len(bs) > n
       \/ \E i \in DOMAIN bs : bs[i].available_at > cutoff
       \/ ElapsedUnseen(bs, n, cutoff) # {}
    THEN [raised |-> TRUE, bars |-> <<>>]
    ELSE [raised |-> FALSE,
          bars |-> [k \in DOMAIN Groups[Len(bs)] |->
                       PeriodBar(bs, Groups[Len(bs)][k], n, cutoff)]]

\* DerivedPeriodBar.completeness.
Completeness(b) ==
    CASE b.constituents = b.expected -> "complete"
      [] /\ b.constituents # b.expected
         /\ b.cutoff_at < session_close_at(Earliest(b.expected \ b.constituents))
         -> "partial_cutoff"
      [] OTHER -> "incomplete_missing_data"

\* require_complete_period_bars does not raise.
AllComplete(ps) == \A k \in DOMAIN ps : Completeness(ps[k]) = "complete"
=============================================================================
