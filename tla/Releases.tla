------------------------------ MODULE Releases ------------------------------
(* core/models.py: a dataset release and the schedules an experiment may     *)
(* consume from it.  A release is issued over the schedule of the expected   *)
(* sessions of a query; each of its intervals is a range for which the       *)
(* quality suite reported the same question eligible.                        *)
EXTENDS QualitySuite

LOCAL INSTANCE Functions

\* SessionSchedule: the sessions of a requested range, in order, so a set.
IsSchedule(s) == /\ s.from <= s.to
                 /\ s.sessions # {}
                 /\ \A d \in s.sessions : s.from <= d /\ d <= s.to

ScheduleOf(qq) == [from |-> qq.from, to |-> qq.to,
                   sessions |-> InRange(qq.expected, qq.from, qq.to)]

\* EligibleInterval: of an eligible report, with its expected sessions.
Interval(qq, a, b) == [first |-> a, last |-> b, count |-> Cardinality(InRange(qq.expected, a, b)),
                       report |-> Context(Over(qq, a, b))]
IsInterval(i) == i.first <= i.last /\ i.count >= 1

\* DatasetReleaseRef.validate_release_semantics, for raw daily data.
IsRelease(intervals, schedule, adjustment) ==
    /\ adjustment = "raw"
    /\ IsSchedule(schedule)
    /\ intervals # <<>>
    /\ \A k \in DOMAIN intervals :
          /\ IsInterval(intervals[k])
          /\ schedule.from <= intervals[k].first /\ intervals[k].last <= schedule.to
          /\ k > 1 => intervals[k - 1].last < intervals[k].first
    /\ \A j, k \in DOMAIN intervals : j # k => intervals[j].report # intervals[k].report
    /\ SumFunction([k \in DOMAIN intervals |-> intervals[k].count])
          <= Cardinality(schedule.sessions)

\* Fault: the first and the last session may lie in different intervals.
SupportsAcross(intervals, schedule, consumed) ==
    /\ schedule.from <= consumed.from /\ consumed.to <= schedule.to
    /\ \A d \in {Least(consumed.sessions), Greatest(consumed.sessions)} :
          \E k \in DOMAIN intervals : intervals[k].first <= d /\ d <= intervals[k].last

\* structurally_supports_consumed_schedule, for one calendar: the sessions from
\* the first to the last lie in one interval.  Those between are not looked at.
Supports(intervals, schedule, consumed) ==
    /\ schedule.from <= consumed.from /\ consumed.to <= schedule.to
    /\ \E k \in DOMAIN intervals :
          /\ intervals[k].first <= Least(consumed.sessions)
          /\ Greatest(consumed.sessions) <= intervals[k].last
-----------------------------------------------------------------------------

\* The releases that a caller can issue with up to two reports of a query.
Eligible(qq) ==
    {r \in (qq.from .. qq.to) \X (qq.from .. qq.to) :
        r[1] <= r[2] /\ EvaluateRange(Over(qq, r[1], r[2])) = "eligible"}
Issued(qq) ==
    LET eligible == Eligible(qq)
        intervals == {Interval(qq, r[1], r[2]) : r \in eligible}
        lists == {<<i>> : i \in intervals} \cup {<<i, j>> : i, j \in intervals}
    IN  {x \in lists : IsRelease(x, ScheduleOf(qq), qq.adjustment)}

\* The schedules of the pinned calendar that an experiment may ask for.
Requests(qq) ==
    {s \in [from : qq.from .. qq.to, to : qq.from .. qq.to,
            sessions : SUBSET InRange(qq.expected, qq.from, qq.to)] : IsSchedule(s)}

\* A release lets an experiment consume only sessions of a stretch without a
\* gap: over any schedule that it supports, the suite finds every expected day
\* eligible, the days the schedule skips and those of another report included
\* (ADR-0011: a request may not cross a gap).
ConsumedIsEligible ==
    Reported(q) =>
        LET releases == Issued(q)
        IN  \A s \in Requests(q) :
              (\E x \in releases : Supports(x, ScheduleOf(q), s)) =>
                  <<Least(s.sessions), Greatest(s.sessions)>> \in Eligible(q)
=============================================================================
