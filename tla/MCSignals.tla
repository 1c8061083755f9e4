----------------------------- MODULE MCSignals ------------------------------
(* Small markets for SignalWorlds.                                           *)
EXTENDS SignalWorlds

\* PeriodSignals: six sessions in five periods, three kinds of days, on which
\* both assets, or one of them, close high.
MCPeriodOf == <<1, 2, 2, 3, 4, 5>>

Kind(o, h, l, c) == [open |-> o, high |-> h, low |-> l, close |-> c, volume |-> 1]
Day(qqq, dia) == [QQQ |-> qqq, DIA |-> dia]
MCDays == {Day(Kind(2, 3, 1, 2), Kind(2, 3, 1, 2)),
           Day(Kind(3, 4, 3, 4), Kind(3, 3, 2, 2)),
           Day(Kind(3, 3, 2, 3), Kind(2, 4, 2, 4))}

\* Both at the close, one at the next open, the other after three more sessions.
MCDelays == {Day(0, 0), Day(0, 2), Day(14, 0)}

\* DailySignals: the windows are shorter than those of the strategies and the
\* levels closer, so that a few sessions hold entries and exits of each.  A bar
\* is available at the close, at the next open and three sessions later.
MCKinds == {Kind(1, 2, 1, 1), Kind(6, 6, 5, 6), Kind(8, 9, 7, 9)}
MCDailyDelays == {0, 2, 11}
=============================================================================
