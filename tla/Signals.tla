------------------------------ MODULE Signals -------------------------------
(* What the strategies share: sessions and their bars, and the targets they  *)
(* return, or that they raise.                                               *)
EXTENDS Features

\* The schedule: sessions are numbered and do not overlap, and the nights are
\* as long as the days.
session_open_at(i) == 4 * i
session_close_at(i) == 4 * i + 2

BarOf(i, k, delay) == [kind |-> k, available_at |-> session_close_at(i) + delay]

Closes(bs) == [i \in DOMAIN bs |-> bs[i].kind.close]
Highs(bs) == [i \in DOMAIN bs |-> bs[i].kind.high]
Lows(bs) == [i \in DOMAIN bs |-> bs[i].kind.low]

\* When every bar of a set is available.
Available(bs, S) == Latest({bs[j].available_at : j \in S})

TargetPosition(decided, effective, long) ==
    [decision_at |-> decided, effective_at |-> effective, weight |-> IF long THEN 1 ELSE 0]

Raised == [raised |-> TRUE, targets |-> <<>>]
Returned(ts) == [raised |-> FALSE, targets |-> ts]

\* Fault: a bar that arrives at the next open is early enough.
EmitLate(before, decided, effective, long) ==
    IF before.raised \/ decided > effective THEN Raised
    ELSE Returned(Append(before.targets, TargetPosition(decided, effective, long)))

\* One more target joins those before it, if it is decided in time.
Emit(before, decided, effective, long) ==
    IF before.raised \/ decided >= effective THEN Raised
    ELSE Returned(Append(before.targets, TargetPosition(decided, effective, long)))
=============================================================================
