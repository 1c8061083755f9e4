-------------------------- MODULE MCReferenceEngine --------------------------
(* Instances of ReferenceEngine for TLC: up to four sessions that rise or    *)
(* fall, every choice of targets at their opens, and a few calls that the    *)
(* checks before the loop are there for.                                     *)
EXTENDS MeasuredRun, SequencesExt

Kinds == {[open |-> 2, close |-> 3], [open |-> 3, close |-> 1]}
BarOn(session, opens_at, kind) ==
    [session |-> session, session_open_at |-> opens_at,
     open |-> kind.open, close |-> kind.close]

Regular == UNION {{[i \in 1 .. n |-> BarOn(i, 10 * i, k[i])] : k \in [1 .. n -> Kinds]} :
                     n \in 0 .. 4}
\* Sessions out of order, and two sessions with one opening time.
Odd == UNION {{<<BarOn(2, 20, a), BarOn(1, 10, b)>>, <<BarOn(1, 10, a), BarOn(1, 20, b)>>,
               <<BarOn(1, 10, a), BarOn(2, 10, b), BarOn(3, 20, a)>>} :
                 a \in Kinds, b \in Kinds}
MCHistories == Regular \cup Odd

At(t, w) == [effective_at |-> t, weight |-> w]
\* For each of four opens: no target, sell or buy.
Plans == {SelectSeq([i \in 1 .. 4 |-> At(10 * i, p[i])], LAMBDA t : t.weight < 2) :
             p \in [1 .. 4 -> 0 .. 2]}
Bad == {<<At(10, 2)>>, <<At(10, 1), At(10, 0)>>, <<At(15, 1)>>}
MCTargetLists == Plans \cup {Reverse(p) : p \in Plans} \cup Bad

\* Free, commission, slippage, both, and a commission of everything.
MCCosts == {[commission |-> c, slippage |-> s] : c \in {Whole(0), Ratio(1, 4)},
                                                 s \in {Whole(0), Ratio(1, 2)}}
             \cup {[commission |-> Whole(1), slippage |-> Whole(0)]}

\* Sample and population volatility; a rate per observation or for one year.
MCPolicies == {[periods |-> 4, days |-> 2, ddof |-> 1, kind |-> "per_observation_simple",
                rate |-> Whole(0)],
               [periods |-> 1, days |-> 2, ddof |-> 0, kind |-> "annual_effective",
                rate |-> Ratio(1, 10)]}
=============================================================================
