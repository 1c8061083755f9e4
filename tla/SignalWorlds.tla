---------------------------- MODULE SignalWorlds ----------------------------
(* The world of the strategies on daily bars and that of the strategies on   *)
(* period bars, for what is promised of all strategies.  Only one of them    *)
(* takes steps in a behavior, the other stays as it began, so that a run     *)
(* visits the states of each once.                                           *)
EXTENDS PeriodSignals

CONSTANTS
    Kinds, DailyDelays, DailyMaxBars,   \* of the bars of DailySignals
    Window, S1_SMA_WINDOW, S1_RSI_PERIOD, S1_ENTRY_RSI, S1_EXIT_RSI,
    S2_ENTRY_WINDOW, S2_EXIT_WINDOW

VARIABLES
    world,      \* which one takes steps
    history     \* the bars of DailySignals

Daily == INSTANCE DailySignals
             WITH bars <- history, Delays <- DailyDelays, MaxBars <- DailyMaxBars

ASSUME DailyAssumption == Daily!SignalsAssumption

WorldsInit == /\ Init /\ Daily!Init
              /\ \/ world = "periods"
                 \/ world = "daily" /\ scheduled = Latest(Schedules)
WorldsNext == /\ UNCHANGED world
              /\ \/ world = "periods" /\ Next /\ UNCHANGED history
                 \/ world = "daily" /\ Daily!Next /\ UNCHANGED vars
WorldsSpec == WorldsInit /\ [][WorldsNext]_<<vars, world, history>>
-----------------------------------------------------------------------------

\* What either world holds is well-formed, every target was decided before it
\* takes effect, and uses nothing that was unknown when it was decided
\* (PeriodSignals, DailySignals).
TargetsAreCausal == /\ PeriodsOK
                    /\ Daily!DailyOK
                    /\ Daily!TargetsAreCausal

\* A signal from period bars is what the daily bars of whole periods say, and
\* was decided after them (PeriodSignals).
SignalsMatchDailyBars == TargetsMatchDailyBars /\ MomentumMatchesDailyBars

\* The targets are those of the definitions of SMA, S1 and S2 (DailySignals).
TargetsMatchDefinition == Daily!TargetsMatchDefinition

\* A further session changes no earlier target (DailySignals).
NeverRepaints == Daily!NeverRepaints
=============================================================================
