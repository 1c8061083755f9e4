SPECIFICATION WorldsSpec
CONSTANTS
    PeriodOf <- MCPeriodOf
    Days <- MCDays
    Delays <- MCDelays
    MaxBars = 5
    MaxLate = 1
    MaxTime = 24
    Schedules = {2, 6}
    Eligible = {2, 5, 6}
    S3_FAST_WINDOW = 2
    S3_SLOW_WINDOW = 3
    S4_MONTHLY_SMA_WINDOW = 2
    S5_LOOKBACK_MONTHS = 2
    Kinds <- MCKinds
    DailyDelays <- MCDailyDelays
    DailyMaxBars = 6
    Window = 3
    S1_SMA_WINDOW = 4
    S1_RSI_PERIOD = 2
    S1_ENTRY_RSI = 70
    S1_EXIT_RSI = 80
    S2_ENTRY_WINDOW = 3
    S2_EXIT_WINDOW = 2
INVARIANTS TargetsAreCausal TargetsMatchDefinition GapsAreTold SignalsMatchDailyBars
PROPERTIES CompleteIsFinal NeverRepaints
CHECK_DEADLOCK FALSE
