SPECIFICATION WorldsSpec
CONSTANTS
  Provider <- MCProvider
  Authority <- MCAuthority
  Label <- MCLabel
  MaxDay = 4
  NaN = NaN
  TextRank <- MCTextRank
  Queries <- MCQueries
  Null = Null
  Absent = Absent
  Asset = "QQQ"
  OpenDays <- MCOpenDays
  Answers <- MCAnswers
  Sources = {}
  Bars = {}
  MaxSources = 2
  MaxBars = 2
  MaxRevisions = 0
  MaxReports = 0
  RowQueries <- MCRowQueries
  RowSources <- MCRowSources
  RowBars <- MCRowBars
  LifeQueries <- MCLifeQueries
  LifeSources <- MCLifeSources
  LifeBars <- MCLifeBars
CHECK_DEADLOCK FALSE
INVARIANT AlwaysReported
