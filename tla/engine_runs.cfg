SPECIFICATION Spec
CONSTANTS
    Histories <- MCHistories
    TargetLists <- MCTargetLists
    Costs <- MCCosts
    Cash = 6
    Precision = 2
    Policies <- MCPolicies
INVARIANTS EquityCompounds BooksBalance TradesAlternate AcceptedRunsAreMeasured RoundingHidesNothing
CHECK_DEADLOCK FALSE
