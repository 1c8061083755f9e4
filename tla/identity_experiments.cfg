SPECIFICATION Spec
CONSTANTS
    Specs <- MCSpecs
    Runtimes = {r1, r2}
    MaxDigits = 2
    MaxAdjusted = 3
    MaxFixedCharacters = 4
    FullCost <- MCFullCost
INVARIANTS EqualConfigsShareId
CHECK_DEADLOCK FALSE
