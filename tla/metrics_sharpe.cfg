SPECIFICATION Spec
CONSTANTS
    Precision = 2
    Amounts = {4, 8, 9, 12, 15, 16, 25}
INVARIANTS ConstantReturnsHaveNoSharpe
CHECK_DEADLOCK FALSE
