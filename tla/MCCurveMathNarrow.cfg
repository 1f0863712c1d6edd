SPECIFICATION Spec
CONSTANTS
    U64_MAX = 31
    FEE_PER_DIV = 2
    PERCENT = 10
    MaxAmount = 31
    MaxReserve = 31
INVARIANTS
    InputFollowsItsFormula
CHECK_DEADLOCK FALSE
