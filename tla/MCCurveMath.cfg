SPECIFICATION Spec
CONSTANTS
    U64_MAX = 4095
    FEE_PER_DIV = 2
    PERCENT = 10
    MaxAmount = 24
    MaxReserve = 20
INVARIANTS
    CappedPaymentIsExact
    CapNeverRaisesThePayment
    OutputKeepsTheProduct
    InputIsShortByLessThanOne
    CutOrderIsNotEnlarged
CHECK_DEADLOCK FALSE
