\* Two racing exits and an entry: lags, lost answers, late writes and a crash.
SPECIFICATION Spec
CONSTANTS
    x = x
    y = y
    e1 = e1
    e2 = e2
    b = b
    NoOrder = NoOrder
    Orders <- MCOrders
    Contracts <- MCContracts
    Contract <- MCContract
    Quantity <- MCQuantity
    Operator <- MCOperator
    Start <- MCStart
    MaxPositions = 1
    MaxCrashes = 1
CHECK_DEADLOCK FALSE
INVARIANTS
    LooseIsCounted
    WithinPositionLimit
    UntornExitsNeverFlip
