SPECIFICATION Spec
CONSTANTS
    Setups <- SetupsAveraging
INVARIANTS
    TypeOK
    IndexInRange
    OneTakeProfit
    TakeProfitCovers
CHECK_DEADLOCK FALSE
