SPECIFICATION Spec
CONSTANTS
    MaxOrders = 2
    MaxRequests = 1
    MaxErrors = 1
INVARIANTS TypeOK OneOpenOrder OpenIsKnown NothingLeftOpen
CHECK_DEADLOCK FALSE
