SPECIFICATION Spec
CONSTANTS
    MaxOrders = 2
    MaxRequests = 1
    MaxErrors = 1
INVARIANT FilledOnce
CHECK_DEADLOCK FALSE
