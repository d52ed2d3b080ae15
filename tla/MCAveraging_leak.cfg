SPECIFICATION Spec
CONSTANTS
    Setups <- SetupsThree
INVARIANT WaitsForSomebody
CHECK_DEADLOCK FALSE
