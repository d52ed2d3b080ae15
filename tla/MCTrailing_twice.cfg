SPECIFICATION Spec
CONSTANTS
    Setups <- SetupsSpotLimit
    ALot = 2
INVARIANT BoughtOnce
CHECK_DEADLOCK FALSE
