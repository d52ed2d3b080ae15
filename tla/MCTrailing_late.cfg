SPECIFICATION Spec
CONSTANTS
    Setups <- SetupsFutures
    ALot = 2
INVARIANT NotSentTwice
CHECK_DEADLOCK FALSE
