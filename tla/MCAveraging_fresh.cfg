SPECIFICATION Spec
CONSTANTS
    Setups <- SetupsPlain
INVARIANT EntersOnFill
CHECK_DEADLOCK FALSE
