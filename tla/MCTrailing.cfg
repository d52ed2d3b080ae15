SPECIFICATION Spec
CONSTANTS
    Setups <- SetupsTrailing
    ALot = 2
INVARIANTS
    TypeOK
    EntryExposure
    NeverWithoutExit
    OneExit
    NothingLeftOpen
PROPERTY
    EdgeOnlyImproves
CHECK_DEADLOCK FALSE
