SPECIFICATION Spec
CONSTANT
    Setups <- SetupsAnyPrice
PROPERTY LossIsCut
CHECK_DEADLOCK FALSE
