SPECIFICATION Spec
CONSTANT
    Setups <- SetupsLife
INVARIANTS
    TypeOK
    Protected
    BooksMatch
    EndMeansClosed
    NoDoubleEntry
PROPERTY StartsFlat
CHECK_DEADLOCK FALSE
