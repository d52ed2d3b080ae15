SPECIFICATION Spec
CONSTANT
    Setups <- SetupsEditing
INVARIANTS
    TypeOK
    EntryFollowsEdit
    StopFollowsEdit
    OldStopsAreGone
    ExitsFollowEdit
CHECK_DEADLOCK FALSE
