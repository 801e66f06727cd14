\* Two handlers on two ids: overlaps, drops and restarts.
CONSTANTS
    Ids = {i1, i2}
    Requests = {r1, r2}
    None = None
SYMMETRY Symmetry
SPECIFICATION Spec
INVARIANTS
    TypeOK
    OnlyModeratedIsPublic
    DriftNeedsARace
    EveryCommentIsListedOnce
PROPERTIES
    OnlyHideOrDeleteUnpublishes
CHECK_DEADLOCK FALSE
