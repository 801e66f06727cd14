CONSTANTS
    Ids = {i1, i2}
    Requests = {r1}
    None = None
SPECIFICATION UndisturbedSpec
INVARIANT ApprovedRepliesAreListed
CHECK_DEADLOCK FALSE
