\* Every handler runs to its end; no symmetry, since the property is temporal.
CONSTANTS
    Ids = {i1, i2}
    Requests = {r1, r2}
    None = None
SPECIFICATION FairSpec
PROPERTIES
    StoredIsEventuallyIndexed
CHECK_DEADLOCK FALSE
