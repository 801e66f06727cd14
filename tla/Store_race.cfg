\* Two clients on two names under a scan of one name to a page.
CONSTANTS
    Names = {1, 2}
    Data = {d1}
    Clients = {c1, c2}
    PageSize = 1
    MaxVersion = 3
    Null = Null
    None = None
SYMMETRY Symmetry
SPECIFICATION Spec
INVARIANTS
    TypeOK
    ScanIsComplete
PROPERTIES
    NoLostUpdate
CHECK_DEADLOCK FALSE
