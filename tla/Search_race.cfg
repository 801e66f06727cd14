\* Two handlers on one post, with rebuilds, drops and restarts.
CONSTANTS
    r1 = r1  u1 = u1
    Names = {n1}
    Slugs = {s1}
    Bodies = {b1, b2}
    Visibilities = {"PUBLIC"}
    Users = {u1}
    Requests = {r1, r2}
    UserOf <- OneUser
    Sent = {"edit", "publish", "soft_delete"}
    Own = Own
    None = None
SYMMETRY Symmetry
SPECIFICATION SearchSpec
INVARIANTS
    SearchTypeOK
    OnlyPublishedIsSearchable
    DriftNeedsACause
CHECK_DEADLOCK FALSE
