\* Two handlers of one user on one post: overlaps, drops and restarts.
CONSTANTS
    r1 = r1  r2 = r2  u1 = u1  u2 = u2
    Names = {n1}
    Slugs = {s1}
    Bodies = {b1, b2}
    Visibilities = {"PUBLIC", "PRIVATE"}
    Users = {u1}
    Requests = {r1, r2}
    UserOf <- OneUser
    Sent <- Ops
    Own = Own
    None = None
SYMMETRY OneUserSymmetry
SPECIFICATION Spec
INVARIANTS
    TypeOK
    PublishedIsStamped
    ExcerptIsCurrent
    OnlyAPartialDraftLacksTerms
CHECK_DEADLOCK FALSE
