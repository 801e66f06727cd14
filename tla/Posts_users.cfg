\* Two users with a handler each, two posts and two slugs.
CONSTANTS
    r1 = r1  r2 = r2  u1 = u1  u2 = u2
    Names = {n1, n2}
    Slugs = {s1, s2}
    Bodies = {b1}
    Visibilities = {"PUBLIC"}
    Users = {u1, u2}
    Requests = {r1, r2}
    UserOf <- TwoUsers
    Sent = {"touch", "publish", "purge"}
    Own = Own
    None = None
SYMMETRY NameSymmetry
SPECIFICATION Spec
INVARIANTS
    SlugsAreUnique
PROPERTIES
    OnlyTheOwnerWrites
CHECK_DEADLOCK FALSE
