\* One handler at a time and a rebuild.
CONSTANTS
    r1 = r1  u1 = u1
    Names = {n1}
    Slugs = {s1}
    Bodies = {b1}
    Visibilities = {"PUBLIC"}
    Users = {u1}
    Requests = {r1}
    UserOf <- OneUser
    Sent = {"publish"}
    Own = Own
    None = None
SPECIFICATION SearchSpec
PROPERTIES
    RebuildIsIdempotent
CHECK_DEADLOCK FALSE
