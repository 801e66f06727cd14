\* One handler, so that operations never overlap; three ids, so that a comment
\* can have a reply while another comment is handled.
CONSTANTS
    Ids = {i1, i2, i3}
    Requests = {r1}
    None = None
SPECIFICATION UndisturbedSpec
PROPERTIES
    ImplementsBoard
CHECK_DEADLOCK FALSE
