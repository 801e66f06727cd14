\* Two handlers of settings, and the copy that plugins read.
CONSTANTS
    Requests = {r1, r2}
    None = None
    a = a  ab = ab  v1 = v1  v2 = v2
    Keys = {1, 2, 3, 4, 5}
    Values = {v1, v2}
    Junk = {v2}
    Maps = {a, ab}
    System = System
    Form = Form
    KeysOf <- MapKeys
    TitleKey = 5
    BasicKey = 1
    Untitled = Untitled
    Payloads <- FewPayloads
SPECIFICATION HostSpec
INVARIANTS
    PluginsSeeTheSettings
CHECK_DEADLOCK FALSE
