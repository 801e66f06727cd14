\* Two handlers, a plugin that is enabled and one that is not.
CONSTANTS
    Requests = {r1, r2}
    None = None
    q1 = q1  q2 = q2  m1 = m1
    PluginNames = {q1, q2}
    Modules = {m1}
    Compiles = {m1}
    Placeholder = Placeholder
    Methods = {"GET", "POST"}
    Manifests <- FewManifests
SPECIFICATION PluginsSpec
INVARIANTS
    EnabledHasItsModule
CHECK_DEADLOCK FALSE
