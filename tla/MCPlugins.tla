------------------------------ MODULE MCPlugins ------------------------------
(* A small instance of Plugins for TLC.                                    *)
EXTENDS Plugins, TLC

CONSTANTS q1, q2, m1

\* Plugins: one whose files and state change, and one that is there.
Declares(e, h, m) == [enabled |-> e, http |-> h, methods |-> m]
FewManifests == {Declares(TRUE, TRUE, {"GET"}), Declares(FALSE, FALSE, {"POST"})}
AnotherPlugin == manifests[q2] = Declares(TRUE, TRUE, {"GET"}) /\ wasm[q2] = m1
OnePlugin == /\ manifests'[q2] = manifests[q2] /\ wasm'[q2] = wasm[q2]
             /\ q2 \notin outdated' /\ loaded'[q2].enabled
             /\ \A r \in Requests : job'[r].at \in {"routed", "run"} => job'[r].plugin = q1
=============================================================================
