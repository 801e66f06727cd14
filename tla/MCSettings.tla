----------------------------- MODULE MCSettings -----------------------------
(* A small instance of Settings for TLC.                                   *)
EXTENDS Settings, TLC

CONSTANTS a, ab, v1, v2

\* Settings: rows 1 and 5 are those of `system', 2 and 3 of a map `a', 2 also of
\* the map `a.b', 4 is a form schema.
MapKeys == a :> {2, 3} @@ ab :> {2} @@ Form :> {4} @@ System :> {1, 5}
Sends(data) == [k \in Keys |-> IF k \in DOMAIN data THEN data[k] ELSE None]
FewPayloads ==
    {System} \X {Sends(1 :> v1 @@ 5 :> v1), Sends(5 :> v2),
                 Sends(2 :> v2 @@ 4 :> v2), Empty}
    \cup {a} \X {Sends(2 :> v1 @@ 3 :> v1), Sends(3 :> v2)}
    \cup {<<ab, Sends(2 :> v2)>>}
MapsOf(maps) == \A r \in Requests : op'[r].map \in maps \cup {None}
=============================================================================
