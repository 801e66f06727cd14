------------------------------ MODULE MCPosts ------------------------------
(* Small instances of Posts for TLC.                                       *)
EXTENDS Posts, TLC

CONSTANTS r1, r2, u1, u2

OneUser == [r \in Requests |-> u1]
TwoUsers == [r \in Requests |-> IF r = r2 THEN u2 ELSE u1]

NameSymmetry == Permutations(Names) \cup Permutations(Slugs)

OneUserSymmetry == Permutations(Requests) \cup Permutations(Bodies)
=============================================================================
