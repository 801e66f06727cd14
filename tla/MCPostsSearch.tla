--------------------------- MODULE MCPostsSearch ---------------------------
(* Small instances of PostsSearch for TLC.                                 *)
EXTENDS PostsSearch, TLC

CONSTANTS r1, u1

OneUser == [r \in Requests |-> u1]

Symmetry == Permutations(Requests) \cup Permutations(Bodies) \cup Permutations(Slugs)
                \cup Permutations(Names)
=============================================================================
