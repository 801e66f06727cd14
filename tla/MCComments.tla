----------------------------- MODULE MCComments -----------------------------
(* Small instances of Comments for TLC.                                    *)
EXTENDS Comments, TLC

\* Comment ids and handlers are interchangeable; used only without liveness.
Symmetry == Permutations(Ids) \cup Permutations(Requests)
=============================================================================
