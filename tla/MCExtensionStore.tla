-------------------------- MODULE MCExtensionStore --------------------------
(* Small instances of ExtensionStore for TLC.                              *)
EXTENDS ExtensionStore, TLC

Symmetry == Permutations(Clients)
=============================================================================
