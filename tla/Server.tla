------------------------------- MODULE Server -------------------------------
(***************************************************************************)
(* What the modules of the server's smaller components share: handlers are *)
(* named by the requests they serve, and an absent row, entry or answer is *)
(* None.  The components have no state in common, so that one at a time is *)
(* all there is to check.                                                  *)
(***************************************************************************)
CONSTANTS
    Requests,   \* requests in flight
    None
=============================================================================
