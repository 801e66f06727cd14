---------------------------- MODULE CommentsBoard ----------------------------
(***************************************************************************)
(* Comments implements ModerationBoard when one handler runs at a time and *)
(* each runs to its end: the board is what the moderators' list shows,     *)
(* admin_comments and admin_replies, which read the index.  A restart in   *)
(* the middle of a handler is the operation taking effect.  With two       *)
(* handlers in flight the board can step back to an earlier card, and show *)
(* a comment that is hidden, which no step of ModerationBoard does.        *)
(***************************************************************************)
EXTENDS Comments, TLC

AdminList == [id \in Ids |-> IF index[id] = None THEN None ELSE index[id].row]

Board == INSTANCE ModerationBoard WITH board <- AdminList

\* One handler at a time: the moderators' list changes only as if each request
\* were one indivisible operation on one comment, restarts included.
ImplementsBoard == Board!Spec
=============================================================================
