--------------------------- MODULE ModerationBoard ---------------------------
(***************************************************************************)
(* What CommentService promises the moderators: a board on which every     *)
(* comment and reply has one moderation state, and each of the service's   *)
(* operations changes the state of one comment in one indivisible step.    *)
(***************************************************************************)
CONSTANTS Ids, None

VARIABLE board      \* the moderation state of each comment, None if absent

Card == [parent : Ids \cup {None}, approved : BOOLEAN, hidden : BOOLEAN]

Init == board = [id \in Ids |-> None]

Set(id, card) == board' = [board EXCEPT ![id] = card]

\* A comment, or a reply to any comment, appears, not hidden.
Post(id) ==
    /\ board[id] = None
    /\ \E card \in Card : ~card.hidden /\ Set(id, card)

Approve(id) == board[id] # None /\ Set(id, [board[id] EXCEPT !.approved = TRUE])
Hide(id) == board[id] # None /\ Set(id, [board[id] EXCEPT !.hidden = TRUE])
Show(id) == board[id] # None /\ Set(id, [board[id] EXCEPT !.hidden = FALSE])
Delete(id) == board[id] # None /\ Set(id, None)

Next == \E id \in Ids : Post(id) \/ Approve(id) \/ Hide(id) \/ Show(id) \/ Delete(id)

Spec == Init /\ [][Next]_board
=============================================================================
