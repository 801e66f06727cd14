------------------------------ MODULE Comments ------------------------------
(***************************************************************************)
(* Comments and replies with moderation: CommentService (comments.rs), the *)
(* boot-time and restore-time resync of the in-memory index (system.rs),   *)
(* and the index operations both use (indexing.rs, rblog-index).           *)
(*                                                                         *)
(* Every write is a sequence of separate steps with no transaction and no  *)
(* lock around them: one SQL statement that changes the `comments' table,  *)
(* a SELECT of the row, and the upsert of what was SELECTed into the index *)
(* the public site reads.  A handler is a future that may be dropped at an *)
(* await (the client went away) or may fail at its second statement; the   *)
(* process may be restarted at any time.                                   *)
(*                                                                         *)
(* Abstracted: the text, times, owner, agent and subject of a comment. A   *)
(* submission the spam heuristic blocks, or whose body is invalid, changes *)
(* nothing and is no step of the model.                                    *)
(***************************************************************************)
EXTENDS FiniteSets

CONSTANTS
    Ids,        \* the UUIDs the service may mint for comments and replies
    Requests,   \* handlers that may be in flight together
    None        \* "no row", "no entry", "no parent"

Kinds == {"Comment", "Reply"}
Labels == {"true", "false", "unset"}       \* rblog.dev/approved

Row == [parent : Ids \cup {None}, approved : BOOLEAN, hidden : BOOLEAN]
Entry == [row : Row, label : Labels]
Stages == {"idle", "insert", "read", "put", "drop", "restore"}
\* A handler on a comment has its id; one with a row in hand is about to write it.
Request ==
    {q \in [at : Stages, kind : Kinds, id : Ids \cup {None}, row : Row \cup {None}] :
        /\ q.id = None <=> q.at \in {"idle", "restore"}
        /\ q.row = None <=> q.at \notin {"insert", "put"}}

ASSUME NoneAssumption == None \notin Ids /\ None \notin Row /\ None \notin Entry

VARIABLES
    comments,   \* the `comments' table
    index,      \* the index, Comment and Reply keyspaces together
    used,       \* UUIDs minted so far
    known,      \* UUIDs a response or a list has shown, which clients can name
    req,        \* the handlers in flight
    restoring,  \* rows a running resync has fetched and not yet upserted
    cleared,    \* history: ids that passed moderation, or needed none
    raced       \* history: ids handled by two requests at once, or by one
                \* that was dropped half way, since the last restart

vars == <<comments, index, used, known, req, restoring, cleared, raced>>

-----------------------------------------------------------------------------
(* Rows, entries and what the site shows of them.                          *)

KindOf(row) == IF row.parent = None THEN "Comment" ELSE "Reply"

\* The row a statement `WHERE name = ? AND parent_name IS (NOT) NULL' finds.
Has(kind, id) == comments[id] # None /\ KindOf(comments[id]) = kind

ApprovedLabel(row) == IF row.approved THEN "true" ELSE "false"

\* Mutant: every entry is labelled approved.
FromRow_AlwaysLabelled(row) == [row |-> row, label |-> "true"]

\* comment_from_row and reply_from_row.
FromRow(row) == [row |-> row, label |-> ApprovedLabel(row)]

\* Mutant: resync forgets the labels of comments too.
ResyncEntry_NoLabels(row) == [row |-> row, label |-> "unset"]

\* What resync_all builds: only top-level comments get their labels.
ResyncEntry(row) ==
    [row |-> row, label |-> IF KindOf(row) = "Comment" THEN ApprovedLabel(row) ELSE "unset"]

\* Mutant: the heuristic's request for moderation is ignored.
AutoApproved_Flagged(isUser, flagged) == isUser

\* Registered users are auto-approved unless the heuristic asks for moderation.
AutoApproved(isUser, flagged) == isUser /\ ~flagged

\* Mutant: a submission starts hidden.
NewRow_Hidden(parent, isUser, flagged) ==
    [parent |-> parent, approved |-> AutoApproved(isUser, flagged), hidden |-> TRUE]

NewRow(parent, isUser, flagged) ==
    [parent |-> parent, approved |-> AutoApproved(isUser, flagged), hidden |-> FALSE]

Indexed(kind) == {id \in Ids : index[id] # None /\ KindOf(index[id].row) = kind}

\* public_thread: approved by label, then the hidden ones filtered out.
PublicThread ==
    {id \in Indexed("Comment") : index[id].label = "true" /\ ~index[id].row.hidden}

\* replies(c): approved by label, by spec.commentName, hidden filtered out.
Replies(c) ==
    {id \in Indexed("Reply") :
        /\ index[id].label = "true"
        /\ index[id].row.parent = c
        /\ ~index[id].row.hidden}

\* Everything a visitor sees: the thread, and the replies under each of it.
Public == PublicThread \cup UNION {Replies(c) : c \in PublicThread}

\* moderation_queue and reply_moderation_queue, which read the spec, not the label.
ModerationQueue ==
    {id \in Ids : index[id] # None /\ ~index[id].row.approved /\ ~index[id].row.hidden}

-----------------------------------------------------------------------------
(* Requests in flight.                                                     *)

Idle == [at |-> "idle", kind |-> "Comment", id |-> None, row |-> None]

Busy(id) == \E r \in Requests : req[r].id = id

\* A request starts on id: with another one, or a resync, at work on the same
\* id the outcome depends on their order.
Touch(id) == IF Busy(id) \/ restoring[id] # None THEN raced \cup {id} ELSE raced

Stage(r, at, kind, id, row) ==
    req' = [req EXCEPT ![r] = [at |-> at, kind |-> kind, id |-> id, row |-> row]]

\* Mutant: a finished handler's id is not forgotten.
Finish_Stale(r) == req' = [req EXCEPT ![r].at = "idle"]

Finish(r) == req' = [req EXCEPT ![r] = Idle]

Init ==
    /\ comments = [id \in Ids |-> None]
    /\ index = [id \in Ids |-> None]
    /\ used = {}
    /\ known = {}
    /\ req = [r \in Requests |-> Idle]
    /\ restoring = [id \in Ids |-> None]
    /\ cleared = {}
    /\ raced = {}

\* submit, to the end of its INSERT.
SubmitInsert(r) ==
    \E id \in Ids \ used, isUser, flagged \in BOOLEAN :
        /\ req[r].at = "idle"
        /\ used' = used \cup {id}
        /\ comments' = [comments EXCEPT ![id] = NewRow(None, isUser, flagged)]
        /\ Stage(r, "read", "Comment", id, None)
        /\ cleared' = IF isUser /\ ~flagged THEN cleared \cup {id} ELSE cleared
        /\ raced' = Touch(id)
        /\ UNCHANGED <<index, known, restoring>>

\* reply, to the end of the SELECT of its parent; NotFound changes nothing.
ReplyFindParent(r) ==
    \E c \in known, id \in Ids \ used, isUser, flagged \in BOOLEAN :
        /\ req[r].at = "idle"
        /\ Has("Comment", c)
        /\ used' = used \cup {id}
        /\ Stage(r, "insert", "Reply", id, NewRow(c, isUser, flagged))
        /\ cleared' = IF isUser /\ ~flagged THEN cleared \cup {id} ELSE cleared
        /\ raced' = Touch(id)
        /\ UNCHANGED <<comments, index, known, restoring>>

\* The INSERT of reply: parent_name has no foreign key, so the parent found
\* above may be gone by now.
ReplyInsert(r) ==
    /\ req[r].at = "insert"
    /\ comments' = [comments EXCEPT ![req[r].id] = req[r].row]
    /\ Stage(r, "read", "Reply", req[r].id, None)
    /\ UNCHANGED <<index, used, known, restoring, cleared, raced>>

\* The UPDATE of a moderation request. That it matched no row is not looked
\* at; the SELECT that follows answers NotFound.
Moderate(r, kind, id, row) ==
    /\ req[r].at = "idle"
    /\ comments' = [comments EXCEPT ![id] = IF Has(kind, id) THEN row ELSE @]
    /\ Stage(r, "read", kind, id, None)
    /\ raced' = Touch(id)
    /\ UNCHANGED <<index, used, known, restoring>>

Approve(r) ==                                   \* approve, approve_reply
    \E kind \in Kinds, id \in known :
        /\ Moderate(r, kind, id, [comments[id] EXCEPT !.approved = TRUE])
        /\ cleared' = IF Has(kind, id) THEN cleared \cup {id} ELSE cleared

Hide(r) ==                                      \* hide, hide_reply
    \E kind \in Kinds, id \in known :
        /\ Moderate(r, kind, id, [comments[id] EXCEPT !.hidden = TRUE])
        /\ UNCHANGED cleared

Show(r) ==                                      \* show, show_reply
    \E kind \in Kinds, id \in known :
        /\ Moderate(r, kind, id, [comments[id] EXCEPT !.hidden = FALSE])
        /\ UNCHANGED cleared

\* Mutant: the row is looked up in the other kind, so it is never found.
ReadBack_OtherKind(r) ==
    LET id == req[r].id IN
    /\ req[r].at = "read"
    /\ IF comments[id] # None /\ KindOf(comments[id]) # req[r].kind
       THEN Stage(r, "put", req[r].kind, id, comments[id])
       ELSE Finish(r)
    /\ UNCHANGED <<comments, index, used, known, restoring, cleared, raced>>

\* comment_by_name and reply_by_name after the change.
ReadBack(r) ==
    LET id == req[r].id IN
    /\ req[r].at = "read"
    /\ IF Has(req[r].kind, id)
       THEN Stage(r, "put", req[r].kind, id, comments[id])
       ELSE Finish(r)                           \* NotFound
    /\ UNCHANGED <<comments, index, used, known, restoring, cleared, raced>>

\* upsert(&self.index, &saved).
Put(r) ==
    /\ req[r].at = "put"
    /\ index' = [index EXCEPT ![req[r].id] = FromRow(req[r].row)]
    /\ known' = known \cup {req[r].id}
    /\ Finish(r)
    /\ UNCHANGED <<comments, used, restoring, cleared, raced>>

\* delete and delete_reply: the DELETE; NotFound changes nothing. Replies of a
\* deleted comment stay.
DeleteRow(r) ==
    \E kind \in Kinds, id \in known :
        /\ req[r].at = "idle"
        /\ Has(kind, id)
        /\ comments' = [comments EXCEPT ![id] = None]
        /\ Stage(r, "drop", kind, id, None)
        /\ raced' = Touch(id)
        /\ UNCHANGED <<index, used, known, restoring, cleared>>

\* Mutant: a delete leaves the index alone.
Drop_Forgotten(r) ==
    /\ req[r].at = "drop"
    /\ Finish(r)
    /\ UNCHANGED <<comments, index, used, known, restoring, cleared, raced>>

\* remove::<E>(&self.index, name).
Drop(r) ==
    /\ req[r].at = "drop"
    /\ index' = [index EXCEPT ![req[r].id] = None]
    /\ Finish(r)
    /\ UNCHANGED <<comments, used, known, restoring, cleared, raced>>

\* restore_halo_dump re-runs resync_all on the live index: SELECT every row,
\* then upsert them one by one. Nothing is removed from the index. One restore
\* runs at a time.
RestoreFetch(r) ==
    /\ req[r].at = "idle"
    /\ \A id \in Ids : restoring[id] = None
    /\ \E id \in Ids : comments[id] # None
    /\ restoring' = comments
    /\ Stage(r, "restore", "Comment", None, None)
    /\ raced' = raced \cup {id \in Ids : comments[id] # None /\ Busy(id)}
    /\ UNCHANGED <<comments, index, used, known, cleared>>

RestorePut(r) ==
    \E id \in Ids :
        /\ req[r].at = "restore"
        /\ restoring[id] # None
        /\ index' = [index EXCEPT ![id] = ResyncEntry(restoring[id])]
        /\ known' = known \cup {id}
        /\ restoring' = [restoring EXCEPT ![id] = None]
        /\ IF \E other \in Ids \ {id} : restoring[other] # None
           THEN UNCHANGED req
           ELSE Finish(r)
        /\ UNCHANGED <<comments, used, cleared, raced>>

\* The handler's future is dropped at an await, or its statement fails: what it
\* has written to the table stays, what it has not written to the index is lost.
Abandon(r) ==
    /\ req[r].at \in {"insert", "read", "put", "drop"}
    /\ Finish(r)
    /\ raced' = raced \cup {req[r].id}
    /\ UNCHANGED <<comments, index, used, known, restoring, cleared>>

\* The process stops and boots again: build_services starts from an empty
\* index and resyncs it before the first request is served.
Restart ==
    /\ index' = [id \in Ids |->
                    IF comments[id] = None THEN None ELSE ResyncEntry(comments[id])]
    /\ known' = known \cup {id \in Ids : comments[id] # None}
    /\ req' = [r \in Requests |-> Idle]
    /\ restoring' = [id \in Ids |-> None]
    /\ raced' = {}
    /\ UNCHANGED <<comments, used, cleared>>

Begin(r) ==
    \/ SubmitInsert(r) \/ ReplyFindParent(r)
    \/ Approve(r) \/ Hide(r) \/ Show(r) \/ DeleteRow(r)
    \/ RestoreFetch(r)

Continue(r) ==
    \/ ReplyInsert(r) \/ ReadBack(r) \/ Put(r) \/ Drop(r) \/ RestorePut(r)

Next ==
    \/ \E r \in Requests : Begin(r) \/ Continue(r) \/ Abandon(r)
    \/ Restart

Spec == Init /\ [][Next]_vars

\* Every handler runs to its end: no client hangs up, no statement fails.
UndisturbedNext ==
    \/ \E r \in Requests : Begin(r) \/ Continue(r)
    \/ Restart

UndisturbedSpec == Init /\ [][UndisturbedNext]_vars

\* Tokio polls a woken future again, so a handler that can go on does.
FairSpec == UndisturbedSpec /\ \A r \in Requests : WF_vars(Continue(r))

-----------------------------------------------------------------------------
(* Properties.                                                             *)

TypeOK ==
    /\ comments \in [Ids -> Row \cup {None}]
    /\ index \in [Ids -> Entry \cup {None}]
    /\ used \subseteq Ids
    /\ known \subseteq Ids
    /\ req \in [Requests -> Request]
    /\ restoring \in [Ids -> Row \cup {None}]
    /\ cleared \subseteq Ids
    /\ raced \subseteq Ids

\* Whatever handlers overlap, are dropped or are cut short by a restart, a
\* visitor never sees a comment or a reply that needed moderation and that no
\* moderator has approved (submit, reply, approve, approve_reply).
OnlyModeratedIsPublic == Public \subseteq cleared

\* The index and the table agree on id.
Agree(id) ==
    IF comments[id] = None THEN index[id] = None
    ELSE index[id] # None /\ index[id].row = comments[id]

Quiet(id) == ~Busy(id) /\ restoring[id] = None

\* The index can only drift from the table where two handlers overlapped on the
\* same comment or one was dropped half way, and a restart repairs it: "it is the
\* caller's responsibility to keep it in sync" is met for all other comments.
DriftNeedsARace == \A id \in Ids \ raced : Quiet(id) => Agree(id)

\* A comment no handlers raced on is where the moderator or the visitor looks
\* for it: one that is not hidden is in the queue or in the thread, never in
\* both, and a hidden or deleted one is in neither.
EveryCommentIsListedOnce ==
    \A id \in Ids \ raced :
        Quiet(id) /\ (Has("Comment", id) \/ comments[id] = None) =>
            /\ id \in ModerationQueue \cup PublicThread
                   <=> comments[id] # None /\ ~comments[id].hidden
            /\ id \notin ModerationQueue \cap PublicThread

\* A published comment no handlers race on stays published, over every step of
\* every handler and over restarts, until it has been hidden or deleted in the
\* table (hide, delete, resync_all).
OnlyHideOrDeleteUnpublishes ==
    [][\A id \in PublicThread \ raced :
          id \notin PublicThread' => comments[id] = None \/ comments[id].hidden]_vars

\* With handlers that run to their end, a stored comment reaches the index, so
\* that some moderator can see it, or is deleted first.
StoredIsEventuallyIndexed ==
    \A id \in Ids : comments[id] # None ~> (index[id] # None \/ comments[id] = None)

-----------------------------------------------------------------------------
(* What the documentation promises and the code does not do.               *)

AllQuiet == \A r \in Requests : req[r] = Idle

\* "Approved, non-hidden replies for a comment" (comments.rs, replies): with no
\* handler in flight and none ever raced, each such reply is listed.
ApprovedRepliesAreListed ==
    \A id \in Ids \ raced :
        AllQuiet /\ Has("Reply", id) /\ comments[id].approved /\ ~comments[id].hidden
            => id \in Replies(comments[id].parent)
=============================================================================
