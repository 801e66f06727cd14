---------------------------- MODULE PostsSearch ----------------------------
(***************************************************************************)
(* Posts together with the full-text index (search_sync.rs, rblog-search). *)
(* A handler that changed a post hands what it read back to the index, or  *)
(* deletes the post from it; every such change takes the index's one write *)
(* lock, and a change that finds it held is only logged.  A rebuild, which *)
(* an administrator or a restore of a Halo dump starts, reads the posts    *)
(* named in the legacy `extensions' table one by one and replaces the      *)
(* whole index with them.  The index is on disk and survives a restart.    *)
(***************************************************************************)
EXTENDS Posts

VARIABLES
    answer,     \* what each handler read back and is about to index
    search,     \* the index: a document for each name, or none
    extensions, \* names of the Posts in the legacy table
    rebuild,    \* the rebuild that is running (one at a time), or None
    raced,      \* history: handlers that overlap another one on their post
    drifted,    \* history: posts that a change or a rebuild may have left wrong
    shown       \* history: the documents of every post while it was public

searchVars == <<answer, search, extensions, rebuild, raced, drifted, shown>>
allVars == <<posts, req, clobbered, partial, purged,
             answer, search, extensions, rebuild, raced, drifted, shown>>

Doc == [slug : Slugs, body : Bodies]
Docs == [Names -> Doc \cup {None}]
\* `fresh' is history: posts read while no handler was at work on them, and
\* that no handler has begun to work on since.
Rebuild == [todo : SUBSET Names, docs : Docs, fresh : SUBSET Names]

ASSUME NoneIsNoDocument == None \notin Doc /\ None \notin Rebuild

-----------------------------------------------------------------------------
\* detail_to_index.
DocOf(row) == [slug |-> row.slug, body |-> row.body]

\* What index_if_published leaves in the index of a post with this row.
Indexed(row) == IF row # None /\ IsPublic(row) THEN DocOf(row) ELSE None

EmptyIndex == [n \in Names |-> None]

Busy(n) == \E r \in Requests : req[r].name = n

\* Stages in which a handler has written to the table and not yet to the index.
Unsynced == {"terms", "settings", "save", "read", "answer", "drop"}

\* The writer is held for a moment by a handler or rebuild that changes the index.
WriterBusy(others) ==
    \/ \E q \in others : req[q].at \in {"answer", "drop"}
    \/ rebuild # None /\ rebuild.todo = {}

Show == shown' = [n \in Names |->
                    shown[n] \cup IF posts'[n] # None /\ IsPublic(posts'[n])
                                  THEN {DocOf(posts'[n])} ELSE {}]

SearchInit ==
    /\ Init
    /\ answer = [r \in Requests |-> None]
    /\ search = EmptyIndex
    /\ extensions = {}
    /\ rebuild = None
    /\ raced = {}
    /\ drifted = {}
    /\ shown = [n \in Names |-> {}]

\* A request begins on a post others may be at work on.
BeginOn(r) ==
    LET n == req'[r].name
        others == {q \in Requests \ {r} : req[q].name = n}
    IN
    /\ Begin(r)
    /\ raced' = IF others = {} THEN raced ELSE raced \cup others \cup {r}
    /\ rebuild' = IF rebuild = None THEN None
                  ELSE [rebuild EXCEPT !.fresh = @ \ {n}]
    /\ Show
    /\ UNCHANGED <<answer, search, extensions, drifted>>

Gone(r) == req'[r].at \in {"idle"} \cup Refusals

\* One that is refused after it has written leaves the index as it was.
ContinueOn(r) ==
    /\ Continue(r)
    /\ answer' = [answer EXCEPT ![r] =
                    IF req'[r].at = "answer" THEN posts[req[r].name] ELSE None]
    /\ raced' = IF req'[r].at = "idle" THEN raced \ {r} ELSE raced
    /\ drifted' = IF Gone(r) /\ req[r].at \in Unsynced
                  THEN drifted \cup {req[r].name} ELSE drifted
    /\ Show
    /\ UNCHANGED <<search, extensions, rebuild>>

\* Mutant: the row that was read back is not let go.
Sync_KeepsAnswer(r) ==
    LET n == req[r].name IN
    /\ Return(r)
    /\ search' = [search EXCEPT ![n] = Indexed(answer[r])]
    /\ drifted' = IF r \in raced THEN drifted \cup {n} ELSE drifted \ {n}
    /\ raced' = raced \ {r}
    /\ Show
    /\ UNCHANGED <<answer, extensions, rebuild>>

\* Mutant: a deleted post stays in the index.
Sync_NoDelete(r) ==
    LET n == req[r].name IN
    /\ Return(r)
    /\ search' = IF req[r].at = "drop" THEN search
                 ELSE [search EXCEPT ![n] = Indexed(answer[r])]
    /\ answer' = [answer EXCEPT ![r] = None]
    /\ drifted' = IF r \in raced THEN drifted \cup {n} ELSE drifted \ {n}
    /\ raced' = raced \ {r}
    /\ Show
    /\ UNCHANGED <<extensions, rebuild>>

\* index_if_published, or delete, with the writer to itself.
Sync(r) ==
    LET n == req[r].name IN
    /\ Return(r)
    /\ search' = [search EXCEPT ![n] = Indexed(answer[r])]
    /\ answer' = [answer EXCEPT ![r] = None]
    /\ drifted' = IF r \in raced THEN drifted \cup {n} ELSE drifted \ {n}
    /\ raced' = raced \ {r}
    /\ Show
    /\ UNCHANGED <<extensions, rebuild>>

\* The same, with the writer held by another: a warning, and the answer is sent.
SyncLost(r) ==
    /\ Return(r)
    /\ WriterBusy(Requests \ {r})
    /\ answer' = [answer EXCEPT ![r] = None]
    /\ drifted' = drifted \cup {req[r].name}
    /\ raced' = raced \ {r}
    /\ Show
    /\ UNCHANGED <<search, extensions, rebuild>>

AbandonOn(r) ==
    /\ Abandon(r)
    /\ drifted' = IF req[r].at \in Unsynced THEN drifted \cup {req[r].name} ELSE drifted
    /\ raced' = raced \ {r}
    /\ Show
    /\ UNCHANGED <<answer, search, extensions, rebuild>>

\* rebuild_search_index and restore_halo_dump; the latter has just replaced
\* every row of `extensions' by those of the dump. Both list the Posts there.
RebuildBegin ==
    \E dump \in {extensions} \cup SUBSET Names :
        /\ rebuild = None
        /\ extensions' = dump
        /\ rebuild' = [todo |-> dump, docs |-> EmptyIndex, fresh |-> {}]
        /\ UNCHANGED <<vars, answer, search, raced, drifted, shown>>

\* Mutant: the rebuild takes every post it can read, public or not.
RebuildRead_Any ==
    \E n \in Names :
        /\ rebuild # None
        /\ n \in rebuild.todo
        /\ rebuild' = [rebuild EXCEPT
                         !.todo = @ \ {n},
                         !.docs[n] = IF Exists(n) THEN DocOf(posts[n]) ELSE None,
                         !.fresh = IF Busy(n) THEN @ ELSE @ \cup {n}]
        /\ UNCHANGED <<vars, answer, search, extensions, raced, drifted, shown>>

\* public_detail of one of them, if its statements succeed.
RebuildRead ==
    \E n \in Names :
        /\ rebuild # None
        /\ n \in rebuild.todo
        /\ rebuild' = [rebuild EXCEPT
                         !.todo = @ \ {n},
                         !.docs[n] = Indexed(posts[n]),
                         !.fresh = IF Busy(n) THEN @ ELSE @ \cup {n}]
        /\ UNCHANGED <<vars, answer, search, extensions, raced, drifted, shown>>

\* A statement of public_detail fails: the post is passed over, and the rebuild
\* goes on without it.
RebuildSkip ==
    \E n \in Names :
        /\ rebuild # None
        /\ n \in rebuild.todo
        /\ rebuild' = [rebuild EXCEPT !.todo = @ \ {n}]
        /\ UNCHANGED <<vars, answer, search, extensions, raced, drifted, shown>>

\* SearchIndex::rebuild.
RebuildCommit ==
    /\ rebuild # None
    /\ rebuild.todo = {}
    /\ search' = rebuild.docs
    /\ rebuild' = None
    /\ drifted' = Names \ rebuild.fresh
    /\ UNCHANGED <<vars, answer, extensions, raced, shown>>

\* The rebuild finds the writer held, or is dropped at an await.
RebuildAbandon ==
    /\ rebuild # None
    /\ rebuild.todo # {} \/ WriterBusy(Requests)
    /\ rebuild' = None
    /\ UNCHANGED <<vars, answer, search, extensions, raced, drifted, shown>>

\* The process boots again; it rebuilds an index that is empty, from those posts of
\* the same table that it can read, before it serves the first request.
RestartOn ==
    /\ Restart
    /\ answer' = [r \in Requests |-> None]
    /\ rebuild' = None
    /\ raced' = {}
    /\ IF search = EmptyIndex
       THEN \E read \in SUBSET extensions :
            /\ search' = [n \in Names |->
                            IF n \in read THEN Indexed(posts[n]) ELSE None]
            /\ drifted' = Names \ read
       ELSE /\ UNCHANGED search
            /\ drifted' = drifted \cup {n \in Names : \E r \in Requests :
                                           req[r].name = n /\ req[r].at \in Unsynced}
    /\ UNCHANGED <<extensions, shown>>

Work(r) == BeginOn(r) \/ ContinueOn(r) \/ Sync(r) \/ SyncLost(r)

Rebuilding == RebuildBegin \/ RebuildRead \/ RebuildSkip \/ RebuildCommit

SearchNext ==
    \/ \E r \in Requests : Work(r) \/ AbandonOn(r)
    \/ Rebuilding \/ RebuildAbandon
    \/ RestartOn

SearchSpec == SearchInit /\ [][SearchNext]_allVars

\* Handlers alone, each to its end: no rebuild, no restart.
UndisturbedSearchSpec == SearchInit /\ [][\E r \in Requests : Work(r)]_allVars

-----------------------------------------------------------------------------
(* Properties.                                                             *)

SearchTypeOK ==
    /\ TypeOK
    /\ answer \in [Requests -> Row \cup {None}]
    /\ search \in Docs
    /\ extensions \subseteq Names
    /\ rebuild \in Rebuild \cup {None}
    /\ raced \subseteq Requests
    /\ drifted \subseteq Names
    /\ shown \in [Names -> SUBSET Doc]
    /\ \A r \in Requests : answer[r] # None <=> req[r].at = "answer"

\* Whatever overlaps, is lost or restarts, the index has no document but one that
\* visitors could read on the site at some time: no draft, no private post and
\* no edit of one that was never public (index_if_published, rebuild_from_store).
OnlyPublishedIsSearchable ==
    \A n \in Names : search[n] # None => search[n] \in shown[n]

\* The index says of a post what the site does, unless the last change of the post
\* overlapped another one, lost the writer or stopped half way, or a rebuild left the
\* post out (it is not in the legacy table, a statement failed) or met a change of
\* it; the next change of the post that meets none of those repairs it.
DriftNeedsACause ==
    \A n \in Names \ drifted : ~Busy(n) => search[n] = Indexed(posts[n])

-----------------------------------------------------------------------------
(* What the documentation promises and the code does not do.               *)

InSync == \A n \in Names : search[n] = Indexed(posts[n])

\* "Wipe and re-build the search index from current posts. Idempotent --- safe to
\* invoke at any time" (routes/admin/system.rs, rebuild_search_index): a rebuild of
\* an index that is in step with the posts leaves it so.
RebuildIsIdempotent ==
    [][RebuildCommit /\ InSync => search' = search]_allVars
=============================================================================
