------------------------------- MODULE Posts -------------------------------
(***************************************************************************)
(* Posts: PostService (clean_posts.rs) behind its admin handlers           *)
(* (routes/admin/posts.rs).  Each handler reads the post to check that the *)
(* caller owns it and then runs one or more SQL statements, each atomic by *)
(* itself, with nothing held between them.  update_settings writes back    *)
(* every setting as it read it, those nobody asked to change included.     *)
(*                                                                         *)
(* Abstracted: title, cover, template, priority, pinned and allow_comment, *)
(* which behave as the settings kept here; visits, whose UPDATE is atomic; *)
(* the tags and categories, reduced to whether they have been stored.  A   *)
(* missing excerpt is read as the one generated from the content, so it is *)
(* one with it.  A post somebody else owns answers as one that is not there*)
(* and is no step of the model.                                            *)
(***************************************************************************)
EXTENDS FiniteSets

CONSTANTS
    Names,          \* metadata.name, chosen by the client that creates a post
    Slugs,
    Bodies,         \* versions of the markdown
    Visibilities,   \* the visibilities clients use
    Users,
    Requests,       \* handlers that may be in flight together
    UserOf,         \* the user whose session each of them runs under
    Sent,           \* the operations on a post that clients send
    Own,            \* an excerpt the author wrote
    None

Row == [slug : Slugs, body : Bodies, excerpt : Bodies \cup {Own},
        visible : Visibilities, published : BOOLEAN, deleted : BOOLEAN,
        stamped : BOOLEAN,      \* publish_time is set
        terms : BOOLEAN,        \* its rows in post_tags and post_categories are
        owner : Users]

\* The columns update_settings writes.
Setting == [slug : Slugs, visible : Visibilities, excerpt : Bodies \cup {Own},
            stamped : BOOLEAN]

Puts == {"edit", "touch"}   \* PUT with new markdown, PUT with the same
Ops == Puts \cup {"pin", "publish", "unpublish", "soft_delete", "restore", "purge"}
Refusals == {"conflict", "internal"}            \* 409 and 500
Stages == {"idle", "insert", "terms", "write", "settings", "save", "read",
           "answer", "drop"} \cup Refusals
\* `hand' is what the handler is about to write: the row of a draft, the markdown
\* of a PUT, or the settings. `stale' is history: the post was written since the
\* handler read those settings.
Request ==
    {q \in [at : Stages, op : Ops \cup {None}, name : Names \cup {None},
            hand : Row \cup Setting \cup Bodies \cup {None}, stale : BOOLEAN] :
        /\ q.name = None <=> q.at = "idle"
        /\ q.op = None <=> q.at \notin {"write", "settings"}
        /\ q.at = "insert" => q.hand \in Row
        /\ q.at = "save" => q.hand \in Setting
        /\ q.at = "write" /\ q.op \in Puts => q.hand \in Bodies
        /\ q.at \notin {"insert", "save", "write"} => q.hand = None}

ASSUME PostsAssumption ==
    /\ "PUBLIC" \in Visibilities
    /\ UserOf \in [Requests -> Users]
    /\ Sent \subseteq Ops
    /\ Own \notin Bodies
    /\ None \notin Names \cup Row \cup Setting \cup Ops

VARIABLES
    posts,      \* the `posts' table, by name
    req,        \* the handlers in flight
    clobbered,  \* history: posts whose settings a stale save overwrote
    partial,    \* history: posts whose creation stopped before their terms
    purged      \* history: names that have been purged

vars == <<posts, req, clobbered, partial, purged>>

-----------------------------------------------------------------------------
Exists(n) == posts[n] # None

\* SELECT name FROM posts WHERE slug = ?, other than n.
SlugTaken(slug, n) == \E m \in Names \ {n} : Exists(m) /\ posts[m].slug = slug

\* A handler on a post, having just reached a stage.
Holding(name, at, op, hand) ==
    [at |-> at, op |-> op, name |-> name, hand |-> hand, stale |-> FALSE]

Idle == Holding(None, "idle", None, None)

\* public_detail's test, and index_if_published's.
IsPublic(row) == row.published /\ ~row.deleted /\ row.visible = "PUBLIC"

NewRows(user) ==
    {row \in [slug : Slugs, body : Bodies, excerpt : Bodies \cup {Own},
              visible : Visibilities, published : {FALSE}, deleted : {FALSE},
              stamped : {FALSE}, terms : {FALSE}, owner : {user}] :
        row.excerpt \in {Own, row.body}}

Goto(r, next) == req' = [req EXCEPT ![r] = next]

\* r goes on to `next' having written columns that update_settings writes too:
\* a save of the same post that is under way no longer knows what it overwrites.
GotoWritten(r, next) ==
    req' = [q \in Requests |->
              IF q = r THEN next
              ELSE IF req[q].at = "save" /\ req[q].name = req[r].name
                   THEN [req[q] EXCEPT !.stale = TRUE]
                   ELSE req[q]]

\* Mutant: what a handler held is not let go.
At_Keeps(r, stage) == [req[r] EXCEPT !.at = stage, !.op = None]

\* The next stage of r, with nothing in hand.
At(r, stage) == Holding(req[r].name, stage, None, None)

Init ==
    /\ posts = [n \in Names |-> None]
    /\ req = [r \in Requests |-> Idle]
    /\ clobbered = {}
    /\ partial = {}
    /\ purged = {}

\* create: draft up to its SELECT of the slug.
Create(r) ==
    \E n \in Names, row \in NewRows(UserOf[r]) :
        /\ req[r].at = "idle"
        /\ Goto(r, IF \E m \in Names : Exists(m) /\ posts[m].slug = row.slug
                   THEN Holding(n, "conflict", None, None)
                   ELSE Holding(n, "insert", None, row))
        /\ UNCHANGED <<posts, clobbered, partial, purged>>

\* Mutant: any user may open the post.
Open_AnyUser(r) ==
    \E n \in Names, op \in Sent, b \in Bodies :
        /\ req[r].at = "idle"
        /\ Exists(n)
        /\ op = "edit" <=> b # posts[n].body
        /\ Goto(r, Holding(n, IF op = "pin" THEN "settings" ELSE "write", op,
                           IF op \in Puts THEN b ELSE None))
        /\ UNCHANGED <<posts, clobbered, partial, purged>>

\* Every other handler: admin_detail and ensure_can_access, before its first
\* statement. PUT also compares the markdown it was sent with the one it reads.
Open(r) ==
    \E n \in Names, op \in Sent, b \in Bodies :
        /\ req[r].at = "idle"
        /\ Exists(n)
        /\ posts[n].owner = UserOf[r]
        /\ op = "edit" <=> b # posts[n].body
        /\ Goto(r, Holding(n, IF op = "pin" THEN "settings" ELSE "write", op,
                           IF op \in Puts THEN b ELSE None))
        /\ UNCHANGED <<posts, clobbered, partial, purged>>

\* Mutant: the terms of a draft are not stored.
Insert_NoTerms(r) ==
    LET n == req[r].name IN
    /\ req[r].at = "insert"
    /\ IF Exists(n) \/ SlugTaken(req[r].hand.slug, n)
       THEN Goto(r, At(r, "internal")) /\ UNCHANGED posts
       ELSE /\ posts' = [posts EXCEPT ![n] = req[r].hand]
            /\ GotoWritten(r, At(r, "read"))
    /\ UNCHANGED <<clobbered, partial, purged>>

\* draft: the INSERT; name and slug are unique, and a violation is a 500.
Insert(r) ==
    LET n == req[r].name IN
    /\ req[r].at = "insert"
    /\ IF Exists(n) \/ SlugTaken(req[r].hand.slug, n)
       THEN Goto(r, At(r, "internal")) /\ UNCHANGED posts
       ELSE /\ posts' = [posts EXCEPT ![n] = req[r].hand]
            /\ GotoWritten(r, At(r, "terms"))
    /\ UNCHANGED <<clobbered, partial, purged>>

\* draft: replace_terms, twice. The terms refer to the post, so they cannot be
\* stored once it has been purged.
Terms(r) ==
    LET n == req[r].name IN
    /\ req[r].at = "terms"
    /\ IF Exists(n)
       THEN /\ posts' = [posts EXCEPT ![n].terms = TRUE]
            /\ Goto(r, At(r, "read"))
       ELSE Goto(r, At(r, "internal")) /\ UNCHANGED posts
    /\ UNCHANGED <<clobbered, partial, purged>>

\* Mutant: the excerpt is left as it was.
WriteContent_KeepsExcerpt(r) ==
    LET n == req[r].name IN
    /\ req[r].at = "write"
    /\ req[r].op \in Puts
    /\ IF Exists(n)
       THEN /\ posts' = [posts EXCEPT ![n].body = req[r].hand]
            /\ GotoWritten(r, Holding(n, "settings", req[r].op, None))
       ELSE Goto(r, Idle) /\ UNCHANGED posts
    /\ UNCHANGED <<clobbered, partial, purged>>

\* update_content: NotFound when its UPDATE matched no row.
WriteContent(r) ==
    LET n == req[r].name IN
    /\ req[r].at = "write"
    /\ req[r].op \in Puts
    /\ IF Exists(n)
       THEN /\ posts' = [posts EXCEPT ![n].body = req[r].hand,
                                      ![n].excerpt = req[r].hand]
            /\ GotoWritten(r, Holding(n, "settings", req[r].op, None))
       ELSE Goto(r, Idle) /\ UNCHANGED posts
    /\ UNCHANGED <<clobbered, partial, purged>>

\* Mutant: the time of publication is written only if it was sent.
SettingsOf_ClearsTime(op, row) ==
    {new \in Setting :
        /\ new.excerpt \in {row.excerpt, Own, row.body}
        /\ op = "pin" => new = [slug |-> row.slug, visible |-> row.visible,
                                excerpt |-> row.excerpt, stamped |-> FALSE]
        /\ op = "edit" => new.excerpt = row.excerpt}

\* What update_settings may make of the row it read. A PUT that changes the
\* markdown ignores the excerpt it was sent; pin changes nothing kept here.
SettingsOf(op, row) ==
    {new \in Setting :
        /\ new.excerpt \in {row.excerpt, Own, row.body}
        /\ row.stamped => new.stamped
        /\ op = "pin" => new = [slug |-> row.slug, visible |-> row.visible,
                                excerpt |-> row.excerpt, stamped |-> row.stamped]
        /\ op = "edit" => new.excerpt = row.excerpt}

\* update_settings up to its UPDATE: admin_detail, then the slug is looked for.
Settings(r) ==
    LET n == req[r].name IN
    /\ req[r].at = "settings"
    /\ IF Exists(n)
       THEN \E new \in SettingsOf(req[r].op, posts[n]) :
              Goto(r, IF new.slug # posts[n].slug /\ SlugTaken(new.slug, n)
                      THEN At(r, "conflict")
                      ELSE Holding(n, "save", None, new))
       ELSE Goto(r, Idle)
    /\ UNCHANGED <<posts, clobbered, partial, purged>>

\* Mutant: the slug is not looked for again.
Save_Unchecked(r) ==
    LET n == req[r].name
        new == req[r].hand
    IN
    /\ req[r].at = "save"
    /\ posts' = IF Exists(n)
                THEN [posts EXCEPT ![n].slug = new.slug,
                                   ![n].visible = new.visible,
                                   ![n].excerpt = new.excerpt,
                                   ![n].stamped = new.stamped]
                ELSE posts
    /\ clobbered' = IF Exists(n) /\ req[r].stale THEN clobbered \cup {n} ELSE clobbered
    /\ GotoWritten(r, At(r, "read"))
    /\ UNCHANGED <<partial, purged>>

\* The UPDATE of update_settings; the unique index on slug has the last word.
Save(r) ==
    LET n == req[r].name
        new == req[r].hand
    IN
    /\ req[r].at = "save"
    /\ IF Exists(n) /\ SlugTaken(new.slug, n)
       THEN Goto(r, At(r, "internal")) /\ UNCHANGED <<posts, clobbered>>
       ELSE /\ posts' = IF Exists(n)
                        THEN [posts EXCEPT ![n].slug = new.slug,
                                           ![n].visible = new.visible,
                                           ![n].excerpt = new.excerpt,
                                           ![n].stamped = new.stamped]
                        ELSE posts
            /\ clobbered' = IF Exists(n) /\ req[r].stale THEN clobbered \cup {n}
                            ELSE clobbered
            /\ GotoWritten(r, At(r, "read"))
    /\ UNCHANGED <<partial, purged>>

\* publish: publish_time only if there is none; visible only if asked for. That
\* the post is in the bin is not looked at.
Publish(r) ==
    LET n == req[r].name IN
    \E v \in Visibilities \cup {None} :
        /\ req[r].at = "write"
        /\ req[r].op = "publish"
        /\ posts' = IF Exists(n)
                    THEN [posts EXCEPT ![n].published = TRUE,
                                       ![n].stamped = TRUE,
                                       ![n].visible = IF v = None THEN @ ELSE v]
                    ELSE posts
        /\ GotoWritten(r, At(r, "read"))
        /\ UNCHANGED <<clobbered, partial, purged>>

\* A handler whose one UPDATE sets flags that update_settings does not write.
SetFlags(r, op, next, row) ==
    LET n == req[r].name IN
    /\ req[r].at = "write"
    /\ req[r].op = op
    /\ posts' = [posts EXCEPT ![n] = IF Exists(n) THEN row ELSE @]
    /\ Goto(r, At(r, next))
    /\ UNCHANGED <<clobbered, partial, purged>>

Unpublish(r) ==
    SetFlags(r, "unpublish", "read", [posts[req[r].name] EXCEPT !.published = FALSE])

SoftDelete(r) ==
    SetFlags(r, "soft_delete", "drop",
             [posts[req[r].name] EXCEPT !.deleted = TRUE, !.published = FALSE])

Restore(r) ==
    SetFlags(r, "restore", "read", [posts[req[r].name] EXCEPT !.deleted = FALSE])

\* purge: the DELETE takes the terms with it.
Purge(r) ==
    LET n == req[r].name IN
    /\ req[r].at = "write"
    /\ req[r].op = "purge"
    /\ posts' = [posts EXCEPT ![n] = None]
    /\ purged' = purged \cup {n}
    /\ clobbered' = clobbered \ {n}
    /\ partial' = partial \ {n}
    /\ GotoWritten(r, At(r, "drop"))

\* admin_detail after the change: what the handler answers with.
ReadBack(r) ==
    /\ req[r].at = "read"
    /\ Goto(r, IF Exists(req[r].name) THEN At(r, "answer") ELSE Idle)
    /\ UNCHANGED <<posts, clobbered, partial, purged>>

\* The handler answers. (PostsSearch adds what it does to the search index, in
\* the same poll as the statement before.)
Return(r) ==
    /\ req[r].at \in {"answer", "drop"}
    /\ Goto(r, Idle)
    /\ UNCHANGED <<posts, clobbered, partial, purged>>

Refuse(r) ==
    /\ req[r].at \in Refusals
    /\ Goto(r, Idle)
    /\ UNCHANGED <<posts, clobbered, partial, purged>>

Unfinished(S) == {req[r].name : r \in {q \in S : req[q].at = "terms"}}

\* The handler's future is dropped at an await, or a statement of it fails.
Abandon(r) ==
    /\ req[r].at \in {"insert", "terms", "write", "settings", "save", "read"}
    /\ Goto(r, Idle)
    /\ partial' = partial \cup Unfinished({r})
    /\ UNCHANGED <<posts, clobbered, purged>>

Restart ==
    /\ req' = [r \in Requests |-> Idle]
    /\ partial' = partial \cup Unfinished(Requests)
    /\ UNCHANGED <<posts, clobbered, purged>>

Begin(r) == Create(r) \/ Open(r)

Continue(r) ==
    \/ Insert(r) \/ Terms(r)
    \/ WriteContent(r) \/ Settings(r) \/ Save(r)
    \/ Publish(r) \/ Unpublish(r) \/ SoftDelete(r) \/ Restore(r) \/ Purge(r)
    \/ ReadBack(r) \/ Refuse(r)

Next ==
    \/ \E r \in Requests : Begin(r) \/ Continue(r) \/ Return(r) \/ Abandon(r)
    \/ Restart

Spec == Init /\ [][Next]_vars

\* Every handler runs to its end: no client hangs up, nothing fails or restarts.
UndisturbedSpec ==
    Init /\ [][\E r \in Requests : Begin(r) \/ Continue(r) \/ Return(r)]_vars

-----------------------------------------------------------------------------
(* Properties.                                                             *)

TypeOK ==
    /\ posts \in [Names -> Row \cup {None}]
    /\ req \in [Requests -> Request]
    /\ clobbered \subseteq Names
    /\ partial \subseteq Names
    /\ purged \subseteq Names

\* A published post has a publish_time, which orders the site and its feed,
\* unless an update_settings wrote over a change it had not seen (publish,
\* update_settings).
PublishedIsStamped ==
    \A n \in Names \ clobbered : Exists(n) /\ posts[n].published => posts[n].stamped

\* The excerpt is the author's or is generated from the content the post now
\* has, with the same exception (update_content, update_settings).
ExcerptIsCurrent ==
    \A n \in Names \ clobbered : Exists(n) => posts[n].excerpt \in {Own, posts[n].body}

\* A post lacks its tags and categories only while the handler that creates it
\* is at work on them, or when that handler never got to them (draft).
OnlyAPartialDraftLacksTerms ==
    \A n \in Names \ partial :
        Exists(n) /\ ~posts[n].terms => \E r \in Requests : req[r].name = n /\ req[r].at = "terms"

\* A slug leads to one post. Every handler looks for the slug it is about to use,
\* but other handlers write between that and its own statement.
SlugsAreUnique ==
    \A m, n \in Names :
        Exists(m) /\ Exists(n) /\ posts[m].slug = posts[n].slug => m = n

\* Only its owner's handlers change a post, although they check that before
\* and not in the statements that write: the exception is a name that was purged
\* and given to another post (ensure_can_access).
OnlyTheOwnerWrites ==
    [][\A n \in Names \ purged :
          Exists(n) /\ posts'[n] # posts[n] =>
              \E r \in Requests : UserOf[r] = posts[n].owner /\ req[r].name = n
                                  /\ req'[r] # req[r]]_vars
=============================================================================
