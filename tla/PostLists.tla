------------------------------ MODULE PostLists ------------------------------
(***************************************************************************)
(* What readers are shown of posts: the lists of the home page, of a tag or*)
(* category and of the feed, and the page of one post (clean_posts.rs,     *)
(* home.rs, taxonomy.rs, feed.rs, post.rs), over the table that the        *)
(* handlers of Posts write.  A list selects names in one statement, reads  *)
(* each post in others, and does not look again at what it selected by.    *)
(***************************************************************************)
EXTENDS Server, FiniteSets

CONSTANTS Names, Slugs, Bodies, Visibilities, Users, UserOf, Sent, Own  \* as in Posts

VARIABLES
    posts, req, clobbered, partial, purged,     \* of Posts
    reading,    \* the readers' handlers
    moved       \* history: posts that changed between the two reads of a list

P == INSTANCE Posts

listsVars == <<posts, req, clobbered, partial, purged, reading, moved>>

PagesOfLists == {"home", "terms", "feed"}
NotReading == [at |-> "idle"]
Reading(at, page, user, todo, shown) ==
    [at |-> at, page |-> page, user |-> user, todo |-> todo, shown |-> shown]

ListsInit ==
    /\ P!Init
    /\ reading = [r \in Requests |-> NotReading]
    /\ moved = [r \in Requests |-> {}]

-----------------------------------------------------------------------------
\* Mutant: every published post is selected, for visitors too.
Selected_Any(row, user) == row.published /\ ~row.deleted

\* The WHERE of `list' as public pages ask it, and of by_slug: whoever is not
\* logged in gets public posts only.
Selected(row, user) ==
    row.published /\ ~row.deleted /\ (user # None \/ row.visible = "PUBLIC")

\* filter_posts_for_user, and the test of `detail'.
MayRead(row, user) == row.visible # "PRIVATE" \/ row.owner = user

\* The home page and the archive keep others' private posts from a user; the
\* pages of tags and categories do not.
Answered(page, user, shown) ==
    IF page = "home" THEN {s \in shown : MayRead(s[2], user)} ELSE shown

\* list: the first statement. The feed does not ask who reads it.
SelectNames(r) ==
    \E page \in PagesOfLists, user \in Users \cup {None} :
        /\ reading[r] = NotReading
        /\ page = "feed" => user = None
        /\ reading' = [reading EXCEPT ![r] =
             Reading("read", page, user,
                     {n \in Names : P!Exists(n) /\ Selected(posts[n], user)}, {})]
        /\ UNCHANGED <<posts, req, clobbered, partial, purged, moved>>

\* admin_detail of the next name. One that has been purged fails the list.
ReadPost(r) ==
    \E n \in Names :
        LET l == reading[r] IN
        /\ l.at = "read" /\ n \in l.todo
        /\ reading' = [reading EXCEPT ![r] =
             IF P!Exists(n)
             THEN [l EXCEPT !.todo = @ \ {n}, !.shown = @ \cup {<<n, posts[n]>>}]
             ELSE NotReading]
        /\ moved' = IF P!Exists(n) THEN moved ELSE [moved EXCEPT ![r] = {}]
        /\ UNCHANGED <<posts, req, clobbered, partial, purged>>

ShowList(r) ==
    LET l == reading[r] IN
    /\ l.at = "read" /\ l.todo = {}
    /\ reading' = [reading EXCEPT ![r].at = "shown",
                                  ![r].shown = Answered(l.page, l.user, l.shown)]
    /\ UNCHANGED <<posts, req, clobbered, partial, purged, moved>>

\* by_slug: what is shown is the row that was selected.
ShowPost(r) ==
    \E n \in Names, user \in Users \cup {None} :
        /\ reading[r] = NotReading
        /\ P!Exists(n) /\ Selected(posts[n], user) /\ MayRead(posts[n], user)
        /\ reading' = [reading EXCEPT ![r] =
                         Reading("shown", "post", user, {}, {<<n, posts[n]>>})]
        /\ UNCHANGED <<posts, req, clobbered, partial, purged, moved>>

\* The answer has been sent, or the client has hung up before.
LeavePage(r) ==
    /\ reading[r] # NotReading
    /\ reading' = [reading EXCEPT ![r] = NotReading]
    /\ moved' = [moved EXCEPT ![r] = {}]
    /\ UNCHANGED <<posts, req, clobbered, partial, purged>>

\* A handler of Posts changes what readers have selected and not read yet.
PostsChange ==
    /\ \E r \in Requests : P!Begin(r) \/ P!Continue(r) \/ P!Return(r) \/ P!Abandon(r)
    /\ moved' = [r \in Requests |->
                   IF reading[r].at = "read"
                   THEN moved[r] \cup {n \in reading[r].todo : posts'[n] # posts[n]}
                   ELSE moved[r]]
    /\ UNCHANGED reading

ListsRestart ==
    /\ P!Restart
    /\ reading' = [r \in Requests |-> NotReading]
    /\ moved' = [r \in Requests |-> {}]

ListsWork(r) ==
    SelectNames(r) \/ ReadPost(r) \/ ShowList(r) \/ ShowPost(r) \/ LeavePage(r)

ListsNext == (\E r \in Requests : ListsWork(r)) \/ PostsChange \/ ListsRestart

ListsSpec == ListsInit /\ [][ListsNext]_listsVars

-----------------------------------------------------------------------------
(* Properties.                                                             *)

ListsTypeOK ==
    \A r \in Requests :
        /\ reading[r] # NotReading =>
              /\ reading[r].todo \subseteq Names
              /\ reading[r].shown \subseteq Names \X P!Row
        /\ moved[r] \subseteq Names

\* What is shown was selected for its reader: a visitor sees public posts, and
\* nobody sees drafts or the bin, unless the post was changed between the two
\* reads of a list (`list' reads each post again without asking). Others' private
\* posts are not on the home page or a page of their own even then.
ShownToItsReaders ==
    \A r \in Requests :
        LET l == reading[r] IN
        l.at = "shown" =>
            \A s \in l.shown :
                /\ s[1] \in moved[r] \/
                     /\ s[2].published /\ ~s[2].deleted
                     /\ l.user = None => s[2].visible = "PUBLIC"
                /\ l.page \in {"home", "post"} => MayRead(s[2], l.user)
=============================================================================
