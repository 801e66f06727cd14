------------------------------- MODULE Pages -------------------------------
(***************************************************************************)
(* Standalone pages (clean_pages.rs) behind the admin's and the visitors'  *)
(* handlers.  Pages come from an import; nothing creates or deletes them.  *)
(* A PUT stores the text in one statement, reads the row and then stores   *)
(* all settings, the ones it was not sent from the row it has read.        *)
(***************************************************************************)
EXTENDS Server, Naturals

CONSTANTS
    PageNames,
    PageSlugs,
    Texts,
    Changes,    \* bound: what PUTs send
    MaxVisits   \* bound: visits the runs count to

Visible == {"PUBLIC", "INTERNAL", "PRIVATE"}
Page == [slug : PageSlugs, text : Texts, visible : Visible, published : BOOLEAN,
         stamped : BOOLEAN, visits : Nat]   \* stamped: it has a publish_time
\* A PUT's text and settings, which stand for all of them; None was not sent. A time of
\* publication may be sent, but none can be taken away: null is read as not sent.
Change == [text : Texts, slug : PageSlugs \cup {None}, visible : Visible \cup {None},
           time : BOOLEAN]
InHand == [slug : PageSlugs, visible : Visible, stamped : BOOLEAN]

ASSUME PagesAssumption ==
    /\ None \notin PageSlugs \cup Visible
    /\ Changes \subseteq Change
    /\ MaxVisits \in Nat

VARIABLES
    pages,      \* the table
    editing,    \* the handlers
    beside,     \* history: PUTs that overlap another one on their page
    mixed,      \* history: pages whose last PUT overlapped, stopped or was refused
    edit,       \* history: text and settings as the last finished PUT meant them
    views,      \* history: how often each page was shown
    unsure      \* history: pages imported without a time, or published under a PUT

pagesVars == <<pages, editing, beside, mixed, edit, views, unsure>>

Free == [at |-> "idle"]
Text(n, c) == [at |-> "text", page |-> n, change |-> c]
Saved(n, c, s) == [at |-> "save", page |-> n, change |-> c, settings |-> s]
Seen(n, v) == [at |-> "seen", page |-> n, visits |-> v]
Editing ==
    {Free}
    \cup {[at |-> at, page |-> n, change |-> c] :
             at \in {"text", "read"}, n \in PageNames, c \in Changes}
    \cup {Saved(n, c, s) : n \in PageNames, c \in Changes, s \in InHand}
    \cup {Seen(n, v) : n \in PageNames, v \in 0..MaxVisits}

-----------------------------------------------------------------------------
Changing(e, n) == e.at \in {"text", "read", "save"} /\ e.page = n

PagesInit ==
    /\ pages \in {p \in [PageNames -> [slug : PageSlugs, text : Texts,
                                        visible : {"PUBLIC"}, published : BOOLEAN,
                                        stamped : BOOLEAN, visits : {0}]] :
                    \A m, n \in PageNames : p[m].slug = p[n].slug => m = n}
    /\ editing = [r \in Requests |-> Free]
    /\ beside = {}
    /\ mixed = {}
    /\ edit = [n \in PageNames |-> [text |-> pages[n].text, slug |-> pages[n].slug,
                                    visible |-> pages[n].visible]]
    /\ views = [n \in PageNames |-> 0]
    /\ unsure = {n \in PageNames : pages[n].published /\ ~pages[n].stamped}

\* PUT /api/admin/pages/{name}.
PutPage(r) ==
    \E n \in PageNames, c \in Changes :
        LET others == {q \in Requests \ {r} : Changing(editing[q], n)} IN
        /\ editing[r] = Free
        /\ editing' = [editing EXCEPT ![r] = Text(n, c)]
        /\ beside' = IF others = {} THEN beside ELSE beside \cup others \cup {r}
        /\ UNCHANGED <<pages, mixed, edit, views, unsure>>

\* update_content: the text, and a read of the row that only the answer needs.
UpdateContent(r) ==
    LET e == editing[r] IN
    /\ e.at = "text"
    /\ pages' = [pages EXCEPT ![e.page].text = e.change.text]
    /\ editing' = [editing EXCEPT ![r].at = "read"]
    /\ UNCHANGED <<beside, mixed, edit, views, unsure>>

Given(new, old) == IF new = None THEN old ELSE new

\* Mutant: settings that were not sent are stored as missing.
Merge_Missing(page, c) == [slug |-> c.slug, visible |-> c.visible, stamped |-> c.time]

\* Mutant: settings that were not sent get their defaults.
Merge_Defaults(page, c) ==
    [slug |-> Given(c.slug, page.slug),
     visible |-> Given(c.visible, "PUBLIC"),
     stamped |-> page.stamped \/ c.time]

\* Mutant: a time that was not sent is taken away.
Merge_Untimed(page, c) ==
    [slug |-> Given(c.slug, page.slug),
     visible |-> Given(c.visible, page.visible),
     stamped |-> c.time]

\* The settings in force after a change of those of a page.
Merge(page, c) ==
    [slug |-> Given(c.slug, page.slug),
     visible |-> Given(c.visible, page.visible),
     stamped |-> page.stamped \/ c.time]

\* update_settings, as far as the settings in hand.
ReadSettings(r) ==
    LET e == editing[r] IN
    /\ e.at = "read"
    /\ editing' = [editing EXCEPT ![r] =
                     Saved(e.page, e.change, Merge(pages[e.page], e.change))]
    /\ UNCHANGED <<pages, beside, mixed, edit, views, unsure>>

EndEdit(r) ==
    /\ editing' = [editing EXCEPT ![r] = Free]
    /\ beside' = beside \ {r}

SlugHeld(n, s) == \E m \in PageNames \ {n} : pages[m].slug = s

\* The UPDATE of all settings.
SaveSettings(r) ==
    LET e == editing[r]
        n == e.page
        s == e.settings
    IN
    /\ e.at = "save" /\ ~SlugHeld(n, s.slug)
    /\ pages' = [pages EXCEPT ![n] = [@ EXCEPT !.slug = s.slug, !.visible = s.visible,
                                              !.stamped = s.stamped]]
    /\ mixed' = IF r \in beside THEN mixed \cup {n}
                ELSE IF None \in {e.change.slug, e.change.visible} THEN mixed
                ELSE mixed \ {n}
    /\ edit' = [edit EXCEPT ![n] =
                  [text |-> e.change.text, slug |-> Given(e.change.slug, @.slug),
                   visible |-> Given(e.change.visible, @.visible)]]
    /\ EndEdit(r)
    /\ UNCHANGED <<views, unsure>>

\* The slug is UNIQUE: a PUT of one that is held fails after it has stored the text.
SaveRefused(r) ==
    LET e == editing[r] IN
    /\ e.at = "save" /\ SlugHeld(e.page, e.settings.slug)
    /\ mixed' = mixed \cup {e.page}
    /\ EndEdit(r)
    /\ UNCHANGED <<pages, edit, views, unsure>>

\* publish: the page keeps a time it has. Settings that are about to be saved may
\* have been read without one.
PublishPage ==
    \E n \in PageNames :
        /\ pages' = [pages EXCEPT ![n].published = TRUE, ![n].stamped = TRUE]
        /\ unsure' = IF \E q \in Requests :
                            editing[q].at = "save" /\ editing[q].page = n
                                /\ ~editing[q].settings.stamped
                     THEN unsure \cup {n} ELSE unsure \ {n}
        /\ UNCHANGED <<editing, beside, mixed, edit, views>>

UnpublishPage ==
    \E n \in PageNames :
        /\ pages' = [pages EXCEPT ![n].published = FALSE]
        /\ UNCHANGED <<editing, beside, mixed, edit, views, unsure>>

-----------------------------------------------------------------------------
\* by_slug, for a visitor or somebody who is logged in.
Reachable(n, s, login) ==
    /\ pages[n].slug = s /\ pages[n].published
    /\ login \/ pages[n].visible = "PUBLIC"

ViewPage(r) ==
    \E n \in PageNames, login \in BOOLEAN :
        /\ editing[r] = Free
        /\ Reachable(n, pages[n].slug, login)
        /\ pages[n].visits < MaxVisits
        /\ editing' = [editing EXCEPT ![r] = Seen(n, pages[n].visits)]
        /\ UNCHANGED <<pages, beside, mixed, edit, views, unsure>>

\* Mutant: one more than the page had when it was read.
NextVisit_Stale(e) == e.visits + 1

\* visits = visits + 1, in the UPDATE itself.
NextVisit(e) == pages[e.page].visits + 1

\* increment_visit, and the page is shown.
IncrementVisit(r) ==
    LET e == editing[r] IN
    /\ e.at = "seen" /\ pages[e.page].visits < MaxVisits
    /\ pages' = [pages EXCEPT ![e.page].visits = NextVisit(e)]
    /\ views' = [views EXCEPT ![e.page] = @ + 1]
    /\ editing' = [editing EXCEPT ![r] = Free]
    /\ UNCHANGED <<beside, mixed, edit, unsure>>

AbandonEdit(r) ==
    /\ editing[r] # Free
    /\ mixed' = IF editing[r].at \in {"read", "save"} THEN mixed \cup {editing[r].page}
                ELSE mixed
    /\ EndEdit(r)
    /\ UNCHANGED <<pages, edit, views, unsure>>

PagesWork(r) ==
    \/ PutPage(r) \/ UpdateContent(r) \/ ReadSettings(r) \/ SaveSettings(r)
    \/ SaveRefused(r) \/ ViewPage(r) \/ IncrementVisit(r)

PagesNext ==
    \/ \E r \in Requests : PagesWork(r) \/ AbandonEdit(r)
    \/ PublishPage \/ UnpublishPage

PagesSpec == PagesInit /\ [][PagesNext]_pagesVars

-----------------------------------------------------------------------------
(* Properties.                                                             *)

PagesTypeOK ==
    /\ pages \in [PageNames -> Page]
    /\ editing \in [Requests -> Editing]
    /\ beside \subseteq Requests
    /\ mixed \subseteq PageNames
    /\ edit \in [PageNames -> [text : Texts, slug : PageSlugs, visible : Visible]]
    /\ views \in [PageNames -> Nat]
    /\ unsure \subseteq PageNames

\* A page has the text of the last PUT that succeeded, and the slug and visibility
\* of the last that gave one (update_content, then update_settings), until PUTs
\* overlap on it, or one is dropped or refused for its slug half way: such a page
\* has the text of one and the settings of another, until a PUT sends all of them.
PageIsTheLastEdit ==
    \A n \in PageNames \ mixed :
        (\A r \in Requests : ~Changing(editing[r], n)) =>
            edit[n] = [text |-> pages[n].text, slug |-> pages[n].slug,
                       visible |-> pages[n].visible]

\* Visitors who read a page at the same time are all counted (increment_visit).
VisitsAreCounted == \A n \in PageNames : pages[n].visits = views[n]

\* A published page has the time of its publication (publish), whatever settings are
\* saved and however often it is withdrawn, unless it was imported without one or a
\* PUT that had read the page without one was still to be saved (update_settings).
PublishedPagesAreStamped ==
    \A n \in PageNames \ unsure : pages[n].published => pages[n].stamped
=============================================================================
