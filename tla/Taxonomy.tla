------------------------------ MODULE Taxonomy ------------------------------
(***************************************************************************)
(* Tags and categories (clean_taxonomy.rs) and the terms of posts          *)
(* (replace_terms in clean_posts.rs).  Administrators create, change and   *)
(* delete terms: a statement on the table, for the first two a read of the *)
(* row, and then the in-memory index, which leads from the slug in a URL   *)
(* to the term.  Saving a post creates the terms it names and does not     *)
(* touch the index.  Of a row only the slug matters here.                  *)
(***************************************************************************)
EXTENDS Server, Naturals, Sequences, SequencesExt

CONSTANTS
    Tag, Category,  \* the two kinds of term
    TermNames,
    TermSlugs,
    SlugOf,         \* the slug of a term that a post creates: its name
    Tagged,         \* posts
    Saves           \* bound: the sequences of terms that posts are saved with

Kinds == {Tag, Category}

ASSUME TaxonomyAssumption ==
    /\ Tag # Category
    /\ None \notin TermSlugs
    /\ SlugOf \in Injection(TermNames, TermSlugs)
    /\ Saves \subseteq Seq(TermNames)

VARIABLES
    table,      \* tags and categories: the slug of each, or none
    entries,    \* the index, likewise
    joined,     \* post_tags and post_categories
    work,       \* the handlers
    met,        \* history: handlers that overlap another one on term or post
    astray,     \* history: terms whose last change may have missed the index
    torn,       \* history: posts whose last save may be incomplete
    saved       \* history: the terms of the last finished save that still exist

taxonomyVars == <<table, entries, joined, work, met, astray, torn, saved>>

NoWork == [at |-> "idle"]
OnTerm(at, k, n, s) == [at |-> at, kind |-> k, term |-> n, slug |-> s]
OnPost(at, k, p, all, todo) ==
    [at |-> at, kind |-> k, post |-> p, all |-> all, todo |-> todo]
TermStages == {"insert", "update", "read", "index", "remove"}
PostStages == {"clear", "term", "join"}
Todos == UNION {Suffixes(s) : s \in Saves}
Work ==
    {NoWork}
    \cup {OnTerm(at, k, n, s) : at \in TermStages, k \in Kinds, n \in TermNames,
                                s \in TermSlugs \cup {None}}
    \cup {OnPost("clear", k, p, all, all) : k \in Kinds, p \in Tagged, all \in Saves}
    \cup {OnPost(at, k, p, all, todo) :
            at \in {"term", "join"}, k \in Kinds, p \in Tagged, all \in Saves,
            todo \in Todos \ {<<>>}}

-----------------------------------------------------------------------------
WorksOn(w, k, n) == w.at \in TermStages /\ w.kind = k /\ w.term = n
Saving(w, k, p) == w.at \in PostStages /\ w.kind = k /\ w.post = p

\* The UNIQUE constraint on slug.
SlugTaken(k, n, s) == \E m \in TermNames \ {n} : table[k][m] = s

TaxonomyInit ==
    /\ table = [k \in Kinds |-> [n \in TermNames |-> None]]
    /\ entries = table
    /\ joined = [k \in Kinds |-> [p \in Tagged |-> {}]]
    /\ work = [r \in Requests |-> NoWork]
    /\ met = {}
    /\ astray = {}
    /\ torn = {}
    /\ saved = joined

\* A handler starts next to others that can disturb it, or it them.
Start(r, w, others) ==
    /\ work[r] = NoWork
    /\ work' = [work EXCEPT ![r] = w]
    /\ met' = IF others = {} THEN met ELSE met \cup others \cup {r}

OthersOn(r, k, n) == {q \in Requests \ {r} : WorksOn(work[q], k, n)}
SavesWith(k, n) ==
    {q \in Requests : work[q].at \in PostStages /\ work[q].kind = k
                       /\ n \in Range(work[q].all)}

\* It ends, by an answer, a refusal or a drop; `missed' when it may have left the
\* table changed and the index not.
Finish(r, missed) ==
    LET w == work[r]
        t == <<w.kind, w.term>>
    IN
    /\ work' = [work EXCEPT ![r] = NoWork]
    /\ met' = met \ {r}
    /\ astray' = IF missed THEN astray \cup {t} ELSE astray

Put(k, n, s) == table' = [table EXCEPT ![k][n] = s]
GoOn(r, w) == work' = [work EXCEPT ![r] = w] /\ UNCHANGED <<met, astray>>

\* create: no term has the name yet.
CreateFind(r, k) ==
    \E n \in TermNames, s \in TermSlugs :
        /\ table[k][n] = None
        /\ Start(r, OnTerm("insert", k, n, s), OthersOn(r, k, n))
        /\ UNCHANGED <<table, entries, joined, astray, torn, saved>>

\* INSERT, refused if name or slug have been taken meanwhile.
CreateInsert(r, k) ==
    LET w == work[r] IN
    /\ w.at = "insert" /\ w.kind = k
    /\ IF table[k][w.term] # None \/ SlugTaken(k, w.term, w.slug)
       THEN Finish(r, FALSE) /\ UNCHANGED table
       ELSE /\ Put(k, w.term, w.slug)
            /\ GoOn(r, OnTerm("read", k, w.term, None))
    /\ UNCHANGED <<entries, joined, torn, saved>>

\* The route gets the term to put the new slug into it.
UpdateGet(r, k) ==
    \E n \in TermNames, s \in TermSlugs :
        /\ table[k][n] # None
        /\ Start(r, OnTerm("update", k, n, s), OthersOn(r, k, n))
        /\ UNCHANGED <<table, entries, joined, astray, torn, saved>>

\* UPDATE ... WHERE name = ?, refused if the row is gone or the slug taken.
UpdateRow(r, k) ==
    LET w == work[r] IN
    /\ w.at = "update" /\ w.kind = k
    /\ IF table[k][w.term] = None \/ SlugTaken(k, w.term, w.slug)
       THEN Finish(r, FALSE) /\ UNCHANGED table
       ELSE /\ Put(k, w.term, w.slug)
            /\ GoOn(r, OnTerm("read", k, w.term, None))
    /\ UNCHANGED <<entries, joined, torn, saved>>

\* get, after a create or an update: 404 if the row is gone again.
ReadBack(r, k) ==
    LET w == work[r] IN
    /\ w.at = "read" /\ w.kind = k
    /\ IF table[k][w.term] = None THEN Finish(r, TRUE)
       ELSE GoOn(r, OnTerm("index", k, w.term, table[k][w.term]))
    /\ UNCHANGED <<table, entries, joined, torn, saved>>

\* The row that was read goes into the index.
IndexTerm(r, k) ==
    LET w == work[r]
        t == <<k, w.term>>
    IN
    /\ w.at = "index" /\ w.kind = k
    /\ entries' = [entries EXCEPT ![k][w.term] = w.slug]
    /\ work' = [work EXCEPT ![r] = NoWork]
    /\ astray' = IF r \in met THEN astray \cup {t} ELSE astray \ {t}
    /\ met' = met \ {r}
    /\ UNCHANGED <<table, joined, torn, saved>>

\* DELETE, which takes the term from every post (ON DELETE CASCADE).
DeleteRow(r, k) ==
    \E n \in TermNames :
        /\ table[k][n] # None
        /\ work[r] = NoWork
        /\ work' = [work EXCEPT ![r] = OnTerm("remove", k, n, None)]
        /\ met' = met \cup SavesWith(k, n) \cup
                    (IF OthersOn(r, k, n) = {} THEN {} ELSE OthersOn(r, k, n) \cup {r})
        /\ Put(k, n, None)
        /\ joined' = [joined EXCEPT ![k] = [p \in Tagged |-> @[p] \ {n}]]
        /\ saved' = [saved EXCEPT ![k] = [p \in Tagged |-> @[p] \ {n}]]
        /\ UNCHANGED <<entries, astray, torn>>

\* Mutant: the entry of a deleted term stays.
RemoveEntry_Keeps(r, k) ==
    LET w == work[r]
        t == <<k, w.term>>
    IN
    /\ w.at = "remove" /\ w.kind = k
    /\ work' = [work EXCEPT ![r] = NoWork]
    /\ astray' = IF r \in met THEN astray \cup {t} ELSE astray \ {t}
    /\ met' = met \ {r}
    /\ UNCHANGED <<table, entries, joined, torn, saved>>

RemoveEntry(r, k) ==
    LET w == work[r]
        t == <<k, w.term>>
    IN
    /\ w.at = "remove" /\ w.kind = k
    /\ entries' = [entries EXCEPT ![k][w.term] = None]
    /\ work' = [work EXCEPT ![r] = NoWork]
    /\ astray' = IF r \in met THEN astray \cup {t} ELSE astray \ {t}
    /\ met' = met \ {r}
    /\ UNCHANGED <<table, joined, torn, saved>>

-----------------------------------------------------------------------------
\* A post is saved with terms: replace_terms begins.
SaveTerms(r, k) ==
    \E p \in Tagged, values \in Saves :
        /\ Start(r, OnPost("clear", k, p, values, values),
                 {q \in Requests \ {r} : Saving(work[q], k, p)})
        /\ torn' = torn \cup {<<k, p>>}
        /\ UNCHANGED <<table, entries, joined, astray, saved>>

NextTerm(r, todo) ==
    IF todo = <<>>
    THEN LET w == work[r] IN
         /\ work' = [work EXCEPT ![r] = NoWork]
         /\ met' = met \ {r}
         /\ torn' = IF r \in met THEN torn ELSE torn \ {<<w.kind, w.post>>}
         /\ saved' = [saved EXCEPT ![w.kind][w.post] = Range(w.all)]
    ELSE /\ work' = [work EXCEPT ![r] = [@ EXCEPT !.at = "term", !.todo = todo]]
         /\ UNCHANGED <<met, torn, saved>>

ClearTerms(r, k) ==
    LET w == work[r] IN
    /\ w.at = "clear" /\ w.kind = k
    /\ joined' = [joined EXCEPT ![k][w.post] = {}]
    /\ NextTerm(r, w.todo)
    /\ UNCHANGED <<table, entries, astray>>

\* INSERT OR IGNORE a term with this name, and the name for its slug.
CreateImplicitly(r, k) ==
    LET w == work[r]
        n == w.todo[1]
    IN
    /\ w.at = "term" /\ w.kind = k
    /\ work' = [work EXCEPT ![r].at = "join"]
    /\ IF table[k][n] # None \/ SlugTaken(k, n, SlugOf[n])
       THEN UNCHANGED <<table, astray, met>>
       ELSE /\ Put(k, n, SlugOf[n])
            /\ astray' = astray \cup {<<k, n>>}
            /\ met' = met \cup {q \in Requests : WorksOn(work[q], k, n)}
    /\ UNCHANGED <<entries, joined, torn, saved>>

\* Mutant: the rest of the terms is left out.
JoinTerm_Once(r, k) ==
    LET w == work[r] IN
    /\ w.at = "join" /\ w.kind = k
    /\ table[k][w.todo[1]] # None
    /\ joined' = [joined EXCEPT ![k][w.post] = @ \cup {w.todo[1]}]
    /\ NextTerm(r, <<>>)
    /\ UNCHANGED <<table, entries, astray>>

\* INSERT OR IGNORE of the reference.
JoinTerm(r, k) ==
    LET w == work[r] IN
    /\ w.at = "join" /\ w.kind = k
    /\ table[k][w.todo[1]] # None
    /\ joined' = [joined EXCEPT ![k][w.post] = @ \cup {w.todo[1]}]
    /\ NextTerm(r, Tail(w.todo))
    /\ UNCHANGED <<table, entries, astray>>

\* The foreign key has no row: another term has the slug, or the term was deleted.
JoinRefused(r, k) ==
    LET w == work[r] IN
    /\ w.at = "join" /\ w.kind = k
    /\ table[k][w.todo[1]] = None
    /\ work' = [work EXCEPT ![r] = NoWork]
    /\ met' = met \ {r}
    /\ UNCHANGED <<table, entries, joined, astray, torn, saved>>

-----------------------------------------------------------------------------
\* TagService and CategoryService; the posts' replace_terms serves both.
TagStep(r) ==
    \/ CreateFind(r, Tag) \/ CreateInsert(r, Tag)
    \/ UpdateGet(r, Tag) \/ UpdateRow(r, Tag) \/ ReadBack(r, Tag) \/ IndexTerm(r, Tag)
    \/ DeleteRow(r, Tag) \/ RemoveEntry(r, Tag)

CategoryStep(r) ==
    \/ CreateFind(r, Category) \/ CreateInsert(r, Category)
    \/ UpdateGet(r, Category) \/ UpdateRow(r, Category)
    \/ ReadBack(r, Category) \/ IndexTerm(r, Category)
    \/ DeleteRow(r, Category) \/ RemoveEntry(r, Category)

SaveStep(r, k) ==
    SaveTerms(r, k) \/ ClearTerms(r, k) \/ CreateImplicitly(r, k) \/ JoinTerm(r, k)
    \/ JoinRefused(r, k)

AbandonTerm(r) ==
    /\ work[r] # NoWork
    /\ work' = [work EXCEPT ![r] = NoWork]
    /\ met' = met \ {r}
    /\ astray' = IF work[r].at \in {"read", "index", "remove"}
                 THEN astray \cup {<<work[r].kind, work[r].term>>} ELSE astray
    /\ UNCHANGED <<table, entries, joined, torn, saved>>

\* A stop and a boot: resync_all puts every row into the index.
TaxonomyRestart ==
    /\ entries' = table
    /\ work' = [r \in Requests |-> NoWork]
    /\ met' = {}
    /\ astray' = {}
    /\ UNCHANGED <<table, joined, torn, saved>>

TaxonomyNext ==
    \/ \E r \in Requests : \/ TagStep(r) \/ CategoryStep(r) \/ AbandonTerm(r)
                           \/ \E k \in Kinds : SaveStep(r, k)
    \/ TaxonomyRestart

TaxonomySpec == TaxonomyInit /\ [][TaxonomyNext]_taxonomyVars

-----------------------------------------------------------------------------
(* Properties.                                                             *)

TaxonomyTypeOK ==
    /\ table \in [Kinds -> [TermNames -> TermSlugs \cup {None}]]
    /\ entries \in [Kinds -> [TermNames -> TermSlugs \cup {None}]]
    /\ joined \in [Kinds -> [Tagged -> SUBSET TermNames]]
    /\ work \in [Requests -> Work]
    /\ met \subseteq Requests
    /\ astray \subseteq Kinds \X TermNames
    /\ torn \subseteq Kinds \X Tagged
    /\ saved \in [Kinds -> [Tagged -> SUBSET TermNames]]

\* resolve_tag, resolve_category: the terms that the page of a slug may be about.
Resolve(k, s) == {n \in TermNames : entries[k][n] = s}

Untouched(k, n) == \A r \in Requests : ~WorksOn(work[r], k, n)

\* /tags/{slug} and /categories/{slug} are pages of the term that has the slug in
\* the table, and of no other (resolve_tag reads the index). Not so of a term that
\* a post has created and no administrator has edited, nor where handlers
\* overlapped or were dropped; a lone edit of the term and a restart repair it.
SlugLeadsToItsTerm ==
    \A k \in Kinds, s \in TermSlugs :
        \A n \in TermNames : Untouched(k, n) /\ <<k, n>> \notin astray =>
            (n \in Resolve(k, s) <=> table[k][n] = s)

\* A post has the terms it was last saved with, less those deleted since. Not so
\* after saves that overlapped, were dropped, or met a term that has the slug
\* another one would get (replace_terms has deleted the old terms by then).
TermsAreWhatWasSaved ==
    \A k \in Kinds, p \in Tagged : <<k, p>> \notin torn => joined[k][p] = saved[k][p]
=============================================================================
