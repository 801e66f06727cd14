------------------------------ MODULE MCServer ------------------------------
(***************************************************************************)
(* Small instances of the server's smaller components for TLC.  They share *)
(* no state: a behaviour is one of the component that `part' names, and    *)
(* the others stay as they began.                                          *)
(***************************************************************************)
EXTENDS MCSettings, Taxonomy, Pages, Accounts, MCPlugins, RateLimiter, Attachments,
        GuestMemory, PostLists, IndexEngine, ContentPatch, TLC

CONSTANTS
    Parts,          \* those of the run
    t1, t2,                                 \* Taxonomy
    g1, g2, x1, x2, p1, p2,                 \* Pages
    n1, n2, w1, k1, k2,                      \* Accounts
    c1, c2,                                 \* RateLimiter
    u1,                                     \* PostLists
    f1, f2, pic, thumb, broken, twin, h1, h2, h3, nogroup, dot,     \* Attachments
    word                                    \* ContentPatch

VARIABLE part

-----------------------------------------------------------------------------
\* Taxonomy: tags or categories, of which administrators edit one.
OwnName == [n \in TermNames |-> n]
FewSaves == {<<>>, <<t1>>, <<t2, t1>>}
KindOf(k) == \A r \in Requests : work'[r] # NoWork =>
                 /\ work'[r].kind = k
                 /\ work'[r].at \in TermStages => work'[r].term = t1

\* Pages: one that is edited, and one that holds the other slug.
PageChange(x, s, v, timed) == [text |-> x, slug |-> s, visible |-> v, time |-> timed]
FewChanges == {PageChange(x1, None, None, FALSE), PageChange(x2, g2, None, FALSE),
               PageChange(x2, None, "PRIVATE", FALSE), PageChange(x1, g1, "PUBLIC", TRUE)}
AnotherPage == pages[p2] = [slug |-> g2, text |-> x1, visible |-> "PUBLIC",
                            published |-> FALSE, stamped |-> FALSE, visits |-> 0]
OnePage == /\ pages'[p2] = pages[p2]
           /\ \A r \in Requests : editing'[r] # Free => editing'[r].page = p1

\* Accounts: installations of a site with two names, one password and one session, or
\* one user of an imported site with two of each.
Installation ==
    /\ k2 \notin issued'
    /\ \A r \in Requests : task'[r].at \in PasswordStages => task'[r].password = w1
    /\ \A n \in UserNames : users'[n] \in {NewUser(w1), None}
Import == users[n1] # None /\ users[n2] = None
OneName == /\ k2 \in issued' => k1 \in issued'
           /\ \A r \in Requests : task'[r] # Unoccupied => task'[r].name = n1

\* RateLimiter: two clients, of which one sends few requests.
FewOfOne == \A t \in Time : passed'[c2][t] <= 1

\* Attachments: an image, a file that only claims to be one, and a file that has the
\* name and the hash of the image's thumbnail, but not its bytes; few are kept.
FewHashes == pic :> h1 @@ broken :> h2 @@ thumb :> h3 @@ twin :> h3
Thumb == pic :> thumb @@ broken :> None
ThumbFile == f1 :> f2 @@ f2 :> f2
FewUploads == {<<nogroup, f1, pic>>, <<nogroup, f1, broken>>, <<nogroup, f2, twin>>,
               <<dot, f2, twin>>}
FewObjects == Cardinality({p \in StoredPath : objects'[p] # None}) <= 3

\* PostLists: one handler of Posts and one reader; excerpts are not their business.
OneUser == [r \in Requests |-> u1]
OneReader == /\ \A r \in Requests : req'[r] = P!Idle \/ reading'[r] = NotReading
             /\ Cardinality({r \in Requests : req'[r] # P!Idle}) <= 1
             /\ Cardinality({r \in Requests : reading'[r] # NotReading}) <= 1
             /\ \A n \in Names : P!Exists(n)' => posts'[n].excerpt # Own

\* IndexEngine: dates among strings, numbers, and a path that leads nowhere.
Is(t, k, time) == [type |-> t, key |-> k, time |-> time]
FewFields == {Null, Is("number", 1, None), Is("number", 2, None), Is("string", 1, 2),
              Is("string", 2, 1)}
FewIndexed == {[label |-> "yes", field |-> v] : v \in FewFields \ {Is("number", 2, None)}}
                  \cup {[label |-> None, field |-> Is("number", 2, None)]}
Among(by, vs, negated) == [by |-> by, values |-> vs, negated |-> negated]
FewQueries == {[selectors |-> {}, sort |-> "asc"],
               [selectors |-> {Among("label", {"yes"}, FALSE)}, sort |-> "desc"],
               [selectors |-> {Among("label", {None}, TRUE), Among("field", {Null}, TRUE)},
                sort |-> "none"]}

\* ContentPatch: an empty line, a word, and the word with a carriage return. A head
\* that is saved again has what it would have had the first time.
FewPieces == {[text |-> Blank, return |-> FALSE], [text |-> word, return |-> FALSE],
              [text |-> word, return |-> TRUE]}

OneSave == \A h \in Heads : heads[h] = None

-----------------------------------------------------------------------------
\* Where a component may begin in several ways, it does so only in its own part.
PartsInit ==
    /\ part \in Parts
    /\ SettingsInit
    /\ TaxonomyInit
    /\ PagesInit /\ AnotherPage
    /\ part # "pages" => ~pages[p1].published /\ ~pages[p1].stamped /\ pages[p1].text = x1
    /\ AccountsInit /\ IF part = "logins" THEN Import ELSE ~Someone
    /\ PluginsInit /\ AnotherPlugin
    /\ part # "plugins" => manifests[q1] = None /\ wasm[q1] = None
    /\ LimiterInit
    /\ AttachmentsInit
    /\ GuestInit
    /\ ListsInit
    /\ IndexInit
    /\ PatchInit /\ (part # "patch" => base = <<>>)

PartsNext ==
    /\ UNCHANGED part
    /\ CASE part = "system" -> SettingsNext /\ MapsOf({System, Form})
         [] part = "maps" -> SettingsNext /\ MapsOf(Maps)
         [] OTHER -> UNCHANGED settingsVars
    /\ CASE part = "tags" -> TaxonomyNext /\ KindOf(Tag)
         [] part = "categories" -> TaxonomyNext /\ KindOf(Category)
         [] OTHER -> UNCHANGED taxonomyVars
    /\ IF part = "pages" THEN PagesNext /\ OnePage ELSE UNCHANGED pagesVars
    /\ CASE part = "installs" -> AccountsNext /\ Installation
         [] part = "logins" -> AccountsNext /\ OneName
         [] OTHER -> UNCHANGED accountsVars
    /\ IF part = "plugins" THEN PluginsNext /\ OnePlugin ELSE UNCHANGED pluginsVars
    /\ IF part = "limiter" THEN LimiterNext /\ FewOfOne ELSE UNCHANGED limiterVars
    /\ IF part = "attachments" THEN AttachmentsNext /\ FewObjects ELSE UNCHANGED attachmentsVars
    /\ IF part = "guests" THEN GuestNext ELSE UNCHANGED guestVars
    /\ IF part = "lists" THEN ListsNext /\ OneReader ELSE UNCHANGED listsVars
    /\ IF part = "index" THEN IndexNext ELSE UNCHANGED indexVars
    /\ IF part = "patch" THEN OneSave /\ SaveHead ELSE UNCHANGED patchVars

partsVars ==
    <<part, settingsVars, taxonomyVars, pagesVars, accountsVars, pluginsVars,
      limiterVars, attachmentsVars, guestVars, listsVars, indexVars, patchVars>>

PartsSpec == PartsInit /\ [][PartsNext]_partsVars

\* The variables of the component have their types.
PartsTypeOK ==
    CASE part \in {"system", "maps"} -> SettingsTypeOK
      [] part \in {"tags", "categories"} -> TaxonomyTypeOK
      [] part = "pages" -> PagesTypeOK
      [] part \in {"installs", "logins"} -> AccountsTypeOK
      [] part = "plugins" -> PluginsTypeOK
      [] part = "limiter" -> LimiterTypeOK
      [] part = "attachments" -> AttachmentsTypeOK
      [] part = "guests" -> GuestTypeOK
      [] part = "lists" -> ListsTypeOK
      [] part = "index" -> IndexTypeOK
      [] part = "patch" -> PatchTypeOK

\* What tells two states of a run apart.
PartsView ==
    <<part,
      CASE part \in {"system", "maps"} -> settingsVars
        [] part \in {"tags", "categories"} -> taxonomyVars
        [] part = "pages" -> pagesVars
        [] part \in {"installs", "logins"} -> accountsVars
        [] part = "plugins" -> pluginsVars
        [] part = "limiter" -> limiterVars
        [] part = "attachments" -> attachmentsVars
        [] part = "guests" -> guestVars
        [] part = "lists" -> listsVars
        [] part = "index" -> indexVars
        [] part = "patch" -> patchVars>>

PartsSymmetry == Permutations(Requests)
=============================================================================
