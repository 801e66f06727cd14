# rblog in TLA+

rblog is a blog engine: an axum server over SQLite tables, with an in-memory
index of some of them, a full-text index on disk, themes, attachments and WASM
plugins. These modules state what its components do, as the code does it, and
what has to hold of them when handlers overlap, are dropped half way or are cut
short by a restart. TLC checks the statements on small instances; TLAPS proves
the most important ones for every value of the constants.

Paths below are relative to `crates/`. `PROJECT.json` lists the runs, the source
lines of each definition, the hazards and the theorems.

## How the program runs

* One process, one tokio runtime with several worker threads. A request is a
  future; each `await` (in practice each SQL statement) is a point where other
  requests run, and where the future is dropped when the client hangs up.
* The services hold **no lock and no transaction** across statements (the one
  exception is `replace_all`, the restore of a Halo dump). One SQL statement is
  atomic; a handler is a sequence of them.
* Three kinds of state live next to each other and are kept in step by hand:
  the **tables**; the **in-memory index** (`rblog-index`), read by the public
  site and the moderation lists, rebuilt at boot by `resync_all`; and the
  **search index** on disk, written by the admin handlers (`search_sync.rs`).
* A legacy table, `extensions`, is still what the search rebuild and the restore
  of a Halo dump work on; the relational tables were filled from it once, by a
  migration.

So the questions worth asking are the same everywhere: which copy wins when two
handlers overlap, what a dropped handler leaves behind, and whether the code that
rebuilds a copy agrees with the code that maintains it.

## Inventory

| component | state | operations | what is hard | what makes it correct |
|---|---|---|---|---|
| Comments and replies (`rblog-core/src/comments.rs`, admin and public routes) | `comments` table, two index keyspaces | submit, reply, approve, hide, show, delete, restore, boot | write, read back and index are three steps; resync is other code | only moderated content is public; the index agrees with the table |
| Posts (`clean_posts.rs`, `routes/admin/posts.rs`) | `posts`, `post_tags`, `post_categories` | create, PUT, publish, unpublish, pin, bin, restore, purge; lists and pages | settings written back from a stale read, half-finished creation, ownership checked earlier, lists that read twice | nothing is lost without an overlap; slugs lead to one post; owners only; readers see what they may |
| Search (`search_sync.rs`, `rblog-search`) | index on disk, one writer lock | index, delete, rebuild, boot | stale copies, busy writer, rebuild from another table | what was never public is never found; drift has a cause and is repaired |
| Extension store (`rblog-store`) | `extensions` rows with versions | create, update, delete (compare-and-swap), paged list, replace_all | versions restart when a name is reused, NULL versions, scans under writes | no lost update; a scan finds what was there throughout |
| Settings and config maps (`clean_settings.rs`) | `site_settings`, index, the plugins' copy | upsert and get of maps and form schemas | a map is several rows; a read writes the index too; maps share a table by prefix | the site shows what is stored; a map is one PUT |
| Single pages (`clean_pages.rs`) | `pages` | PUT, publish, unpublish, view | a PUT is three statements and may send part of the settings; publish beside it | a page is its last edit; a published one has its time; every visit is counted |
| Tags and categories (`clean_taxonomy.rs`, `replace_terms`) | two tables, two join tables, index | create, update, delete; implicit creation by posts | implicit terms are not indexed; slugs are unique, names differ | a slug leads to its term; a post has the terms it was saved with |
| Users, sessions, bootstrap (`clean_users.rs`, `bootstrap.rs`, `session.rs`) | `users`, sessions in memory | bootstrap, login, logout, set_password, disable, delete, create | check-then-create of the first administrator, rehash racing set_password, a login of several steps beside changes of its user | one administrator is installed; a password stays as chosen; sessions are earned |
| Rate limiter (`ratelimit.rs`) | windows by address | check | the clock is read before the lock; window boundary; collection | at most twice the limit in a period less the wait for the lock |
| Plugins (`rblog-plugins`, `plugin_host.rs`) | plugin map, key-value map, guest memories | reload, set_enabled, dispatch, invoke, host calls | files change during a reload; a reload between two looks at the map; packed pointers | what runs is what is on disk, with the methods it declares; values stay apart |
| Attachments (`rblog-attachments`) | objects by key | upload with thumbnail, delete | uploads that overlap under one name; shared keys; three ideas of what a path is | a URL leads to the bytes it was given for |
| Index engine and queries (`rblog-index`) | entries by kind | upsert, remove, replace, list | the first upserts of a kind; sorting by what is no order, and paging | no upsert is lost; pages cover the list |
| Content diffs (`rblog-content/patch.rs`) | none | diff, apply, compose | two ideas of what a line is | composing undoes diffing |
| Themes (`rblog-theme`) | theme map, active name | reload, set_active, render | - | - |
| Access rules, scheme, rendering, feeds (`rbac.rs`, `rblog-scheme`, `rblog-content`) | none | pure functions | - | - |
| Admin SPA, templates, OpenAPI, configuration, scripts | none of the server's | - | - | - |

Interactions: posts and comments write their own tables and then the index they
are shown from (`Posts` with `PostsSearch`, `Comments`); `PostLists` reads the
table that the handlers of `Posts` write; `Taxonomy` has the part of a post's save
that creates terms; `PluginHost` reads what `Settings` writes; a restore of a dump
meets the extension store, the comments and the search index, and is an action of
each.

## Modules

| module | what it is |
|---|---|
| `Comments` | CommentService, its index entries, resync at boot and at restore |
| `ModerationBoard` | what the moderators' list promises: one indivisible step per operation |
| `CommentsBoard` | Comments implements ModerationBoard, one handler at a time |
| `Posts` | PostService behind the admin handlers, over the `posts` table |
| `PostsSearch` | Posts composed with the search index, rebuilds and boot |
| `PostLists` | an instance of Posts with the public lists and pages over it |
| `ExtensionStore` | compare-and-swap rows and paged scans |
| `Server` | the constants that the modules below share |
| `Settings`, `PluginHost` | config maps row by row; the copy that plugins read |
| `Taxonomy` | tags and categories, and the terms of posts |
| `Pages` | single pages and their visits |
| `Accounts` | users, installation, logins and sessions |
| `RateLimiter` | windows of comment submissions |
| `Plugins`, `GuestMemory` | loading and dispatch; what host and guest hand each other |
| `Attachments` | uploads, thumbnails and removal of keys |
| `IndexEngine` | keyspaces and their locks; list as an operator |
| `ContentPatch` | line diffs, their application and composition |
| `Sorting` | the sort of Rust's slices that both of these use, as insertion |
| `CommentsProofs`, `PostsProofs`, `ExtensionStoreProofs` | theorems about the modules they are named after |
| `SearchProofs` | theorems about `PostsSearch`, and the types of `PostLists` |
| `SiteProofs` | theorems about `Settings`, `Taxonomy`, `Pages` and `PostLists` |
| `ServerProofs` | theorems about `Accounts`, `RateLimiter`, `Attachments`, `Plugins` and `GuestMemory` |
| `IndexProofs` | lemmas about recursion and sorting; theorems about `IndexEngine` |
| `PatchProofs` | theorems about `ContentPatch` |
| `MC*` | small instances for TLC; `MCServer` unites the smaller components, with the constants of each |

A handler in flight is a record with the stage it has reached (`at`), the object
it is at work on and what it holds in hand; one action of a module is one SQL
statement with everything the code does up to the next `await`. Steps between
which no other handler can tell the difference are one action, and a comment says
so. `Abandon` is a dropped future or a failing statement, `Restart` a stop and a
boot. Variables called *history* record what happened and are read only by
properties.

### Comments

`comments` is the table, `index` both index keyspaces, `req` the handlers,
`restoring` what a running resync has fetched and not yet upserted. An entry is a
row with the label `rblog.dev/approved`, which `public_thread` and `replies`
select on; the moderation queue reads the row itself. `FromRow` is how handlers
build an entry and `ResyncEntry` how boot does; they differ on replies.
`cleared` (passed moderation or needed none) and `raced` (two handlers overlapped,
or one was dropped, since the last restart) are history.

* `comments_race`: two handlers on two ids, with drops and restarts.
  `OnlyModeratedIsPublic` holds whatever happens. `DriftNeedsARace` says the index
  can only disagree with the table on a comment handlers raced on, and
  `EveryCommentIsListedOnce` and `OnlyHideOrDeleteUnpublishes` say what that means
  to a moderator and to a visitor.
* `comments_live`: if handlers run to their end, a stored comment is indexed or
  deleted. Fairness is weak fairness of each handler's next step: tokio polls a
  woken future again, and nothing else can disable a stage of a handler.
* `comments_board`: the refinement of `ModerationBoard`, for one handler at a time.
  With two it is false: of two overlapping moderations the older row may reach the
  index last, and a hidden comment stay public. That is the exception that
  `DriftNeedsARace` makes.
* `comments_replies` is refuted: approved replies are not listed after a restart.

### Posts and search

A row keeps the columns on which properties depend: slug, version of the markdown,
what the excerpt was made from, visibility, the two flags, whether publish_time
and the terms are set, and the owner. `update_settings` is two actions: `Settings`
reads the row and takes the settings in hand, `Save` writes all of them. `stale`
marks a handler whose hand is older than the row, and `clobbered` the posts such a
handler has written: the exact exception under which `PublishedIsStamped` and
`ExcerptIsCurrent` hold. `Terms` is one action for the several statements that store
tags and categories, of which a row only keeps whether they have all run; one that
fails between them is an `Abandon` of that stage. `Sent` bounds the operations
that clients send, so that each run stays small; `Posts_race` sends all of them.

`PostsSearch` conjoins the actions of `Posts` with what they do to the index.
`Sync` is `index_if_published` or `delete`; `SyncLost` is the same when another
mutation holds tantivy's writer; the rebuild reads the posts named in `extensions`
one by one and replaces the index. `drifted` holds the posts whose last change may
have missed the index: a change that overlapped another, gave up after writing,
found the writer taken or met a rebuild; and the posts that a rebuild left out,
because the legacy table does not name them, because they were changed while it ran,
or because their `SELECT` failed (`RebuildSkip`: the code passes over such a post and
commits all the same; the rebuild of a boot may pass over any of them). A lone change
takes the post out of it, so `DriftNeedsACause` also says that drift is repaired.

* `posts_race`: two handlers of one author on one post, all operations, drops and
  restarts.
* `posts_users`: two users, two names, two slugs: slugs stay unique although each
  handler looks for its slug before it uses it, and only the owner's handlers change
  a post although they check that before and not in the statements that write. The
  exception is a name that was purged and given to another post.
* `search_race`: two handlers, a rebuild, a busy writer, drops and restarts.
* `search_rebuild` is refuted: a rebuild drops posts that are not in the legacy table.

Two exceptions deserve to be known. A save of settings that overlaps a publication
loses the publication time (`clobbered`). A PUT that is refused for its slug has
already changed the text, and search keeps the old one (`drifted`).

### Extension store

A row has a version, or NULL as imported rows may. A client holds the struct it
last fetched or wrote (`held`), and updates or deletes with its version. `fresh`
and `reused` are history: the row is as the client knows it; its name has been
deleted or replaced since. A scan pages through the names in order, as
`list_by_prefix` does and as clients of `list_by_prefix_paged` may. `ReplaceAll` is
the one transaction of the program; `Dump` is what its parser may make of a file.

* `store_race`: an update or delete never destroys a change its client has not
  seen, unless the name was removed and used again; a scan returns every row that
  was there throughout, each once and in order.

The model also has two behaviours that are no property: a row with a NULL version
can be read and never be written, and `delete` looks at a row in one statement and
removes it in another, which is why `Matches` is asked twice.

### The smaller components

They share no state, so that one at a time is all there is to check: in `MCServer`
a behaviour is one of the component that `part` names, and the variables of the
others keep one initial value each. `PartsView` leaves those out of the state and
`PartsSymmetry` exchanges the two handlers. Each component's own specification
(`SettingsSpec`, `PagesSpec`, ...) is in its module. The parts `system` and `maps`
are two instances of `Settings`, `tags` and `categories` of `Taxonomy`, `installs`
and `logins` (of a site with imported users) of `Accounts`; the definitions beside them in `MCServer` say which
names, passwords and tokens each may use.

* **Settings.** `rows` is `site_settings`; `shown` the index entry from which the
  public pages take the title. `SiteShowsWhatIsStored`: they agree, except after a
  PUT of part of the system map, which indexes only that part, and after overlaps
  and drops, until the next GET or boot. `MapIsOnePut`: a map has exactly the keys
  of one PUT, with the exceptions of overlaps, drops, and maps whose prefixes are
  the same (`configmap.a.` holds the rows of a map that is called `a.b`).
  `plugin_settings` is refuted: plugins read the settings of the last boot.
* **Taxonomy.** `SlugLeadsToItsTerm`: the page of a slug is about the term that has
  it in the table, unless a post created that term or handlers overlapped on it.
  `TermsAreWhatWasSaved`: a post's terms are those of its last save, unless saves
  overlapped, stopped, or met a term with the slug another would get.
* **Pages.** `PageIsTheLastEdit` is the same question for a PUT that stores text and
  settings in two statements and may leave settings out; `VisitsAreCounted` is why
  the count is kept in the `UPDATE` and not in the row that was read.
  `PublishedPagesAreStamped`: a page is published with a time and no PUT takes it away,
  except one that read the page before it had any and saves after the publish.
* **Accounts.** `InstalledOnceAndWhole`, `ChosenPasswordStays` and `SessionsAreEarned`
  each name the interleavings that break them: two installations with different names
  (or one that stops after its first statement); a login that upgrades an old hash
  while the password is changed; and a login during which its user is disabled, deleted
  or given another password. Every other session is of a user who is there, is not
  disabled and has the password that was verified. A session outlives its user, and
  each request looks the user up again (`RequireUser`).
* **RateLimiter.** The clock advances at any time; a request reads it before it gets
  the lock. `passed` counts, for each point in time, what passed in the stretch that
  begins there and is shorter than a period by `Wait`, the longest wait for the lock.
  In a stretch of a whole period it can be more than twice the limit: the end of one
  window, a whole second one, and a late request that a third one counts, because the
  window it belonged to had been replaced when it got the lock. A request that waits
  longer than `Wait` is left out of the count.
* **Plugins.** Files change at any time. `LoadedIsOnDisk` and `MethodsAreDeclared` are
  about a reload that overlaps that, another reload, or the two looks that a request
  takes at the map. `plugin_enable` is refuted: a plugin that its manifest disables
  is loaded as an empty module and enabled as such.
* **GuestMemory.** Words are ten wide instead of 2^32, so that pointers with the sign
  bit occur. `HandedOverApart` is about packing and about the pages the host adds;
  `OwnValuesOnly` about the namespaces of the key-value map.
* **Attachments.** A key has the first four bytes of the hash of what is stored, so
  that contents may share one (`HashOf` need not be injective). `UrlsLeadToTheirFiles`:
  what a URL leads to has the hash in its key, until that key is deleted. `ObjectPath`
  is what the object store makes of a key and `Served` what a browser and `ServeDir` do;
  they differ in the group `.`, of which no URL leads anywhere.
* **PostLists.** `ShownToItsReaders`: what a list shows was selected for its reader,
  unless the post changed between the two reads; the home page and the page of a post
  ask again about private posts.
* **IndexEngine.** `UpsertsAreKept` is about the lock that is let go between the look
  for a keyspace and its creation; `PagesCoverTheList` compares `ListPage` with the
  set its selectors describe, for every order the hash map may have. `sort_by` may panic
  if what `compare_json` makes of the values is no order (`Ordered`) and there are more
  than twenty entries (`SmallSort`; fewer are sorted by insertion, whatever the
  comparison answers); a panic aborts the process (`AbortList`), which loses the index.
  The property is of lists whose sort returns (`SortReturns`), and says of their order
  only where there is one.
* **ContentPatch.** `RoundTrips`, for every alignment of lines that the diff library
  may choose. A text is made of what that library takes for lines, which end in a
  newline, a carriage return or both; `BetweenNewlines` puts together what is one line
  to `apply_deltas`. Where a carriage return ends a line by itself, positions mean
  different lines on the two sides and a diff may not apply, or give another text: the
  property is of texts without one (`Unbroken`).

## Bounds

Two handlers show every race of one handler with another. What needs three (a purge
and a creation between the check and the write of a handler, the exception that
`OnlyTheOwnerWrites` makes) no run meets; the theorem covers it. One post or comment
is enough for what handlers do to one object, since they share state only by name;
two are used for slugs, for parents and replies, and for rebuilds. Two versions of
a text tell an old one from a new one. Restarts, drops and requests are not
bounded; UUIDs (`Ids`) are, and versions (`MaxVersion`).

In `server_parts`, five rows make three maps and a form, of which two share a
prefix; two slugs and two names meet each other in every order; two passwords tell
the chosen one from the upgraded one; a limit of two tells a full window from one that
is filling, a period of two shows each of its boundaries, a wait of one lets requests
overtake each other, and `MaxTime` leaves room for three windows; of two clients one
sends few requests, which is enough for windows to be collected; three guests of
which one lacks the capability; three index entries for pages of one and two, with a
`SmallSort` of two so that a sort of three may panic. Two session tokens let one
administrator change a user who is logging in; an installation has one. Of two months,
four uploads (one with the hash of a thumbnail, one in the group `.`) and three stored
objects at a time, the thumbnail of the first month's file can be made in the second.
Texts of three pieces have a return before, between and behind newlines. Beside that
no part is cut off by anything but its `CONSTANTS`: those marked *bound* in the modules.

Deadlock is not checked in the runs whose bounds end behaviours (the last id, the
last visit, the last tick).

## What is proved, and how

All theorems are of the specifications with drops and restarts, for any sets of
ids, names, slugs, bodies, users and requests, any limit and period, any width of
words and size of pages, texts and lists of any length; the one exception is the
refinement, which is of one handler at a time. The only assumptions are the named ones
of the modules: that `None`, `Own`, `Null` and `System` are not values of the data; that clients send operations there are
and each request has a user; that names in the extension store are numbered in their
order and pages are not empty; that the group `.` is neither the one of an upload that
names none nor what the object store encodes it as; that no map shares a row with the
system settings or the form schemas (their keys have prefixes of their own) and a PUT of a map has only its keys;
that a term which a post creates has its name for a slug, so that two names have two;
that a window is collected after two periods at least and a request waits for the lock
no longer than one; that the empty line is no word, and no text and no delta is `None`;
that a guest's memory and the lengths of its values fit in a word.

* `CommentsProofs`: type correctness, then `ModerationInv` (all copies of an
  unmoderated row, in the table, in a hand, in a resync or in the index, are
  unapproved), then an invariant for drift: an unraced comment has one handler at
  most (`SoleOwner`), which finds at each stage what it left (`StageInv`), and an
  entry that nobody is at work on is the row of the table. The properties themselves
  are not inductive: whether an entry is right depends on what handlers hold.
* `PostsProofs`: first a lemma for each statement that writes, saying what it finds
  and leaves; every later proof is about those. `SlugsAreUnique` is inductive: the
  `INSERT` and the `UPDATE` that set a slug look for it in the same statement.
  `OnlyTheOwnerWrites` rests on `OwnerInv` (a handler that may still write is one of
  the owner's, if the name was never purged), `PublishedIsStamped` and
  `ExcerptIsCurrent` on `RowsOK` and `HandsOK` (settings in hand that are not stale
  fit the row they will be written over), and the terms of posts on the handlers at
  the stage before them.
* `SearchProofs`: nothing is searchable that was never public, from `ShownInv`: every
  document in the index, in a rebuild and in an answer about to be indexed is of a
  row that was public when it was read. The steps of `Posts` are reused through a
  lemma that every step of `PostsSearch` is one of them or none (`StepOfPosts`).
  `DriftNeedsACause` needs four parts (`DriftInv`): overlaps are on record, the index
  follows the table wherever no handler stands between writing and indexing, such a
  handler, if it was alone, has the row in hand as it is, and a rebuild has so of the
  posts that it read and nobody touched while it ran. The types of
  `PostLists`, which rest on those of `Posts`, are proved here too: they need the steps
  of its instance of `Posts` to be those that `PostsProofs` is about
  (`ListedPostsBegin`, `ListedPostsContinue`, `ListedPostsEnd`), as the prover does not
  open theorems of an instance.
* `ExtensionStoreProofs`: as long as a name is not reused its version only grows,
  so a version the client knows identifies the row it has seen (`HeldOK`); and the
  scan's cursor bounds what it has returned from above and what is left from below
  (`ScanOK`).
* `CommentsImplementTheBoard` in `CommentsProofs`: with one handler at a time each
  step of `Comments`, restores and restarts included, is one operation on one card of
  `ModerationBoard` or a stutter. The refinement mapping shows the index, which is a
  step behind the table: `SerialInv` says that it is at most one operation behind
  (`Move`), and only on the comment that is being handled.
* `ServerProofs`. `InstalledOnceAndWhole`: `FoundersInv` counts founders and
  installations together, so that a second one of either means an overlap, and
  `TitleInv` says who still owes the title. `ChosenPasswordStays`: also of what a login
  has in hand. `SessionsAreEarned` is an action property and rests on an invariant of
  every login that is under way (`LoginInv`): unless its user was changed meanwhile
  (`lapsed`), that user is there, is not disabled and has the password in its hand, or
  was given another by the upgrade of a second login (`overtaken`). `AtMostTwiceTheLimit` is proved from `Bounded`: what a
  stretch has let pass is at most the count of the current window if it begins in it,
  at most that and a whole window if it begins before, and nothing if it begins after;
  windows are replaced, and collected, only when no stretch that is still open reaches
  into the one before.
  `UrlsLeadToTheirFiles` is inductive only together with the objects that are stored
  and not answered yet, and with the fact that a key carries the hash of what is under
  it, so that an upload can write over nothing but bytes of the same hash (`Kept`,
  `PutKeeps`); outside the group `.` the object store and the browser make the same
  path of a key, and different ones of different keys.
  `LoadedIsOnDisk` needs the same of a reload that is half done, for
  the plugins it has read (`AsRead`). `HandedOverApart` needs that the end of a
  guest's memory is above everything handed over (`Placed`), and that a pointer and a
  length come back from the packed word also where it is negative (`PackUnpack`).
* `SiteProofs`. Each property of the form "unless handlers overlapped" has the same
  two parts beside the types: handlers that overlap are on record
  (`OverlapsAreBeside`, `OverlapsAreCrossed`, `TermsMeet`, `SavesMeet`), and a handler
  by itself finds at each stage what it left (`EditInv`, `AsWritten`,
  `InHandIsStored`, `SavedSoFar`). A save of terms may have any length: what it has
  joined and what it has left make the whole save. `PublishedPagesAreStamped`: settings
  about to be saved over a published page have its time, or the page is one of the
  exceptions (`StampedInv`). `ShownToItsReaders` holds for
  every behaviour of the handlers of `Posts`, since `moved` has what they changed.
* `IndexProofs`. What recursive functions compute is proved for sequences of any
  length, although the library's induction theorems take operators as parameters, which
  none of the provers can instantiate: induction is said of a set of numbers
  (`InductionUpTo`, from the well-foundedness of the naturals), and that a function
  defined by recursion exists, so that `CHOOSE` takes one, is a theorem about iterating
  steps (`IterationExists`), which `StableSort`, `Filter`, `FlattenSeq`, `Diff` and
  `ApplyDeltas` are unfolded with. `SortKeeps` and `SortSorts` then hold of every
  relation that is a weak order, which `compare_json` is of values that are `Ordered`;
  those of one type, all of them dates or none, are (`ComparableIsOrdered`). `PagesCoverTheList`: the pages of a list are pieces of the sorted
  one that begin where the last ended (`PagesConcatenate`), and `enough` pages reach its
  end; that the entries of a keyspace are finitely many (`PresentStaysFinite`) is an
  invariant.
* `PatchProofs`. The deltas of `Diff` are a patch (`Patches`): each begins where the
  lines of both texts have been the same since the one before, deletes what is next in
  the one and inserts what is next in the other (`DiffIsAPatch`, by induction over the
  cuts). A patch is sorted as it is (`PatchIsSorted`), and `ApplyDeltas` has, after each
  of its deltas, the beginning of the new text (`PatchOneDelta`), at the end the whole
  (`PatchApplies`). What is left is what ends a line: in a text
  without returns by themselves what is between newlines is what the library took for
  lines (`BetweenNewlinesIs`), and joining lines puts the newlines back but the last
  (`JoinLinesIs`, `JoinedIsTheText`, `LinesOfJoined`). The invariant of `ContentPatch` says that a head is some `Diff` from
  the base, of whatever lines the library took for equal.

Trying to prove these showed four statements to be wrong or too weak, although TLC
had passed them on its small instances: the limiter was said to let at most twice the
limit pass in a whole period, which fails for limits of three and more;
`TaxonomyTypeOK` did not allow for what is left of a save of more than two terms; and
the assumptions did not say that a map has no row of the form schemas, nor that a
keyspace is not `None`.

Only model-checked: the liveness of comments and every counterexample (fairness and
ENABLED are beyond the prover); and `PartsTypeOK`, which only puts the types of the
smaller components together for a run: those are proved one by one.

## What the documentation says otherwise

Refuted by a run: `comments_replies`, `search_rebuild`, `plugin_settings`,
`plugin_enable` (see `findings`). Met while modelling, without a run:

* `routes/admin/tags.rs:140` says that posts keep a deleted tag's name until they are
  next edited; the foreign keys cascade.
* `session.rs:68`: the collection of expired sessions is never called; `lookup`
  removes those it meets.
* Sessions of a user who is disabled go on until they expire.
* `plugin_host.rs:54`: the count of posts that a plugin gets includes drafts.
* Values that a host call returns are put into pages the host adds, not into a buffer
  of the plugin's `alloc`; an empty value cannot be told from a missing one.
* `backend.rs:32` of the attachments calls the URL in an answer the one that the browser
  fetches. That of an upload whose group is `.` leads nowhere: the object is stored
  under `%2E`, and the browser drops the dot. An image that does not decode is refused
  after it has been stored.
* `lib.rs:26` of the attachments calls the hash in a key an identity of the payload; it
  has four bytes (`naming.rs:29`), and of two payloads that share them, the name and the
  month the second replaces the first.
* `query.rs:190` says that `compare_json` takes Null and two types for equal, "falling
  back to name order": Null comes before all other values (`LessThan`), and what is equal
  stays in the order of a hash map.
* `lib.rs:32` of the index promises insertion order to a list without options; entries
  come in the order of a hash map (`order` in `ListPage`).
* `compare_json` is no order of values of several types, nor of strings of which some are
  dates; a list of more than twenty of them may panic, and with it the server.
* `patch.rs:280` tests that a diff and its application give back the text: they do not
  when only one of the two texts ends in a newline, nor, in general, when a carriage
  return that no newline follows is in one of them.
* Lists of a tag or a category show others' private posts to anybody who is logged in;
  the home page and the archive keep them to their owner.
* A list answers 404 when one of its posts is purged between its reads.

## Plan

Done: all modules and runs; theorems for every invariant and action property that
the prover can reach. Left: an abstract specification of the search index as a set of
public documents, which `PostsSearch` implements for one handler at a time, like
`ModerationBoard`.

## Not modelled

Markdown rendering, templates, the full-text ranking, OpenAPI, configuration and
the admin SPA change no state the server keeps. HTML sanitising and spam scoring
are inputs: a submission is flagged or not. The theme registry changes only before
the server serves. Access rules and the scheme registry are looked up by nothing
that decides. The services refuse MySQL; the extension store has the same
statements in both dialects. The visit counter of posts is the one of pages. The
boot-time backfill of excerpts stores what a reader of the row computes anyway. A
restore of a dump runs the whole resync on the live index; of that, `Comments`
has the comments, `PostsSearch` the posts, and the settings and terms, which the
dump does not touch, are left at restarts. `ConfigMapService::delete`,
`SettingService::create` and `delete`, and `increment_site_visit` have no caller.
