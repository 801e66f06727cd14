----------------------------- MODULE IndexEngine -----------------------------
(***************************************************************************)
(* The in-memory index (rblog-index).  A keyspace per kind is made by the  *)
(* first upsert that finds none: between that and the lock it then takes,  *)
(* another one may have made it.  A list filters, sorts and pages the      *)
(* entries, which come in whatever order the hash map has them.            *)
(***************************************************************************)
EXTENDS Server, Sorting, FiniteSets

CONSTANTS
    Gvks,       \* kinds
    EntryNames,
    Labels,     \* values of a label
    Fields,     \* JSON values at a path
    SmallSort,  \* the longest slice that is sorted by insertion, 20
    Indexed,    \* bound: the entries that are upserted
    Queries     \* bound: the lists that are asked for, less their pages

\* Of a JSON value its type and what it is compared by: strings by their text, or
\* by their time if both are dates.
Json == [type : {"null", "bool", "number", "string"}, key : Nat, time : Nat \cup {None}]
Null == [type |-> "null", key |-> 0, time |-> None]

\* A selector asks whether a value is among some, or is not: one (`Equals') or more
\* (`In'), where None stands for an absent label (`Exists') and Null for a path
\* that leads nowhere.
Selector == [by : {"label", "field"}, values : SUBSET (Labels \cup Fields \cup {None}),
             negated : BOOLEAN]
Query == [selectors : SUBSET Selector, sort : {"none", "asc", "desc"}]

ASSUME IndexAssumption ==
    /\ None \notin Labels
    /\ Fields \subseteq Json /\ Null \in Fields
    /\ Indexed \subseteq [label : Labels \cup {None}, field : Fields]
    /\ None \notin Indexed \cup [EntryNames -> Indexed \cup {None}]
    /\ SmallSort \in Nat
    /\ \A q \in Queries : q.sort \in {"none", "asc", "desc"}

VARIABLES
    byKind,     \* the keyspaces, None before the first upsert
    first,      \* upserts that found no keyspace
    latest      \* history: the entries as the last call on each left it

indexVars == <<byKind, first, latest>>

NoEntries == [n \in EntryNames |-> None]

IndexInit ==
    /\ byKind = [g \in Gvks |-> None]
    /\ first = [r \in Requests |-> None]
    /\ latest = [g \in Gvks |-> NoEntries]

-----------------------------------------------------------------------------
\* upsert_one under the locks of a keyspace; where there is none it lets them go.
UpsertOne(r) ==
    \E g \in Gvks, n \in EntryNames, e \in Indexed :
        /\ first[r] = None
        /\ IF byKind[g] # None
           THEN /\ byKind' = [byKind EXCEPT ![g][n] = e]
                /\ latest' = [latest EXCEPT ![g][n] = e]
                /\ UNCHANGED first
           ELSE /\ first' = [first EXCEPT ![r] = [gvk |-> g, name |-> n, entry |-> e]]
                /\ UNCHANGED <<byKind, latest>>

\* Mutant: the keyspace is made without a second look.
Keyspace_New(g) == NoEntries

\* entry(gvk).or_insert_with.
Keyspace(g) == IF byKind[g] = None THEN NoEntries ELSE byKind[g]

FirstUpsert(r) ==
    LET f == first[r] IN
    /\ f # None
    /\ byKind' = [byKind EXCEPT ![f.gvk] = [Keyspace(f.gvk) EXCEPT ![f.name] = f.entry]]
    /\ latest' = [latest EXCEPT ![f.gvk][f.name] = f.entry]
    /\ first' = [first EXCEPT ![r] = None]

RemoveOne ==
    \E g \in Gvks, n \in EntryNames :
        /\ byKind[g] # None
        /\ byKind' = [byKind EXCEPT ![g][n] = None]
        /\ latest' = [latest EXCEPT ![g][n] = None]
        /\ UNCHANGED first

\* Replaces a keyspace, or makes it.
UpsertAll ==
    \E g \in Gvks, n \in EntryNames, e \in Indexed :
        LET entries == [NoEntries EXCEPT ![n] = e] IN
        /\ byKind' = [byKind EXCEPT ![g] = entries]
        /\ latest' = [latest EXCEPT ![g] = entries]
        /\ UNCHANGED first

-----------------------------------------------------------------------------
(* Lists.                                                                  *)

MatchesSelector(e, s) ==
    ((IF s.by = "label" THEN e.label ELSE e.field) \in s.values) # s.negated

Matches(e, q) == \A s \in q.selectors : MatchesSelector(e, s)

\* compare_json: Null before all others, and two types are equal.
LessThan(a, b) ==
    \/ a.type = "null" /\ b.type # "null"
    \/ /\ a.type = b.type /\ a.type # "null"
       /\ IF a.time # None /\ b.time # None THEN a.time < b.time ELSE a.key < b.key

Precedes(a, b, sort) ==
    \/ sort = "asc" /\ LessThan(a, b)
    \/ sort = "desc" /\ LessThan(b, a)

\* What compare_json makes of these values is an order: one that is before another is
\* before whatever is not before that one. It is if they have one type and are all
\* dates or none (ComparableIsOrdered); 1, "a" and 2 are not ordered.
Ordered(values) ==
    \A a, b, c \in values : LessThan(a, c) => LessThan(a, b) \/ LessThan(b, c)

SortInPlace(names, entries, sort) ==
    StableSort(names, {p \in ToSet(names) \X ToSet(names) :
                          Precedes(entries[p[1]].field, entries[p[2]].field, sort)})

\* Of these names those that are wanted, in their order.
Filter(names, wanted) ==
    LET kept[i \in 0..Len(names)] ==
            IF i = 0 THEN <<>>
            ELSE IF names[i] \in wanted THEN Append(kept[i - 1], names[i])
            ELSE kept[i - 1]
    IN kept[Len(names)]

Wanted(entries, q) == {n \in EntryNames : entries[n] # None /\ Matches(entries[n], q)}

\* Mutant: a page is cut out before it is sorted.
ListPage_Unsorted(entries, order, q, offset, limit) ==
    LET matching == Filter(order, Wanted(entries, q))
        page == SubSeq(matching, offset + 1, Min({offset + limit, Len(matching)}))
    IN [items |-> SortInPlace(page, entries, q.sort), total |-> Len(matching)]

\* list, of entries that the hash map has in this order.
ListPage(entries, order, q, offset, limit) ==
    LET matching == Filter(order, Wanted(entries, q))
        sorted == IF q.sort = "none" THEN matching
                  ELSE SortInPlace(matching, entries, q.sort)
    IN [items |-> SubSeq(sorted, offset + 1, Min({offset + limit, Len(matching)})),
        total |-> Len(matching)]

\* sort_by does not panic.
SortReturns(entries, q) ==
    LET wanted == Wanted(entries, q) IN
    \/ q.sort = "none"
    \/ Ordered({entries[n].field : n \in wanted})
    \/ Cardinality(wanted) <= SmallSort

\* A list whose sort panics stops the process (panic = "abort"); the next one begins
\* with no keyspaces.
AbortList ==
    /\ \E g \in Gvks, q \in Queries : byKind[g] # None /\ ~SortReturns(byKind[g], q)
    /\ byKind' = [g \in Gvks |-> None]
    /\ first' = [r \in Requests |-> None]
    /\ latest' = [g \in Gvks |-> NoEntries]

IndexNext ==
    \/ \E r \in Requests : UpsertOne(r) \/ FirstUpsert(r)
    \/ RemoveOne \/ UpsertAll \/ AbortList

IndexSpec == IndexInit /\ [][IndexNext]_indexVars

-----------------------------------------------------------------------------
(* Properties.                                                             *)

IndexTypeOK ==
    /\ byKind \in [Gvks -> [EntryNames -> Indexed \cup {None}] \cup {None}]
    /\ first \in [Requests -> [gvk : Gvks, name : EntryNames, entry : Indexed] \cup {None}]
    /\ latest \in [Gvks -> [EntryNames -> Indexed \cup {None}]]

\* No upsert is lost while the process runs, the first ones of a kind included: of
\* two that both found no keyspace, the second one adds to the keyspace of the first
\* (upsert_one).
UpsertsAreKept ==
    \A g \in Gvks : latest[g] = IF byKind[g] = None THEN NoEntries ELSE byKind[g]

\* The pages of this size hold the entries that are wanted, each once and in order.
CoveredBy(limit, entries, order, q) ==
    LET wanted == Wanted(entries, q)
        page == [i \in 1..(Len(order) + 1) |->
                    ListPage(entries, order, q, (i - 1) * limit, limit)]
        all == FlattenSeq([i \in DOMAIN page |-> page[i].items])
    IN
    /\ ToSet(all) = wanted /\ Len(all) = Cardinality(wanted)
    /\ \A i \in DOMAIN page : page[i].total = Cardinality(wanted)
    /\ Ordered({entries[n].field : n \in wanted}) =>
           \A i, j \in DOMAIN all : i < j =>
               ~Precedes(entries[all[j]].field, entries[all[i]].field, q.sort)

\* The pages of a list, of any size, hold every entry that its selectors match once
\* and no other, each page with the number of them, unless the sort may panic; and if
\* their values are ordered, no entry is on a page behind one that it precedes (list).
PagesCoverTheList ==
    \A g \in {k \in Gvks : byKind[k] # None}, q \in Queries :
        SortReturns(byKind[g], q) =>
            \A order \in SetToSeqs({n \in EntryNames : byKind[g][n] # None}) :
                \A limit \in 1..(Len(order) + 1) : CoveredBy(limit, byKind[g], order, q)
=============================================================================
