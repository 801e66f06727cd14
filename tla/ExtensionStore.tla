--------------------------- MODULE ExtensionStore ---------------------------
(***************************************************************************)
(* The `extensions' table (rblog-store: raw.rs, typed.rs): rows with a     *)
(* version, created, updated and deleted by compare-and-swap through       *)
(* TypedStore, listed page by page, and replaced as a whole by a restore.  *)
(* delete is two statements; every other operation is one statement or one *)
(* transaction.  A name identifies one object of one kind; names are       *)
(* numbered in the order the table sorts them.                             *)
(***************************************************************************)
EXTENDS Naturals, Sequences

CONSTANTS
    Names,      \* store names under one prefix
    Data,       \* payloads
    Clients,
    PageSize,   \* the limit a scan asks for
    MaxVersion, \* bound: versions the runs count to
    Null,       \* the version of a row never written by JPA or rblog
    None

ASSUME StoreAssumption ==
    /\ Names \subseteq Nat \ {0}
    /\ PageSize \in Nat \ {0}
    /\ MaxVersion \in Nat \ {0}
    /\ Null \notin Nat

Row == [data : Data, version : Nat \cup {Null}]
\* A struct, with the version in its metadata.
Struct == [name : Names, data : Data, version : Nat]

ASSUME NoneIsNoStruct == None \notin Row /\ None \notin Struct

VARIABLES
    rows,       \* the table, by name
    held,       \* the struct each client last fetched or wrote
    deleting,   \* the row a delete has found and is about to remove
    cursor,     \* the last name the scan has returned, 0 before the first
    scanned,    \* the names the scan has returned
    fresh,      \* history: clients whose struct is the row as it is
    reused,     \* history: clients whose row was removed since they had it
    lasting     \* history: names in the table since the scan began

vars == <<rows, held, deleting, cursor, scanned, fresh, reused, lasting>>
scanVars == <<cursor, scanned>>

-----------------------------------------------------------------------------
Exists(n) == rows[n] # None

\* Mutant: NULL is not given a value.
ReadVersion_Raw(row) == row.version

\* row_to_extension: NULL is read as 0.
ReadVersion(row) == IF row.version = Null THEN 0 ELSE row.version

StructOf(n) == [name |-> n, data |-> rows[n].data, version |-> ReadVersion(rows[n])]

\* WHERE name = ? AND version = ?, which no NULL satisfies.
Matches(c) ==
    /\ Exists(held[c].name)
    /\ rows[held[c].name].version = held[c].version

HoldersOf(n) == {c \in Clients : held[c] # None /\ held[c].name = n}

Init ==
    /\ rows \in [Names -> [data : Data, version : {1, Null}] \cup {None}]
    /\ held = [c \in Clients |-> None]
    /\ deleting = [c \in Clients |-> None]
    /\ cursor = 0
    /\ scanned = <<>>
    /\ fresh = {}
    /\ reused = {}
    /\ lasting = {n \in Names : Exists(n)}

\* TypedStore::fetch.
Fetch(c) ==
    \E n \in Names :
        /\ deleting[c] = None
        /\ Exists(n)
        /\ held' = [held EXCEPT ![c] = StructOf(n)]
        /\ fresh' = fresh \cup {c}
        /\ reused' = reused \ {c}
        /\ UNCHANGED <<rows, deleting, scanVars, lasting>>

\* TypedStore::create; a DuplicateName changes nothing.
Create(c) ==
    \E n \in Names, d \in Data :
        /\ deleting[c] = None
        /\ ~Exists(n)
        /\ rows' = [rows EXCEPT ![n] = [data |-> d, version |-> 1]]
        /\ held' = [held EXCEPT ![c] = [name |-> n, data |-> d, version |-> 1]]
        /\ fresh' = fresh \cup {c}
        /\ reused' = reused \ {c}
        /\ UNCHANGED <<deleting, scanVars, lasting>>

\* Mutant: the version of the row is not compared.
Update_Blind(c) ==
    LET n == held[c].name IN
    \E d \in Data :
        /\ held[c] # None
        /\ deleting[c] = None
        /\ Exists(n)
        /\ held[c].version < MaxVersion
        /\ rows' = [rows EXCEPT ![n] = [data |-> d, version |-> held[c].version + 1]]
        /\ held' = [held EXCEPT ![c].data = d, ![c].version = @ + 1]
        /\ fresh' = (fresh \ HoldersOf(n)) \cup {c}
        /\ reused' = reused \ {c}
        /\ UNCHANGED <<deleting, scanVars, lasting>>

\* TypedStore::update; an OptimisticLock changes nothing.
Update(c) ==
    LET n == held[c].name IN
    \E d \in Data :
        /\ held[c] # None
        /\ deleting[c] = None
        /\ Matches(c)
        /\ held[c].version < MaxVersion
        /\ rows' = [rows EXCEPT ![n] = [data |-> d, version |-> held[c].version + 1]]
        /\ held' = [held EXCEPT ![c].data = d, ![c].version = @ + 1]
        /\ fresh' = (fresh \ HoldersOf(n)) \cup {c}
        /\ reused' = reused \ {c}
        /\ UNCHANGED <<deleting, scanVars, lasting>>

\* TypedStore::delete: the SELECT; NotFound and OptimisticLock change nothing.
\* The version is the one read, so a NULL read as 0 passes.
DeleteFind(c) ==
    LET n == held[c].name IN
    /\ held[c] # None
    /\ deleting[c] = None
    /\ Exists(n)
    /\ ReadVersion(rows[n]) = held[c].version
    /\ deleting' = [deleting EXCEPT ![c] = StructOf(n)]
    /\ UNCHANGED <<rows, held, scanVars, fresh, reused, lasting>>

\* Its DELETE, with the version once more; when it matches nothing the client is
\* told of a conflict.
DeleteRow(c) ==
    LET n == held[c].name IN
    /\ deleting[c] # None
    /\ deleting' = [deleting EXCEPT ![c] = None]
    /\ IF Matches(c)
       THEN /\ rows' = [rows EXCEPT ![n] = None]
            /\ fresh' = fresh \ HoldersOf(n)
            /\ reused' = reused \cup HoldersOf(n)
            /\ lasting' = lasting \ {n}
       ELSE UNCHANGED <<rows, fresh, reused, lasting>>
    /\ UNCHANGED <<held, scanVars>>

\* What parse_halo_extensions_dump makes of a dump: any rows, with NULL read as 0;
\* one without any is refused.
Dump ==
    {dump \in [Names -> [data : Data, version : 0..MaxVersion] \cup {None}] :
        \E n \in Names : dump[n] # None}

\* AnyPool::replace_all, from restore_halo_dump: one transaction.
ReplaceAll ==
    \E dump \in Dump :
        /\ rows' = dump
        /\ fresh' = {}
        /\ reused' = Clients
        /\ lasting' = {n \in lasting : dump[n] # None}
        /\ UNCHANGED <<held, deleting, scanVars>>

\* Mutant: the page is not sorted, so its last name is not its greatest.
IsPage_Unsorted(page) ==
    LET left == {n \in Names : Exists(n) /\ n > cursor}
        elements == {page[i] : i \in DOMAIN page}
    IN
    /\ elements \subseteq left
    /\ \A i, j \in DOMAIN page : i # j => page[i] # page[j]
    /\ Len(page) < PageSize => elements = left

\* list_by_prefix_paged: WHERE name > cursor ORDER BY name ASC LIMIT PageSize.
IsPage(page) ==
    LET left == {n \in Names : Exists(n) /\ n > cursor}
        elements == {page[i] : i \in DOMAIN page}
    IN
    /\ elements \subseteq left
    /\ \A i, j \in DOMAIN page : i < j => page[i] < page[j]
    /\ \A n \in left \ elements : \A m \in elements : m < n
    /\ Len(page) < PageSize => elements = left

Pages == UNION {[1..k -> Names] : k \in 0..PageSize}

\* A page, and the scan goes on after the last name of it.
ScanPage ==
    \E page \in Pages :
        /\ page # <<>>
        /\ IsPage(page)
        /\ scanned' = scanned \o page
        /\ cursor' = page[Len(page)]
        /\ UNCHANGED <<rows, held, deleting, fresh, reused, lasting>>

\* A new scan from the beginning.
ScanStart ==
    /\ cursor # 0
    /\ cursor' = 0
    /\ scanned' = <<>>
    /\ lasting' = {n \in Names : Exists(n)}
    /\ UNCHANGED <<rows, held, deleting, fresh, reused>>

Next ==
    \/ \E c \in Clients : Fetch(c) \/ Create(c) \/ Update(c) \/ DeleteFind(c) \/ DeleteRow(c)
    \/ ReplaceAll \/ ScanPage \/ ScanStart

Spec == Init /\ [][Next]_vars

-----------------------------------------------------------------------------
(* Properties.                                                             *)

TypeOK ==
    /\ rows \in [Names -> Row \cup {None}]
    /\ held \in [Clients -> Struct \cup {None}]
    /\ deleting \in [Clients -> Struct \cup {None}]
    /\ cursor \in Nat
    /\ scanned \in Seq(Names)
    /\ fresh \subseteq Clients
    /\ reused \subseteq Clients
    /\ lasting \subseteq Names
    /\ \A c \in Clients : deleting[c] # None => held[c] # None
    /\ \A c \in fresh : held[c] # None

\* An update or delete never destroys a change its client has not seen, except where
\* the name was deleted or restored, and versions began again, after the client read
\* it (TypedStore::update, delete).
NoLostUpdate ==
    [][\A c \in Clients :
          Update(c) \/ (DeleteRow(c) /\ rows' # rows) => c \in fresh \cup reused]_vars

\* A scan over pages returns the names in order, none twice, and when it has
\* come to the end every name that was in the table all the while, whatever is
\* written between its pages (list_by_prefix_paged).
ScanIsComplete ==
    /\ \A i, j \in DOMAIN scanned : i < j => scanned[i] < scanned[j]
    /\ \A n \in lasting : n <= cursor => \E i \in DOMAIN scanned : scanned[i] = n
=============================================================================
