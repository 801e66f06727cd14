------------------------------ MODULE Settings ------------------------------
(***************************************************************************)
(* Settings and config maps (clean_settings.rs).  One table holds the rows *)
(* of the `system' map, of every other map (`configmap.<map>.<key>') and   *)
(* the form schemas (`setting.<name>').  A write goes row by row, then the *)
(* map is put into the in-memory index, from which the public pages take   *)
(* the site's title.  Nothing is held between the statements.              *)
(***************************************************************************)
EXTENDS Server, Naturals, FiniteSets, FiniteSetsExt

CONSTANTS
    Keys,       \* row keys, numbered in the order of a BTreeMap
    Values,
    Junk,       \* values that are no form schema
    Maps,       \* names of config maps other than `system'
    System,     \* the `system' map
    Form,       \* stands for the map that form schemas would be
    KeysOf,     \* the rows that the LIKE pattern of each map matches
    TitleKey,   \* "site.title"
    BasicKey,   \* "basic", a JSON object with a title of its own
    Untitled,   \* the title of a site with neither, "rblog"
    Payloads    \* bound: the maps and data that clients send

Data == [Keys -> Values \cup {None}]
Everything == Maps \cup {System, Form}
Empty == [k \in Keys |-> None]
KeysIn(data) == {k \in Keys : data[k] # None}

\* Rows of `system' and form schemas have one owner; a map `a' also matches the
\* rows of a map `a.b', and the payload of `system' may name any row.
ASSUME SettingsAssumption ==
    /\ Keys \subseteq Nat /\ IsFiniteSet(Keys)
    /\ None \notin Values /\ Junk \subseteq Values
    /\ System \notin Maps /\ Form \notin Maps /\ System # Form
    /\ KeysOf \in [Everything -> SUBSET Keys]
    /\ \A m \in Everything \ {System} : KeysOf[m] \cap KeysOf[System] = {}
    /\ \A m \in Everything \ {Form} : KeysOf[m] \cap KeysOf[Form] = {}
    /\ {TitleKey, BasicKey} \subseteq KeysOf[System]
    /\ Payloads \subseteq (Maps \cup {System}) \X Data
    /\ \A p \in Payloads : p[1] # System => KeysIn(p[2]) \subseteq KeysOf[p[1]]

VARIABLES
    rows,       \* site_settings
    shown,      \* the index entry of `system'; those of other maps are never read
    op,         \* the handlers
    crossed,    \* history: handlers that overlap another one on their rows
    suspect,    \* history: maps whose last change may be torn or not shown
    lastPut     \* history: what the last finished PUT of each map sent

settingsVars == <<rows, shown, op, crossed, suspect, lastPut>>

Stages == {"idle", "clear", "write", "index", "form"}
Op == [at : Stages, map : Everything \cup {None}, data : Data, left : SUBSET Keys,
       get : BOOLEAN]
Rest == [at |-> "idle", map |-> None, data |-> Empty, left |-> {}, get |-> FALSE]

-----------------------------------------------------------------------------
\* load_system, load_prefixed.
Stored(m) == [k \in Keys |-> IF k \in KeysOf[m] THEN rows[k] ELSE None]

\* site_block: the title under its own key, else the one in `basic', else a default.
Title(data) ==
    CASE data[TitleKey] # None -> data[TitleKey]
      [] data[TitleKey] = None /\ data[BasicKey] # None -> data[BasicKey]
      [] OTHER -> Untitled

Reach(o) == IF o.at = "idle" THEN {} ELSE KeysOf[o.map] \cup KeysIn(o.data)
Rivals(r, o) == {q \in Requests \ {r} : Reach(op[q]) \cap Reach(o) # {}}
\* Maps that have rows among those a handler reaches.
Touched(o) == {m \in Maps \cup {System} : KeysOf[m] \cap Reach(o) # {}}
\* The data is all that the map has, and nothing else.
Whole(o) == o.get \/ o.map # System
            \/ /\ KeysIn(Stored(System)) \subseteq KeysIn(o.data)
               /\ KeysIn(o.data) \subseteq KeysOf[System]
HasWritten(o) == o.at \in {"write", "index"} /\ ~o.get

SettingsInit ==
    /\ rows = Empty
    /\ shown = Empty
    /\ op = [r \in Requests |-> Rest]
    /\ crossed = {}
    /\ suspect = {}
    /\ lastPut = [m \in Maps |-> Empty]

Begin(r, o) ==
    /\ op[r].at = "idle"
    /\ op' = [op EXCEPT ![r] = o]
    /\ crossed' = IF Rivals(r, o) = {} THEN crossed
                  ELSE crossed \cup Rivals(r, o) \cup {r}

\* upsert: `system' is written over, every other map is deleted first.
PutMap(r) ==
    \E p \in Payloads :
        /\ Begin(r, [at |-> IF p[1] # System THEN "clear"
                            ELSE IF KeysIn(p[2]) = {} THEN "index" ELSE "write",
                     map |-> p[1], data |-> p[2], left |-> KeysIn(p[2]), get |-> FALSE])
        /\ UNCHANGED <<rows, shown, suspect, lastPut>>

\* system(): the rows are loaded, and about to be put into the index.
GetSystem(r) ==
    /\ Begin(r, [at |-> "index", map |-> System, data |-> Stored(System),
                 left |-> {}, get |-> TRUE])
    /\ UNCHANGED <<rows, shown, suspect, lastPut>>

\* Mutant: the rows that the new data does not name stay.
Clear_Keeps(r) ==
    /\ op[r].at = "clear"
    /\ op' = [op EXCEPT ![r].at = IF op[r].left = {} THEN "index" ELSE "write"]
    /\ UNCHANGED <<rows, shown, crossed, suspect, lastPut>>

\* delete_prefixed.
Clear(r) ==
    /\ op[r].at = "clear"
    /\ rows' = [k \in Keys |-> IF k \in KeysOf[op[r].map] THEN None ELSE rows[k]]
    /\ op' = [op EXCEPT ![r].at = IF op[r].left = {} THEN "index" ELSE "write"]
    /\ UNCHANGED <<shown, crossed, suspect, lastPut>>

\* upsert_key, for the next key of the data.
WriteKey(r) ==
    LET k == Min(op[r].left)
        rest == op[r].left \ {k}
    IN
    /\ op[r].at = "write"
    /\ rows' = [rows EXCEPT ![k] = op[r].data[k]]
    /\ op' = [op EXCEPT ![r].left = rest, ![r].at = IF rest = {} THEN "index" ELSE @]
    /\ UNCHANGED <<shown, crossed, suspect, lastPut>>

\* Mutant: only a read of `system' is put into the index.
IndexMap_NotPut(r) ==
    LET m == op[r].map IN
    /\ op[r].at = "index"
    /\ shown' = IF op[r].get THEN op[r].data ELSE shown
    /\ op' = [op EXCEPT ![r] = Rest]
    /\ lastPut' = IF m \in Maps THEN [lastPut EXCEPT ![m] = op[r].data] ELSE lastPut
    /\ suspect' = IF op[r].get /\ r \notin crossed THEN suspect \ {m}
                  ELSE IF r \notin crossed /\ Whole(op[r])
                  THEN (suspect \cup Touched(op[r])) \ {m}
                  ELSE suspect \cup Touched(op[r])
    /\ crossed' = crossed \ {r}
    /\ UNCHANGED rows

\* indexed_configmap, with the data that was sent or loaded.
IndexMap(r) ==
    LET m == op[r].map IN
    /\ op[r].at = "index"
    /\ shown' = IF m = System THEN op[r].data ELSE shown
    /\ op' = [op EXCEPT ![r] = Rest]
    /\ lastPut' = IF m \in Maps THEN [lastPut EXCEPT ![m] = op[r].data] ELSE lastPut
    /\ suspect' = IF op[r].get /\ r \notin crossed THEN suspect \ {m}
                  ELSE IF r \notin crossed /\ Whole(op[r])
                  THEN (suspect \cup Touched(op[r])) \ {m}
                  ELSE suspect \cup Touched(op[r])
    /\ crossed' = crossed \ {r}
    /\ UNCHANGED rows

\* upsert_setting reads the schema first, and fails if what is stored is none.
ReadForm(r) ==
    \E k \in KeysOf[Form], v \in Values \ Junk :
        /\ rows[k] \notin Junk
        /\ Begin(r, [at |-> "form", map |-> Form, data |-> [Empty EXCEPT ![k] = v],
                     left |-> {k}, get |-> FALSE])
        /\ UNCHANGED <<rows, shown, suspect, lastPut>>

\* SettingService::upsert.
WriteForm(r) ==
    /\ op[r].at = "form"
    /\ rows' = [k \in Keys |-> IF k \in op[r].left THEN op[r].data[k] ELSE rows[k]]
    /\ op' = [op EXCEPT ![r] = Rest]
    /\ crossed' = crossed \ {r}
    /\ UNCHANGED <<shown, suspect, lastPut>>

\* The client hangs up, or a statement fails.
AbandonPut(r) ==
    /\ op[r].at # "idle"
    /\ op' = [op EXCEPT ![r] = Rest]
    /\ crossed' = crossed \ {r}
    /\ suspect' = IF HasWritten(op[r]) THEN suspect \cup Touched(op[r]) ELSE suspect
    /\ UNCHANGED <<rows, shown, lastPut>>

\* A stop and a boot: resync_all.
SettingsRestart ==
    /\ shown' = Stored(System)
    /\ op' = [r \in Requests |-> Rest]
    /\ crossed' = {}
    /\ suspect' = (suspect \cup UNION {Touched(op[r]) : r \in {q \in Requests :
                                                          HasWritten(op[q])}})
                  \ {System}
    /\ UNCHANGED <<rows, lastPut>>

SettingsWork(r) ==
    \/ PutMap(r) \/ GetSystem(r) \/ Clear(r) \/ WriteKey(r) \/ IndexMap(r)
    \/ ReadForm(r) \/ WriteForm(r)

SettingsNext ==
    \/ \E r \in Requests : SettingsWork(r) \/ AbandonPut(r)
    \/ SettingsRestart

SettingsSpec == SettingsInit /\ [][SettingsNext]_settingsVars

-----------------------------------------------------------------------------
(* Properties.                                                             *)

SettingsTypeOK ==
    /\ rows \in Data
    /\ shown \in Data
    /\ op \in [Requests -> Op]
    /\ crossed \subseteq Requests
    /\ suspect \subseteq Maps \cup {System}
    /\ lastPut \in [Maps -> Data]
    /\ \A r \in Requests : op[r].at = "write" => op[r].left # {}

Settled(m) == \A r \in Requests : m \notin Touched(op[r])

\* The public pages have the title that is stored, although they read it from an
\* entry that a GET writes too (system(), site_block). The exceptions are a PUT of
\* a part of the map, which indexes only that part, and handlers that overlapped or
\* were dropped; the next GET or boot by itself repairs all of them.
SiteShowsWhatIsStored ==
    System \notin suspect /\ Settled(System) => Title(shown) = Title(Stored(System))

\* A config map that is deleted and written key by key (upsert) has exactly the
\* keys of one PUT, unless handlers overlapped on it or were dropped, or a map
\* with a shorter name, or a key of the system map, reaches its rows.
MapIsOnePut ==
    \A m \in Maps \ suspect : Settled(m) => Stored(m) = lastPut[m]

=============================================================================
