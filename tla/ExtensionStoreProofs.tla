------------------------ MODULE ExtensionStoreProofs ------------------------
(***************************************************************************)
(* Proofs about ExtensionStore, for any names, clients and page size: its  *)
(* types, that an update overwrites nothing its client has not seen, and   *)
(* that a scan over pages is complete.                                     *)
(***************************************************************************)
EXTENDS ExtensionStore, TLAPS

\* A client not up to date knows an older version than the row has now, unless
\* the row was removed since; one up to date knows the version as it reads.
HeldOK ==
    \A c \in Clients :
        held[c] # None /\ c \notin reused =>
            /\ Exists(held[c].name)
            /\ IF c \in fresh
               THEN ReadVersion(rows[held[c].name]) = held[c].version
               ELSE /\ rows[held[c].name].version # Null
                    /\ rows[held[c].name].version > held[c].version

\* The scan has gone no further than its cursor, and what has lasted is there.
ScanOK ==
    /\ \A i \in DOMAIN scanned : scanned[i] <= cursor
    /\ \A n \in lasting : Exists(n)
    /\ ScanIsComplete

LEMMA StoreInitType == Init => TypeOK
  <1> SUFFICES ASSUME Init PROVE TypeOK
    OBVIOUS
  <1>1. rows \in [Names -> Row \cup {None}]
    BY SMT, StoreAssumption DEF Init, Row
  <1>2. held \in [Clients -> Struct \cup {None}] /\ deleting \in [Clients -> Struct \cup {None}]
    BY DEF Init
  <1>3. scanned \in Seq(Names)
    BY DEF Init
  <1> QED
    BY <1>1, <1>2, <1>3 DEF Init, TypeOK

\* A struct read from an existing row is one.
LEMMA StructOfType ==
    ASSUME TypeOK, NEW n \in Names, Exists(n)
    PROVE  StructOf(n) \in Struct
  <1>1. rows[n] \in Row
    BY DEF TypeOK, Exists
  <1>2. ReadVersion(rows[n]) \in Nat
    BY <1>1, StoreAssumption DEF Row, ReadVersion
  <1> QED
    BY <1>1, <1>2 DEF StructOf, Struct, Row

\* Rows written by a create, an update or a dump are rows.
LEMMA WrittenRowType ==
    ASSUME NEW d \in Data, NEW v \in Nat, NEW n \in Names
    PROVE  /\ [data |-> d, version |-> v] \in Row
           /\ [name |-> n, data |-> d, version |-> v] \in Struct
  BY DEF Row, Struct

LEMMA HolderIsNamed ==
    ASSUME TypeOK, NEW c \in Clients, held[c] # None
    PROVE  held[c] \in Struct /\ held[c].name \in Names /\ held[c].version \in Nat
  BY DEF TypeOK, Struct

LEMMA PageType ==
    ASSUME NEW page \in Pages, page # <<>>
    PROVE  /\ page \in Seq(Names)
           /\ Len(page) \in DOMAIN page
           /\ DOMAIN page = 1..Len(page)
           /\ page[Len(page)] \in Names
  <1>1. PICK k \in 0..PageSize : page \in [1..k -> Names]
    BY DEF Pages
  <1>2. k \in Nat
    BY StoreAssumption
  <1>3. page \in Seq(Names) /\ Len(page) = k /\ DOMAIN page = 1..k
    BY <1>1, <1>2
  <1>4. k # 0
    BY <1>3
  <1> QED
    BY <1>1, <1>2, <1>3, <1>4
\* What an update that succeeds has met and what it leaves.
LEMMA UpdateStep ==
    ASSUME TypeOK, NEW c \in Clients, Update(c)
    PROVE  \E d \in Data :
             /\ held[c] # None
             /\ deleting[c] = None
             /\ Matches(c)
             /\ rows' = [rows EXCEPT ![held[c].name] = [data |-> d, version |-> held[c].version + 1]]
             /\ held' = [held EXCEPT ![c] = [name |-> held[c].name, data |-> d,
                                             version |-> held[c].version + 1]]
             /\ fresh' = (fresh \ HoldersOf(held[c].name)) \cup {c}
             /\ reused' = reused \ {c}
             /\ UNCHANGED <<deleting, scanVars, lasting>>
  <1>1. PICK d \in Data :
          /\ held[c] # None
          /\ deleting[c] = None
          /\ Matches(c)
          /\ rows' = [rows EXCEPT ![held[c].name] = [data |-> d, version |-> held[c].version + 1]]
          /\ held' = [held EXCEPT ![c].data = d, ![c].version = @ + 1]
          /\ fresh' = (fresh \ HoldersOf(held[c].name)) \cup {c}
          /\ reused' = reused \ {c}
          /\ UNCHANGED <<deleting, scanVars, lasting>>
    BY DEF Update
  <1>2. held \in [Clients -> Struct \cup {None}] /\ held[c] \in Struct
    BY <1>1 DEF TypeOK
  <1>3. held' = [held EXCEPT ![c] = [name |-> held[c].name, data |-> d,
                                     version |-> held[c].version + 1]]
    BY <1>1, <1>2 DEF Struct
  <1> QED
    BY <1>1, <1>3

\* TypeOK holds in every reachable state of ExtensionStore.
THEOREM StoreTypeOK == Spec => []TypeOK
  <1>1. TypeOK /\ [Next]_vars => TypeOK'
    <2> SUFFICES ASSUME TypeOK, [Next]_vars PROVE TypeOK'
      OBVIOUS
    <2>1. ASSUME NEW c \in Clients, Fetch(c) PROVE TypeOK'
      <3>1. PICK n \in Names : Fetch(c)!(n)
        BY <2>1 DEF Fetch
      <3>2. StructOf(n) \in Struct
        BY <3>1, StructOfType
      <3> QED
        BY <3>1, <3>2, NoneIsNoStruct DEF TypeOK, scanVars
    <2>2. ASSUME NEW c \in Clients, Create(c) PROVE TypeOK'
      <3>1. PICK n \in Names, d \in Data : Create(c)!(n, d)
        BY <2>2 DEF Create
      <3>2. /\ [data |-> d, version |-> 1] \in Row
            /\ [name |-> n, data |-> d, version |-> 1] \in Struct
        BY WrittenRowType
      <3> QED
        BY <3>1, <3>2, NoneIsNoStruct DEF TypeOK, scanVars
    <2>3. ASSUME NEW c \in Clients, Update(c) PROVE TypeOK'
      <3>1. PICK d \in Data :
              /\ held[c] # None
              /\ rows' = [rows EXCEPT ![held[c].name] =
                             [data |-> d, version |-> held[c].version + 1]]
              /\ held' = [held EXCEPT ![c] = [name |-> held[c].name, data |-> d,
                                              version |-> held[c].version + 1]]
              /\ fresh' = (fresh \ HoldersOf(held[c].name)) \cup {c}
              /\ reused' = reused \ {c}
              /\ UNCHANGED <<deleting, scanVars, lasting>>
        BY <2>3, UpdateStep
      <3>2. held[c].name \in Names /\ held[c].version + 1 \in Nat
        BY <3>1, HolderIsNamed
      <3>3. /\ [data |-> d, version |-> held[c].version + 1] \in Row
            /\ [name |-> held[c].name, data |-> d, version |-> held[c].version + 1] \in Struct
        BY <3>2, WrittenRowType
      <3> QED
        BY <3>1, <3>3, NoneIsNoStruct DEF TypeOK, scanVars
    <2>4. ASSUME NEW c \in Clients, DeleteFind(c) PROVE TypeOK'
      <3>1. held[c] # None /\ held[c].name \in Names /\ Exists(held[c].name)
        BY <2>4, HolderIsNamed DEF DeleteFind
      <3>2. StructOf(held[c].name) \in Struct
        BY <3>1, StructOfType
      <3> QED
        BY <2>4, <3>1, <3>2 DEF DeleteFind, TypeOK, scanVars
    <2>5. ASSUME NEW c \in Clients, DeleteRow(c) PROVE TypeOK'
      <3>1. HoldersOf(held[c].name) \subseteq Clients
        BY DEF HoldersOf
      <3>2. /\ rows' \in [Names -> Row \cup {None}]
            /\ fresh' \subseteq fresh /\ reused' \subseteq Clients /\ lasting' \subseteq Names
        BY <2>5, <3>1 DEF DeleteRow, TypeOK
      <3> QED
        BY <2>5, <3>2 DEF DeleteRow, TypeOK, scanVars
    <2>6. ASSUME ReplaceAll PROVE TypeOK'
      <3>1. PICK dump \in Dump : ReplaceAll!(dump)
        BY <2>6 DEF ReplaceAll
      <3>2. dump \in [Names -> Row \cup {None}]
        BY SMT, StoreAssumption DEF Dump, Row
      <3> QED
        BY <3>1, <3>2 DEF TypeOK, scanVars
    <2>7. ASSUME ScanPage PROVE TypeOK'
      <3>1. PICK page \in Pages : ScanPage!(page)
        BY <2>7 DEF ScanPage
      <3>2. page \in Seq(Names) /\ page[Len(page)] \in Nat
        BY <3>1, PageType, StoreAssumption
      <3> QED
        BY <3>1, <3>2 DEF TypeOK
    <2>8. ASSUME ScanStart PROVE TypeOK'
      BY <2>8 DEF ScanStart, TypeOK
    <2>9. CASE UNCHANGED vars
      BY <2>9 DEF vars, TypeOK
    <2> QED
      BY <2>1, <2>2, <2>3, <2>4, <2>5, <2>6, <2>7, <2>8, <2>9 DEF Next
  <1> QED
    BY <1>1, StoreInitType, PTL DEF Spec
LEMMA HeldInit == Init => HeldOK
  BY DEF Init, HeldOK

\* A client that writes or reads a row knows it; the others know no more of it.
LEMMA HeldStep == TypeOK /\ HeldOK /\ [Next]_vars => HeldOK'
  <1> SUFFICES ASSUME TypeOK, HeldOK, [Next]_vars PROVE HeldOK'
    OBVIOUS
  <1> USE DEF Exists
  <1>1. ASSUME NEW c \in Clients, Fetch(c) PROVE HeldOK'
    <2>1. PICK n \in Names : Fetch(c)!(n)
      BY <1>1 DEF Fetch
    <2>2. held'[c] = StructOf(n)
      BY <2>1 DEF TypeOK
    <2>3. \A d \in Clients \ {c} : held'[d] = held[d] /\ (d \in fresh' <=> d \in fresh)
                                  /\ (d \in reused' <=> d \in reused)
      BY <2>1 DEF TypeOK
    <2> QED
      BY <2>1, <2>2, <2>3 DEF HeldOK, StructOf, ReadVersion
  <1>2. ASSUME NEW c \in Clients, Create(c) PROVE HeldOK'
    <2>1. PICK n \in Names, d \in Data : Create(c)!(n, d)
      BY <1>2 DEF Create
    <2>2. /\ held'[c] = [name |-> n, data |-> d, version |-> 1]
          /\ rows'[n] = [data |-> d, version |-> 1]
          /\ \A m \in Names \ {n} : rows'[m] = rows[m]
      BY <2>1 DEF TypeOK
    <2>3. rows'[n] # None
      BY <2>1, <2>2, WrittenRowType, NoneIsNoStruct
    <2>4. \A e \in Clients \ {c} : held'[e] = held[e] /\ (e \in fresh' <=> e \in fresh)
                                  /\ (e \in reused' <=> e \in reused)
      BY <2>1 DEF TypeOK
    <2>5. \A e \in Clients \ {c} : held[e] # None /\ e \notin reused => held[e].name \in Names \ {n}
      BY <2>1, HolderIsNamed DEF HeldOK
    <2> QED
      BY <2>1, <2>2, <2>3, <2>4, <2>5, StoreAssumption DEF HeldOK, ReadVersion
  <1>3. ASSUME NEW c \in Clients, Update(c) PROVE HeldOK'
    <2> DEFINE n == held[c].name
    <2>1. PICK d \in Data :
            /\ held[c] # None
            /\ Matches(c)
            /\ rows' = [rows EXCEPT ![n] = [data |-> d, version |-> held[c].version + 1]]
            /\ held' = [held EXCEPT ![c] = [name |-> n, data |-> d,
                                            version |-> held[c].version + 1]]
            /\ fresh' = (fresh \ HoldersOf(n)) \cup {c}
            /\ reused' = reused \ {c}
      BY <1>3, UpdateStep
    <2>2. n \in Names /\ held[c].version \in Nat
      BY <2>1, HolderIsNamed
    <2>3. /\ held'[c] = [name |-> n, data |-> d, version |-> held[c].version + 1]
          /\ rows'[n] = [data |-> d, version |-> held[c].version + 1]
          /\ \A m \in Names \ {n} : rows'[m] = rows[m]
          /\ \A e \in Clients \ {c} : held'[e] = held[e]
      BY <2>1, <2>2 DEF TypeOK
    <2>4. rows'[n] # None /\ rows'[n].version # Null
      BY <2>2, <2>3, WrittenRowType, NoneIsNoStruct, StoreAssumption
    <2>5. rows[n].version = held[c].version
      BY <2>1 DEF Matches
    <2>6. ASSUME NEW e \in Clients, held'[e] # None, e \notin reused'
          PROVE  /\ rows'[held'[e].name] # None
                 /\ IF e \in fresh'
                    THEN ReadVersion(rows'[held'[e].name]) = held'[e].version
                    ELSE /\ rows'[held'[e].name].version # Null
                         /\ rows'[held'[e].name].version > held'[e].version
      <3>1. CASE e = c
        BY <2>1, <2>3, <2>4, <3>1 DEF ReadVersion
      <3>2. CASE e # c /\ held[e].name = n
        <4>1. held[e] # None /\ e \notin reused /\ e \notin fresh' /\ held'[e] = held[e]
          BY <2>1, <2>3, <2>6, <3>2 DEF HoldersOf
        <4>2. held[e].version \in Nat
          BY <4>1, HolderIsNamed
        <4>3. held[e].version <= held[c].version
          BY <2>2, <2>5, <3>2, <4>1, <4>2, StoreAssumption DEF HeldOK, ReadVersion
        <4> QED
          BY <2>2, <2>3, <2>4, <3>2, <4>1, <4>2, <4>3
      <3>3. CASE e # c /\ held[e].name # n
        <4>1. /\ held[e] # None /\ e \notin reused /\ held'[e] = held[e]
              /\ (e \in fresh' <=> e \in fresh)
          BY <2>1, <2>3, <2>6, <3>3 DEF HoldersOf
        <4>2. rows'[held[e].name] = rows[held[e].name]
          BY <2>3, <3>3, <4>1, HolderIsNamed
        <4> QED
          BY <4>1, <4>2 DEF HeldOK
      <3> QED
        BY <3>1, <3>2, <3>3
    <2> QED
      BY <2>6 DEF HeldOK
  <1>4. ASSUME NEW c \in Clients, DeleteFind(c) PROVE HeldOK'
    BY <1>4 DEF DeleteFind, HeldOK
  <1>5. ASSUME NEW c \in Clients, DeleteRow(c) PROVE HeldOK'
    <2>1. CASE ~Matches(c)
      BY <1>5, <2>1 DEF DeleteRow, HeldOK
    <2>2. CASE Matches(c)
      <3>1. /\ rows' = [rows EXCEPT ![held[c].name] = None]
            /\ fresh' = fresh \ HoldersOf(held[c].name)
            /\ reused' = reused \cup HoldersOf(held[c].name)
            /\ held' = held
        BY <1>5, <2>2 DEF DeleteRow
      <3>2. \A e \in Clients : held[e] # None /\ e \notin reused' =>
              /\ held[e].name # held[c].name /\ e \notin reused
              /\ (e \in fresh' <=> e \in fresh)
              /\ rows'[held[e].name] = rows[held[e].name]
        BY <3>1, HolderIsNamed DEF HoldersOf, TypeOK
      <3> QED
        BY <3>1, <3>2 DEF HeldOK
    <2> QED
      BY <2>1, <2>2
  <1>6. ASSUME ReplaceAll PROVE HeldOK'
    BY <1>6 DEF ReplaceAll, HeldOK
  <1>7. ASSUME ScanPage \/ ScanStart PROVE HeldOK'
    BY <1>7 DEF ScanPage, ScanStart, HeldOK
  <1>8. CASE UNCHANGED vars
    BY <1>8 DEF vars, HeldOK
  <1> QED
    BY <1>1, <1>2, <1>3, <1>4, <1>5, <1>6, <1>7, <1>8 DEF Next

\* An update or delete never destroys a change its client has not seen, except of a
\* name removed since the client read it.
THEOREM StoreNoLostUpdate == Spec => NoLostUpdate
  <1> DEFINE Writes(c) == Update(c) \/ (DeleteRow(c) /\ rows' # rows)
  <1>1. TypeOK /\ HeldOK => \A c \in Clients : Writes(c) => c \in fresh \cup reused
    <2> SUFFICES ASSUME TypeOK, HeldOK, NEW c \in Clients, Writes(c), c \notin reused
                 PROVE  c \in fresh
      OBVIOUS
    <2>1. held[c] # None /\ Matches(c)
      <3>1. CASE Update(c)
        BY <3>1, UpdateStep
      <3>2. CASE DeleteRow(c) /\ rows' # rows
        BY <3>2 DEF DeleteRow, TypeOK
      <3> QED
        BY <3>1, <3>2
    <2>2. held[c].version \in Nat
      BY <2>1, HolderIsNamed
    <2> QED
      BY <2>1, <2>2 DEF HeldOK, Matches
  <1>2. TypeOK /\ HeldOK /\ [Next]_vars =>
          [\A c \in Clients : Writes(c) => c \in fresh \cup reused]_vars
    BY <1>1
  <1> QED
    BY <1>2, StoreTypeOK, HeldInit, HeldStep, PTL DEF Spec, NoLostUpdate

\* A page takes the scan on to its last name.
LEMMA ScanPageStep ==
    ASSUME TypeOK, ScanOK, ScanPage
    PROVE  ScanOK'
  <1>1. PICK page \in Pages : ScanPage!(page)
    BY DEF ScanPage
  <1> DEFINE last == page[Len(page)]
  <1>2. /\ page \in Seq(Names) /\ DOMAIN page = 1..Len(page)
        /\ Len(page) \in DOMAIN page /\ last \in Names /\ Names \subseteq Nat
    BY <1>1, PageType, StoreAssumption
  <1>3. /\ \A i \in DOMAIN page : page[i] \in Names /\ Exists(page[i]) /\ page[i] > cursor
        /\ \A i, j \in DOMAIN page : i < j => page[i] < page[j]
        /\ \A n \in Names : Exists(n) /\ n > cursor =>
              \/ \E i \in DOMAIN page : page[i] = n
              \/ \A i \in DOMAIN page : page[i] < n
    BY <1>1 DEF IsPage
  <1>4. /\ scanned' = scanned \o page /\ cursor' = last
        /\ lasting' = lasting /\ rows' = rows
    BY <1>1
  <1>5. /\ scanned \in Seq(Names) /\ cursor \in Nat /\ lasting \subseteq Names
    BY DEF TypeOK
  <1>6. ASSUME NEW i \in DOMAIN page
        PROVE  page[i] \in Nat /\ page[i] <= last
    <2>1. page[i] \in Nat /\ last \in Nat
      BY <1>2, <1>3
    <2>2. i = Len(page) \/ i < Len(page)
      BY <1>2
    <2>3. i < Len(page) => page[i] < last
      BY <1>2, <1>3
    <2> QED
      BY <2>1, <2>2, <2>3
  <1>7. cursor < last /\ last \in Nat
    BY <1>2, <1>3
  <1>8. /\ DOMAIN scanned = 1..Len(scanned)
        /\ Len(scanned) \in Nat /\ Len(page) \in Nat
        /\ DOMAIN scanned' = 1..(Len(scanned) + Len(page))
        /\ \A i \in DOMAIN scanned : scanned'[i] = scanned[i]
        /\ \A i \in DOMAIN page : scanned'[i + Len(scanned)] = page[i]
    BY <1>2, <1>4, <1>5
  <1>9. ASSUME NEW i \in DOMAIN scanned'
        PROVE  \/ i \in DOMAIN scanned /\ scanned'[i] = scanned[i]
               \/ \E k \in DOMAIN page : i = k + Len(scanned) /\ scanned'[i] = page[k]
    <2>1. CASE i \in DOMAIN scanned
      BY <1>8, <2>1
    <2>2. CASE i \notin DOMAIN scanned
      <3>1. i - Len(scanned) \in DOMAIN page /\ i = (i - Len(scanned)) + Len(scanned)
        BY <1>2, <1>8, <2>2
      <3> QED
        BY <1>8, <3>1
    <2> QED
      BY <2>1, <2>2
  <1>10. \A i \in DOMAIN scanned : scanned[i] \in Nat /\ scanned[i] <= cursor
    <2>1. \A i \in DOMAIN scanned : scanned[i] \in Names
      BY <1>5
    <2> QED
      BY <1>2, <2>1 DEF ScanOK
  <1>11. \A i \in DOMAIN scanned' : scanned'[i] <= cursor'
    BY <1>4, <1>5, <1>6, <1>7, <1>9, <1>10
  <1>12. ASSUME NEW i \in DOMAIN scanned', NEW j \in DOMAIN scanned', i < j
         PROVE  scanned'[i] < scanned'[j]
    <2>1. CASE j \in DOMAIN scanned
      BY <1>8, <1>12, <2>1 DEF ScanOK, ScanIsComplete
    <2>2. CASE i \in DOMAIN scanned /\ j \notin DOMAIN scanned
      <3>1. PICK k \in DOMAIN page : scanned'[j] = page[k]
        BY <1>9, <2>2
      <3> QED
        BY <1>3, <1>5, <1>6, <1>8, <1>10, <2>2, <3>1
    <2>3. CASE i \notin DOMAIN scanned /\ j \notin DOMAIN scanned
      <3>1. PICK k \in DOMAIN page : i = k + Len(scanned) /\ scanned'[i] = page[k]
        BY <1>9, <2>3
      <3>2. PICK l \in DOMAIN page : j = l + Len(scanned) /\ scanned'[j] = page[l]
        BY <1>9, <2>3
      <3>3. k < l
        BY <1>2, <1>8, <1>12, <3>1, <3>2
      <3> QED
        BY <1>3, <3>1, <3>2, <3>3
    <2> QED
      BY <1>8, <1>12, <2>1, <2>2, <2>3
  <1>13. ASSUME NEW n \in lasting, n <= last
         PROVE  \E i \in DOMAIN scanned' : scanned'[i] = n
    <2>1. n \in Nat /\ n \in Names /\ Exists(n)
      BY <1>2, <1>5 DEF ScanOK
    <2>2. CASE n <= cursor
      <3>1. PICK i \in DOMAIN scanned : scanned[i] = n
        BY <2>2 DEF ScanOK, ScanIsComplete
      <3>2. i \in DOMAIN scanned'
        BY <1>8
      <3> QED
        BY <1>8, <3>1, <3>2
    <2>3. CASE n > cursor
      <3>1. PICK i \in DOMAIN page : page[i] = n
        BY <1>2, <1>3, <1>7, <1>13, <2>1, <2>3
      <3>2. i + Len(scanned) \in DOMAIN scanned'
        BY <1>2, <1>8
      <3> QED
        BY <1>8, <3>1, <3>2
    <2> QED
      BY <1>5, <2>1, <2>2, <2>3
  <1>14. \A n \in lasting : rows'[n] # None
    BY <1>4 DEF ScanOK, Exists
  <1> QED
    BY <1>4, <1>11, <1>12, <1>13, <1>14 DEF ScanOK, ScanIsComplete, Exists

LEMMA ScanInit == Init => ScanOK
  BY StoreAssumption DEF Init, ScanOK, ScanIsComplete

LEMMA ScanStep == TypeOK /\ ScanOK /\ [Next]_vars => ScanOK'
  <1> SUFFICES ASSUME TypeOK, ScanOK, [Next]_vars PROVE ScanOK'
    OBVIOUS
  <1>1. ASSUME UNCHANGED scanVars, lasting' \subseteq lasting,
               \A n \in lasting' : rows'[n] # None
        PROVE  ScanOK'
    BY <1>1 DEF ScanOK, ScanIsComplete, Exists, scanVars
  <1>2. ASSUME NEW c \in Clients, Fetch(c) \/ DeleteFind(c) PROVE ScanOK'
    BY <1>1, <1>2 DEF Fetch, DeleteFind, ScanOK, Exists
  <1>3. ASSUME NEW c \in Clients, Create(c) PROVE ScanOK'
    <2>1. PICK n \in Names, d \in Data : Create(c)!(n, d)
      BY <1>3 DEF Create
    <2>2. \A m \in lasting : m # n /\ rows'[m] = rows[m]
      BY <2>1 DEF ScanOK, TypeOK
    <2> QED
      BY <1>1, <2>1, <2>2 DEF ScanOK, Exists
  <1>4. ASSUME NEW c \in Clients, Update(c) PROVE ScanOK'
    <2>1. PICK d \in Data :
            /\ held[c] # None
            /\ rows' = [rows EXCEPT ![held[c].name] =
                           [data |-> d, version |-> held[c].version + 1]]
            /\ UNCHANGED <<scanVars, lasting>>
      BY <1>4, UpdateStep
    <2>2. held[c].name \in Names /\ held[c].version + 1 \in Nat
      BY <2>1, HolderIsNamed
    <2>3. [data |-> d, version |-> held[c].version + 1] # None
      BY <2>2, WrittenRowType, NoneIsNoStruct
    <2>4. \A m \in lasting : rows'[m] # None
      BY <2>1, <2>2, <2>3 DEF TypeOK, ScanOK, Exists
    <2> QED
      BY <1>1, <2>1, <2>4
  <1>5. ASSUME NEW c \in Clients, DeleteRow(c) PROVE ScanOK'
    <2>1. /\ UNCHANGED scanVars /\ lasting' \subseteq lasting
          /\ \A m \in lasting' : rows'[m] = rows[m]
      BY <1>5 DEF DeleteRow, TypeOK
    <2> QED
      BY <1>1, <2>1 DEF ScanOK, Exists
  <1>6. ASSUME ReplaceAll PROVE ScanOK'
    BY <1>1, <1>6 DEF ReplaceAll
  <1>7. ASSUME ScanPage PROVE ScanOK'
    BY <1>7, ScanPageStep
  <1>8. ASSUME ScanStart PROVE ScanOK'
    BY <1>8, StoreAssumption DEF ScanStart, ScanOK, ScanIsComplete, Exists
  <1>9. CASE UNCHANGED vars
    BY <1>1, <1>9 DEF vars, scanVars, ScanOK, Exists
  <1> QED
    BY <1>2, <1>3, <1>4, <1>5, <1>6, <1>7, <1>8, <1>9 DEF Next

\* A scan over pages misses no name that was in the table all the while and
\* returns none twice, whatever is written between its pages.
THEOREM StoreScanIsComplete == Spec => []ScanIsComplete
  <1>1. ScanOK => ScanIsComplete
    BY DEF ScanOK
  <1> QED
    BY <1>1, StoreTypeOK, ScanInit, ScanStep, PTL DEF Spec
=============================================================================
