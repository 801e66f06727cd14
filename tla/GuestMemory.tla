----------------------------- MODULE GuestMemory -----------------------------
(***************************************************************************)
(* What passes between the host and a running plugin (runtime.rs, abi.rs,  *)
(* plugin_host.rs): values of the KV map, in a namespace per plugin, that  *)
(* the host copies into pages it adds to the guest's memory, and hands     *)
(* over as pointer and length packed into one signed integer.  A pointer   *)
(* and a length have half of its bits: 32 of 64.                           *)
(***************************************************************************)
EXTENDS Server, Integers

CONSTANTS
    Guests,     \* plugins
    KvCapable,  \* those that declare the capability `kv'
    KvKeys,
    Lengths,    \* bound: lengths of the values that plugins set
    PageSize,   \* 64 KiB
    Word,       \* 2^32: one more than the largest pointer
    OwnPages,   \* the memory that a module starts with
    MaxPages    \* the most it can have; Word bytes at the most

ASSUME GuestMemoryAssumption ==
    /\ KvCapable \subseteq Guests
    /\ Lengths \subseteq 0..(Word - 1)
    /\ {PageSize, Word, OwnPages, MaxPages} \subseteq Nat \ {0}
    /\ OwnPages <= MaxPages /\ MaxPages * PageSize <= Word

VARIABLES
    values,     \* the KV map: who set a value, and its length
    guest       \* the running invocations

guestVars == <<values, guest>>

Value == [by : Guests, len : Lengths]
NotRunning == [at |-> "idle"]
Handed(packed, v) == [packed |-> packed, value |-> v]

\* Mutant: pointer and length change places.
Pack_Swapped(ptr, len) ==
    LET u == len * Word + ptr IN IF 2 * u < Word * Word THEN u ELSE u - Word * Word

\* pack: the pointer shifted into the upper half of an i64.
Pack(ptr, len) ==
    LET u == ptr * Word + len IN IF 2 * u < Word * Word THEN u ELSE u - Word * Word

\* unpack.
PointerOf(packed) == (packed % (Word * Word)) \div Word
LengthOf(packed) == packed % Word

PagesFor(len) == (len + PageSize - 1) \div PageSize

\* Mutant: all plugins have one namespace.
Slot_Shared(p, k) == <<CHOOSE q \in Guests : TRUE, k>>

Slot(p, k) == <<p, k>>

GuestInit ==
    /\ values = [s \in Guests \X KvKeys |-> None]
    /\ guest = [r \in Requests |-> NotRunning]

\* write_to_guest: the buffer that the plugin's `alloc' answers with, an i32. NULL,
\* a negative one and one that is not in memory are refused; nothing needs none.
Writable(ptr, len) == len = 0 \/ (ptr > 0 /\ ptr + len <= OwnPages * PageSize)

\* invoke: an instance of its own, with the memory it declares; the request is
\* written into it.
StartGuest(r) ==
    \E p \in Guests, ptr \in (0 - Word \div 2)..(Word \div 2 - 1), len \in Lengths :
        /\ guest[r] = NotRunning
        /\ Writable(ptr, len)
        /\ guest' = [guest EXCEPT ![r] = [at |-> "run", plugin |-> p, pages |-> OwnPages,
                                          handed |-> {}]]
        /\ UNCHANGED values

\* Host calls trap without their capability.
MayUseKv(r) == guest[r] # NotRunning /\ guest[r].plugin \in KvCapable

\* host_kv_set.
KvSet(r) ==
    \E k \in KvKeys, n \in Lengths :
        /\ MayUseKv(r)
        /\ values' = [values EXCEPT ![Slot(guest[r].plugin, k)] =
                        [by |-> guest[r].plugin, len |-> n]]
        /\ UNCHANGED guest

\* copy_bytes_into_guest: the memory grows, and the value is behind what there was.
Copied(g, v) ==
    [g EXCEPT !.pages = @ + PagesFor(v.len),
              !.handed = @ \cup {Handed(Pack(g.pages * PageSize, v.len), v)}]

\* host_kv_get; 0 is answered, and nothing handed over, where there is no value or
\* an empty one. Memory that cannot grow is a trap.
KvGet(r) ==
    \E k \in KvKeys :
        LET g == guest[r]
            v == values[Slot(g.plugin, k)]
        IN
        /\ MayUseKv(r)
        /\ v # None /\ v.len > 0
        /\ guest' = [guest EXCEPT ![r] = IF g.pages + PagesFor(v.len) > MaxPages
                                        THEN NotRunning ELSE Copied(g, v)]
        /\ UNCHANGED values

\* handle returns or traps; the instance and its memory are dropped.
EndGuest(r) ==
    /\ guest[r] # NotRunning
    /\ guest' = [guest EXCEPT ![r] = NotRunning]
    /\ UNCHANGED values

GuestRestart ==
    /\ values' = [s \in Guests \X KvKeys |-> None]
    /\ guest' = [r \in Requests |-> NotRunning]

GuestNext ==
    \/ \E r \in Requests : StartGuest(r) \/ KvSet(r) \/ KvGet(r) \/ EndGuest(r)
    \/ GuestRestart

GuestSpec == GuestInit /\ [][GuestNext]_guestVars

-----------------------------------------------------------------------------
(* Properties.                                                             *)

GuestTypeOK ==
    /\ values \in [Guests \X KvKeys -> Value \cup {None}]
    /\ \A r \in Requests :
        guest[r] # NotRunning =>
            /\ guest[r].plugin \in Guests
            /\ guest[r].pages \in OwnPages..MaxPages

Region(h) == PointerOf(h.packed)..(PointerOf(h.packed) + LengthOf(h.packed) - 1)

\* Values that the host hands over lie in memory that the module did not have and
\* has been given, each as long as the value and in a place of its own, however
\* often it asks (copy_bytes_into_guest); the packed integer says so even where
\* its sign bit is part of the pointer (pack, unpack).
HandedOverApart ==
    \A r \in Requests : guest[r] # NotRunning =>
        \A h \in guest[r].handed :
            /\ LengthOf(h.packed) = h.value.len
            /\ Region(h) \subseteq (OwnPages * PageSize)..(guest[r].pages * PageSize - 1)
            /\ \A g \in guest[r].handed \ {h} : Region(g) \cap Region(h) = {}

\* A plugin is handed only values that it has set itself, in this invocation or
\* in another that may still be running (HostServices: "two plugins never collide
\* on the same key").
OwnValuesOnly ==
    \A r \in Requests : guest[r] # NotRunning =>
        \A h \in guest[r].handed : h.value.by = guest[r].plugin
=============================================================================
