----------------------------- MODULE RateLimiter -----------------------------
(***************************************************************************)
(* The limiter of comment submissions (ratelimit.rs): a window per client, *)
(* from its first request on, in which `Limit' requests pass.  A request   *)
(* reads the clock before it waits for the lock, so that windows may be    *)
(* opened, and requests counted, in another order than that of their       *)
(* times.                                                                  *)
(***************************************************************************)
EXTENDS Server, Naturals, FiniteSets

CONSTANTS
    Clients,        \* IP addresses
    Limit,          \* 5 in comments_default
    Period,         \* a minute, in ticks of the clock
    IdlePeriods,    \* the GC drops windows that are so many periods old: 10; 1 is too few
    Room,           \* windows that are kept before the GC runs: 512
    Wait,           \* the longest wait for the lock of a request that is counted
    MaxTime         \* bound: how far the clock goes

ASSUME RateLimiterAssumption ==
    /\ Limit \in Nat /\ Period \in Nat \ {0} /\ IdlePeriods \in Nat \ {0, 1} /\ Room \in Nat
    /\ Wait \in 0..Period
    /\ MaxTime \in Nat
    /\ None \notin [anchor : 0..MaxTime, count : 0..Limit]
                  \cup [client : Clients, now : 0..MaxTime]

VARIABLES
    clock,
    windows,    \* the map, None where a client has no entry
    waiting,    \* requests at the lock: their client and the time they have read
    passed      \* history: how many passed of the requests of each stretch of time

limiterVars == <<clock, windows, waiting, passed>>

Time == 0..MaxTime
Window == [anchor : Time, count : 0..Limit]
AtLock == [client : Clients, now : Time]
\* A period less the wait, from a point in time on.
Stretch(t) == t..(t + Period - Wait)

LimiterInit ==
    /\ clock = 0
    /\ windows = [c \in Clients |-> None]
    /\ waiting = [r \in Requests |-> None]
    /\ passed = [c \in Clients |-> [t \in Time |-> 0]]

Tick ==
    /\ clock < MaxTime
    /\ clock' = clock + 1
    /\ UNCHANGED <<windows, waiting, passed>>

\* check reads the clock and waits for the lock.
Arrive(r) ==
    \E c \in Clients :
        /\ waiting[r] = None
        /\ waiting' = [waiting EXCEPT ![r] = [client |-> c, now |-> clock]]
        /\ UNCHANGED <<clock, windows, passed>>

\* duration_since saturates: a window may be younger than the request.
Since(now, anchor) == IF now > anchor THEN now - anchor ELSE 0

\* Mutant: the count starts again, and the window stays where it was.
Current_KeepsAnchor(w, now) ==
    IF w = None THEN [anchor |-> now, count |-> 0]
    ELSE IF Since(now, w.anchor) >= Period THEN [w EXCEPT !.count = 0]
    ELSE w

\* The window that a request of this time falls into.
Current(w, now) ==
    IF w = None \/ Since(now, w.anchor) >= Period THEN [anchor |-> now, count |-> 0] ELSE w

\* The opportunistic GC.
Collect(map, now) ==
    IF Cardinality({c \in Clients : map[c] # None}) > Room
    THEN [c \in Clients |-> IF map[c] # None /\ Since(now, map[c].anchor) >= IdlePeriods * Period
                            THEN None ELSE map[c]]
    ELSE map

\* check under the lock: the request passes or is rejected.
Check(r) ==
    LET c == waiting[r].client
        now == waiting[r].now
        w == Current(windows[c], now)
        pass == w.count < Limit
    IN
    /\ waiting[r] # None
    /\ windows' = Collect([windows EXCEPT ![c] =
                             IF pass THEN [w EXCEPT !.count = @ + 1] ELSE w], now)
    /\ waiting' = [waiting EXCEPT ![r] = None]
    /\ passed' = IF pass /\ clock - now <= Wait
                 THEN [passed EXCEPT ![c] = [t \in Time |-> IF now \in Stretch(t)
                                                           THEN @[t] + 1 ELSE @[t]]]
                 ELSE passed
    /\ UNCHANGED clock

LimiterNext == Tick \/ \E r \in Requests : Arrive(r) \/ Check(r)

LimiterSpec == LimiterInit /\ [][LimiterNext]_limiterVars

-----------------------------------------------------------------------------
(* Properties.                                                             *)

LimiterTypeOK ==
    /\ clock \in Time
    /\ windows \in [Clients -> Window \cup {None}]
    /\ waiting \in [Requests -> AtLock \cup {None}]
    /\ passed \in [Clients -> [Time -> Nat]]

\* In any period less the time that requests wait for the lock, wherever it begins,
\* at most twice the limit of a client's requests pass: at the end of one window and
\* at the start of the next (check). Neither the order in which requests get the
\* lock nor the GC changes that. In a whole period it may be three windows: one that
\* ends, the next, and the one after that, in which a late request counts.
AtMostTwiceTheLimit ==
    \A c \in Clients, t \in Time : passed[c][t] <= 2 * Limit
=============================================================================
