----------------------------- MODULE Perimeter -----------------------------
(***************************************************************************)
(* The rate limiter in front of every route (server/perimeter.ts): a       *)
(* bounded map from peer addresses to counting windows.                    *)
(***************************************************************************)
EXTENDS Naturals, FiniteSets

CONSTANTS
    Addresses,
    LimitMax,   \* RATE_LIMIT_MAX, requests per window
    Window,     \* RATE_LIMIT_WINDOW_MS in ticks
    MaxKeys,    \* RATE_LIMIT_MAX_KEYS
    MaxClock    \* bound: ticks

ASSUME PerimeterAssumption ==
    LimitMax \in Nat \ {0} /\ Window \in Nat \ {0} /\ MaxKeys \in Nat \ {0} /\ MaxClock \in Nat

VARIABLES
    clock,
    place,     \* of each key of rateLimits in the map's insertion order; 0 without a bucket
    count, resetTime,  \* the bucket of each key
    until,     \* history: when the window of an address really ends
    spent,     \* history: requests admitted in that window, until one is lost
    lost       \* history: addresses that lost the bucket of a running window

pvars == <<clock, place, count, resetTime, until, spent, lost>>

PerimeterInit ==
    /\ clock = 1 /\ lost = {}
    /\ place = [a \in Addresses |-> 0]
    /\ count = [a \in Addresses |-> 0]
    /\ resetTime = [a \in Addresses |-> 0]
    /\ until = [a \in Addresses |-> 0]
    /\ spent = [a \in Addresses |-> 0]

HasBucket(a) == place[a] # 0
Expired(a) == resetTime[a] < clock
Counted(a) == IF HasBucket(a) /\ ~Expired(a) THEN count[a] ELSE 0

\* A key that is set again keeps its place.
WithKey(a) ==
    IF HasBucket(a) THEN place
    ELSE [place EXCEPT ![a] = Cardinality({k \in Addresses : HasBucket(k)}) + 1]

\* The map of the keys K, in the order of the places p.
Kept(p, K) == [k \in Addresses |-> IF k \in K THEN Cardinality({j \in K : p[j] <= p[k]}) ELSE 0]

\* Fault: the newest keys are evicted.
BoundedByLatest(p, a) ==
    LET alive == {k \in Addresses : p[k] # 0 /\ (k = a \/ ~Expired(k))}
    IN  Kept(p, {k \in alive : Cardinality({j \in alive : p[j] < p[k]}) < MaxKeys})

\* boundRateLimits: sweep the windows that are over, then the oldest keys.
Bounded(p, a) ==
    LET keys == {k \in Addresses : p[k] # 0}
        alive == {k \in keys : k = a \/ ~Expired(k)}
    IN  IF Cardinality(keys) <= MaxKeys THEN p
        ELSE Kept(p, {k \in alive : Cardinality({j \in alive : p[j] > p[k]}) < MaxKeys})

(* rateLimitMiddleware: 429 when the window is full, else counted, stored    *)
(* and the map bounded.  The measuring of the body awaits before all this.  *)
Request(a) ==
    /\ Counted(a) < LimitMax
    /\ count' = [count EXCEPT ![a] = Counted(a) + 1]
    /\ resetTime' = [resetTime EXCEPT ![a] =
                        IF HasBucket(a) /\ ~Expired(a) THEN @ ELSE clock + Window]
    /\ place' = Bounded(WithKey(a), a)
    /\ until' = [until EXCEPT ![a] = IF @ < clock THEN clock + Window ELSE @]
    /\ spent' = [spent EXCEPT ![a] = IF a \in lost THEN 0
                                              ELSE IF until[a] < clock THEN 1 ELSE @ + 1]
    /\ lost' = lost \cup {b \in Addresses : HasBucket(b) /\ until[b] >= clock /\ place'[b] = 0}
    /\ UNCHANGED clock

ClockTicks ==
    /\ clock < MaxClock
    /\ clock' = clock + 1
    /\ UNCHANGED <<place, count, resetTime, until, spent, lost>>

PerimeterNext == ClockTicks \/ \E a \in Addresses : Request(a)

PerimeterSpec == PerimeterInit /\ [][PerimeterNext]_pvars
-----------------------------------------------------------------------------
(* The map never outgrows its bound, and an address that never lost a       *)
(* running window gets LimitMax requests in each: neither the sweep of expired   *)
(* windows nor another address's new bucket touches the count of a running  *)
(* one but by eviction (perimeter.ts).                                      *)
RateHeld ==
    /\ Cardinality({a \in Addresses : HasBucket(a)}) <= MaxKeys
    /\ \A a \in Addresses : a \notin lost => spent[a] <= LimitMax
=============================================================================
