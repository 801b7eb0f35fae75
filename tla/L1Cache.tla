------------------------------ MODULE L1Cache ------------------------------
(***************************************************************************)
(* gateway/l1_cache.go: the in-process cache of one gateway.  h.cache maps *)
(* a key to an element of the list h.cacheOrder, most recently used first. *)
(* Every operation holds h.mu from beginning to end and is one action.     *)
(*                                                                         *)
(* maxEntries is a parameter of every setL1: it comes from the             *)
(* configuration that the calling request works with, so that calls with   *)
(* different limits can follow each other.                                 *)
(*                                                                         *)
(* An expiration is kept as the time left until it; -1 is any time after.  *)
(***************************************************************************)
EXTENDS Integers, Sequences, FiniteSets

CONSTANTS
    Keys,    \* cache keys
    Limits,  \* values of L1MaxEntries that requests work with
    MaxTTL,  \* bound on the lifetime of a value, in ticks
    Never    \* the zero L2Expiration: no second deadline

ASSUME LimitsAssumption == Limits \subseteq Int
ASSUME MaxTTLAssumption == MaxTTL \in Nat

VARIABLES
    cache,       \* h.cache: the cached keys and their values
    cacheOrder,  \* h.cacheOrder: their keys, most recently used first
    used,        \* history: the keys used since the last clear, most recent first
    lapsed       \* history: the keys that left by expiry and were not used since

vars == <<cache, cacheOrder, used, lapsed>>

---------------------------------------------------------------------------
(* Values and lists                                                        *)

TimeLeft == -1..MaxTTL

Values == [l1 : TimeLeft, l2 : TimeLeft \cup {Never}]

\* now.After(L1Expiration), or L2Expiration is set and now is after it.
Expired(v) ==
    \/ v.l1 < 0
    \/ v.l2 # Never /\ v.l2 < 0

\* The position of the list element that h.cache[k] points to.
ElementOf(s, k) == CHOOSE i \in 1..Len(s) : s[i] = k

RemoveElement(s, i) ==
    [j \in 1..Len(s) - 1 |-> IF j < i THEN s[j] ELSE s[j + 1]]

PushFront(s, k) ==
    [j \in 1..Len(s) + 1 |-> IF j = 1 THEN k ELSE s[j - 1]]

MoveToFront(s, i) == PushFront(RemoveElement(s, i), s[i])

\* The cache without key k.
Without(c, k) == [q \in DOMAIN c \ {k} |-> c[q]]

\* The cache with value v for key k.
With(c, k, v) == [q \in DOMAIN c \cup {k} |-> IF q = k THEN v ELSE c[q]]

Init ==
    /\ cache = [k \in {} |-> Never]
    /\ cacheOrder = << >>
    /\ used = << >>
    /\ lapsed = {}

\* k becomes the most recently used of all keys.
Use(k) ==
    /\ used' = IF \E i \in 1..Len(used) : used[i] = k
               THEN MoveToFront(used, ElementOf(used, k))
               ELSE PushFront(used, k)
    /\ lapsed' = lapsed \ {k}

---------------------------------------------------------------------------
(* Operations                                                              *)

\* getL1 on a key that is not cached only reports the miss.
GetMiss(k) ==
    /\ k \notin DOMAIN cache
    /\ UNCHANGED vars

\* A lookup that leaves the list as it is.
GetHitWithoutMove(k) ==
    /\ k \in DOMAIN cache
    /\ ~Expired(cache[k])
    /\ Use(k)
    /\ UNCHANGED <<cache, cacheOrder>>

GetHit(k) ==
    /\ k \in DOMAIN cache
    /\ ~Expired(cache[k])
    /\ cacheOrder' = MoveToFront(cacheOrder, ElementOf(cacheOrder, k))
    /\ Use(k)
    /\ UNCHANGED cache

\* getL1 on an expired entry removes it.
GetExpired(k) ==
    /\ k \in DOMAIN cache
    /\ Expired(cache[k])
    /\ cache' = Without(cache, k)
    /\ cacheOrder' = RemoveElement(cacheOrder, ElementOf(cacheOrder, k))
    /\ lapsed' = lapsed \cup {k}
    /\ UNCHANGED used

\* setL1 with a limit of zero or less stores nothing.
SetDisabled(m) ==
    /\ m <= 0
    /\ UNCHANGED vars

\* An update that pushes a second list element for the same key.
SetExistingPushed(k, v, m) ==
    /\ m > 0
    /\ k \in DOMAIN cache
    /\ cache' = With(cache, k, v)
    /\ cacheOrder' = PushFront(cacheOrder, k)
    /\ Use(k)

SetExisting(k, v, m) ==
    /\ m > 0
    /\ k \in DOMAIN cache
    /\ cache' = With(cache, k, v)
    /\ cacheOrder' = MoveToFront(cacheOrder, ElementOf(cacheOrder, k))
    /\ Use(k)

\* A limit that counts the new entry twice.
FullTooEarly(m) == Cardinality(DOMAIN cache) + 1 >= m

\* A limit that is checked after the entry was added.
FullTooLate(m) == Cardinality(DOMAIN cache) > m

Full(m) == Cardinality(DOMAIN cache) >= m

\* removeL1LRU drops the back of the list, one entry, however far the cache
\* is above the limit; then the new entry goes to the front.
SetNew(k, v, m) ==
    LET last == cacheOrder[Len(cacheOrder)]
    IN  /\ m > 0
        /\ k \notin DOMAIN cache
        /\ IF Full(m) /\ cacheOrder # << >>
           THEN /\ cache' = With(Without(cache, last), k, v)
                /\ cacheOrder' = PushFront(RemoveElement(cacheOrder, Len(cacheOrder)), k)
           ELSE /\ cache' = With(cache, k, v)
                /\ cacheOrder' = PushFront(cacheOrder, k)
        /\ Use(k)

ClearL1 ==
    /\ cache' = [k \in {} |-> Never]
    /\ cacheOrder' = << >>
    /\ used' = << >>
    /\ lapsed' = {}

---------------------------------------------------------------------------

\* Deadlines that have passed are not told apart.
Sooner(t) == IF t = -1 THEN -1 ELSE t - 1

Tick ==
    /\ cache' = [k \in DOMAIN cache |->
                   [l1 |-> Sooner(cache[k].l1),
                    l2 |-> IF cache[k].l2 = Never THEN Never ELSE Sooner(cache[k].l2)]]
    /\ UNCHANGED <<cacheOrder, used, lapsed>>

\* A value may be stored past a deadline: an L2 hit goes into L1 as it is.
Next ==
    \/ \E k \in Keys : GetMiss(k) \/ GetHit(k) \/ GetExpired(k)
    \/ \E k \in Keys, v \in Values, m \in Limits : SetExisting(k, v, m) \/ SetNew(k, v, m)
    \/ \E m \in Limits : SetDisabled(m)
    \/ ClearL1
    \/ Tick

Spec == Init /\ [][Next]_vars

---------------------------------------------------------------------------
(* Properties                                                              *)

\* The type of every variable.
TypeOK ==
    /\ DOMAIN cache \subseteq Keys
    /\ cache \in [DOMAIN cache -> Values]
    /\ cacheOrder \in Seq(Keys)
    /\ used \in Seq(Keys)
    /\ lapsed \subseteq Keys

\* The map and the list never drift apart: every cached key has one list
\* element and every list element belongs to a cached key, on every path
\* (hit, expiry, update, eviction, clear).
ListMatchesMap ==
    /\ \A i \in 1..Len(cacheOrder) : cacheOrder[i] \in DOMAIN cache
    /\ \A k \in DOMAIN cache : \E i \in 1..Len(cacheOrder) : cacheOrder[i] = k
    /\ \A i, j \in 1..Len(cacheOrder) : cacheOrder[i] = cacheOrder[j] => i = j

\* a is listed in front of b.
Before(s, a, b) == \E i, j \in 1..Len(s) : i < j /\ s[i] = a /\ s[j] = b

\* The list orders the cached keys by their last use, so that what removeL1LRU
\* drops is always the least recently used entry.
RecencyOrder ==
    \A k, q \in DOMAIN cache : Before(cacheOrder, k, q) <=> Before(used, k, q)

\* Nothing is evicted too early: of the keys used since the last clear, the
\* most recent ones, as many as every request's limit allows, are cached
\* unless they expired, in whatever order stores with different limits,
\* hits and expiries follow each other.
KeepsRecentlyUsed ==
    \A i \in 1..Len(used) :
        (\A m \in Limits : m > 0 => i <= m) => used[i] \in DOMAIN cache \cup lapsed

\* The cache never holds more entries than the largest limit that any
\* request worked with.
WithinLargestLimit ==
    cacheOrder # << >> => \E m \in Limits : Cardinality(DOMAIN cache) <= m

=============================================================================
