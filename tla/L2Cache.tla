------------------------------ MODULE L2Cache ------------------------------
(***************************************************************************)
(* gateway/l2_cache.go: the cache in Redis that all gateways share.  The   *)
(* values are Redis keys of their own; the sorted set l2LRUKey indexes     *)
(* them by time of use.  A client is a goroutine of some gateway inside    *)
(* getL2, setL2 or clearL2.  Each Redis command is one step, and other     *)
(* clients run between two commands of an operation.                       *)
(***************************************************************************)
EXTENDS Naturals, Sequences, FiniteSets

CONSTANTS
    Clients,  \* goroutines that use L2
    Keys,     \* cache keys
    Values,   \* values that can be stored
    NoValue,  \* the key does not exist in Redis
    Garbled,  \* a value that is not the JSON of an L2CacheValue
    Limits,   \* values of L2MaxEntries that clients work with
    Faulty    \* whether Redis commands may fail, gateways stop and clocks disagree

ASSUME ValuesAssumption == NoValue \notin Values /\ Garbled \notin Values /\ NoValue # Garbled
ASSUME LimitsAssumption == Limits \subseteq Nat
ASSUME FaultyAssumption == Faulty \in BOOLEAN

VARIABLES
    val,        \* val[k]: the Redis value of cache key k
    lru,        \* the members of l2LRUKey by ascending score
    pc,         \* pc[c]: the command that c sends next
    key,        \* key[c]: the key that c works on
    limit,      \* limit[c]: maxEntries of a running setL2
    excess,     \* excess[c]: the count that c passes to removeL2LRU
    todo,       \* todo[c]: the keys that c has popped or listed
    got,        \* got[c]: what the last getL2 of c returned
    used,       \* history: all keys ever used, least recently used first
    doomed,     \* history: doomed[c], the keys that had a value when the
                \* running clearL2 of c began and were not stored again since
    survivors,  \* history: keys whose old value outlived a completed clearL2
    bound,      \* history: the limit of the last setL2 that has counted
    disturbed   \* history: whether two operations have overlapped, a command
                \* has failed or clocks have disagreed

vars == <<val, lru, pc, key, limit, excess, todo, got, used, doomed, survivors, bound, disturbed>>

---------------------------------------------------------------------------

Live == {k \in Keys : val[k] # NoValue}

Has(s, k) == \E i \in 1..Len(s) : s[i] = k

\* The members of a sorted set without k.
Remove(s, k) ==
    IF Has(s, k)
    THEN LET n == CHOOSE i \in 1..Len(s) : s[i] = k
         IN  [j \in 1..Len(s) - 1 |-> IF j < n THEN s[j] ELSE s[j + 1]]
    ELSE s

InsertAfter(s, i, k) ==
    [j \in 1..Len(s) + 1 |-> IF j <= i THEN s[j] ELSE IF j = i + 1 THEN k ELSE s[j - 1]]

\* ZADD gives k the score time.Now(): the highest one, or, where the clocks
\* behind the scores disagree, one among the others.
ZAdd(k) ==
    LET s == Remove(lru, k)
    IN  \E i \in 0..Len(s) :
           /\ i = Len(s) \/ (Faulty /\ disturbed)
           /\ lru' = InsertAfter(s, i, k)

\* The histories matter until the first disturbance.
Use(k) == used' = IF disturbed THEN << >> ELSE InsertAfter(Remove(used, k), Len(Remove(used, k)), k)

\* The index is empty; Redis may hold values that another build has left.
Init ==
    /\ val \in [Keys -> {NoValue, Garbled}]
    /\ lru = << >>
    /\ pc = [c \in Clients |-> "idle"]
    /\ key \in [Clients -> Keys]
    /\ limit = [c \in Clients |-> 0]
    /\ excess = [c \in Clients |-> 0]
    /\ todo = [c \in Clients |-> << >>]
    /\ got = [c \in Clients |-> NoValue]
    /\ used = << >>
    /\ doomed = [c \in Clients |-> {}]
    /\ survivors = {}
    /\ bound = 0
    /\ disturbed = FALSE

Goto(c, from, to) ==
    /\ pc[c] = from
    /\ pc' = [pc EXCEPT ![c] = to]

---------------------------------------------------------------------------
(* getL2                                                                   *)

\* GET answers nil: a miss; the index entry is removed in a second command.
GetNil(c, k) ==
    /\ Goto(c, "idle", "zrem")
    /\ val[k] = NoValue
    /\ key' = [key EXCEPT ![c] = k]
    /\ got' = [got EXCEPT ![c] = NoValue]
    /\ UNCHANGED <<val, lru, limit, excess, todo, used, doomed, survivors>>

GetFound(c, k) ==
    /\ Goto(c, "idle", "touch")
    /\ val[k] \in Values
    /\ key' = [key EXCEPT ![c] = k]
    /\ got' = [got EXCEPT ![c] = val[k]]
    /\ Use(k)
    /\ UNCHANGED <<val, lru, limit, excess, todo, doomed, survivors>>

\* A decoding error that is ignored: the garbled value is returned.
GetGarbledServed(c, k) ==
    /\ Goto(c, "idle", "purge")
    /\ val[k] = Garbled
    /\ key' = [key EXCEPT ![c] = k]
    /\ got' = [got EXCEPT ![c] = val[k]]
    /\ UNCHANGED <<val, lru, limit, excess, todo, used, doomed, survivors>>

\* json.Unmarshal fails: a miss; the value and the index entry are removed.
GetGarbled(c, k) ==
    /\ Goto(c, "idle", "purge")
    /\ val[k] = Garbled
    /\ key' = [key EXCEPT ![c] = k]
    /\ got' = [got EXCEPT ![c] = NoValue]
    /\ UNCHANGED <<val, lru, limit, excess, todo, used, doomed, survivors>>

\* A GET that fails is reported as a miss.
GetFails(c) ==
    /\ Faulty
    /\ pc[c] = "idle"
    /\ got' = [got EXCEPT ![c] = NoValue]
    /\ UNCHANGED <<val, lru, pc, key, limit, excess, todo, used, doomed, survivors>>

Purge(c) ==
    /\ Goto(c, "purge", "zrem")
    /\ val' = [val EXCEPT ![key[c]] = NoValue]
    /\ UNCHANGED <<lru, key, limit, excess, todo, got, used, doomed, survivors>>

\* The error of the DEL is ignored.
PurgeFails(c) ==
    /\ Faulty
    /\ Goto(c, "purge", "zrem")
    /\ UNCHANGED <<val, lru, key, limit, excess, todo, got, used, doomed, survivors>>

ZRem(c) ==
    /\ Goto(c, "zrem", "idle")
    /\ lru' = Remove(lru, key[c])
    /\ UNCHANGED <<val, key, limit, excess, todo, got, used, doomed, survivors>>

\* A hit that does not refresh its score.
TouchNothing(c) ==
    /\ Goto(c, "touch", "idle")
    /\ UNCHANGED <<val, lru, key, limit, excess, todo, got, used, doomed, survivors>>

Touch(c) ==
    /\ Goto(c, "touch", "idle")
    /\ ZAdd(key[c])
    /\ UNCHANGED <<val, key, limit, excess, todo, got, used, doomed, survivors>>

---------------------------------------------------------------------------
(* setL2 and removeL2LRU                                                   *)

\* maxEntries <= 0 stores nothing.
SetDisabled(c, m) ==
    /\ pc[c] = "idle"
    /\ m = 0
    /\ UNCHANGED <<val, lru, pc, key, limit, excess, todo, got, used, doomed, survivors>>

SetValue(c, k, v, m) ==
    /\ Goto(c, "idle", "index")
    /\ m > 0
    /\ val' = [val EXCEPT ![k] = v]
    /\ key' = [key EXCEPT ![c] = k]
    /\ limit' = [limit EXCEPT ![c] = m]
    /\ Use(k)
    /\ doomed' = [d \in Clients |-> doomed[d] \ {k}]
    /\ UNCHANGED <<lru, excess, todo, got, survivors>>

Index(c) ==
    /\ Goto(c, "index", "count")
    /\ ZAdd(key[c])
    /\ UNCHANGED <<val, key, limit, excess, todo, got, used, doomed, survivors>>

\* One entry too many is tolerated.
OverLimitByTwo(c) == Len(lru) > limit[c] + 1

OverLimit(c) == Len(lru) > limit[c]

\* ZCARD decides how many entries go.
Count(c) ==
    /\ pc[c] = "count"
    /\ pc' = [pc EXCEPT ![c] = IF OverLimit(c) THEN "pop" ELSE "idle"]
    /\ excess' = [excess EXCEPT ![c] = IF OverLimit(c) THEN Len(lru) - limit[c] ELSE 0]
    /\ limit' = [limit EXCEPT ![c] = 0]
    /\ UNCHANGED <<val, lru, key, todo, got, used, doomed, survivors>>

\* ZPOPMIN takes that many entries, or what is left of them by now.
Pop(c) ==
    LET n == IF excess[c] < Len(lru) THEN excess[c] ELSE Len(lru)
    IN  /\ pc[c] = "pop"
        /\ pc' = [pc EXCEPT ![c] = IF n = 0 THEN "idle" ELSE "evict"]
        /\ todo' = [todo EXCEPT ![c] = SubSeq(lru, 1, n)]
        /\ lru' = SubSeq(lru, n + 1, Len(lru))
        /\ excess' = [excess EXCEPT ![c] = 0]
        /\ UNCHANGED <<val, key, limit, got, used, doomed, survivors>>

NextVictim(c) ==
    /\ pc[c] = "evict"
    /\ pc' = [pc EXCEPT ![c] = IF Len(todo[c]) = 1 THEN "idle" ELSE "evict"]
    /\ todo' = [todo EXCEPT ![c] = Tail(todo[c])]

\* One DEL for each popped entry; an error skips the entry.
Evict(c) ==
    /\ NextVictim(c)
    /\ val' = [val EXCEPT ![Head(todo[c])] = NoValue]
    /\ UNCHANGED <<lru, key, limit, excess, got, used, doomed, survivors>>

EvictFails(c) ==
    /\ Faulty
    /\ NextVictim(c)
    /\ UNCHANGED <<val, lru, key, limit, excess, got, used, doomed, survivors>>

---------------------------------------------------------------------------
(* clearL2                                                                 *)

\* ZRANGE lists the index; without entries the first DEL is skipped.
ClearList(c) ==
    /\ pc[c] = "idle"
    /\ pc' = [pc EXCEPT ![c] = IF lru = << >> THEN "unindex" ELSE "delete"]
    /\ todo' = [todo EXCEPT ![c] = lru]
    /\ doomed' = [doomed EXCEPT ![c] = {k \in Keys : val[k] \in Values /\ ~disturbed}]
    /\ UNCHANGED <<val, lru, key, limit, excess, got, used, survivors>>

Listed(c) == {todo[c][i] : i \in 1..Len(todo[c])}

\* A DEL that forgets the last listed key.
DeleteAllButLast(c) ==
    /\ Goto(c, "delete", "unindex")
    /\ val' = [k \in Keys |->
                 IF k \in Listed(c) /\ k # todo[c][Len(todo[c])] THEN NoValue ELSE val[k]]
    /\ todo' = [todo EXCEPT ![c] = << >>]
    /\ UNCHANGED <<lru, key, limit, excess, got, used, doomed, survivors>>

\* One DEL of all the listed keys.
DeleteListed(c) ==
    /\ Goto(c, "delete", "unindex")
    /\ val' = [k \in Keys |-> IF k \in Listed(c) THEN NoValue ELSE val[k]]
    /\ todo' = [todo EXCEPT ![c] = << >>]
    /\ UNCHANGED <<lru, key, limit, excess, got, used, doomed, survivors>>

\* DEL of the index; clearL2 reports success.
Unindex(c) ==
    /\ Goto(c, "unindex", "idle")
    /\ lru' = << >>
    /\ survivors' = survivors \cup (doomed[c] \cap Live)
    /\ doomed' = [doomed EXCEPT ![c] = {}]
    /\ UNCHANGED <<val, key, limit, excess, todo, got, used>>

---------------------------------------------------------------------------
(* Environment                                                             *)

\* The Redis TTL of k ends.  Its index entry stays.
Expire(k) ==
    /\ val[k] \in Values
    /\ val' = [val EXCEPT ![k] = NoValue]
    /\ UNCHANGED <<lru, pc, key, limit, excess, todo, got, used, doomed, survivors>>

\* c gives its operation up: the command failed and the code returns, the
\* context of the request ended, or the gateway stopped.
Abandon(c) ==
    /\ Faulty
    /\ pc[c] # "idle"
    /\ pc' = [pc EXCEPT ![c] = "idle"]
    /\ limit' = [limit EXCEPT ![c] = 0]
    /\ excess' = [excess EXCEPT ![c] = 0]
    /\ todo' = [todo EXCEPT ![c] = << >>]
    /\ doomed' = [doomed EXCEPT ![c] = {}]
    /\ UNCHANGED <<val, lru, key, got, used, survivors>>

\* From now on the clocks behind the scores may disagree.
ClocksDisagree == Faulty /\ UNCHANGED <<val, lru, pc, key, limit, excess, todo, got, used, doomed, survivors>>

Command ==
    \/ \E c \in Clients, k \in Keys : GetNil(c, k) \/ GetFound(c, k) \/ GetGarbled(c, k)
    \/ \E c \in Clients, k \in Keys, v \in Values, m \in Limits : SetValue(c, k, v, m)
    \/ \E c \in Clients, m \in Limits : SetDisabled(c, m)
    \/ \E c \in Clients :
          \/ Purge(c) \/ ZRem(c) \/ Touch(c)
          \/ Index(c) \/ Count(c) \/ Pop(c) \/ Evict(c)
          \/ ClearList(c) \/ DeleteListed(c) \/ Unindex(c)
    \/ \E k \in Keys : Expire(k)

Fault ==
    \/ \E c \in Clients : GetFails(c) \/ PurgeFails(c) \/ EvictFails(c) \/ Abandon(c)
    \/ ClocksDisagree

Overlap == \E c, d \in Clients : c # d /\ pc[c] # "idle" /\ pc[d] # "idle"

Counts(c) == pc[c] = "count" /\ pc'[c] # "count"

Next ==
    \/ /\ Command
       /\ bound' = IF \E c \in Clients : Counts(c)
                   THEN limit[CHOOSE c \in Clients : Counts(c)] ELSE bound
       /\ disturbed' = (disturbed \/ Overlap')
    \/ /\ Fault
       /\ bound' = bound
       /\ disturbed' = TRUE

Spec == Init /\ [][Next]_vars

---------------------------------------------------------------------------
(* Properties                                                              *)

\* The type of every variable.
TypeOK ==
    /\ val \in [Keys -> Values \cup {NoValue, Garbled}]
    /\ lru \in Seq(Keys)
    /\ pc \in [Clients -> {"idle", "zrem", "touch", "purge", "index", "count", "pop",
                           "evict", "delete", "unindex"}]
    /\ key \in [Clients -> Keys]
    /\ limit \in [Clients -> Nat]
    /\ excess \in [Clients -> Nat]
    /\ todo \in [Clients -> Seq(Keys)]
    /\ got \in [Clients -> Values \cup {NoValue}]
    /\ used \in Seq(Keys)
    /\ doomed \in [Clients -> SUBSET Keys]
    /\ survivors \in SUBSET Keys
    /\ bound \in Nat
    /\ disturbed \in BOOLEAN

\* k has a value that getL2 would return.
Holds(k) == val[k] \in Values

Quiescent == \A c \in Clients : pc[c] = "idle"

\* L2 holds no more values than the last setL2 was told to leave, also after
\* L2MaxEntries was lowered and where operations overlap.
WithinCapacity ==
    Quiescent => Cardinality({k \in Keys : Holds(k)}) <= bound

\* It does so as long as the operations of the gateways do not overlap.
CapacityUndisturbed == ~disturbed => WithinCapacity

\* a comes before b.
Before(s, a, b) == \E i, j \in 1..Len(s) : i < j /\ s[i] = a /\ s[j] = b

\* While operations do not overlap, the index has every stored value and orders
\* them by use, so that ZPOPMIN evicts the least recently used one; values that
\* expire or are garbled leave no trace in it that matters.
EvictionOrder ==
    Quiescent /\ ~disturbed =>
        /\ \A k \in Keys : Holds(k) => Has(lru, k)
        /\ \A k, q \in Keys : Holds(k) /\ Holds(q) =>
              (Before(lru, k, q) <=> Before(used, k, q))

\* While operations do not overlap, a clearL2 that succeeds has removed every
\* value that existed when it began.
ClearRemovesExisting == ~disturbed => survivors = {}

\* L2 is a lossy store: whatever the interleaving, the clocks and the faults,
\* getL2 returns nothing or the value last stored for its key.
Stored == [k \in Keys |-> IF val[k] \in Values THEN val[k] ELSE NoValue]

Abstract == INSTANCE LossyStore WITH store <- Stored, reply <- got

\* The refinement, as a property of the detailed specification.
ImplementsLossyStore == Abstract!Spec

=============================================================================
