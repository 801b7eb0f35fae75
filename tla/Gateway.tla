------------------------------ MODULE Gateway ------------------------------
(***************************************************************************)
(* gateway/handler.go, ServeHTTP: how the parts of the gateway work        *)
(* together on one cache key.  Requests on several gateways look in L1 and *)
(* L2, may refresh early, coordinate through SingleFlight and the lock,    *)
(* call the backend, count the call for the FAF metric, and store, answer  *)
(* and publish the result, each strategy in an order of its own.           *)
(*                                                                         *)
(* The parts are here as their own modules show them to be: L2 as a        *)
(* LossyStore, the loop of DistributedLock as one wait, a SingleFlight     *)
(* call as its leader.  A step ends with a command to Redis, an answer of  *)
(* the backend or a write to the client; setL1 belongs to the step before  *)
(* it.  What is added is time: a value is the number of ticks left until   *)
(* its L2Expiration, negative after it.                                    *)
(***************************************************************************)
EXTENDS Integers

CONSTANTS
    Requests,        \* client requests; one that has ended may come again
    Gateways,        \* gateway instances
    Configs,         \* configurations that requests may work with
    Factors,         \* factors of the adaptive TTL controller, in hundredths
    MaxTimeout,      \* bound on config.BackendTimeoutMs, in ticks
    SafetyMargin,    \* lockSafetyMargin, in ticks
    MarkerMargin,    \* fafRefreshSafetyMargin, in ticks
    MaxStall,        \* ticks that a request may spend outside its call and its waits
    MaxTTL,          \* bound on the effective TTL
    None             \* no value, entry, call or lock

INITIAL == 100

ASSUME DurationAssumption ==
    /\ MaxTimeout \in Nat \ {0} /\ MaxTTL \in Nat \ {0} /\ MaxStall \in Nat
    /\ SafetyMargin \in Nat \ {0} /\ MaxStall < SafetyMargin
    /\ MarkerMargin \in Nat \ {0} /\ MaxStall < MarkerMargin
ASSUME NoneAssumption == None \notin Requests \cup Int
ASSUME NoLockAssumption == None \notin [owner : Requests, ttl : Nat]

Clamp(c, f) ==
    IF f < c.minFactor THEN c.minFactor ELSE IF f > c.maxFactor THEN c.maxFactor ELSE f

\* effectiveCacheTTLs, the TTL for L2.
EffectiveTTL(c, f) ==
    (c.ttlL2 * (IF c.adaptiveTTL THEN Clamp(c, f) ELSE INITIAL)) \div 100

ASSUME ConfigsAssumption ==
    /\ Configs \subseteq
          [singleFlight : BOOLEAN, distributedLock : BOOLEAN, earlyRefresh : BOOLEAN,
           adaptiveTTL : BOOLEAN, minFactor : Int, maxFactor : Int, ttlL2 : Nat,
           timeout : 1..MaxTimeout]
    /\ \A c \in Configs, f \in Factors : EffectiveTTL(c, f) \in 1..MaxTTL

VARIABLES
    request,   \* request[r]: where r is, on which gateway, and its local variables
    l1,        \* l1[g]: the value in L1 of gateway g
    l2,        \* the value in Redis, the TTL of its key, and whether it was
               \* stored under the lock (history)
    inFlight,  \* inFlight[g]: the leader of the call in h.inFlight of gateway g
    lock,      \* the lock in Redis: who took it, and its TTL
    marker     \* the TTL of the FAF marker in Redis; 0 if there is none

vars == <<request, l1, l2, inFlight, lock, marker>>

---------------------------------------------------------------------------

\* The lock and the marker of a request with BackendTimeoutMs = t.
LockTTL(t) == t + SafetyMargin

\* A marker that does not take the length of the call into account.
MarginOnly(t) == MarkerMargin

MarkerTTL(t) == t + MarkerMargin

\* The number of ticks by which no answer misses the deadline of its value:
\* a failed early refresh, or a leader and a follower that are slow one after
\* the other.
Lateness ==
    IF MaxTimeout + MaxStall > 3 * MaxStall THEN MaxTimeout + MaxStall ELSE 3 * MaxStall

Values == -Lateness..MaxTTL

\* How the request got where it is: by a cache hit, by an early refresh of
\* what it hit, by a plain call, under the lock, under the lock but blind to
\* L2 because its GET failed, as a follower, or in a panic of the proxy.
Routes == {"none", "hit", "early", "plain", "lock", "blind", "follow", "panic"}

\* Where a request is while time passes because of the gateway.
Busy ==
    {"getL2", "join", "ownerL2", "record", "start", "setL2", "release", "respond",
     "finish"}

\* timer: ticks until the context of the backend call is done; stall: ticks
\* spent while Busy; counted: created the marker.
RequestStates ==
    [pc : Busy \cup {"idle", "follow", "wait", "call"}, on : Gateways \cup {None},
     singleFlight : BOOLEAN, distributedLock : BOOLEAN, earlyRefresh : BOOLEAN,
     ttlL2 : 0..MaxTTL, timeout : 0..MaxTimeout, route : Routes, value : Values \cup {None},
     timer : 0..MaxTimeout, stall : 0..MaxStall, counted : BOOLEAN]

Idle ==
    [pc |-> "idle", on |-> None, singleFlight |-> FALSE, distributedLock |-> FALSE,
     earlyRefresh |-> FALSE, ttlL2 |-> 0, timeout |-> 0, route |-> "none",
     value |-> None, timer |-> 0, stall |-> 0, counted |-> FALSE]

Init ==
    /\ request = [r \in Requests |-> Idle]
    /\ l1 = [g \in Gateways |-> None]
    /\ l2 = None
    /\ inFlight = [g \in Gateways |-> None]
    /\ lock = None
    /\ marker = 0

At(r, pc) == request[r].pc = pc
Becomes(r, state) == request' = [request EXCEPT ![r] = state]
Goto(r, pc) == Becomes(r, [request[r] EXCEPT !.pc = pc])

Leads(r) == inFlight[request[r].on] = r

\* The handler returns; the leader of a call still publishes it.
Done(r) == IF Leads(r) THEN [request[r] EXCEPT !.pc = "finish"] ELSE Idle

---------------------------------------------------------------------------
(* ServeHTTP                                                               *)

\* L1 does not look at the L2Expiration of its value.
InL1Forever(v) == v

\* getL1 does not return a value after its L2Expiration: L1 might as well not
\* have it.
InL1(v) == IF v >= 0 THEN v ELSE None

\* A request reads its configuration, computes its TTL and looks in L1.
Arrive(r, g, c, f) ==
    /\ At(r, "idle")
    /\ LET q == [Idle EXCEPT
             !.pc = "getL2", !.on = g, !.singleFlight = c.singleFlight,
             !.distributedLock = c.distributedLock, !.earlyRefresh = c.earlyRefresh,
             !.ttlL2 = EffectiveTTL(c, f), !.timeout = c.timeout] IN
       Becomes(r, IF l1[g] = None THEN q
                  ELSE [q EXCEPT !.pc = "respond", !.route = "hit", !.value = l1[g]])
    /\ UNCHANGED <<l1, l2, inFlight, lock, marker>>

\* setL1 of value v by request r; it may store nothing because of its limit.
SetL1(r, v) == l1' \in {l1, [l1 EXCEPT ![request[r].on] = InL1(v)]}

\* The value is taken as it is, also after its L2Expiration.
GetL2Hit(r) ==
    /\ At(r, "getL2")
    /\ l2 # None
    /\ SetL1(r, l2.value)
    /\ Becomes(r, [request[r] EXCEPT !.pc = "respond", !.route = "hit", !.value = l2.value])
    /\ UNCHANGED <<l2, inFlight, lock, marker>>

\* tryProbabilisticEarlyRefresh: chance, the factor beta and the duration of
\* the last call may select any value that has not reached its deadline.
EarlyRefresh(r) ==
    /\ At(r, "getL2")
    /\ request[r].earlyRefresh
    /\ l2 # None /\ l2.value > 0
    /\ Becomes(r, [request[r] EXCEPT !.pc = "record", !.route = "early", !.value = l2.value])
    /\ UNCHANGED <<l1, l2, inFlight, lock, marker>>

\* What handleBackendNormally and the leader of a call do first.
Fetching(r) ==
    IF request[r].distributedLock
    THEN [request[r] EXCEPT !.pc = "wait", !.route = "lock"]
    ELSE [request[r] EXCEPT !.pc = "record", !.route = "plain"]

\* No value, or a GET that failed.
GetL2Miss(r) ==
    /\ At(r, "getL2")
    /\ Becomes(r, IF request[r].singleFlight THEN [request[r] EXCEPT !.pc = "join"] ELSE Fetching(r))
    /\ UNCHANGED <<l1, l2, inFlight, lock, marker>>

\* The value, or an error or another status, is written to the client.  What
\* came from the backend or by way of the lock is stored only now: by a plain
\* call in both caches, with a deadline for L2, and else in L1.
Respond(r) ==
    /\ At(r, "respond")
    /\ LET q == request[r] IN
       IF q.value = None \/ q.route \in {"hit", "follow"}
       THEN Becomes(r, Done(r)) /\ UNCHANGED l1
       ELSE IF q.route = "plain"
       THEN Becomes(r, [q EXCEPT !.pc = "setL2", !.value = q.ttlL2]) /\ UNCHANGED l1
       ELSE Becomes(r, Done(r)) /\ SetL1(r, q.value)
    /\ UNCHANGED <<l2, inFlight, lock, marker>>

---------------------------------------------------------------------------
(* handleBackendSingleFlight                                               *)

\* Every request becomes a leader.
JoinAsLeader(r) ==
    /\ At(r, "join")
    /\ inFlight' = [inFlight EXCEPT ![request[r].on] = r]
    /\ Becomes(r, Fetching(r))
    /\ UNCHANGED <<l1, l2, lock, marker>>

\* getOrCreateInFlight
Join(r) ==
    /\ At(r, "join")
    /\ IF inFlight[request[r].on] = None
       THEN /\ inFlight' = [inFlight EXCEPT ![request[r].on] = r]
            /\ Becomes(r, Fetching(r))
       ELSE Goto(r, "follow") /\ UNCHANGED inFlight
    /\ UNCHANGED <<l1, l2, lock, marker>>

\* The followers are not woken.
FinishSilently(r) ==
    /\ At(r, "finish")
    /\ inFlight' = [inFlight EXCEPT ![request[r].on] = None]
    /\ Becomes(r, Idle)
    /\ UNCHANGED <<l1, l2, lock, marker>>

\* finishInFlight: the followers have the result, and relay it when they run.
Finish(r) ==
    /\ At(r, "finish")
    /\ inFlight' = [inFlight EXCEPT ![request[r].on] = None]
    /\ request' = [q \in Requests |->
          IF q = r THEN Idle
          ELSE IF At(q, "follow") /\ request[q].on = request[r].on
          THEN [request[q] EXCEPT !.pc = "respond", !.route = "follow", !.value = request[r].value]
          ELSE request[q]]
    /\ UNCHANGED <<l1, l2, lock, marker>>

\* The client of a follower goes away.
Cancel(r) ==
    /\ At(r, "follow")
    /\ Becomes(r, [request[r] EXCEPT !.pc = "respond", !.route = "follow"])
    /\ UNCHANGED <<l1, l2, inFlight, lock, marker>>

---------------------------------------------------------------------------
(* fetchWithDistributedLock and fetchAsDistributedLockOwner                *)

Acquired(r) == [owner |-> r, ttl |-> LockTTL(request[r].timeout)]

\* The owner calls the backend without looking in L2 again.
AcquireAndCall(r) ==
    /\ At(r, "wait")
    /\ lock = None
    /\ lock' = Acquired(r)
    /\ Becomes(r, [request[r] EXCEPT !.pc = "record"])
    /\ UNCHANGED <<l1, l2, inFlight, marker>>

Acquire(r) ==
    /\ At(r, "wait")
    /\ lock = None
    /\ lock' = Acquired(r)
    /\ Becomes(r, [request[r] EXCEPT !.pc = "ownerL2"])
    /\ UNCHANGED <<l1, l2, inFlight, marker>>

\* A GET of the loop finds the value.
WaiterHit(r) ==
    /\ At(r, "wait")
    /\ l2 # None
    /\ Becomes(r, [request[r] EXCEPT !.pc = "respond", !.value = l2.value])
    /\ UNCHANGED <<l1, l2, inFlight, lock, marker>>

\* The wait ends at the latest with its context: with a failure, a timeout or
\* a client that goes away.  A SETNX whose reply is lost may have taken the
\* lock.
GiveUp(r) ==
    /\ At(r, "wait")
    /\ lock' \in {lock, IF lock = None THEN Acquired(r) ELSE lock}
    /\ Goto(r, "respond")
    /\ UNCHANGED <<l1, l2, inFlight, marker>>

OwnerHit(r) ==
    /\ At(r, "ownerL2")
    /\ l2 # None
    /\ Becomes(r, [request[r] EXCEPT !.pc = "release", !.value = l2.value])
    /\ UNCHANGED <<l1, l2, inFlight, lock, marker>>

\* No value, or a GET that failed.
OwnerMiss(r) ==
    /\ At(r, "ownerL2")
    /\ Becomes(r, [request[r] EXCEPT !.pc = "record", !.route = IF l2 = None THEN "lock" ELSE "blind"])
    /\ UNCHANGED <<l1, l2, inFlight, lock, marker>>

\* The deferred release, whose script may fail.  After a panic nothing is
\* left but finishInFlight.
Release(r) ==
    /\ At(r, "release")
    /\ lock' \in {lock, IF lock # None /\ lock.owner = r THEN None ELSE lock}
    /\ Becomes(r, IF request[r].route = "panic" THEN Done(r) ELSE [request[r] EXCEPT !.pc = "respond"])
    /\ UNCHANGED <<l1, l2, inFlight, marker>>

---------------------------------------------------------------------------
(* fetchFromBackend                                                        *)

\* recordBackendCallForFAF: SETNX of the marker, which may fail.
Record(r) ==
    /\ At(r, "record")
    /\ \/ /\ marker = 0
          /\ marker' = MarkerTTL(request[r].timeout)
          /\ Becomes(r, [request[r] EXCEPT !.pc = "start", !.counted = TRUE])
       \/ Goto(r, "start") /\ UNCHANGED marker
    /\ UNCHANGED <<l1, l2, inFlight, lock>>

\* context.WithTimeout and the call of the proxy.
Start(r) ==
    /\ At(r, "start")
    /\ Becomes(r, [request[r] EXCEPT !.pc = "call", !.timer = request[r].timeout])
    /\ UNCHANGED <<l1, l2, inFlight, lock, marker>>

\* The call has ended; r goes on at pc.
Returns(r, pc) == [request[r] EXCEPT !.pc = pc, !.timer = 0, !.counted = FALSE]

\* A 2xx.  A plain call answers first, the others store first; the deadline of
\* the value is set on the way to setL2.
BackendAnswers(r) ==
    /\ At(r, "call") /\ request[r].timer > 0
    /\ Becomes(r, [Returns(r, IF request[r].route = "plain" THEN "respond" ELSE "setL2")
                     EXCEPT !.value = request[r].ttlL2])
    /\ UNCHANGED <<l1, l2, inFlight, lock, marker>>

\* Another status or an error.  An early refresh falls back on the cached value.
CallFails(r) ==
    IF request[r].route = "early"
    THEN Becomes(r, [Returns(r, "respond") EXCEPT !.route = "hit"]) /\ SetL1(r, request[r].value)
    ELSE Becomes(r, Returns(r, IF request[r].route = "plain" THEN "respond" ELSE "release")) /\ UNCHANGED l1

BackendFails(r) ==
    /\ At(r, "call") /\ request[r].timer > 0
    /\ CallFails(r)
    /\ UNCHANGED <<l2, inFlight, lock, marker>>

BackendTimesOut(r) ==
    /\ At(r, "call") /\ request[r].timer = 0
    /\ CallFails(r)
    /\ UNCHANGED <<l2, inFlight, lock, marker>>

\* The proxy panics because the body is cut off.  Only what is deferred still
\* runs; an early refresh takes its request with it.
BackendPanics(r) ==
    /\ At(r, "call")
    /\ Becomes(r, IF request[r].route \in {"lock", "blind"}
                  THEN [Returns(r, "release") EXCEPT !.route = "panic"]
                  ELSE IF Leads(r) THEN Returns(r, "finish") ELSE Idle)
    /\ UNCHANGED <<l1, l2, inFlight, lock, marker>>

\* setL2, whose SET may fail; the TTL in Redis starts here.  The owner of the
\* lock goes on to release it, the others to setL1.
SetL2(r) ==
    /\ At(r, "setL2")
    /\ LET q == request[r]
           locked == q.route \in {"lock", "blind"} IN
       /\ l2' \in {l2, [value |-> q.value, ttl |-> q.ttlL2, locked |-> locked]}
       /\ Becomes(r, CASE locked -> [q EXCEPT !.pc = "release"]
                       [] q.route = "early" -> [q EXCEPT !.pc = "respond", !.route = "hit"]
                       [] OTHER -> Done(r))
       /\ IF locked THEN UNCHANGED l1 ELSE SetL1(r, q.value)
    /\ UNCHANGED <<inFlight, lock, marker>>

---------------------------------------------------------------------------
(* The rest of the world                                                   *)

\* A value in L1 reaches its L1Expiration, is evicted or is cleared.
DropL1(g) ==
    /\ l1[g] # None
    /\ l1' = [l1 EXCEPT ![g] = None]
    /\ UNCHANGED <<request, l2, inFlight, lock, marker>>

\* The value in L2 is evicted or cleared.
DropL2 ==
    /\ l2 # None
    /\ l2' = None
    /\ UNCHANGED <<request, l1, inFlight, lock, marker>>

\* Gateway g stops and starts again.  What it has in Redis stays there.
Restart(g) ==
    /\ request' = [r \in Requests |-> IF request[r].on = g THEN Idle ELSE request[r]]
    /\ l1' = [l1 EXCEPT ![g] = None]
    /\ inFlight' = [inFlight EXCEPT ![g] = None]
    /\ UNCHANGED <<l2, lock, marker>>

Down(n) == IF n > 0 THEN n - 1 ELSE 0

\* A value later than anything that may be served is not told apart.
Later(v) == IF v = None THEN None ELSE IF v > -Lateness THEN v - 1 ELSE -Lateness

\* Contexts end calls on time, and requests stall for no more than MaxStall.
Tick ==
    /\ \A r \in Requests :
          /\ At(r, "call") => request[r].timer > 0
          /\ request[r].pc \in Busy => request[r].stall < MaxStall
    /\ request' = [r \in Requests |->
          [request[r] EXCEPT !.timer = Down(@), !.value = Later(@),
                             !.stall = IF request[r].pc \in Busy THEN @ + 1 ELSE @]]
    /\ l1' = [g \in Gateways |-> IF l1[g] = None THEN None ELSE InL1(Later(l1[g]))]
    /\ l2' = IF l2 = None \/ l2.ttl = 1 THEN None
             ELSE [l2 EXCEPT !.value = Later(@), !.ttl = @ - 1]
    /\ lock' = IF lock = None \/ lock.ttl = 1 THEN None ELSE [lock EXCEPT !.ttl = @ - 1]
    /\ marker' = Down(marker)
    /\ UNCHANGED inFlight

\* What the goroutine of r does by itself.
Step(r) ==
    \/ GetL2Hit(r) \/ EarlyRefresh(r) \/ GetL2Miss(r)
    \/ Join(r) \/ Finish(r)
    \/ Acquire(r) \/ WaiterHit(r) \/ GiveUp(r) \/ OwnerHit(r) \/ OwnerMiss(r) \/ Release(r)
    \/ Record(r) \/ Start(r) \/ BackendTimesOut(r) \/ SetL2(r) \/ Respond(r)

\* What the backend, Redis and the clients may do to it.
Disturbance(r) ==
    \/ BackendAnswers(r) \/ BackendFails(r) \/ BackendPanics(r) \/ Cancel(r)

Next ==
    \/ \E r \in Requests, g \in Gateways, c \in Configs, f \in Factors : Arrive(r, g, c, f)
    \/ \E r \in Requests : Step(r) \/ Disturbance(r)
    \/ \E g \in Gateways : DropL1(g) \/ Restart(g)
    \/ DropL2
    \/ Tick

Spec == Init /\ [][Next]_vars

---------------------------------------------------------------------------
(* Properties                                                              *)

\* The type of every variable.
TypeOK ==
    /\ request \in [Requests -> RequestStates]
    /\ l1 \in [Gateways -> (0..MaxTTL) \cup {None}]
    /\ l2 \in [value : Values, ttl : 1..MaxTTL, locked : BOOLEAN] \cup {None}
    /\ inFlight \in [Gateways -> Requests \cup {None}]
    /\ lock \in [owner : Requests, ttl : 1..LockTTL(MaxTimeout)] \cup {None}
    /\ marker \in 0..MarkerTTL(MaxTimeout)

\* What a client is sent has not passed its L2Expiration by Lateness or more,
\* although getL2 does not look at it, Redis keeps a value for longer, a failed
\* early refresh falls back on it, L1 is filled with it once more, and a leader
\* passes it on to its followers.
ServedOnTime ==
    \A r \in Requests : At(r, "respond") /\ request[r].value # None =>
        request[r].value > -Lateness

\* From the moment it has found L2 empty until it has stored its own value, an
\* owner of the lock is the only one to refresh under the lock: a request that
\* missed the caches before another one filled them does not fetch again.
LockAvoidsRefetch ==
    \A r \in Requests :
        request[r].route = "lock" /\ request[r].pc \in {"record", "start", "call", "setL2"} =>
            l2 = None \/ ~l2.locked

Calling(r) == request[r].pc \in {"start", "call"}

\* Whatever strategies the others use, the backend never works at the same time
\* on two requests that use the lock, on any gateways, nor on two that use
\* SingleFlight on one gateway; only early refreshes come on top.
CallsAreCoordinated ==
    \A r, q \in Requests : r # q /\ Calling(r) /\ Calling(q) =>
        /\ ~(request[r].route \in {"lock", "blind"} /\ request[q].route \in {"lock", "blind"})
        /\ request[r].on = request[q].on /\ request[r].singleFlight /\ request[q].singleFlight =>
              request[r].route = "early" \/ request[q].route = "early"

\* Two calls that run at the same time are never counted as two logical
\* refreshes: the marker outlasts the call that created it.
CountedCallsDisjoint ==
    \A r, q \in Requests :
        Calling(r) /\ Calling(q) /\ request[r].counted /\ request[q].counted => r = q

\* Nobody waits for a call that nobody makes: as long as a request follows, the
\* call registered on its gateway is led by a request that runs there and will
\* publish it, in every way a call can end, also after a panic or a restart.
FollowersHaveLeader ==
    \A r \in Requests : At(r, "follow") =>
        \E q \in Requests :
            /\ inFlight[request[r].on] = q
            /\ request[q].on = request[r].on
            /\ request[q].pc \notin {"idle", "follow", "getL2", "join"}

=============================================================================
