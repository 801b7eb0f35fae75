-------------------------- MODULE DistributedLock --------------------------
(***************************************************************************)
(* gateway/distributed_lock.go: requests, on any gateway, that missed both *)
(* cache levels coordinate through a Redis lock per cache key, so that one *)
(* of them calls the backend and the others pick the value up from L2.     *)
(*                                                                         *)
(* A Redis command, a timer and the end of the backend call are separate   *)
(* steps; between any two of them other requests run and time passes.      *)
(* Time is a Tick that counts every running timer down, so that the model  *)
(* is finite without a bound on the clock.                                 *)
(***************************************************************************)
EXTENDS Naturals

CONSTANTS
    Requests,        \* requests that reach fetchWithDistributedLock
    Keys,            \* cache keys
    NoToken,         \* the token of a lock key that is absent from Redis
    Timeouts,        \* values of config.BackendTimeoutMs, in ticks
    SafetyMargin,    \* lockSafetyMargin, in ticks
    PollInterval,    \* lockPollInterval, in ticks
    MaxStall         \* ticks an owner may spend between SETNX and SET outside
                     \* the backend call: Redis round trips and scheduling

ASSUME NoTokenAssumption == NoToken \notin Requests
ASSUME DurationAssumption ==
    /\ Timeouts \subseteq Nat \ {0}
    /\ SafetyMargin \in Nat \ {0}
    /\ PollInterval \in Nat
    /\ MaxStall \in Nat

VARIABLES
    pc,      \* pc[r]: where request r is in the two functions
    key,     \* key[r]: its cacheKey
    timeout, \* timeout[r]: the BackendTimeoutMs of its configuration
    wait,    \* wait[r]: ticks until waitContext is done
    sleep,   \* sleep[r]: ticks until time.After(lockPollInterval) fires
    call,    \* call[r]: ticks until the context of the backend call is done
    stall,   \* stall[r]: ticks r spent as owner outside the backend call
    lock,    \* lock[k]: the Redis key distributedLockKey(k), and (history) the
             \* timeout of the request that took it
    l2,      \* l2[k]: whether L2 holds a value for k
    blocker  \* history: blocker[r] iff the lock now held on key[r] was
             \* already held when r entered fetchWithDistributedLock

vars == <<pc, key, timeout, wait, sleep, call, stall, lock, l2, blocker>>

---------------------------------------------------------------------------

\* lockTTL and waitTimeout of a request with BackendTimeoutMs = t.
LockTTL(t) == t + SafetyMargin

\* A wait that ends with the backend timeout instead of outlasting the lock.
WaitTimeoutTooShort(t) == t

WaitTimeout(t) == LockTTL(t) + SafetyMargin

Absent == [token |-> NoToken, ttl |-> 0, timeout |-> 0]

Locks == [token : Requests \cup {NoToken}, ttl : Nat, timeout : Timeouts \cup {0}]

Waiting == {"acquire", "waitL2", "exists", "poll"}

\* An owner that found no value under the lock, until its SET is done.
Refreshing == {"fetch", "store"}

Init ==
    /\ pc = [r \in Requests |-> "idle"]
    /\ key \in [Requests -> Keys]
    /\ timeout \in [Requests -> Timeouts]
    /\ wait = [r \in Requests |-> 0]
    /\ sleep = [r \in Requests |-> 0]
    /\ call = [r \in Requests |-> 0]
    /\ stall = [r \in Requests |-> 0]
    /\ lock = [k \in Keys |-> Absent]
    /\ l2 \in [Keys -> BOOLEAN]
    /\ blocker = [r \in Requests |-> FALSE]

Transition(r, from, to) ==
    /\ pc[r] = from
    /\ pc' = [pc EXCEPT ![r] = to]

\* The variables of a waiter end with its wait.
StopWaiting(r) ==
    /\ wait' = [wait EXCEPT ![r] = 0]
    /\ sleep' = [sleep EXCEPT ![r] = 0]
    /\ blocker' = [blocker EXCEPT ![r] = FALSE]

---------------------------------------------------------------------------
(* fetchWithDistributedLock                                                *)

\* lockTTL, waitTimeout and waitContext are computed on entry, from the
\* configuration that this request works with.
Enter(r, k, t) ==
    /\ Transition(r, "idle", "acquire")
    /\ key' = [key EXCEPT ![r] = k]
    /\ timeout' = [timeout EXCEPT ![r] = t]
    /\ wait' = [wait EXCEPT ![r] = WaitTimeout(t)]
    /\ blocker' = [blocker EXCEPT ![r] = lock[k] # Absent]
    /\ UNCHANGED <<sleep, call, stall, lock, l2>>

\* SET NX without the NX: it succeeds on a lock that is held.
SetNXAlways(k) == TRUE

SetNX(k) == lock[k] = Absent

\* A token is fresh; r can stand for it because the lock must be absent for r
\* to store it, so that an earlier token of r is never in Redis beside it.
Lock(r) ==
    [lock EXCEPT ![key[r]] =
       [token |-> r, ttl |-> LockTTL(timeout[r]), timeout |-> timeout[r]]]

\* tryAcquireDistributedLock: SET NX stores a fresh token with the lock TTL.
Acquire(r) ==
    /\ Transition(r, "acquire", "ownerL2")
    /\ wait[r] > 0
    /\ SetNX(key[r])
    /\ lock' = Lock(r)
    /\ StopWaiting(r)
    /\ UNCHANGED <<key, timeout, call, stall, l2>>

AcquireBusy(r) ==
    /\ Transition(r, "acquire", "waitL2")
    /\ wait[r] > 0
    /\ ~SetNX(key[r])
    /\ UNCHANGED <<key, timeout, wait, sleep, call, stall, lock, l2, blocker>>

\* SET NX took effect but its reply was lost.  The client library either
\* reports an error (503), or retries and is told that the lock is taken.
AcquireReplyLost(r) ==
    /\ wait[r] > 0
    /\ SetNX(key[r])
    /\ \/ Transition(r, "acquire", "idle") /\ StopWaiting(r)
       \/ Transition(r, "acquire", "waitL2") /\ UNCHANGED <<wait, sleep, blocker>>
    /\ lock' = Lock(r)
    /\ UNCHANGED <<key, timeout, call, stall, l2>>

\* getL2(waitContext): the value is there and the request is answered.
WaitL2Hit(r) ==
    /\ Transition(r, "waitL2", "idle")
    /\ wait[r] > 0
    /\ l2[key[r]]
    /\ StopWaiting(r)
    /\ UNCHANGED <<key, timeout, call, stall, lock, l2>>

\* No value, or a GET that failed: getL2 reports both as "not found".
WaitL2Miss(r) ==
    /\ Transition(r, "waitL2", "exists")
    /\ UNCHANGED <<key, timeout, wait, sleep, call, stall, lock, l2, blocker>>

\* EXISTS: the lock disappeared, so the loop tries again at once.
LockDisappeared(r) ==
    /\ Transition(r, "exists", "acquire")
    /\ wait[r] > 0
    /\ lock[key[r]] = Absent
    /\ UNCHANGED <<key, timeout, wait, sleep, call, stall, lock, l2, blocker>>

LockStillHeld(r) ==
    /\ Transition(r, "exists", "poll")
    /\ wait[r] > 0
    /\ lock[key[r]] # Absent
    /\ sleep' = [sleep EXCEPT ![r] = PollInterval]
    /\ UNCHANGED <<key, timeout, wait, call, stall, lock, l2, blocker>>

\* An error of Redis that makes the loop try again instead of returning.
RedisFailsRetried(r) ==
    /\ \/ Transition(r, "acquire", "acquire")
       \/ Transition(r, "exists", "acquire")
    /\ UNCHANGED <<key, timeout, wait, sleep, call, stall, lock, l2, blocker>>

\* The SET NX or the EXISTS returns an error (503): Redis failed it, or
\* waitContext is done.
RedisFails(r) ==
    /\ \/ Transition(r, "acquire", "idle")
       \/ Transition(r, "exists", "idle")
    /\ StopWaiting(r)
    /\ UNCHANGED <<key, timeout, call, stall, lock, l2>>

PollAgain(r) ==
    /\ Transition(r, "poll", "acquire")
    /\ sleep[r] = 0
    /\ UNCHANGED <<key, timeout, wait, sleep, call, stall, lock, l2, blocker>>

\* waitContext.Done() in the select: 504.
WaitTimesOut(r) ==
    /\ Transition(r, "poll", "idle")
    /\ wait[r] = 0
    /\ StopWaiting(r)
    /\ UNCHANGED <<key, timeout, call, stall, lock, l2>>

---------------------------------------------------------------------------
(* fetchAsDistributedLockOwner                                             *)

\* getL2(r.Context()) finds a value stored since the miss; the backend is
\* not called and the deferred release runs.
OwnerL2Hit(r) ==
    /\ Transition(r, "ownerL2", "release")
    /\ l2[key[r]]
    /\ stall' = [stall EXCEPT ![r] = 0]
    /\ UNCHANGED <<key, timeout, wait, sleep, call, lock, l2, blocker>>

\* The backend call is given the lifetime of the lock instead of its timeout.
OwnerCallsForLockTTL(r) ==
    /\ Transition(r, "ownerL2", "fetch")
    /\ call' = [call EXCEPT ![r] = LockTTL(timeout[r])]
    /\ UNCHANGED <<key, timeout, wait, sleep, stall, lock, l2, blocker>>

\* No value (or a failed GET): fetchFromBackend starts its own timeout.
OwnerCallsBackend(r) ==
    /\ Transition(r, "ownerL2", "fetch")
    /\ call' = [call EXCEPT ![r] = timeout[r]]
    /\ UNCHANGED <<key, timeout, wait, sleep, stall, lock, l2, blocker>>

\* A 2xx answer; any other status, an error, the timeout and a panic of the
\* proxy skip setL2 and go straight to the deferred release.
BackendAnswers(r) ==
    /\ Transition(r, "fetch", "store")
    /\ call[r] > 0
    /\ call' = [call EXCEPT ![r] = 0]
    /\ UNCHANGED <<key, timeout, wait, sleep, stall, lock, l2, blocker>>

BackendFails(r) ==
    /\ Transition(r, "fetch", "release")
    /\ call' = [call EXCEPT ![r] = 0]
    /\ stall' = [stall EXCEPT ![r] = 0]
    /\ UNCHANGED <<key, timeout, wait, sleep, lock, l2, blocker>>

\* setL2; its SET may fail, which is only logged.
Store(r) ==
    /\ Transition(r, "store", "release")
    /\ l2' \in {[l2 EXCEPT ![key[r]] = TRUE], l2}
    /\ stall' = [stall EXCEPT ![r] = 0]
    /\ UNCHANGED <<key, timeout, wait, sleep, call, lock, blocker>>

\* DEL without comparing the token first.
OwnsUnchecked(r) == TRUE

Owns(r) == lock[key[r]].token = r

\* The release script deletes the lock only if it still holds r's token.
Release(r) ==
    /\ Transition(r, "release", "idle")
    /\ IF Owns(r)
       THEN /\ lock' = [lock EXCEPT ![key[r]] = Absent]
            /\ blocker' = [q \in Requests |-> blocker[q] /\ key[q] # key[r]]
       ELSE UNCHANGED <<lock, blocker>>
    /\ UNCHANGED <<key, timeout, wait, sleep, call, stall, l2>>

\* The script fails or runs into its one-second timeout: the TTL remains.
ReleaseFails(r) ==
    /\ Transition(r, "release", "idle")
    /\ UNCHANGED <<key, timeout, wait, sleep, call, stall, lock, l2, blocker>>

---------------------------------------------------------------------------
(* Environment                                                             *)

\* The gateway that runs r is restarted.  For a waiter this is also what a
\* client that disconnects does: it cancels waitContext.  (An owner whose
\* client disconnects fails its next step and still runs the release.)
Crash(r) ==
    /\ pc[r] # "idle"
    /\ pc' = [pc EXCEPT ![r] = "idle"]
    /\ StopWaiting(r)
    /\ call' = [call EXCEPT ![r] = 0]
    /\ stall' = [stall EXCEPT ![r] = 0]
    /\ UNCHANGED <<key, timeout, lock, l2>>

\* The value of k expires, is evicted or is cleared.
L2Drop(k) ==
    /\ l2[k]
    /\ l2' = [l2 EXCEPT ![k] = FALSE]
    /\ UNCHANGED <<pc, key, timeout, wait, sleep, call, stall, lock, blocker>>

Down(n) == IF n > 0 THEN n - 1 ELSE 0

\* The context of a running backend call ends it on time, and an owner never
\* stalls for more than MaxStall ticks; nothing else is bounded.
Tick ==
    /\ \A r \in Requests :
          /\ pc[r] = "fetch" => call[r] > 0
          /\ pc[r] \in {"ownerL2", "store"} => stall[r] < MaxStall
    /\ wait' = [r \in Requests |-> Down(wait[r])]
    /\ sleep' = [r \in Requests |-> Down(sleep[r])]
    /\ call' = [r \in Requests |-> Down(call[r])]
    /\ stall' = [r \in Requests |->
                   IF pc[r] \in {"ownerL2", "store"} THEN stall[r] + 1 ELSE stall[r]]
    /\ lock' = [k \in Keys |->
                  IF lock[k].ttl > 1 THEN [lock[k] EXCEPT !.ttl = @ - 1] ELSE Absent]
    /\ blocker' = [r \in Requests |-> blocker[r] /\ lock[key[r]].ttl > 1]
    /\ UNCHANGED <<pc, key, timeout, l2>>

\* What the goroutine of r does next; each step is always taken eventually.
Step(r) ==
    \/ Acquire(r) \/ AcquireBusy(r) \/ AcquireReplyLost(r)
    \/ WaitL2Hit(r) \/ WaitL2Miss(r)
    \/ LockDisappeared(r) \/ LockStillHeld(r) \/ RedisFails(r)
    \/ PollAgain(r) \/ WaitTimesOut(r)
    \/ OwnerL2Hit(r) \/ OwnerCallsBackend(r)
    \/ BackendAnswers(r) \/ BackendFails(r) \/ Store(r)
    \/ Release(r) \/ ReleaseFails(r)

Next ==
    \/ \E r \in Requests : Step(r) \/ Crash(r)
    \/ \E r \in Requests, k \in Keys, t \in Timeouts : Enter(r, k, t)
    \/ \E k \in Keys : L2Drop(k)
    \/ Tick

Spec == Init /\ [][Next]_vars /\ WF_vars(Tick) /\ \A r \in Requests : WF_vars(Step(r))

---------------------------------------------------------------------------
(* Properties                                                              *)

\* The type of every variable; a timer never exceeds what it was set to.
TypeOK ==
    /\ pc \in [Requests -> Waiting \cup Refreshing \cup {"idle", "ownerL2", "release"}]
    /\ key \in [Requests -> Keys]
    /\ timeout \in [Requests -> Timeouts]
    /\ wait \in [Requests -> Nat]
    /\ sleep \in [Requests -> 0..PollInterval]
    /\ call \in [Requests -> Nat]
    /\ \A r \in Requests : wait[r] <= WaitTimeout(timeout[r]) /\ call[r] <= timeout[r]
    /\ stall \in [Requests -> 0..MaxStall]
    /\ lock \in [Keys -> Locks]
    /\ l2 \in [Keys -> BOOLEAN]
    /\ blocker \in [Requests -> BOOLEAN]

\* Of all the requests for a key, on all gateways, at most one calls the
\* backend and stores its answer: the lock outlives the call that it guards
\* although the call starts after the lock does.
SingleRefresher ==
    \A r, q \in Requests :
        pc[r] \in Refreshing /\ pc[q] \in Refreshing /\ key[r] = key[q] => r = q

\* A request whose wait ends while the lock that it found on arrival is still
\* there has a timeout that is smaller, by more than the margin, than that of
\* whoever took the lock: it takes a save that lowers BackendTimeoutMs for a
\* lock to outlast those who wait for it.  This is about the lock only.  When
\* it goes the waiter may be asleep, and as lockPollInterval is longer than
\* lockSafetyMargin the 504 may come before it tries again.
OnlyLongerLocksOutlastWaiters ==
    \A r \in Requests :
        pc[r] \in Waiting /\ wait[r] = 0 /\ blocker[r] =>
            timeout[r] + SafetyMargin < lock[key[r]].timeout

\* Whatever a late release does, it never removes the lock of another owner:
\* a lock goes away by its own owner's release or by its TTL.
ReleasedByOwner ==
    [][\A k \in Keys :
         lock[k] # Absent /\ lock'[k].token # lock[k].token =>
            \/ lock[k].ttl = 1 /\ Tick
            \/ \E r \in Requests :
                  r = lock[k].token /\ key[r] = k /\ pc[r] = "release" /\ pc'[r] = "idle"]_vars

\* Every request is answered, with a value or an error, although owners
\* crash, releases fail and the values that waiters poll for are dropped.
EveryRequestEnds ==
    \A r \in Requests : pc[r] # "idle" ~> pc[r] = "idle"

=============================================================================
