----------------------- MODULE DistributedLockProofs -----------------------
(***************************************************************************)
(* Proofs about DistributedLock, for any requests, keys and durations.     *)
(*                                                                         *)
(* SingleRefresher is not inductive.  What makes it true is a clock        *)
(* argument: while an owner works, the time its lock has left plus the     *)
(* time it has stalled equals the time its call may still take plus the    *)
(* safety margin (OwnerClock).  As long as an owner stalls for less than   *)
(* the margin the lock is therefore still in Redis, with its token.        *)
(***************************************************************************)
EXTENDS DistributedLock, TLAPS

Owning == {"ownerL2"} \cup Refreshing

\* A lock key exists in Redis exactly as long as it has time to live, which is
\* at most what the request that took it gave it.
LockWellFormed ==
    \A k \in Keys : lock[k] # Absent =>
        /\ lock[k].token \in Requests
        /\ 0 < lock[k].ttl /\ lock[k].ttl <= LockTTL(lock[k].timeout)

\* Only an owner has used up any of its allowance of stalls, and only one that
\* calls the backend has a running timeout.
StallOfOwners ==
    \A r \in Requests :
        /\ pc[r] \notin Owning => stall[r] = 0
        /\ pc[r] # "fetch" => call[r] = 0

\* The lock that a waiter found on arrival outlasts its wait by no more than
\* what the timeout of its owner exceeds the waiter's and the margin by.
BlockerClock ==
    \A r \in Requests : pc[r] \in Waiting /\ blocker[r] =>
        /\ 0 < lock[key[r]].ttl
        /\ lock[key[r]].ttl + timeout[r] + SafetyMargin <= wait[r] + lock[key[r]].timeout

\* An owner's lock is its own, and lasts as long as its call may, and longer
\* by the part of the margin that it has not lost to stalls.
OwnerClock ==
    \A r \in Requests :
        /\ pc[r] \in Owning => lock[key[r]].token = r
        /\ pc[r] = "ownerL2" => lock[key[r]].ttl + stall[r] = LockTTL(timeout[r])
        /\ pc[r] = "fetch" => lock[key[r]].ttl + stall[r] = call[r] + SafetyMargin
        /\ pc[r] = "store" => lock[key[r]].ttl + stall[r] >= SafetyMargin

LockInv == TypeOK /\ LockWellFormed /\ StallOfOwners /\ BlockerClock

USE NoTokenAssumption, DurationAssumption

\* The durations that distributed_lock.go computes from a timeout.
LEMMA Durations ==
    \A t \in Timeouts :
        /\ t \in Nat /\ t > 0
        /\ LockTTL(t) \in Nat /\ LockTTL(t) = t + SafetyMargin /\ LockTTL(t) > 0
        /\ WaitTimeout(t) \in Nat /\ WaitTimeout(t) = LockTTL(t) + SafetyMargin
  BY DEF LockTTL, WaitTimeout

\* The values of a lock key: absent, as SET NX stores it, and as time takes it.
LEMMA LockValues ==
    /\ Absent \in Locks /\ Absent.token = NoToken /\ Absent.ttl = 0 /\ Absent.timeout = 0
    /\ \A r \in Requests, t \in Timeouts :
          LET l == [token |-> r, ttl |-> LockTTL(t), timeout |-> t]
          IN  l \in Locks /\ l # Absent /\ l.token = r /\ l.ttl = LockTTL(t) /\ l.timeout = t
    /\ \A l \in Locks :
          /\ l.token \in Requests \cup {NoToken} /\ l.ttl \in Nat /\ l.timeout \in Nat
          /\ l.ttl > 0 => l # Absent
          /\ l.ttl > 1 =>
                LET m == [l EXCEPT !.ttl = @ - 1]
                IN  m \in Locks /\ m.token = l.token /\ m.ttl = l.ttl - 1 /\ m.timeout = l.timeout
<1>1. Absent \in Locks /\ Absent.token = NoToken /\ Absent.ttl = 0 /\ Absent.timeout = 0
  BY DEF Absent, Locks
<1>2. ASSUME NEW r \in Requests, NEW t \in Timeouts
      PROVE  LET l == [token |-> r, ttl |-> LockTTL(t), timeout |-> t]
             IN  l \in Locks /\ l # Absent /\ l.token = r /\ l.ttl = LockTTL(t) /\ l.timeout = t
  BY Durations DEF Absent, Locks
<1>3. ASSUME NEW l \in Locks
      PROVE  /\ l.token \in Requests \cup {NoToken} /\ l.ttl \in Nat /\ l.timeout \in Nat
             /\ l.ttl > 0 => l # Absent
             /\ l.ttl > 1 =>
                  LET m == [l EXCEPT !.ttl = @ - 1]
                  IN  m \in Locks /\ m.token = l.token /\ m.ttl = l.ttl - 1 /\ m.timeout = l.timeout
  <2>1. l.token \in Requests \cup {NoToken} /\ l.ttl \in Nat /\ l.timeout \in Timeouts \cup {0}
    BY DEF Locks
  <2>2. l.ttl > 0 => l # Absent
    BY <2>1 DEF Absent
  <2>3. ASSUME l.ttl > 1
        PROVE  [l EXCEPT !.ttl = @ - 1] \in Locks
    BY <2>1, <2>3 DEF Locks
  <2>4. ASSUME l.ttl > 1, NEW m, m = [l EXCEPT !.ttl = @ - 1]
        PROVE  m.token = l.token /\ m.ttl = l.ttl - 1 /\ m.timeout = l.timeout
    BY <2>4 DEF Locks
  <2> QED BY <2>1, <2>2, <2>3, <2>4
<1> QED BY <1>1, <1>2, <1>3

USE Durations, LockValues
USE DEF Waiting, Refreshing, Owning, Transition, StopWaiting, SetNX, Lock, Owns, Down

\* Every initial state satisfies the invariant.
LEMMA InitLockInv == Init => LockInv /\ OwnerClock
  BY DEF Init, LockInv, TypeOK, LockWellFormed, StallOfOwners, BlockerClock, OwnerClock

\* Every step keeps every variable within its type.
LEMMA TypeOKStep == TypeOK /\ StallOfOwners /\ [Next]_vars => TypeOK'
<1> SUFFICES ASSUME TypeOK, StallOfOwners, [Next]_vars PROVE TypeOK'
  OBVIOUS
<1> USE DEF TypeOK
<1>1. ASSUME NEW r \in Requests, Step(r) PROVE TypeOK'
  <2>1. CASE Acquire(r) BY <2>1 DEF Acquire
  <2>2. CASE AcquireBusy(r) BY <2>2 DEF AcquireBusy
  <2>3. CASE AcquireReplyLost(r)
    <3>1. lock' \in [Keys -> Locks]
      BY <2>3 DEF AcquireReplyLost
    <3>2. CASE Transition(r, "acquire", "idle") /\ StopWaiting(r)
      BY <2>3, <3>1, <3>2 DEF AcquireReplyLost
    <3>3. CASE Transition(r, "acquire", "waitL2") /\ UNCHANGED <<wait, sleep, blocker>>
      BY <2>3, <3>1, <3>3 DEF AcquireReplyLost
    <3> QED BY <2>3, <3>2, <3>3 DEF AcquireReplyLost
  <2>4. CASE WaitL2Hit(r) BY <2>4 DEF WaitL2Hit
  <2>5. CASE WaitL2Miss(r) BY <2>5 DEF WaitL2Miss
  <2>6. CASE LockDisappeared(r) BY <2>6 DEF LockDisappeared
  <2>7. CASE LockStillHeld(r) BY <2>7 DEF LockStillHeld
  <2>8. CASE RedisFails(r) BY <2>8 DEF RedisFails
  <2>9. CASE PollAgain(r) BY <2>9 DEF PollAgain
  <2>10. CASE WaitTimesOut(r) BY <2>10 DEF WaitTimesOut
  <2>11. CASE OwnerL2Hit(r) BY <2>11 DEF OwnerL2Hit
  <2>12. CASE OwnerCallsBackend(r) BY <2>12 DEF OwnerCallsBackend
  <2>13. CASE BackendAnswers(r) BY <2>13 DEF BackendAnswers
  <2>14. CASE BackendFails(r) BY <2>14 DEF BackendFails
  <2>15. CASE Store(r)
    <3>1. l2' = [l2 EXCEPT ![key[r]] = TRUE] \/ l2' = l2
      BY <2>15 DEF Store
    <3>2. l2' \in [Keys -> BOOLEAN]
      BY <3>1
    <3> QED BY <2>15, <3>2 DEF Store
  <2>16. CASE Release(r)
    <3>1. blocker' \in [Requests -> BOOLEAN]
      <4>1. CASE blocker' = [q \in Requests |-> blocker[q] /\ key[q] # key[r]]
        BY <4>1, Zenon
      <4>2. CASE blocker' = blocker
        BY <4>2, Zenon
      <4> QED BY <2>16, <4>1, <4>2, Zenon DEF Release
    <3>2. lock' \in [Keys -> Locks]
      BY <2>16 DEF Release
    <3> QED BY <2>16, <3>1, <3>2 DEF Release
  <2>17. CASE ReleaseFails(r) BY <2>17 DEF ReleaseFails
  <2> QED BY <1>1, <2>1, <2>2, <2>3, <2>4, <2>5, <2>6, <2>7, <2>8, <2>9, <2>10,
             <2>11, <2>12, <2>13, <2>14, <2>15, <2>16, <2>17 DEF Step
<1>2. ASSUME NEW r \in Requests, Crash(r) PROVE TypeOK'
  BY <1>2 DEF Crash
<1>3. ASSUME NEW r \in Requests, NEW k \in Keys, NEW t \in Timeouts, Enter(r, k, t)
      PROVE  TypeOK'
  <2>1. blocker' \in [Requests -> BOOLEAN]
    <3>1. blocker' = [blocker EXCEPT ![r] = lock[k] # Absent]
      BY <1>3, Zenon DEF Enter
    <3> QED BY <3>1, Zenon
  <2>2. /\ pc' = [pc EXCEPT ![r] = "acquire"] /\ key' = [key EXCEPT ![r] = k]
        /\ timeout' = [timeout EXCEPT ![r] = t] /\ wait' = [wait EXCEPT ![r] = WaitTimeout(t)]
        /\ UNCHANGED <<sleep, stall, lock, l2>>
    BY <1>3, Zenon DEF Enter
  <2>3. call' = call /\ call[r] = 0
    BY <1>3 DEF Enter, StallOfOwners
  <2> QED BY <2>1, <2>2, <2>3
<1>4. ASSUME NEW k \in Keys, L2Drop(k) PROVE TypeOK'
  BY <1>4 DEF L2Drop
<1>5. CASE Tick
  <2>1. stall' \in [Requests -> 0..MaxStall]
    BY <1>5 DEF Tick
  <2>2. lock' \in [Keys -> Locks]
    <3>1. ASSUME NEW k \in Keys, lock[k].ttl > 1
          PROVE  [lock[k] EXCEPT !.ttl = @ - 1] \in Locks
      BY <3>1
    <3> QED BY <1>5, <3>1 DEF Tick
  <2>3. blocker' \in [Requests -> BOOLEAN]
    <3>1. blocker' = [r \in Requests |-> blocker[r] /\ lock[key[r]].ttl > 1]
      BY <1>5 DEF Tick
    <3> QED BY <3>1, Zenon
  <2>4. /\ wait' \in [Requests -> Nat]
        /\ sleep' \in [Requests -> 0..PollInterval]
        /\ call' \in [Requests -> Nat]
        /\ \A r \in Requests : wait'[r] <= wait[r] /\ call'[r] <= call[r]
    BY <1>5 DEF Tick
  <2> QED BY <1>5, <2>1, <2>2, <2>3, <2>4 DEF Tick
<1>6. CASE UNCHANGED vars
  BY <1>6 DEF vars
<1> QED BY <1>1, <1>2, <1>3, <1>4, <1>5, <1>6 DEF Next

\* A lock appears with its TTL and disappears with it.
LEMMA LockWellFormedStep == LockInv /\ [Next]_vars => LockWellFormed'
<1> SUFFICES ASSUME LockInv, [Next]_vars PROVE LockWellFormed'
  OBVIOUS
<1> USE DEF LockInv, TypeOK, LockWellFormed, StallOfOwners, BlockerClock
<1>1. ASSUME NEW r \in Requests, Step(r) PROVE LockWellFormed'
  <2>1. CASE Acquire(r) BY <2>1 DEF Acquire
  <2>2. CASE AcquireBusy(r) BY <2>2 DEF AcquireBusy
  <2>3. CASE AcquireReplyLost(r) BY <2>3 DEF AcquireReplyLost
  <2>4. CASE WaitL2Hit(r) BY <2>4 DEF WaitL2Hit
  <2>5. CASE WaitL2Miss(r) BY <2>5 DEF WaitL2Miss
  <2>6. CASE LockDisappeared(r) BY <2>6 DEF LockDisappeared
  <2>7. CASE LockStillHeld(r) BY <2>7 DEF LockStillHeld
  <2>8. CASE RedisFails(r) BY <2>8 DEF RedisFails
  <2>9. CASE PollAgain(r) BY <2>9 DEF PollAgain
  <2>10. CASE WaitTimesOut(r) BY <2>10 DEF WaitTimesOut
  <2>11. CASE OwnerL2Hit(r) BY <2>11 DEF OwnerL2Hit
  <2>12. CASE OwnerCallsBackend(r) BY <2>12 DEF OwnerCallsBackend
  <2>13. CASE BackendAnswers(r) BY <2>13 DEF BackendAnswers
  <2>14. CASE BackendFails(r) BY <2>14 DEF BackendFails
  <2>15. CASE Store(r) BY <2>15 DEF Store
  <2>16. CASE Release(r)
    <3>1. ASSUME NEW k \in Keys PROVE lock'[k] = lock[k] \/ lock'[k] = Absent
      BY <2>16 DEF Release
    <3> QED BY <3>1
  <2>17. CASE ReleaseFails(r) BY <2>17 DEF ReleaseFails
  <2> QED BY <1>1, <2>1, <2>2, <2>3, <2>4, <2>5, <2>6, <2>7, <2>8, <2>9, <2>10,
             <2>11, <2>12, <2>13, <2>14, <2>15, <2>16, <2>17 DEF Step
<1>2. ASSUME NEW r \in Requests, Crash(r) PROVE LockWellFormed'
  BY <1>2 DEF Crash
<1>3. ASSUME NEW r \in Requests, NEW k \in Keys, NEW t \in Timeouts, Enter(r, k, t)
      PROVE  LockWellFormed'
  BY <1>3 DEF Enter
<1>4. ASSUME NEW k \in Keys, L2Drop(k) PROVE LockWellFormed'
  BY <1>4 DEF L2Drop
<1>5. CASE Tick
  <2>1. ASSUME NEW k \in Keys, lock'[k] # Absent
        PROVE  lock[k].ttl > 1 /\ lock'[k] = [lock[k] EXCEPT !.ttl = @ - 1]
    BY <1>5, <2>1 DEF Tick
  <2>2. ASSUME NEW k \in Keys, lock'[k] # Absent
        PROVE  /\ lock'[k].token = lock[k].token /\ lock'[k].ttl = lock[k].ttl - 1
               /\ lock'[k].timeout = lock[k].timeout
               /\ lock[k].ttl \in Nat /\ lock[k].ttl > 1
               /\ lock[k].token \in Requests /\ lock[k].ttl <= LockTTL(lock[k].timeout)
    <3>1. lock[k] \in Locks
      OBVIOUS
    <3>2. lock[k].ttl > 1 /\ lock'[k] = [lock[k] EXCEPT !.ttl = @ - 1]
      BY <2>1, <2>2
    <3>3. lock[k] # Absent
      BY <3>1, <3>2
    <3> HIDE DEF TypeOK
    <3> QED BY <3>1, <3>2, <3>3
  <2>3. ASSUME NEW k \in Keys, lock'[k] # Absent PROVE LockTTL(lock[k].timeout) \in Nat
    <3>1. lock[k] \in Locks
      OBVIOUS
    <3>2. lock[k].timeout \in Nat
      BY <3>1
    <3> QED BY <3>2, SMT DEF LockTTL
  <2> QED BY <2>2, <2>3
<1>6. CASE UNCHANGED vars
  BY <1>6 DEF vars
<1> QED BY <1>1, <1>2, <1>3, <1>4, <1>5, <1>6 DEF Next

\* Whoever stops refreshing returns its allowance.
LEMMA StallStep == LockInv /\ [Next]_vars => StallOfOwners'
<1> SUFFICES ASSUME LockInv, [Next]_vars PROVE StallOfOwners'
  OBVIOUS
<1> USE DEF LockInv, TypeOK, LockWellFormed, StallOfOwners, BlockerClock
<1>1. ASSUME NEW r \in Requests, Step(r) PROVE StallOfOwners'
  <2>1. CASE Acquire(r) BY <2>1 DEF Acquire
  <2>2. CASE AcquireBusy(r) BY <2>2 DEF AcquireBusy
  <2>3. CASE AcquireReplyLost(r) BY <2>3 DEF AcquireReplyLost
  <2>4. CASE WaitL2Hit(r) BY <2>4 DEF WaitL2Hit
  <2>5. CASE WaitL2Miss(r) BY <2>5 DEF WaitL2Miss
  <2>6. CASE LockDisappeared(r) BY <2>6 DEF LockDisappeared
  <2>7. CASE LockStillHeld(r) BY <2>7 DEF LockStillHeld
  <2>8. CASE RedisFails(r) BY <2>8 DEF RedisFails
  <2>9. CASE PollAgain(r) BY <2>9 DEF PollAgain
  <2>10. CASE WaitTimesOut(r) BY <2>10 DEF WaitTimesOut
  <2>11. CASE OwnerL2Hit(r) BY <2>11 DEF OwnerL2Hit
  <2>12. CASE OwnerCallsBackend(r) BY <2>12 DEF OwnerCallsBackend
  <2>13. CASE BackendAnswers(r) BY <2>13 DEF BackendAnswers
  <2>14. CASE BackendFails(r) BY <2>14 DEF BackendFails
  <2>15. CASE Store(r) BY <2>15 DEF Store
  <2>16. CASE Release(r) BY <2>16 DEF Release
  <2>17. CASE ReleaseFails(r) BY <2>17 DEF ReleaseFails
  <2> QED BY <1>1, <2>1, <2>2, <2>3, <2>4, <2>5, <2>6, <2>7, <2>8, <2>9, <2>10,
             <2>11, <2>12, <2>13, <2>14, <2>15, <2>16, <2>17 DEF Step
<1>2. ASSUME NEW r \in Requests, Crash(r) PROVE StallOfOwners'
  BY <1>2 DEF Crash
<1>3. ASSUME NEW r \in Requests, NEW k \in Keys, NEW t \in Timeouts, Enter(r, k, t)
      PROVE  StallOfOwners'
  BY <1>3 DEF Enter
<1>4. ASSUME NEW k \in Keys, L2Drop(k) PROVE StallOfOwners'
  BY <1>4 DEF L2Drop
<1>5. CASE Tick
  BY <1>5 DEF Tick
<1>6. CASE UNCHANGED vars
  BY <1>6 DEF vars
<1> QED BY <1>1, <1>2, <1>3, <1>4, <1>5, <1>6 DEF Next

\* A lock that is replaced stops being the one a waiter found.
LEMMA BlockerStep == LockInv /\ [Next]_vars => BlockerClock'
<1> SUFFICES ASSUME LockInv, [Next]_vars PROVE BlockerClock'
  OBVIOUS
<1> USE DEF LockInv, TypeOK, LockWellFormed, StallOfOwners, BlockerClock
<1>1. ASSUME NEW r \in Requests, Step(r) PROVE BlockerClock'
  <2>1. CASE Acquire(r) BY <2>1 DEF Acquire
  <2>2. CASE AcquireBusy(r) BY <2>2 DEF AcquireBusy
  <2>3. CASE AcquireReplyLost(r) BY <2>3 DEF AcquireReplyLost
  <2>4. CASE WaitL2Hit(r) BY <2>4 DEF WaitL2Hit
  <2>5. CASE WaitL2Miss(r) BY <2>5 DEF WaitL2Miss
  <2>6. CASE LockDisappeared(r) BY <2>6 DEF LockDisappeared
  <2>7. CASE LockStillHeld(r) BY <2>7 DEF LockStillHeld
  <2>8. CASE RedisFails(r) BY <2>8 DEF RedisFails
  <2>9. CASE PollAgain(r) BY <2>9 DEF PollAgain
  <2>10. CASE WaitTimesOut(r) BY <2>10 DEF WaitTimesOut
  <2>11. CASE OwnerL2Hit(r) BY <2>11 DEF OwnerL2Hit
  <2>12. CASE OwnerCallsBackend(r) BY <2>12 DEF OwnerCallsBackend
  <2>13. CASE BackendAnswers(r) BY <2>13 DEF BackendAnswers
  <2>14. CASE BackendFails(r) BY <2>14 DEF BackendFails
  <2>15. CASE Store(r) BY <2>15 DEF Store
  <2>16. CASE Release(r)
    <3>1. CASE Owns(r)
      <4>1. ASSUME NEW q \in Requests, blocker'[q] PROVE blocker[q] /\ key[q] # key[r]
        <5>1. blocker' = [p \in Requests |-> blocker[p] /\ key[p] # key[r]]
          BY <2>16, <3>1, Zenon DEF Release
        <5> QED BY <4>1, <5>1, Zenon
      <4> QED BY <2>16, <3>1, <4>1 DEF Release
    <3>2. CASE ~Owns(r)
      BY <2>16, <3>2 DEF Release
    <3> QED BY <3>1, <3>2
  <2>17. CASE ReleaseFails(r) BY <2>17 DEF ReleaseFails
  <2> QED BY <1>1, <2>1, <2>2, <2>3, <2>4, <2>5, <2>6, <2>7, <2>8, <2>9, <2>10,
             <2>11, <2>12, <2>13, <2>14, <2>15, <2>16, <2>17 DEF Step
<1>2. ASSUME NEW r \in Requests, Crash(r) PROVE BlockerClock'
  BY <1>2 DEF Crash
<1>3. ASSUME NEW r \in Requests, NEW k \in Keys, NEW t \in Timeouts, Enter(r, k, t)
      PROVE  BlockerClock'
  <2>1. lock[k] # Absent => lock[k].ttl > 0
    OBVIOUS
  <2>2. ASSUME blocker'[r] PROVE lock[k] # Absent
    <3>1. blocker' = [blocker EXCEPT ![r] = lock[k] # Absent]
      BY <1>3, Zenon DEF Enter
    <3>2. r \in DOMAIN blocker
      OBVIOUS
    <3>3. blocker'[r] = (lock[k] # Absent)
      BY <3>1, <3>2, Zenon
    <3> QED BY <2>2, <3>3, Zenon
  <2>3. ASSUME NEW q \in Requests, q # r, blocker'[q] PROVE blocker[q]
    BY <1>3, <2>3, Zenon DEF Enter
  <2>4. /\ pc' = [pc EXCEPT ![r] = "acquire"] /\ key' = [key EXCEPT ![r] = k]
        /\ timeout' = [timeout EXCEPT ![r] = t] /\ wait' = [wait EXCEPT ![r] = WaitTimeout(t)]
        /\ lock' = lock
    BY <1>3, Zenon DEF Enter
  <2>5. ASSUME blocker'[r]
        PROVE  /\ 0 < lock[k].ttl
               /\ lock[k].ttl + t + SafetyMargin <= WaitTimeout(t) + lock[k].timeout
    <3>1. lock[k] \in Locks /\ lock[k].ttl <= LockTTL(lock[k].timeout) /\ 0 < lock[k].ttl
      BY <2>2, <2>5
    <3>2. lock[k].ttl \in Nat /\ lock[k].timeout \in Nat
      BY <3>1
    <3>3. lock[k].ttl <= lock[k].timeout + SafetyMargin
      BY <3>1 DEF LockTTL
    <3>4. t \in Nat /\ WaitTimeout(t) = t + SafetyMargin + SafetyMargin
      BY DEF LockTTL, WaitTimeout
    <3> HIDE DEF LockInv, TypeOK, LockWellFormed, StallOfOwners, BlockerClock
    <3> QED BY <3>1, <3>2, <3>3, <3>4
  <2>6. ASSUME NEW q \in Requests, q # r
        PROVE  pc'[q] = pc[q] /\ key'[q] = key[q] /\ timeout'[q] = timeout[q] /\ wait'[q] = wait[q]
    BY <2>4, <2>6
  <2>7. key'[r] = k /\ timeout'[r] = t /\ wait'[r] = WaitTimeout(t)
    BY <2>4
  <2> SUFFICES ASSUME NEW q \in Requests, pc'[q] \in Waiting, blocker'[q]
               PROVE  /\ 0 < lock'[key'[q]].ttl
                      /\ lock'[key'[q]].ttl + timeout'[q] + SafetyMargin
                            <= wait'[q] + lock'[key'[q]].timeout
    OBVIOUS
  <2>8. CASE q = r
    BY <2>4, <2>5, <2>7, <2>8
  <2>9. CASE q # r
    BY <2>3, <2>4, <2>6, <2>9
  <2> QED BY <2>8, <2>9
<1>4. ASSUME NEW k \in Keys, L2Drop(k) PROVE BlockerClock'
  BY <1>4 DEF L2Drop
<1>5. CASE Tick
  <2>1. ASSUME NEW q \in Requests, blocker'[q] PROVE blocker[q] /\ lock[key[q]].ttl > 1
    BY <1>5, <2>1, Zenon DEF Tick
  <2> QED BY <1>5, <2>1 DEF Tick
<1>6. CASE UNCHANGED vars
  BY <1>6 DEF vars
<1> QED BY <1>1, <1>2, <1>3, <1>4, <1>5, <1>6 DEF Next

\* Stalls are the only thing that an owner's lock loses on its call.
LEMMA OwnerClockStep == LockInv /\ OwnerClock /\ MaxStall < SafetyMargin /\ [Next]_vars => OwnerClock'
<1> SUFFICES ASSUME LockInv, OwnerClock, MaxStall < SafetyMargin, [Next]_vars PROVE OwnerClock'
  OBVIOUS
<1> USE DEF LockInv, TypeOK, LockWellFormed, StallOfOwners, BlockerClock, OwnerClock
<1>1. ASSUME NEW r \in Requests, Step(r) PROVE OwnerClock'
  <2>1. CASE Acquire(r) BY <2>1 DEF Acquire
  <2>2. CASE AcquireBusy(r) BY <2>2 DEF AcquireBusy
  <2>3. CASE AcquireReplyLost(r) BY <2>3 DEF AcquireReplyLost
  <2>4. CASE WaitL2Hit(r) BY <2>4 DEF WaitL2Hit
  <2>5. CASE WaitL2Miss(r) BY <2>5 DEF WaitL2Miss
  <2>6. CASE LockDisappeared(r) BY <2>6 DEF LockDisappeared
  <2>7. CASE LockStillHeld(r) BY <2>7 DEF LockStillHeld
  <2>8. CASE RedisFails(r) BY <2>8 DEF RedisFails
  <2>9. CASE PollAgain(r) BY <2>9 DEF PollAgain
  <2>10. CASE WaitTimesOut(r) BY <2>10 DEF WaitTimesOut
  <2>11. CASE OwnerL2Hit(r) BY <2>11 DEF OwnerL2Hit
  <2>12. CASE OwnerCallsBackend(r) BY <2>12 DEF OwnerCallsBackend
  <2>13. CASE BackendAnswers(r) BY <2>13 DEF BackendAnswers
  <2>14. CASE BackendFails(r) BY <2>14 DEF BackendFails
  <2>15. CASE Store(r) BY <2>15 DEF Store
  <2>16. CASE Release(r)
    <3>1. ASSUME NEW q \in Requests, pc'[q] \in Owning
          PROVE  pc'[q] = pc[q] /\ lock'[key[q]] = lock[key[q]]
      <4>1. q # r /\ pc'[q] = pc[q]
        BY <2>16, <3>1 DEF Release
      <4>2. lock[key[q]].token = q
        BY <3>1, <4>1
      <4> QED BY <2>16, <4>1, <4>2 DEF Release
    <3>2. UNCHANGED <<key, timeout, call, stall>>
      BY <2>16 DEF Release
    <3> QED BY <3>1, <3>2
  <2>17. CASE ReleaseFails(r) BY <2>17 DEF ReleaseFails
  <2> QED BY <1>1, <2>1, <2>2, <2>3, <2>4, <2>5, <2>6, <2>7, <2>8, <2>9, <2>10,
             <2>11, <2>12, <2>13, <2>14, <2>15, <2>16, <2>17 DEF Step
<1>2. ASSUME NEW r \in Requests, Crash(r) PROVE OwnerClock'
  BY <1>2 DEF Crash
<1>3. ASSUME NEW r \in Requests, NEW k \in Keys, NEW t \in Timeouts, Enter(r, k, t)
      PROVE  OwnerClock'
  BY <1>3 DEF Enter
<1>4. ASSUME NEW k \in Keys, L2Drop(k) PROVE OwnerClock'
  BY <1>4 DEF L2Drop
<1>5. CASE Tick
  <2>0. UNCHANGED <<pc, key, timeout>>
    BY <1>5 DEF Tick
  <2> SUFFICES ASSUME NEW r \in Requests, pc[r] \in Owning
               PROVE  /\ lock'[key[r]].token = r
                      /\ pc[r] = "ownerL2" => lock'[key[r]].ttl + stall'[r] = LockTTL(timeout[r])
                      /\ pc[r] = "fetch" =>
                            lock'[key[r]].ttl + stall'[r] = call'[r] + SafetyMargin
                      /\ pc[r] = "store" => lock'[key[r]].ttl + stall'[r] >= SafetyMargin
    BY <2>0
  <2>a. key[r] \in Keys /\ lock[key[r]] \in Locks
    OBVIOUS
  <2>4. lock[key[r]].ttl \in Nat /\ stall[r] \in Nat /\ call[r] \in Nat
    <3>1. lock[key[r]].ttl \in Nat
      <4> HIDE DEF TypeOK
      <4> QED BY <2>a
    <3>2. stall[r] \in Nat
      OBVIOUS
    <3>3. call[r] \in Nat
      OBVIOUS
    <3> QED BY <3>1, <3>2, <3>3
  <2>b. /\ pc[r] = "fetch" => call[r] > 0
        /\ pc[r] \in {"ownerL2", "store"} => stall[r] < MaxStall
    BY <1>5 DEF Tick
  <2>c. timeout[r] \in Nat /\ LockTTL(timeout[r]) = timeout[r] + SafetyMargin
    OBVIOUS
  <2>1. lock[key[r]].ttl > 1
    <3>1. stall[r] <= MaxStall
      OBVIOUS
    <3>2. /\ pc[r] = "ownerL2" => lock[key[r]].ttl + stall[r] = timeout[r] + SafetyMargin
          /\ pc[r] = "fetch" => lock[key[r]].ttl + stall[r] = call[r] + SafetyMargin
          /\ pc[r] = "store" => lock[key[r]].ttl + stall[r] >= SafetyMargin
      BY <2>c
    <3> HIDE DEF LockInv, TypeOK, LockWellFormed, StallOfOwners, BlockerClock, OwnerClock
    <3> QED BY <2>4, <2>b, <2>c, <3>1, <3>2
  <2>2. /\ lock'[key[r]].token = r
        /\ lock'[key[r]].ttl = lock[key[r]].ttl - 1
    <3>1. lock'[key[r]] = [lock[key[r]] EXCEPT !.ttl = @ - 1]
      BY <1>5, <2>a, <2>1 DEF Tick
    <3>2. lock[key[r]].token = r
      OBVIOUS
    <3> HIDE DEF TypeOK
    <3> QED BY <2>a, <2>1, <3>1, <3>2
  <2>3. /\ pc[r] = "fetch" => stall'[r] = stall[r] /\ call'[r] = call[r] - 1
        /\ pc[r] \in {"ownerL2", "store"} => stall'[r] = stall[r] + 1
    BY <1>5 DEF Tick
  <2>5. CASE pc[r] = "ownerL2"
    <3>1. lock[key[r]].ttl + stall[r] = LockTTL(timeout[r])
      BY <2>5
    <3> HIDE DEF LockInv, TypeOK, LockWellFormed, StallOfOwners, BlockerClock, OwnerClock
    <3> QED BY <2>2, <2>3, <2>4, <2>c, <2>5, <3>1
  <2>6. CASE pc[r] = "fetch"
    <3>1. lock[key[r]].ttl + stall[r] = call[r] + SafetyMargin
      BY <2>6
    <3>2. lock[key[r]].ttl - 1 + stall[r] = call[r] - 1 + SafetyMargin
      <4> HIDE DEF LockInv, TypeOK, LockWellFormed, StallOfOwners, BlockerClock, OwnerClock
      <4>1. SafetyMargin \in Nat
        OBVIOUS
      <4> QED BY <2>4, <3>1, <4>1
    <3> QED BY <2>2, <2>3, <2>6, <3>2
  <2>7. CASE pc[r] = "store" BY <2>2, <2>3, <2>4, <2>7
  <2> QED BY <2>5, <2>6, <2>7
<1>6. CASE UNCHANGED vars
  BY <1>6 DEF vars
<1> QED BY <1>1, <1>2, <1>3, <1>4, <1>5, <1>6 DEF Next

\* The invariant that every behaviour satisfies, however long owners stall.
THEOREM LockInvariant == Spec => []LockInv
<1>1. LockInv /\ [Next]_vars => LockInv'
  BY TypeOKStep, LockWellFormedStep, StallStep, BlockerStep DEF LockInv
<1> QED BY InitLockInv, <1>1, PTL DEF Spec

\* tryAcquireDistributedLock, the wait loop and the owner keep every timer
\* and every lock within its type.
THEOREM TypeCorrect == Spec => []TypeOK
  BY LockInvariant, PTL DEF LockInv

\* waitTimeout = lockTTL + lockSafetyMargin, each from the configuration of the
\* request at hand: whatever configurations the requests work with, the lock
\* that a waiter found on arrival is gone when its wait ends, unless whoever
\* took the lock has a timeout that is larger by more than the margin.
THEOREM WaitersOutlastLocks == Spec => []OnlyLongerLocksOutlastWaiters
<1>1. LockInv => OnlyLongerLocksOutlastWaiters
  <2> SUFFICES ASSUME LockInv, NEW r \in Requests, pc[r] \in Waiting, wait[r] = 0, blocker[r]
               PROVE  timeout[r] + SafetyMargin < lock[key[r]].timeout
    BY DEF OnlyLongerLocksOutlastWaiters
  <2> DEFINE l == lock[key[r]]
  <2>1. /\ 0 < l.ttl
        /\ l.ttl + timeout[r] + SafetyMargin <= 0 + l.timeout
    BY DEF LockInv, BlockerClock
  <2>2. l \in Locks /\ timeout[r] \in Timeouts
    BY DEF LockInv, TypeOK
  <2>3. l.ttl \in Nat /\ l.timeout \in Nat /\ timeout[r] \in Nat
    BY <2>2, LockValues, Durations
  <2> HIDE DEF l
  <2>4. timeout[r] + SafetyMargin < l.timeout
    BY <2>1, <2>3
  <2> QED BY <2>4 DEF l
<1> QED BY LockInvariant, <1>1, PTL

\* lockTTL = timeout + lockSafetyMargin is long enough for owners that stall
\* for less than the margin: at most one request refreshes a key.
THEOREM OneRefresher ==
    ASSUME MaxStall < SafetyMargin
    PROVE  Spec => []SingleRefresher
<1>1. LockInv /\ OwnerClock /\ [Next]_vars => OwnerClock'
  BY OwnerClockStep
<1>2. OwnerClock => SingleRefresher
  BY DEF OwnerClock, SingleRefresher
<1> QED BY InitLockInv, LockInvariant, <1>1, <1>2, PTL DEF Spec

\* The token comparison of the release script: a lock goes away by its own
\* owner's release or by its TTL, never by the release of a late owner.
THEOREM LocksReleasedByOwner == Spec => ReleasedByOwner
<1>1. ASSUME LockInv, [Next]_vars, NEW k \in Keys,
             lock[k] # Absent, lock'[k].token # lock[k].token
      PROVE  \/ lock[k].ttl = 1 /\ Tick
             \/ \E r \in Requests :
                  r = lock[k].token /\ key[r] = k /\ pc[r] = "release" /\ pc'[r] = "idle"
  <2> USE DEF LockInv, TypeOK, LockWellFormed
  <2>1. CASE Tick
    <3>1. lock[k].ttl # 0
      BY <1>1
    <3>2. lock[k].ttl > 1 => lock'[k].token = lock[k].token
      BY <2>1 DEF Tick
    <3>3. lock[k].ttl \in Nat
      BY <1>1
    <3>4. ~(lock[k].ttl > 1)
      BY <1>1, <3>2
    <3>5. lock[k].ttl = 1
      <4> HIDE DEF LockInv, TypeOK, LockWellFormed
      <4> QED BY <3>1, <3>3, <3>4
    <3> QED BY <2>1, <3>5
  <2>2. ASSUME NEW r \in Requests, SetNX(key[r]), lock' = Lock(r) PROVE FALSE
    BY <1>1, <2>2
  <2>3. ASSUME NEW r \in Requests, Release(r)
        PROVE  r = lock[k].token /\ key[r] = k /\ pc[r] = "release" /\ pc'[r] = "idle"
    BY <1>1, <2>3 DEF Release
  <2>4. lock' # lock
    BY <1>1
  <2> QED
    BY <1>1, <2>1, <2>2, <2>3, <2>4 DEF Next, Step, Acquire, AcquireBusy, AcquireReplyLost,
       WaitL2Hit, WaitL2Miss, LockDisappeared, LockStillHeld, RedisFails, PollAgain,
       WaitTimesOut, OwnerL2Hit, OwnerCallsBackend, BackendAnswers, BackendFails, Store,
       ReleaseFails, Crash, Enter, L2Drop, vars
<1>2. LockInv /\ [Next]_vars =>
        [\A k \in Keys :
           lock[k] # Absent /\ lock'[k].token # lock[k].token =>
              \/ lock[k].ttl = 1 /\ Tick
              \/ \E r \in Requests :
                    r = lock[k].token /\ key[r] = k /\ pc[r] = "release" /\ pc'[r] = "idle"]_vars
  BY <1>1
<1> QED BY LockInvariant, <1>2, PTL DEF Spec, ReleasedByOwner

=============================================================================
