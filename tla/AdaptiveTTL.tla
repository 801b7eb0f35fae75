---------------------------- MODULE AdaptiveTTL ----------------------------
(***************************************************************************)
(* gateway/adaptive_ttl_controller.go: every gateway runs a controller     *)
(* that, under a lock in Redis, loads the shared snapshot, adjusts the     *)
(* factor by which TTLs are scaled to the load of the backend, and saves   *)
(* it; a controller that does not get the lock takes over the snapshot.    *)
(* A save of the configuration resets the snapshot under the same lock.    *)
(*                                                                         *)
(* Factors are in hundredths.  A worker is the loop of a gateway or a      *)
(* goroutine that serves PUT /cache-config and has come to Reset.          *)
(***************************************************************************)
EXTENDS Integers

CONSTANTS
    Gateways,      \* gateway instances, which stand for their loops as well
    Savers,        \* goroutines that save a configuration
    Configs,       \* configurations that pass the checks of updateCacheConfig
    InitialConfig, \* the configuration in force at first
    Signals,       \* answers of GET /load
    MaxResets,     \* bound on the saves of the configuration
    SlowHolders,   \* may a holder of the lock need longer than its TTL?
    MayFail,       \* may commands fail and gateways restart?
    Missing, None  \* no snapshot; no holder

INITIAL == 100
INCREASE == 15
STRONG_INCREASE == 25
DECREASE == 20
MIN_SAMPLES == 20
CONGESTED_READINGS == 2
STABLE_READINGS == 3

ASSUME ConfigsAssumption ==
    /\ Configs \subseteq [enabled : BOOLEAN, minFactor : Int, maxFactor : Int,
                          latencyThreshold : Int, concurrencyThreshold : Int]
    /\ \A c \in Configs : 0 < c.minFactor /\ c.minFactor <= INITIAL /\ INITIAL <= c.maxFactor
    /\ InitialConfig \in Configs
ASSUME SignalsAssumption == Signals \subseteq [p99 : Nat, active : Nat, samples : Nat]
ASSUME BoundsAssumption ==
    MaxResets \in Nat /\ SlowHolders \in BOOLEAN /\ MayFail \in BOOLEAN
ASSUME WorkersAssumption ==
    /\ Gateways # {} /\ Gateways \cap Savers = {}
    /\ None \notin Gateways \cup Savers

Workers == Gateways \cup Savers

\* resets is history: the number of resets that the snapshot comes after.
Snapshots ==
    [factor : Int, state : {"disabled", "stable", "warning", "congested"},
     stable : Int, congested : Int, resets : 0..MaxResets]

ASSUME MissingAssumption == Missing \notin Snapshots

Fresh(state, resets) ==
    [factor |-> INITIAL, state |-> state, stable |-> 0, congested |-> 0, resets |-> resets]

VARIABLES
    config,    \* the configuration in Redis
    lock,      \* the worker whose token the controller lock holds, or None
    snapshot,  \* Redis: adaptiveTTLSnapshotRedisKey
    local,     \* local[g]: the fields of the controller of gateway g
    worker,    \* worker[w]: the state of worker w
    resets     \* history: the number of resets begun

vars == <<config, lock, snapshot, local, worker, resets>>

\* at: the gateway the worker runs on; config: what it was called with;
\* locked: acquired; loaded: the snapshot it has read or is about to apply.
WorkerStates ==
    [pc : {"idle", "acquire", "load", "create", "apply", "adjust", "save", "release",
           "resetAcquire", "resetSave", "resetApply"},
     at : Gateways, config : Configs, locked : BOOLEAN, loaded : Snapshots]

IdleAt(g) ==
    [pc |-> "idle", at |-> g, config |-> InitialConfig, locked |-> FALSE,
     loaded |-> Fresh("disabled", 0)]

Idle(w) == IdleAt(IF w \in Gateways THEN w ELSE CHOOSE g \in Gateways : TRUE)

Init ==
    /\ config = InitialConfig
    /\ lock = None
    /\ snapshot = Missing
    /\ local = [g \in Gateways |-> Fresh("disabled", 0)]
    /\ worker = [w \in Workers |-> Idle(w)]
    /\ resets = 0

---------------------------------------------------------------------------
(* classifyBackendLoad, clampAdaptiveTTLFactor, processSignals             *)

LatencyCongested(c, s) == s.samples >= MIN_SAMPLES /\ s.p99 >= c.latencyThreshold
ConcurrencyCongested(c, s) == s.active >= c.concurrencyThreshold

Classify(c, s) ==
    IF LatencyCongested(c, s) \/ ConcurrencyCongested(c, s) THEN "congested"
    ELSE IF /\ 10 * s.active < 9 * c.concurrencyThreshold
            /\ s.samples >= MIN_SAMPLES => 10 * s.p99 < 9 * c.latencyThreshold
         THEN "stable"
         ELSE "warning"

\* The lower bound is forgotten.
ClampAbove(c, f) == IF f > c.maxFactor THEN c.maxFactor ELSE f

Clamp(c, f) ==
    IF f < c.minFactor THEN c.minFactor ELSE IF f > c.maxFactor THEN c.maxFactor ELSE f

\* Every congested or stable reading moves the factor.
AdjustAtOnce(p, c, s) ==
    LET state == Classify(c, s) IN
    [p EXCEPT !.state = state, !.congested = 0, !.stable = 0,
              !.factor = CASE state = "congested" -> Clamp(c, p.factor + INCREASE)
                           [] state = "stable" -> Clamp(c, p.factor - DECREASE)
                           [] OTHER -> Clamp(c, p.factor)]

\* What processSignals makes of the fields p.
Adjusted(p, c, s) ==
    LET state == Classify(c, s)
        start == Clamp(c, p.factor)
        step == IF LatencyCongested(c, s) /\ ConcurrencyCongested(c, s)
                THEN STRONG_INCREASE ELSE INCREASE
        congested == IF state = "congested" THEN p.congested + 1 ELSE 0
        stable == IF state = "stable" THEN p.stable + 1 ELSE 0
        rises == congested >= CONGESTED_READINGS
        falls == stable >= STABLE_READINGS
    IN  [p EXCEPT !.state = state,
                  !.factor = IF rises THEN Clamp(c, start + step)
                             ELSE IF falls THEN Clamp(c, start - DECREASE) ELSE start,
                  !.congested = IF rises THEN 0 ELSE congested,
                  !.stable = IF falls THEN 0 ELSE stable]

---------------------------------------------------------------------------
(* Run and updateSharedState                                               *)

At(w, pc) == worker[w].pc = pc
Goto(w, pc) == worker' = [worker EXCEPT ![w].pc = pc]

\* Only the lock is left to give back.
Releasing(w) == [IdleAt(worker[w].at) EXCEPT !.pc = "release", !.locked = TRUE]
ToRelease(w) == worker' = [worker EXCEPT ![w] = Releasing(w)]

\* Run asks configProvider and calls updateSharedState.
ReadConfig(g) ==
    /\ At(g, "idle")
    /\ worker' = [worker EXCEPT ![g] = [Idle(g) EXCEPT !.pc = "acquire", !.config = config]]
    /\ UNCHANGED <<config, lock, snapshot, local, resets>>

\* The lock is taken, whoever holds it.
AcquireAlways(g) ==
    /\ At(g, "acquire")
    /\ lock' = g
    /\ worker' = [worker EXCEPT ![g].pc = "load", ![g].locked = TRUE]
    /\ UNCHANGED <<config, snapshot, local, resets>>

\* SETNX; who does not get the lock goes on to synchronizeFromRedis.
Acquire(g) ==
    /\ At(g, "acquire")
    /\ IF lock = None
       THEN lock' = g /\ worker' = [worker EXCEPT ![g].pc = "load", ![g].locked = TRUE]
       ELSE UNCHANGED lock /\ Goto(g, "load")
    /\ UNCHANGED <<config, snapshot, local, resets>>

\* loadSharedSnapshot, GET.  A factor that is not positive is refused.
Load(g) ==
    /\ At(g, "load")
    /\ snapshot # Missing => snapshot.factor > 0
    /\ worker' = IF snapshot = Missing
                 THEN [worker EXCEPT ![g].pc = "create"]
                 ELSE [worker EXCEPT ![g].pc = "apply", ![g].loaded = snapshot]
    /\ UNCHANGED <<config, lock, snapshot, local, resets>>

\* SETNX of the initial snapshot; if there is one by now it is read instead.
Create(g) ==
    /\ At(g, "create")
    /\ IF snapshot = Missing
       THEN /\ snapshot' = Fresh("disabled", 0)
            /\ worker' = [worker EXCEPT ![g].pc = "apply", ![g].loaded = Fresh("disabled", 0)]
       ELSE Goto(g, "load") /\ UNCHANGED snapshot
    /\ UNCHANGED <<config, lock, local, resets>>

\* applySnapshot; without the lock this is all.
Apply(g) ==
    /\ At(g, "apply")
    /\ local' = [local EXCEPT ![g] = worker[g].loaded]
    /\ worker' = [worker EXCEPT ![g] = IF @.locked THEN [@ EXCEPT !.pc = "adjust", !.loaded = Idle(g).loaded]
                                                 ELSE Idle(g)]
    /\ UNCHANGED <<config, lock, snapshot, resets>>

\* A controller that is switched off leaves the fields as they are.
DisableNothing(g) ==
    /\ At(g, "adjust")
    /\ ~worker[g].config.enabled
    /\ Goto(g, "save")
    /\ UNCHANGED <<config, lock, snapshot, local, resets>>

\* setDisabled
Disable(g) ==
    /\ At(g, "adjust")
    /\ ~worker[g].config.enabled
    /\ local' = [local EXCEPT ![g] = Fresh("disabled", @.resets)]
    /\ Goto(g, "save")
    /\ UNCHANGED <<config, lock, snapshot, resets>>

\* readBackendLoadSignals and processSignals
Process(g, s) ==
    /\ At(g, "adjust")
    /\ worker[g].config.enabled
    /\ local' = [local EXCEPT ![g] = Adjusted(@, worker[g].config, s)]
    /\ Goto(g, "save")
    /\ UNCHANGED <<config, lock, snapshot, resets>>

\* saveSharedSnapshot of what the fields are by then
Save(g) ==
    /\ At(g, "save")
    /\ snapshot' = local[g]
    /\ ToRelease(g)
    /\ UNCHANGED <<config, lock, local, resets>>

---------------------------------------------------------------------------
(* Reset                                                                   *)

\* updateCacheConfig has changed the configuration on gateway g and comes to
\* Reset.
SaveConfig(s, g, c) ==
    /\ At(s, "idle")
    /\ resets < MaxResets
    /\ config' = c
    /\ resets' = resets + 1
    /\ worker' = [worker EXCEPT ![s] = [IdleAt(g) EXCEPT !.pc = "resetAcquire", !.config = c]]
    /\ UNCHANGED <<lock, snapshot, local>>

\* Reset tries until it gets the lock.
ResetAcquire(s) ==
    /\ At(s, "resetAcquire")
    /\ lock = None
    /\ lock' = s
    /\ worker' = [worker EXCEPT ![s].pc = "resetSave", ![s].locked = TRUE]
    /\ UNCHANGED <<config, snapshot, local, resets>>

\* The resets are numbered in the order in which they reach Redis.
ResetSave(s) ==
    /\ At(s, "resetSave")
    /\ LET n == IF snapshot = Missing THEN 0 ELSE snapshot.resets
           new == Fresh(IF worker[s].config.enabled THEN "warning" ELSE "disabled", n + 1)
       IN  /\ n < MaxResets
           /\ snapshot' = new
           /\ worker' = [worker EXCEPT ![s].pc = "resetApply", ![s].loaded = new]
    /\ UNCHANGED <<config, lock, local, resets>>

ResetApply(s) ==
    /\ At(s, "resetApply")
    /\ local' = [local EXCEPT ![worker[s].at] = worker[s].loaded]
    /\ ToRelease(s)
    /\ UNCHANGED <<config, lock, snapshot, resets>>

---------------------------------------------------------------------------
(* The lock, failures and restarts                                         *)

\* The release script deletes the lock if it still holds the worker's token.
Release(w) ==
    /\ At(w, "release")
    /\ lock' = IF lock = w THEN None ELSE lock
    /\ worker' = [worker EXCEPT ![w] = Idle(w)]
    /\ UNCHANGED <<config, snapshot, local, resets>>

\* A command, GET /load or the client of a save fails.  The deferred release
\* runs if the lock was acquired; a SETNX whose reply is lost may have taken it.
Fail(w) ==
    /\ MayFail
    /\ ~At(w, "idle") /\ ~At(w, "release")
    /\ worker' = [worker EXCEPT ![w] = IF @.locked THEN Releasing(w) ELSE Idle(w)]
    /\ lock' \in IF At(w, "acquire") \/ At(w, "resetAcquire")
                 THEN {lock, IF lock = None THEN w ELSE lock} ELSE {lock}
    /\ UNCHANGED <<config, snapshot, local, resets>>

\* The release script fails.
ReleaseFails(w) ==
    /\ MayFail
    /\ At(w, "release")
    /\ worker' = [worker EXCEPT ![w] = Idle(w)]
    /\ UNCHANGED <<config, lock, snapshot, local, resets>>

\* The lock's TTL ends: when the holder has lost it or, if holders may be
\* slow, at any time.
Expire ==
    /\ lock # None
    /\ SlowHolders \/ ~worker[lock].locked
    /\ lock' = None
    /\ UNCHANGED <<config, snapshot, local, worker, resets>>

\* Gateway g restarts, with a new controller.
Restart(g) ==
    /\ MayFail
    /\ local' = [local EXCEPT ![g] = Fresh("disabled", 0)]
    /\ worker' = [w \in Workers |-> IF worker[w].at = g THEN Idle(w) ELSE worker[w]]
    /\ UNCHANGED <<config, lock, snapshot, resets>>

Tick(g) ==
    \/ ReadConfig(g) \/ Acquire(g) \/ Load(g) \/ Create(g) \/ Apply(g)
    \/ Disable(g) \/ (\E s \in Signals : Process(g, s)) \/ Save(g)

Reset(s) == ResetAcquire(s) \/ ResetSave(s) \/ ResetApply(s)

Next ==
    \/ \E g \in Gateways : Tick(g) \/ Restart(g)
    \/ \E s \in Savers, g \in Gateways, c \in Configs : SaveConfig(s, g, c)
    \/ \E s \in Savers : Reset(s)
    \/ \E w \in Workers : Release(w) \/ Fail(w) \/ ReleaseFails(w)
    \/ Expire

\* The loops run forever, goroutines are scheduled and keys expire.
Fairness ==
    /\ \A g \in Gateways : WF_vars(Tick(g))
    /\ \A s \in Savers : WF_vars(Reset(s))
    /\ \A w \in Workers : WF_vars(Release(w))
    /\ WF_vars(Expire)

Spec == Init /\ [][Next]_vars /\ Fairness

---------------------------------------------------------------------------
(* Properties                                                              *)

\* The type of every variable.
TypeOK ==
    /\ config \in Configs
    /\ lock \in Workers \cup {None}
    /\ snapshot \in Snapshots \cup {Missing}
    /\ local \in [Gateways -> Snapshots]
    /\ worker \in [Workers -> WorkerStates]
    /\ resets \in 0..MaxResets

\* The shared factor stays within the bounds of some configuration, through
\* readings, resets and changes of the bounds.  It is positive, then: nothing
\* but a reset would replace a snapshot that loadSharedSnapshot refuses.
SnapshotLoadable ==
    snapshot # Missing =>
        /\ \E c \in Configs : c.minFactor <= snapshot.factor
        /\ \E c \in Configs : snapshot.factor <= c.maxFactor

\* A step that changes the shared factor.
Rises == snapshot'.factor > snapshot.factor /\ snapshot'.factor > INITIAL
Falls == snapshot'.factor < snapshot.factor /\ snapshot'.factor < INITIAL

\* The shared factor rises above its initial value only with the second
\* congested reading in a row, and falls below it only with the third stable
\* one, whichever gateways make the readings: a controller never saves what it
\* made of a snapshot that has been replaced since.
Hysteresis ==
    [][snapshot # Missing /\ snapshot' # Missing =>
          /\ Rises => snapshot.congested = 1 /\ snapshot'.state = "congested"
          /\ Falls => snapshot.stable = 2 /\ snapshot'.state = "stable"]_vars

\* A controller never overwrites a reset with what came before it.
ResetNotUndone ==
    [][snapshot # Missing =>
          snapshot' # Missing /\ snapshot'.resets >= snapshot.resets]_vars

\* A step that does what the code is meant to do: no command fails and no
\* gateway restarts.
Works ==
    \/ \E g \in Gateways : Tick(g)
    \/ \E s \in Savers : Reset(s)
    \/ \E w \in Workers : Release(w)
    \/ Expire

\* Once the configuration is left alone and nothing fails any more, every controller is
\* disabled or enabled as the configuration says, and stays so, although a loop
\* may still work with an older configuration after the reset, a reset may have
\* failed, and a lock that nobody holds any more may stand in the way.
ControllersFollowConfig ==
    <>[][Works]_vars =>
        <>[](\A g \in Gateways : (local[g].state = "disabled") <=> ~config.enabled)

=============================================================================
