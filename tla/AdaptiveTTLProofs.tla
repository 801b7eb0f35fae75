------------------------- MODULE AdaptiveTTLProofs -------------------------
(***************************************************************************)
(* Proofs about AdaptiveTTL, for any gateways, savers, configurations and  *)
(* readings, provided that no holder of the controller lock needs longer   *)
(* than the lock's TTL.                                                    *)
(*                                                                         *)
(* The lock does not protect the snapshot as such: a controller without    *)
(* the lock creates it when it is missing, and a reset writes the fields   *)
(* of the gateway it runs on.  The invariant therefore says how the fields *)
(* of a holder relate to the snapshot at every step of its section.        *)
(***************************************************************************)
EXTENDS AdaptiveTTL, TLAPS

InRange(f) ==
    (\E c \in Configs : c.minFactor <= f) /\ (\E c \in Configs : f <= c.maxFactor)

\* Snapshots that controllers and resets produce.
Sound == {p \in Snapshots : InRange(p.factor) /\ p.congested \in 0..1 /\ p.stable \in 0..2}

\* p may replace q.
Follows(p, q) ==
    /\ p.resets >= q.resets
    /\ p.factor > q.factor /\ p.factor > INITIAL => q.congested = 1 /\ p.state = "congested"
    /\ p.factor < q.factor /\ p.factor < INITIAL => q.stable = 2 /\ p.state = "stable"

\* The types, narrowed to sound snapshots; a loop runs on its own gateway.
Typed ==
    /\ TypeOK
    /\ snapshot \in Sound \cup {Missing}
    /\ \A g \in Gateways : local[g] \in Sound /\ worker[g].at = g
    /\ \A w \in Workers : worker[w].loaded \in Sound

\* A worker that was told it has the lock has it, and works under it.
Exclusive ==
    \A w \in Workers :
        /\ worker[w].locked => lock = w
        /\ worker[w].pc \in {"adjust", "save", "release", "resetSave", "resetApply"} =>
              worker[w].locked
        /\ worker[w].pc \in {"idle", "acquire", "resetAcquire"} => ~worker[w].locked

\* What a holder has loaded, and then its gateway's fields, is the snapshot;
\* after the adjustment, the fields may replace the snapshot.
Section ==
    \A g \in Gateways : worker[g].locked =>
        /\ worker[g].pc = "apply" => snapshot # Missing /\ worker[g].loaded = snapshot
        /\ worker[g].pc = "adjust" => snapshot # Missing /\ local[g] = snapshot
        /\ worker[g].pc = "save" => snapshot # Missing /\ Follows(local[g], snapshot)

ControllerInv == Typed /\ Exclusive /\ Section

USE ConfigsAssumption, SignalsAssumption, BoundsAssumption, WorkersAssumption, MissingAssumption
USE DEF Workers, INITIAL, INCREASE, STRONG_INCREASE, DECREASE, CONGESTED_READINGS,
        STABLE_READINGS

---------------------------------------------------------------------------
(* The operators                                                           *)

\* Initial fields are sound.
LEMMA FreshSound ==
    ASSUME NEW state \in {"disabled", "warning"}, NEW n \in 0..MaxResets
    PROVE  /\ Fresh(state, n) \in Sound
           /\ Fresh(state, n).resets = n /\ Fresh(state, n).factor = INITIAL
  BY DEF Fresh, Sound, Snapshots, InRange

\* An idle worker has its type and does not hold the lock.
LEMMA IdleTypes ==
    /\ \A g \in Gateways :
          /\ IdleAt(g) \in WorkerStates /\ IdleAt(g).loaded \in Sound
          /\ IdleAt(g).at = g /\ IdleAt(g).pc = "idle" /\ IdleAt(g).locked = FALSE
    /\ \A w \in Workers :
          /\ Idle(w) \in WorkerStates /\ Idle(w).loaded \in Sound
          /\ Idle(w).pc = "idle" /\ Idle(w).locked = FALSE
    /\ \A g \in Gateways : Idle(g).at = g
<1>1. Fresh("disabled", 0) \in Sound /\ Fresh("disabled", 0) \in Snapshots
  BY FreshSound DEF Sound
<1>2. ASSUME NEW g \in Gateways
      PROVE  /\ IdleAt(g) \in WorkerStates /\ IdleAt(g).loaded \in Sound
             /\ IdleAt(g).at = g /\ IdleAt(g).pc = "idle" /\ IdleAt(g).locked = FALSE
  BY <1>1 DEF IdleAt, WorkerStates
<1>3. (CHOOSE g \in Gateways : TRUE) \in Gateways
  OBVIOUS
<1> QED BY <1>2, <1>3 DEF Idle

\* clampAdaptiveTTLFactor stays within bounds and passes over the initial
\* factor in neither direction.
LEMMA ClampMeaning ==
    ASSUME NEW c \in Configs, NEW f \in Int
    PROVE  /\ Clamp(c, f) \in Int /\ InRange(Clamp(c, f))
           /\ Clamp(c, f) > f => Clamp(c, f) <= INITIAL
           /\ Clamp(c, f) < f => Clamp(c, f) >= INITIAL
<1>1. /\ c.minFactor \in Int /\ c.maxFactor \in Int
      /\ c.minFactor <= INITIAL /\ INITIAL <= c.maxFactor
  OBVIOUS
<1>2. /\ Clamp(c, f) \in Int /\ c.minFactor <= Clamp(c, f) /\ Clamp(c, f) <= c.maxFactor
      /\ Clamp(c, f) > f => Clamp(c, f) = c.minFactor
      /\ Clamp(c, f) < f => Clamp(c, f) = c.maxFactor
  BY <1>1 DEF Clamp
<1> QED BY <1>1, <1>2 DEF InRange

\* processSignals moves the factor away from its initial value with the
\* second congested or third stable reading only, and keeps it within bounds.
LEMMA AdjustedMeaning ==
    ASSUME NEW p \in Sound, NEW c \in Configs, NEW s \in Signals
    PROVE  Adjusted(p, c, s) \in Sound /\ Follows(Adjusted(p, c, s), p)
<1> DEFINE state == Classify(c, s)
           start == Clamp(c, p.factor)
           step == IF LatencyCongested(c, s) /\ ConcurrencyCongested(c, s)
                   THEN STRONG_INCREASE ELSE INCREASE
           congested == IF state = "congested" THEN p.congested + 1 ELSE 0
           stable == IF state = "stable" THEN p.stable + 1 ELSE 0
           rises == congested >= CONGESTED_READINGS
           falls == stable >= STABLE_READINGS
           factor == IF rises THEN Clamp(c, start + step)
                     ELSE IF falls THEN Clamp(c, start - DECREASE) ELSE start
           congestedLeft == IF rises THEN 0 ELSE congested
           stableLeft == IF falls THEN 0 ELSE stable
           q == Adjusted(p, c, s)
<1>1. /\ p \in Snapshots /\ p.factor \in Int /\ p.congested \in 0..1 /\ p.stable \in 0..2
      /\ p.resets \in 0..MaxResets
  BY DEF Sound, Snapshots
<1>2. state \in {"stable", "warning", "congested"}
  BY DEF Classify
<1>3. step \in {15, 25}
  OBVIOUS
<1>4. /\ start \in Int /\ InRange(start)
      /\ start > p.factor => start <= INITIAL
      /\ start < p.factor => start >= INITIAL
  BY <1>1, ClampMeaning
<1>5. q = [p EXCEPT !.state = state, !.factor = factor,
                    !.congested = congestedLeft, !.stable = stableLeft]
  BY DEF Adjusted
<1> HIDE DEF state, start, step, q
<1>6. (rises => state = "congested" /\ p.congested = 1) /\ (falls => state = "stable" /\ p.stable = 2)
  BY <1>1, <1>2
<1>7. /\ factor \in Int /\ InRange(factor)
      /\ factor > p.factor /\ factor > INITIAL => rises
      /\ factor < p.factor /\ factor < INITIAL => falls
  <2>1. CASE rises
    <3>1. /\ factor = Clamp(c, start + step) /\ start + step \in Int
      BY <1>3, <1>4, <2>1
    <3>2. /\ factor \in Int /\ InRange(factor)
          /\ factor < start + step => factor >= INITIAL
      BY <3>1, ClampMeaning
    <3>3. factor >= p.factor \/ factor >= INITIAL
      BY <1>1, <1>3, <1>4, <3>2
    <3> HIDE DEF factor
    <3> QED BY <1>1, <2>1, <3>2, <3>3
  <2>2. CASE ~rises /\ falls
    <3>1. /\ factor = Clamp(c, start - DECREASE) /\ start - DECREASE \in Int
      BY <1>4, <2>2
    <3>2. /\ factor \in Int /\ InRange(factor)
          /\ factor > start - DECREASE => factor <= INITIAL
      BY <3>1, ClampMeaning
    <3>3. factor <= p.factor \/ factor <= INITIAL
      BY <1>1, <1>4, <3>2
    <3> HIDE DEF factor
    <3> QED BY <1>1, <2>2, <3>2, <3>3
  <2>3. CASE ~rises /\ ~falls
    <3>1. factor = start
      BY <2>3
    <3> HIDE DEF factor
    <3> QED BY <1>1, <1>4, <3>1
  <2> QED BY <2>1, <2>2, <2>3
<1>8. congestedLeft \in 0..1 /\ stableLeft \in 0..2
  BY <1>1
<1> HIDE DEF factor, rises, falls, congested, stable, congestedLeft, stableLeft
<1>9. q \in Snapshots /\ q.factor = factor /\ q.state = state /\ q.resets = p.resets
      /\ q.congested \in 0..1 /\ q.stable \in 0..2
  <2>1. /\ p \in Snapshots /\ factor \in Int /\ congestedLeft \in Int /\ stableLeft \in Int
        /\ state \in {"disabled", "stable", "warning", "congested"}
    BY <1>1, <1>2, <1>7, <1>8
  <2> HIDE SignalsAssumption, ConfigsAssumption
  <2>2. q \in Snapshots
    BY <1>5, <2>1 DEF Snapshots
  <2>3. /\ q.factor = factor /\ q.state = state /\ q.resets = p.resets
        /\ q.congested = congestedLeft /\ q.stable = stableLeft
    BY <1>5, <2>1 DEF Snapshots
  <2> QED BY <1>8, <2>2, <2>3
<1>10. q \in Sound
  BY <1>7, <1>9 DEF Sound
<1>11. Follows(q, p)
  BY <1>1, <1>6, <1>7, <1>9 DEF Follows
<1> QED BY <1>10, <1>11 DEF q

\* setDisabled and a reset may replace any snapshot of no later reset.
LEMMA FreshFollows ==
    ASSUME NEW p \in Sound, NEW state \in {"disabled", "warning"}, NEW n \in 0..MaxResets,
           n >= p.resets
    PROVE  Follows(Fresh(state, n), p)
  BY FreshSound DEF Follows

---------------------------------------------------------------------------
(* The invariant is inductive                                              *)

\* What the program counter says about the lock.
Consistent(v) ==
    /\ v.pc \in {"adjust", "save", "release", "resetSave", "resetApply"} => v.locked
    /\ v.pc \in {"idle", "acquire", "resetAcquire"} => ~v.locked

\* Section, for one holder.
InSection(v, fields, snap) ==
    /\ v.pc = "apply" => snap # Missing /\ v.loaded = snap
    /\ v.pc = "adjust" => snap # Missing /\ fields = snap
    /\ v.pc = "save" => snap # Missing /\ Follows(fields, snap)

\* A step of one worker keeps the invariant if it respects the lock: it does
\* not take it from others, and without it changes neither an existing
\* snapshot nor the fields of another gateway.
LEMMA OneWorker ==
    ASSUME ControllerInv, NEW w \in Workers, NEW v \in WorkerStates,
           worker' = [worker EXCEPT ![w] = v],
           v.loaded \in Sound, w \in Gateways => v.at = w, Consistent(v),
           config' \in Configs, resets' \in 0..MaxResets, lock' \in Workers \cup {None},
           v.locked => lock' = w,
           \A x \in Workers \ {w} : lock = x => lock' = x,
           snapshot' \in Sound \cup {Missing},
           snapshot' = snapshot \/ snapshot = Missing \/ worker[w].locked,
           local' \in [Gateways -> Snapshots],
           \A g \in Gateways : local'[g] \in Sound,
           \A g \in Gateways \ {w} : local'[g] = local[g] \/ worker[w].locked,
           w \in Gateways /\ v.locked => InSection(v, local'[w], snapshot')
    PROVE  ControllerInv'
<1>0. Typed /\ Exclusive /\ Section /\ TypeOK
  BY DEF ControllerInv, Typed
<1>1. /\ worker' \in [Workers -> WorkerStates] /\ worker'[w] = v
      /\ \A x \in Workers \ {w} : worker'[x] = worker[x]
  BY <1>0 DEF TypeOK
<1>2. Typed'
  <2>1. TypeOK'
    BY <1>1 DEF TypeOK, Sound
  <2>2. \A g \in Gateways : local'[g] \in Sound /\ worker'[g].at = g
    BY <1>0, <1>1 DEF Typed
  <2>3. \A x \in Workers : worker'[x].loaded \in Sound
    BY <1>0, <1>1 DEF Typed
  <2> QED BY <2>1, <2>2, <2>3 DEF Typed
<1>3. Exclusive'
  <2> SUFFICES ASSUME NEW x \in Workers
               PROVE  (worker'[x].locked => lock' = x) /\ Consistent(worker'[x])
    BY DEF Exclusive, Consistent
  <2>1. CASE x = w
    BY <1>1, <2>1
  <2>2. CASE x # w
    BY <1>0, <1>1, <2>2 DEF Exclusive, Consistent
  <2> QED BY <2>1, <2>2
<1>4. Section'
  <2> SUFFICES ASSUME NEW g \in Gateways, worker'[g].locked
               PROVE  InSection(worker'[g], local'[g], snapshot')
    BY DEF Section, InSection
  <2>1. CASE g = w
    BY <1>1, <2>1
  <2>2. CASE g # w
    <3>1. worker'[g] = worker[g] /\ worker[g].locked
      BY <1>1, <2>2
    <3>2. lock = g /\ ~worker[w].locked
      BY <1>0, <2>2, <3>1 DEF Exclusive
    <3>3. local'[g] = local[g] /\ (snapshot' = snapshot \/ snapshot = Missing)
      BY <2>2, <3>2
    <3>4. InSection(worker[g], local[g], snapshot)
      BY <1>0, <3>1 DEF Section, InSection
    <3> QED BY <3>1, <3>3, <3>4 DEF InSection
  <2> QED BY <2>1, <2>2
<1> QED BY <1>2, <1>3, <1>4 DEF ControllerInv

\* The facts about the state that the steps below start from.
LEMMA Facts ==
    ASSUME ControllerInv
    PROVE  /\ config \in Configs /\ lock \in Workers \cup {None} /\ resets \in 0..MaxResets
           /\ snapshot \in Sound \cup {Missing}
           /\ local \in [Gateways -> Snapshots] /\ \A g \in Gateways : local[g] \in Sound
           /\ worker \in [Workers -> WorkerStates]
           /\ \A w \in Workers :
                 /\ worker[w] \in WorkerStates /\ worker[w].loaded \in Sound
                 /\ worker[w].locked \in BOOLEAN
                 /\ worker[w].at \in Gateways /\ worker[w].config \in Configs
                 /\ worker[w].locked => lock = w
                 /\ Consistent(worker[w])
           /\ \A g \in Gateways : worker[g].at = g
           /\ \A g \in Gateways : worker[g].locked => InSection(worker[g], local[g], snapshot)
<1>1. TypeOK /\ Typed /\ Exclusive /\ Section
  BY DEF ControllerInv, Typed
<1>2. \A w \in Workers :
         /\ worker[w] \in WorkerStates /\ worker[w].loaded \in Sound
         /\ worker[w].locked \in BOOLEAN
         /\ worker[w].at \in Gateways /\ worker[w].config \in Configs
  BY <1>1 DEF TypeOK, Typed, WorkerStates
<1>3. \A w \in Workers : (worker[w].locked => lock = w) /\ Consistent(worker[w])
  BY <1>1 DEF Exclusive, Consistent
<1>4. \A g \in Gateways : worker[g].locked => InSection(worker[g], local[g], snapshot)
  BY <1>1 DEF Section, InSection
<1> QED BY <1>1, <1>2, <1>3, <1>4 DEF TypeOK, Typed

\* The invariant holds at the start.
LEMMA InitController == Init => ControllerInv
<1> SUFFICES ASSUME Init PROVE ControllerInv
  OBVIOUS
<1>1. Fresh("disabled", 0) \in Sound /\ Fresh("disabled", 0) \in Snapshots
  BY FreshSound DEF Sound
<1>2. \A w \in Workers : worker[w] = Idle(w)
  BY DEF Init
<1>3. Typed
  <2>1. worker \in [Workers -> WorkerStates]
    BY IdleTypes DEF Init
  <2>2. local \in [Gateways -> Snapshots] /\ \A g \in Gateways : local[g] \in Sound
    BY <1>1 DEF Init
  <2>3. TypeOK
    BY <2>1, <2>2 DEF Init, TypeOK
  <2>4. /\ \A g \in Gateways : worker[g].at = g
        /\ \A w \in Workers : worker[w].loaded \in Sound
    BY <1>2, IdleTypes
  <2> QED BY <2>2, <2>3, <2>4 DEF Init, Typed
<1>4. Exclusive /\ Section
  BY <1>2, IdleTypes DEF Init, Exclusive, Section
<1> QED BY <1>3, <1>4 DEF ControllerInv

\* A worker that goes idle, releasing its lock or leaving it behind.
LEMMA GoesIdle ==
    ASSUME ControllerInv, NEW w \in Workers, worker' = [worker EXCEPT ![w] = Idle(w)],
           lock' \in Workers \cup {None}, \A x \in Workers \ {w} : lock = x => lock' = x,
           UNCHANGED <<config, snapshot, local, resets>>
    PROVE  ControllerInv'
<1>1. /\ Idle(w) \in WorkerStates /\ Idle(w).loaded \in Sound
      /\ w \in Gateways => Idle(w).at = w
      /\ Consistent(Idle(w)) /\ ~Idle(w).locked
  BY IdleTypes DEF Consistent
<1> QED BY <1>1, OneWorker, Facts

\* A worker that holds the lock and has only to release it.
LEMMA GoesToRelease ==
    ASSUME ControllerInv, NEW w \in Workers, worker[w].locked, worker' = [worker EXCEPT ![w] = Releasing(w)],
           UNCHANGED <<config, lock, resets>>,
           snapshot' \in Sound \cup {Missing},
           local' \in [Gateways -> Snapshots], \A g \in Gateways : local'[g] \in Sound
    PROVE  ControllerInv'
<1>1. worker[w].at \in Gateways /\ (w \in Gateways => worker[w].at = w) /\ lock = w
  BY Facts
<1>2. /\ Releasing(w) \in WorkerStates /\ Releasing(w).loaded \in Sound
      /\ Releasing(w).at = worker[w].at /\ Releasing(w).pc = "release" /\ Releasing(w).locked = TRUE
  <2>1. IdleAt(worker[w].at) \in WorkerStates /\ IdleAt(worker[w].at).loaded \in Sound
        /\ IdleAt(worker[w].at).at = worker[w].at
    BY <1>1, IdleTypes
  <2>2. Releasing(w) = [IdleAt(worker[w].at) EXCEPT !.pc = "release", !.locked = TRUE]
    BY DEF Releasing
  <2> QED BY <2>1, <2>2 DEF WorkerStates
<1>3. Consistent(Releasing(w)) /\ \A f, p : InSection(Releasing(w), f, p)
  BY <1>2 DEF Consistent, InSection
<1> QED BY <1>1, <1>2, <1>3, OneWorker, Facts

\* Every step of the loop of a gateway keeps the invariant.
LEMMA TickStep ==
    ASSUME ControllerInv, NEW g \in Gateways, Tick(g)
    PROVE  ControllerInv'
<1>0. g \in Workers /\ worker[g] \in WorkerStates
  BY Facts
<1>1. CASE ReadConfig(g)
  <2> DEFINE v == [Idle(g) EXCEPT !.pc = "acquire", !.config = config]
  <2>1. config \in Configs /\ Idle(g) \in WorkerStates /\ Idle(g).loaded \in Sound
        /\ Idle(g).at = g /\ Idle(g).locked = FALSE
    BY <1>0, Facts, IdleTypes
  <2>2. /\ v \in WorkerStates /\ v.pc = "acquire" /\ v.locked = FALSE
        /\ v.at = g /\ v.loaded \in Sound
    BY <2>1 DEF WorkerStates
  <2>3. worker' = [worker EXCEPT ![g] = v] /\ UNCHANGED <<config, lock, snapshot, local, resets>>
    BY <1>1 DEF ReadConfig
  <2> HIDE DEF v
  <2>4. Consistent(v)
    BY <2>2 DEF Consistent
  <2> QED BY <1>0, <2>2, <2>3, <2>4, OneWorker, Facts
<1>2. CASE Acquire(g)
  <2>1. CASE lock = None
    <3> DEFINE v == [worker[g] EXCEPT !.pc = "load", !.locked = TRUE]
    <3>1. /\ v \in WorkerStates /\ v.pc = "load" /\ v.locked = TRUE
          /\ v.at = worker[g].at /\ v.loaded = worker[g].loaded
      BY <1>0 DEF WorkerStates
    <3>2. /\ worker' = [worker EXCEPT ![g] = v] /\ lock' = g
          /\ UNCHANGED <<config, snapshot, local, resets>>
      BY <1>2, <2>1 DEF Acquire
    <3> HIDE DEF v
    <3>3. Consistent(v) /\ InSection(v, local'[g], snapshot')
      BY <3>1 DEF Consistent, InSection
    <3> QED BY <1>0, <2>1, <3>1, <3>2, <3>3, OneWorker, Facts
  <2>2. CASE lock # None
    <3> DEFINE v == [worker[g] EXCEPT !.pc = "load"]
    <3>1. /\ v \in WorkerStates /\ v.pc = "load" /\ v.locked = worker[g].locked
          /\ v.at = worker[g].at /\ v.loaded = worker[g].loaded
      BY <1>0 DEF WorkerStates
    <3>2. /\ worker' = [worker EXCEPT ![g] = v]
          /\ UNCHANGED <<config, lock, snapshot, local, resets>>
      BY <1>2, <2>2 DEF Acquire, Goto
    <3> HIDE DEF v
    <3>3. Consistent(v) /\ InSection(v, local'[g], snapshot')
      BY <3>1 DEF Consistent, InSection
    <3> QED BY <1>0, <3>1, <3>2, <3>3, OneWorker, Facts
  <2> QED BY <2>1, <2>2
<1>3. ASSUME NEW v \in WorkerStates, v.pc \in {"create", "load"}, v.locked = worker[g].locked,
             v.at = worker[g].at, v.loaded = worker[g].loaded,
             worker' = [worker EXCEPT ![g] = v],
             UNCHANGED <<config, lock, snapshot, local, resets>>
      PROVE  ControllerInv'
  <2>1. Consistent(v) /\ InSection(v, local'[g], snapshot')
    BY <1>3 DEF Consistent, InSection
  <2> QED BY <1>0, <1>3, <2>1, OneWorker, Facts
<1>4. ASSUME NEW p \in Sound, worker' = [worker EXCEPT ![g] = [worker[g] EXCEPT !.pc = "apply", !.loaded = p]],
             snapshot' = p, snapshot = p \/ snapshot = Missing,
             UNCHANGED <<config, lock, local, resets>>
      PROVE  ControllerInv'
  <2> DEFINE v == [worker[g] EXCEPT !.pc = "apply", !.loaded = p]
  <2>1. p \in Snapshots /\ p # Missing
    BY DEF Sound
  <2>2. /\ v \in WorkerStates /\ v.pc = "apply" /\ v.locked = worker[g].locked
        /\ v.at = worker[g].at /\ v.loaded = p
    BY <1>0, <2>1 DEF WorkerStates
  <2>3. worker' = [worker EXCEPT ![g] = v]
    BY <1>4
  <2> HIDE DEF v
  <2>4. Consistent(v) /\ InSection(v, local'[g], snapshot')
    BY <1>4, <2>1, <2>2 DEF Consistent, InSection
  <2> QED BY <1>0, <1>4, <2>2, <2>3, <2>4, OneWorker, Facts
<1>5. CASE Load(g)
  <2>1. CASE snapshot = Missing
    <3>1. /\ [worker[g] EXCEPT !.pc = "create"] \in WorkerStates
          /\ [worker[g] EXCEPT !.pc = "create"].pc = "create"
          /\ [worker[g] EXCEPT !.pc = "create"].locked = worker[g].locked
          /\ [worker[g] EXCEPT !.pc = "create"].at = worker[g].at
          /\ [worker[g] EXCEPT !.pc = "create"].loaded = worker[g].loaded
      BY <1>0 DEF WorkerStates
    <3>2. worker' = [worker EXCEPT ![g] = [worker[g] EXCEPT !.pc = "create"]]
      BY <1>5, <2>1 DEF Load
    <3> QED BY <1>3, <1>5, <3>1, <3>2 DEF Load
  <2>2. CASE snapshot # Missing
    <3>1. snapshot \in Sound
      BY <2>2, Facts
    <3>2. worker' = [worker EXCEPT ![g] = [worker[g] EXCEPT !.pc = "apply", !.loaded = snapshot]]
      BY <1>5, <2>2 DEF Load
    <3> QED BY <1>4, <1>5, <3>1, <3>2 DEF Load
  <2> QED BY <2>1, <2>2
<1>6. CASE Create(g)
  <2>1. CASE snapshot = Missing
    <3>1. Fresh("disabled", 0) \in Sound
      BY FreshSound
    <3>2. worker' = [worker EXCEPT ![g] =
                       [worker[g] EXCEPT !.pc = "apply", !.loaded = Fresh("disabled", 0)]]
      BY <1>6, <2>1 DEF Create
    <3> QED BY <1>4, <1>6, <2>1, <3>1, <3>2 DEF Create
  <2>2. CASE snapshot # Missing
    <3>1. /\ [worker[g] EXCEPT !.pc = "load"] \in WorkerStates
          /\ [worker[g] EXCEPT !.pc = "load"].pc = "load"
          /\ [worker[g] EXCEPT !.pc = "load"].locked = worker[g].locked
          /\ [worker[g] EXCEPT !.pc = "load"].at = worker[g].at
          /\ [worker[g] EXCEPT !.pc = "load"].loaded = worker[g].loaded
      BY <1>0 DEF WorkerStates
    <3>2. worker' = [worker EXCEPT ![g] = [worker[g] EXCEPT !.pc = "load"]]
      BY <1>6, <2>2 DEF Create, Goto
    <3> QED BY <1>3, <1>6, <2>2, <3>1, <3>2 DEF Create
  <2> QED BY <2>1, <2>2
<1>7. ASSUME NEW p \in Sound, local' = [local EXCEPT ![g] = p]
      PROVE  /\ local' \in [Gateways -> Snapshots] /\ local'[g] = p
             /\ \A h \in Gateways : local'[h] \in Sound
             /\ \A h \in Gateways \ {g} : local'[h] = local[h]
  BY <1>7, Facts DEF Sound
<1>8. CASE Apply(g)
  <2>1. /\ local' \in [Gateways -> Snapshots] /\ local'[g] = worker[g].loaded
        /\ \A h \in Gateways : local'[h] \in Sound
        /\ \A h \in Gateways \ {g} : local'[h] = local[h]
    BY <1>0, <1>7, <1>8, Facts DEF Apply
  <2>2. CASE worker[g].locked
    <3> DEFINE v == [worker[g] EXCEPT !.pc = "adjust", !.loaded = Idle(g).loaded]
    <3>0. Idle(g).loaded \in Snapshots /\ Idle(g).loaded \in Sound
      BY <1>0, IdleTypes DEF Sound
    <3>1. /\ v \in WorkerStates /\ v.pc = "adjust" /\ v.locked = worker[g].locked
          /\ v.at = worker[g].at /\ v.loaded = Idle(g).loaded
      BY <1>0, <3>0 DEF WorkerStates
    <3>2. /\ worker' = [worker EXCEPT ![g] = v] /\ At(g, "apply")
          /\ UNCHANGED <<config, lock, snapshot, resets>>
      BY <1>8, <2>2 DEF Apply
    <3>3. snapshot # Missing /\ worker[g].loaded = snapshot
      BY <2>2, <3>2, Facts DEF At, InSection
    <3> HIDE DEF v
    <3>4. Consistent(v) /\ InSection(v, local'[g], snapshot')
      BY <2>1, <2>2, <3>1, <3>2, <3>3 DEF Consistent, InSection
    <3> QED BY <1>0, <2>1, <3>0, <3>1, <3>2, <3>4, OneWorker, Facts
  <2>3. CASE ~worker[g].locked
    <3>1. /\ worker' = [worker EXCEPT ![g] = Idle(g)]
          /\ UNCHANGED <<config, lock, snapshot, resets>>
      BY <1>8, <2>3 DEF Apply
    <3>2. /\ Idle(g) \in WorkerStates /\ Idle(g).loaded \in Sound /\ Idle(g).at = g
          /\ Consistent(Idle(g)) /\ ~Idle(g).locked
      BY <1>0, IdleTypes DEF Consistent
    <3> QED BY <1>0, <2>1, <3>1, <3>2, OneWorker, Facts
  <2> QED BY <2>2, <2>3
<1>9. ASSUME NEW p \in Sound, At(g, "adjust"), Follows(p, local[g]),
             local' = [local EXCEPT ![g] = p], Goto(g, "save"),
             UNCHANGED <<config, lock, snapshot, resets>>
      PROVE  ControllerInv'
  <2> DEFINE v == [worker[g] EXCEPT !.pc = "save"]
  <2>1. /\ v \in WorkerStates /\ v.pc = "save" /\ v.locked = worker[g].locked
        /\ v.at = worker[g].at /\ v.loaded = worker[g].loaded
    BY <1>0 DEF WorkerStates
  <2>2. worker' = [worker EXCEPT ![g] = v]
    BY <1>9 DEF Goto
  <2>3. worker[g].locked /\ snapshot # Missing /\ local[g] = snapshot
    BY <1>0, <1>9, Facts DEF At, Consistent, InSection
  <2>4. /\ local' \in [Gateways -> Snapshots] /\ local'[g] = p
        /\ \A h \in Gateways : local'[h] \in Sound
        /\ \A h \in Gateways \ {g} : local'[h] = local[h]
    BY <1>7, <1>9
  <2> HIDE DEF v
  <2>5. Consistent(v) /\ InSection(v, local'[g], snapshot')
    BY <1>9, <2>1, <2>3, <2>4 DEF Consistent, InSection
  <2> QED BY <1>0, <1>9, <2>1, <2>2, <2>4, <2>5, OneWorker, Facts
<1>10. local[g] \in Sound /\ local[g].resets \in 0..MaxResets /\ worker[g].config \in Configs
  BY <1>0, Facts DEF Sound, Snapshots
<1>11. CASE Disable(g)
  <2>1. Fresh("disabled", local[g].resets) \in Sound
    BY <1>10, FreshSound
  <2>2. Follows(Fresh("disabled", local[g].resets), local[g])
    BY <1>10, FreshFollows
  <2>3. local' = [local EXCEPT ![g] = Fresh("disabled", local[g].resets)]
    BY <1>11, Facts DEF Disable
  <2> QED BY <1>9, <1>11, <2>1, <2>2, <2>3 DEF Disable
<1>12. ASSUME NEW s \in Signals, Process(g, s) PROVE ControllerInv'
  <2> DEFINE p == Adjusted(local[g], worker[g].config, s)
  <2>1. p \in Sound /\ Follows(p, local[g])
    BY <1>10, AdjustedMeaning
  <2>2. local' = [local EXCEPT ![g] = p]
    BY <1>12, Facts DEF Process
  <2> HIDE DEF p
  <2> QED BY <1>9, <1>12, <2>1, <2>2 DEF Process
<1>13. CASE Save(g)
  <2>1. worker[g].locked /\ snapshot' \in Sound
    BY <1>0, <1>13, Facts DEF Save, At, Consistent
  <2>2. worker' = [worker EXCEPT ![g] = Releasing(g)] /\ UNCHANGED <<config, lock, local, resets>>
    BY <1>13 DEF Save, ToRelease
  <2> QED BY <1>0, <2>1, <2>2, GoesToRelease, Facts
<1> QED BY <1>1, <1>2, <1>5, <1>6, <1>8, <1>11, <1>12, <1>13 DEF Tick

\* Every step of a save and its reset keeps the invariant.
LEMMA ResetStep ==
    ASSUME ControllerInv, NEW s \in Savers,
           Reset(s) \/ \E g \in Gateways, c \in Configs : SaveConfig(s, g, c)
    PROVE  ControllerInv'
<1>0. s \in Workers /\ s \notin Gateways /\ worker[s] \in WorkerStates
  BY Facts
<1>1. ASSUME NEW g \in Gateways, NEW c \in Configs, SaveConfig(s, g, c) PROVE ControllerInv'
  <2> DEFINE v == [IdleAt(g) EXCEPT !.pc = "resetAcquire", !.config = c]
  <2>1. IdleAt(g) \in WorkerStates /\ IdleAt(g).loaded \in Sound /\ IdleAt(g).locked = FALSE
    BY IdleTypes
  <2>2. v \in WorkerStates /\ v.pc = "resetAcquire" /\ v.locked = FALSE /\ v.loaded \in Sound
    BY <2>1 DEF WorkerStates
  <2>3. /\ worker' = [worker EXCEPT ![s] = v] /\ config' = c /\ resets' = resets + 1
        /\ resets < MaxResets /\ UNCHANGED <<lock, snapshot, local>>
    BY <1>1 DEF SaveConfig
  <2>4. resets' \in 0..MaxResets
    BY <2>3, Facts
  <2> HIDE DEF v
  <2>5. Consistent(v)
    BY <2>2 DEF Consistent
  <2> QED BY <1>0, <2>2, <2>3, <2>4, <2>5, OneWorker, Facts
<1>2. CASE ResetAcquire(s)
  <2> DEFINE v == [worker[s] EXCEPT !.pc = "resetSave", !.locked = TRUE]
  <2>1. /\ v \in WorkerStates /\ v.pc = "resetSave" /\ v.locked = TRUE
        /\ v.loaded = worker[s].loaded
    BY <1>0 DEF WorkerStates
  <2>2. /\ worker' = [worker EXCEPT ![s] = v] /\ lock = None /\ lock' = s
        /\ UNCHANGED <<config, snapshot, local, resets>>
    BY <1>2 DEF ResetAcquire
  <2> HIDE DEF v
  <2>3. Consistent(v)
    BY <2>1 DEF Consistent
  <2> QED BY <1>0, <2>1, <2>2, <2>3, OneWorker, Facts
<1>3. CASE ResetSave(s)
  <2>1. PICK n \in 0..MaxResets, state \in {"disabled", "warning"} :
           /\ n < MaxResets
           /\ snapshot' = Fresh(state, n + 1)
           /\ worker' = [worker EXCEPT ![s].pc = "resetApply", ![s].loaded = Fresh(state, n + 1)]
    <3>1. (IF snapshot = Missing THEN 0 ELSE snapshot.resets) \in 0..MaxResets
      BY Facts DEF Sound, Snapshots
    <3> QED BY <1>3, <3>1 DEF ResetSave
  <2> DEFINE p == Fresh(state, n + 1)
             v == [worker[s] EXCEPT !.pc = "resetApply", !.loaded = p]
  <2>2. p \in Sound /\ p \in Snapshots
    BY <2>1, FreshSound DEF Sound
  <2>3. snapshot' = p /\ worker' = [worker EXCEPT ![s] = v]
    BY <2>1
  <2> HIDE DEF p
  <2>4. /\ v \in WorkerStates /\ v.pc = "resetApply" /\ v.locked = worker[s].locked
        /\ v.loaded = p
    BY <1>0, <2>2 DEF WorkerStates
  <2>5. worker[s].locked /\ lock = s /\ UNCHANGED <<config, lock, local, resets>>
    BY <1>0, <1>3, Facts DEF ResetSave, At, Consistent
  <2> HIDE DEF v
  <2>6. Consistent(v)
    BY <2>4, <2>5 DEF Consistent
  <2> QED BY <1>0, <2>2, <2>3, <2>4, <2>5, <2>6, OneWorker, Facts
<1>4. CASE ResetApply(s)
  <2>1. /\ worker[s].locked /\ worker[s].loaded \in Sound
        /\ worker' = [worker EXCEPT ![s] = Releasing(s)]
        /\ local' = [local EXCEPT ![worker[s].at] = worker[s].loaded]
        /\ UNCHANGED <<config, lock, snapshot, resets>>
    BY <1>0, <1>4, Facts DEF ResetApply, ToRelease, At, Consistent
  <2>2. local' \in [Gateways -> Snapshots] /\ \A g \in Gateways : local'[g] \in Sound
    BY <2>1, Facts DEF Sound
  <2> QED BY <1>0, <2>1, <2>2, GoesToRelease, Facts
<1> QED BY <1>1, <1>2, <1>3, <1>4 DEF Reset

\* Releases, failures and restarts keep the invariant, and so does the expiry
\* of the lock if it ends no section.
LEMMA FaultStep ==
    ASSUME ControllerInv, ~SlowHolders,
           \/ \E w \in Workers : Release(w) \/ Fail(w) \/ ReleaseFails(w)
           \/ Expire
           \/ \E g \in Gateways : Restart(g)
    PROVE  ControllerInv'
<1>1. ASSUME NEW w \in Workers, Release(w) \/ ReleaseFails(w) PROVE ControllerInv'
  <2>1. /\ worker' = [worker EXCEPT ![w] = Idle(w)] /\ lock' \in {lock, None}
        /\ \A x \in Workers \ {w} : lock = x => lock' = x
        /\ UNCHANGED <<config, snapshot, local, resets>>
    BY <1>1 DEF Release, ReleaseFails
  <2>2. lock' \in Workers \cup {None}
    BY <2>1, Facts
  <2> QED BY <2>1, <2>2, GoesIdle
<1>2. ASSUME NEW w \in Workers, Fail(w) PROVE ControllerInv'
  <2>1. /\ worker' = [worker EXCEPT ![w] = IF worker[w].locked THEN Releasing(w) ELSE Idle(w)]
        /\ lock' = lock \/ (lock = None /\ lock' = w)
        /\ UNCHANGED <<config, snapshot, local, resets>>
    BY <1>2, Facts DEF Fail
  <2>2. CASE worker[w].locked
    <3>1. lock = w /\ lock' = lock
      BY <2>1, <2>2, Facts
    <3> QED BY <2>1, <2>2, <3>1, GoesToRelease, Facts
  <2>3. CASE ~worker[w].locked
    <3>1. lock' \in Workers \cup {None} /\ \A x \in Workers \ {w} : lock = x => lock' = x
      BY <2>1, Facts
    <3> QED BY <2>1, <2>3, <3>1, GoesIdle
  <2> QED BY <2>2, <2>3
<1>3. CASE Expire
  <2>1. /\ lock' = None /\ lock \in Workers /\ ~worker[lock].locked
        /\ UNCHANGED <<config, snapshot, local, worker, resets>>
    BY <1>3, Facts DEF Expire
  <2>2. \A w \in Workers : ~worker[w].locked
    BY <2>1, Facts
  <2>3. Typed'
    BY <2>1 DEF ControllerInv, Typed, TypeOK
  <2>4. Exclusive' /\ Section'
    BY <2>1, <2>2 DEF ControllerInv, Exclusive, Section
  <2> QED BY <2>3, <2>4 DEF ControllerInv
<1>4. ASSUME NEW g \in Gateways, Restart(g) PROVE ControllerInv'
  <2>1. Fresh("disabled", 0) \in Sound /\ Fresh("disabled", 0) \in Snapshots
    BY FreshSound DEF Sound
  <2>2. /\ worker' \in [Workers -> WorkerStates]
        /\ \A w \in Workers : worker'[w] = Idle(w) \/ (worker'[w] = worker[w] /\ worker[w].at # g)
    BY <1>4, IdleTypes, Facts DEF Restart
  <2>3. /\ local' \in [Gateways -> Snapshots] /\ \A h \in Gateways : local'[h] \in Sound
        /\ \A h \in Gateways \ {g} : local'[h] = local[h]
        /\ UNCHANGED <<config, lock, snapshot, resets>>
    BY <1>4, <2>1, Facts DEF Restart
  <2>4. Typed'
    <3>1. TypeOK'
      BY <2>2, <2>3 DEF ControllerInv, Typed, TypeOK
    <3>2. /\ \A h \in Gateways : worker'[h].at = h
          /\ \A w \in Workers : worker'[w].loaded \in Sound
      BY <2>2, IdleTypes, Facts
    <3> QED BY <2>3, <3>1, <3>2 DEF ControllerInv, Typed
  <2>5. Exclusive'
    BY <2>2, <2>3, IdleTypes DEF ControllerInv, Exclusive
  <2>6. Section'
    <3> SUFFICES ASSUME NEW h \in Gateways, worker'[h].locked
                 PROVE  InSection(worker'[h], local'[h], snapshot')
      BY DEF Section, InSection
    <3>1. h # g /\ worker'[h] = worker[h]
      BY <2>2, IdleTypes, Facts
    <3>2. InSection(worker[h], local[h], snapshot)
      BY <3>1, Facts
    <3> QED BY <2>3, <3>1, <3>2
  <2> QED BY <2>4, <2>5, <2>6 DEF ControllerInv
<1> QED BY <1>1, <1>2, <1>3, <1>4

\* The strengthening of the properties below is an invariant.
THEOREM ControllerInvariant == ASSUME ~SlowHolders PROVE Spec => []ControllerInv
<1>1. ControllerInv /\ [Next]_vars => ControllerInv'
  <2> SUFFICES ASSUME ControllerInv, [Next]_vars PROVE ControllerInv'
    OBVIOUS
  <2>1. CASE UNCHANGED vars
    BY <2>1 DEF vars, ControllerInv, Typed, TypeOK, Exclusive, Section
  <2> QED BY <2>1, TickStep, ResetStep, FaultStep DEF Next
<1> QED BY <1>1, InitController, PTL DEF Spec

\* A step that replaces the snapshot replaces it by one that may follow it.
LEMMA SnapshotStep ==
    ASSUME ControllerInv, [Next]_vars
    PROVE  \/ snapshot' = snapshot
           \/ snapshot = Missing /\ snapshot' \in Sound
           \/ snapshot \in Sound /\ snapshot' \in Sound /\ Follows(snapshot', snapshot)
<1>1. ASSUME NEW g \in Gateways, Create(g)
      PROVE  snapshot' = snapshot \/ (snapshot = Missing /\ snapshot' \in Sound)
  BY <1>1, FreshSound DEF Create
<1>2. ASSUME NEW g \in Gateways, Save(g)
      PROVE  snapshot \in Sound /\ snapshot' \in Sound /\ Follows(snapshot', snapshot)
  BY <1>2, Facts DEF Save, At, Consistent, InSection
<1>3. ASSUME NEW s \in Savers, ResetSave(s)
      PROVE  \/ snapshot = Missing /\ snapshot' \in Sound
             \/ snapshot \in Sound /\ snapshot' \in Sound /\ Follows(snapshot', snapshot)
  <2> DEFINE n == IF snapshot = Missing THEN 0 ELSE snapshot.resets
  <2>1. n \in 0..MaxResets
    BY Facts DEF Sound, Snapshots
  <2>2. PICK state \in {"disabled", "warning"} : n < MaxResets /\ snapshot' = Fresh(state, n + 1)
    BY <1>3 DEF ResetSave
  <2>3. n + 1 \in 0..MaxResets
    BY <2>1, <2>2
  <2>4. snapshot' \in Sound
    BY <2>2, <2>3, FreshSound
  <2>5. CASE snapshot # Missing
    <3>1. snapshot \in Sound /\ n = snapshot.resets /\ n + 1 >= snapshot.resets
      BY <2>1, <2>5, Facts
    <3> HIDE DEF n
    <3> QED BY <2>2, <2>3, <2>4, <3>1, FreshFollows
  <2> QED BY <2>4, <2>5
<1>4. \/ UNCHANGED snapshot
      \/ \E g \in Gateways : Create(g) \/ Save(g)
      \/ \E s \in Savers : ResetSave(s)
  BY DEF Next, vars, Tick, ReadConfig, Acquire, Load, Apply, Disable, Process, Restart,
     SaveConfig, Reset, ResetAcquire, ResetApply, Release, Fail, ReleaseFails, Expire
<1> QED BY <1>1, <1>2, <1>3, <1>4

\* The shared factor stays within the bounds that configurations allow, so
\* that loadSharedSnapshot never refuses it.
THEOREM SnapshotAlwaysLoadable == ASSUME ~SlowHolders PROVE Spec => []SnapshotLoadable
<1>1. ControllerInv => SnapshotLoadable
  BY DEF ControllerInv, Typed, Sound, InRange, SnapshotLoadable
<1> QED BY <1>1, ControllerInvariant, PTL

\* The shared factor moves away from its initial value only with the second
\* congested or the third stable reading in a row, of whichever gateways.
THEOREM SharedHysteresis == ASSUME ~SlowHolders PROVE Spec => Hysteresis
<1>1. ControllerInv /\ [Next]_vars =>
        [snapshot # Missing /\ snapshot' # Missing =>
            /\ Rises => snapshot.congested = 1 /\ snapshot'.state = "congested"
            /\ Falls => snapshot.stable = 2 /\ snapshot'.state = "stable"]_vars
  <2> SUFFICES ASSUME ControllerInv, [Next]_vars, snapshot # Missing
               PROVE  /\ Rises => snapshot.congested = 1 /\ snapshot'.state = "congested"
                      /\ Falls => snapshot.stable = 2 /\ snapshot'.state = "stable"
    OBVIOUS
  <2>1. CASE snapshot' = snapshot
    <3>1. snapshot.factor \in Int
      BY Facts DEF Sound, Snapshots
    <3> QED BY <2>1, <3>1 DEF Rises, Falls
  <2>2. CASE Follows(snapshot', snapshot)
    BY <2>2 DEF Follows, Rises, Falls
  <2> QED BY <2>1, <2>2, SnapshotStep
<1> QED BY <1>1, ControllerInvariant, PTL DEF Spec, Hysteresis

\* No controller overwrites a reset with what came before it.
THEOREM ResetsStand == ASSUME ~SlowHolders PROVE Spec => ResetNotUndone
<1>1. ControllerInv /\ [Next]_vars =>
        [snapshot # Missing => snapshot' # Missing /\ snapshot'.resets >= snapshot.resets]_vars
  <2> SUFFICES ASSUME ControllerInv, [Next]_vars, snapshot # Missing
               PROVE  snapshot' # Missing /\ snapshot'.resets >= snapshot.resets
    OBVIOUS
  <2>1. CASE snapshot' = snapshot
    <3>1. snapshot.resets \in Int
      BY Facts DEF Sound, Snapshots
    <3> QED BY <2>1, <3>1
  <2>2. CASE snapshot' \in Sound /\ Follows(snapshot', snapshot)
    BY <2>2 DEF Follows, Sound
  <2> QED BY <2>1, <2>2, SnapshotStep
<1> QED BY <1>1, ControllerInvariant, PTL DEF Spec, ResetNotUndone

=============================================================================
