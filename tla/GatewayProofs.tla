--------------------------- MODULE GatewayProofs ---------------------------
(***************************************************************************)
(* The composed pipeline is correct for any requests, gateways and         *)
(* configurations, and any durations for which stalls are shorter than the *)
(* margins of the lock and of the marker.                                  *)
(*                                                                         *)
(* The invariant is built in layers.  WellFormed says, for one request at  *)
(* a time, which routes and values go with which step.  Led relates the    *)
(* leaders and the registered calls.  OnTime bounds how late the value of  *)
(* a request and of L2 can be.  Guarded relates the clocks of a request    *)
(* and of the lock and the marker that it has in Redis.                    *)
(***************************************************************************)
EXTENDS Gateway, TLAPS

USE DurationAssumption, NoneAssumption

\* Routes of requests that fetch for themselves and, with SingleFlight, lead.
Fetches == {"plain", "lock", "blind", "panic"}

\* Steps between the acquisition of the lock and the SET, by way of the backend.
Calls == {"record", "start", "call", "setL2"}

\* Which routes and values go with the step that the request is at.
Shape(q) ==
    /\ q.pc # "idle" => q.on \in Gateways /\ q.ttlL2 >= 1
    /\ q.route = "none" <=> q.pc \in {"idle", "getL2", "join", "follow"}
    /\ q.pc \in {"getL2", "join", "follow", "wait", "ownerL2"} => q.value = None
    /\ q.pc \in {"wait", "ownerL2"} => q.route = "lock"
    /\ q.pc \in {"record", "start", "call"} => q.route = "early" \/ q.value = None
    /\ q.pc \in Calls => q.route \in {"early", "plain", "lock", "blind"}
    /\ q.pc = "setL2" => q.value # None
    /\ q.pc = "release" => q.route \in {"lock", "blind", "panic"}
    /\ q.pc = "respond" => q.route \in {"hit", "plain", "lock", "blind", "follow"}
    /\ q.counted => q.pc \in {"start", "call"}

\* The value of the request is not late by more than its own stall and
\* the delays that it had before: those of a call, of the request that stored
\* it, or of the leader.
Punctual(q) ==
    q.value # None =>
        /\ q.pc \in {"record", "start"} => q.value >= 1 - q.stall
        /\ q.pc = "call" => q.value >= 1 - q.stall - (q.timeout - q.timer)
        /\ q.pc = "setL2" => q.value >= q.ttlL2 - q.stall
        /\ q.route \in Fetches /\ q.pc \in {"release", "respond", "finish"} =>
              q.value >= 1 - q.stall - MaxStall
        /\ q.route = "hit" =>
              q.value >= 1 - q.stall - MaxStall \/ q.value >= 1 - q.stall - MaxTimeout
        /\ q.route = "follow" => q.value >= 1 - q.stall - 2 * MaxStall

\* Redis drops a value no later than one stall after its L2Expiration.
StorePunctual == l2 # None => l2.value >= l2.ttl - MaxStall

OnTime == StorePunctual /\ \A r \in Requests : Punctual(request[r])

WellFormed == TypeOK /\ \A r \in Requests : Shape(request[r])

\* A registered call belongs to a request that makes it, and a request that
\* fetches under SingleFlight or has yet to publish has registered its call.
Led ==
    /\ \A g \in Gateways : inFlight[g] # None =>
          request[inFlight[g]].on = g /\ request[inFlight[g]].route \in Fetches
    /\ \A r \in Requests :
          (request[r].singleFlight /\ request[r].route \in Fetches) \/ At(r, "finish") => Leads(r)
    /\ \A r \in Requests : At(r, "follow") => inFlight[request[r].on] # None

\* From acquisition to SET.
Owning(r) ==
    \/ At(r, "ownerL2")
    \/ request[r].route \in {"lock", "blind"} /\ request[r].pc \in Calls

\* An owner of the lock has it for the rest of its call and of its stall.
Holds(r) ==
    Owning(r) =>
        /\ lock # None /\ lock.owner = r
        /\ lock.ttl >= SafetyMargin - request[r].stall
        /\ request[r].pc \in {"ownerL2", "record", "start"} =>
              lock.ttl >= LockTTL(request[r].timeout) - request[r].stall
        /\ At(r, "call") => lock.ttl >= request[r].timer + SafetyMargin - request[r].stall

\* So does the marker outlive the call that created it.
Counts(r) ==
    request[r].counted =>
        /\ At(r, "start") => marker >= MarkerTTL(request[r].timeout) - request[r].stall
        /\ At(r, "call") => marker >= request[r].timer + MarkerMargin - request[r].stall

\* What r has in Redis lasts, and only one request at a time is counted.
Guarded ==
    /\ \A r \in Requests : Holds(r)
    /\ \A r \in Requests : Counts(r)
    /\ \A r, q \in Requests : request[r].counted /\ request[q].counted => r = q

---------------------------------------------------------------------------
(* WellFormed                                                              *)

\* A request state of the right type and shape.
Good(q) == q \in RequestStates /\ Shape(q)

\* The types of what the requests share.
SharedTypes ==
    /\ l1 \in [Gateways -> (0..MaxTTL) \cup {None}]
    /\ l2 \in [value : Values, ttl : 1..MaxTTL, locked : BOOLEAN] \cup {None}
    /\ inFlight \in [Gateways -> Requests \cup {None}]
    /\ lock \in [owner : Requests, ttl : 1..LockTTL(MaxTimeout)] \cup {None}
    /\ marker \in 0..MarkerTTL(MaxTimeout)

\* Lateness and the lifetimes are numbers.
LEMMA Numbers ==
    /\ Lateness \in Nat \ {0} /\ Lateness >= MaxTimeout + MaxStall /\ Lateness >= 3 * MaxStall
    /\ \A t \in 0..MaxTimeout :
          LockTTL(t) \in 1..LockTTL(MaxTimeout) /\ MarkerTTL(t) \in 1..MarkerTTL(MaxTimeout)
    /\ 0..MaxTTL \subseteq Values /\ Values \subseteq Int /\ None \notin Values
  BY DEF Lateness, LockTTL, MarkerTTL, Values

\* WellFormed, request by request.
LEMMA WellFormedMeaning ==
    WellFormed <=> /\ request \in [Requests -> RequestStates]
                   /\ \A r \in Requests : Good(request[r])
                   /\ SharedTypes
  BY DEF WellFormed, TypeOK, Good, SharedTypes

\* A step that changes one request.
LEMMA OneRequestStep ==
    ASSUME WellFormed, NEW r \in Requests, NEW q, Good(q), Becomes(r, q), SharedTypes'
    PROVE  WellFormed'
<1>1. request' \in [Requests -> RequestStates] /\ \A s \in Requests : Good(request'[s])
  BY WellFormedMeaning DEF Becomes, Good
<1> QED BY <1>1, WellFormedMeaning DEF WellFormed, TypeOK, Good, SharedTypes

\* The state of a request that has ended.
LEMMA IdleGood == Good(Idle)
  BY Numbers DEF Good, Idle, RequestStates, Shape, Calls, Busy, Routes

\* A request that returns, or that still has to publish.
LEMMA DoneGood ==
    ASSUME NEW r \in Requests, Good(request[r]), request[r].route # "none", ~request[r].counted
    PROVE  Good(Done(r))
  BY IdleGood DEF Done, Good, RequestStates, Shape, Calls, Busy

\* The state of a request that arrives on gateway g in state q.
Arrived(q, g, sf, dl, er, ttl, t) ==
    [q EXCEPT !.pc = "getL2", !.on = g, !.singleFlight = sf, !.distributedLock = dl,
              !.earlyRefresh = er, !.ttlL2 = ttl, !.timeout = t]

\* Arriving makes a good state of an idle one.
LEMMA ArrivedGood ==
    ASSUME NEW q, Good(q), q.pc = "idle", q.value = None, NEW g \in Gateways,
           NEW sf \in BOOLEAN, NEW dl \in BOOLEAN, NEW er \in BOOLEAN, NEW ttl \in 1..MaxTTL,
           NEW t \in 1..MaxTimeout
    PROVE  /\ Good(Arrived(q, g, sf, dl, er, ttl, t))
           /\ Arrived(q, g, sf, dl, er, ttl, t).pc = "getL2"
<1>1. /\ q \in RequestStates /\ q.route = "none" /\ q.value = None /\ ~q.counted
      /\ ttl \in 0..MaxTTL /\ t \in 0..MaxTimeout
  BY DEF Good, Shape
<1> HIDE DurationAssumption, NoneAssumption
<1>2. Arrived(q, g, sf, dl, er, ttl, t) \in RequestStates
  BY <1>1 DEF Arrived, RequestStates, Busy
<1>3. Shape(Arrived(q, g, sf, dl, er, ttl, t)) /\ Arrived(q, g, sf, dl, er, ttl, t).pc = "getL2"
  BY <1>1 DEF Arrived, RequestStates, Shape, Calls
<1> QED BY <1>2, <1>3 DEF Good

\* Arriving keeps the types, whether L1 answers or not.
LEMMA ArriveTyped ==
    ASSUME WellFormed, NEW r \in Requests, NEW g \in Gateways, NEW c \in Configs, NEW f \in Factors,
           Arrive(r, g, c, f)
    PROVE  WellFormed'
<1> DEFINE q == Arrived(Idle, g, c.singleFlight, c.distributedLock, c.earlyRefresh,
                            EffectiveTTL(c, f), c.timeout)
<1>1. Good(q) /\ q.pc = "getL2"
  <2>1. Idle.pc = "idle" /\ Idle.value = None
    BY DEF Idle
  <2>2. /\ c.singleFlight \in BOOLEAN /\ c.distributedLock \in BOOLEAN /\ c.earlyRefresh \in BOOLEAN
        /\ c.timeout \in 1..MaxTimeout
    BY ConfigsAssumption
  <2>3. EffectiveTTL(c, f) \in 1..MaxTTL
    BY ConfigsAssumption
  <2> QED BY <2>1, <2>2, <2>3, IdleGood, ArrivedGood
<1>2. Becomes(r, IF l1[g] = None THEN q
                 ELSE [q EXCEPT !.pc = "respond", !.route = "hit", !.value = l1[g]])
  BY DEF Arrive, Arrived
<1> HIDE DEF q
<1>3. ASSUME l1[g] # None
      PROVE  Good([q EXCEPT !.pc = "respond", !.route = "hit", !.value = l1[g]])
  <2>1. l1[g] \in Values
    BY <1>3, Numbers, WellFormedMeaning DEF SharedTypes
  <2> QED BY <1>1, <1>2, <2>1, Numbers DEF Good, RequestStates, Shape, Calls, Busy, Routes
<1>4. SharedTypes'
  BY WellFormedMeaning DEF Arrive, SharedTypes
<1> QED BY <1>1, <1>2, <1>3, <1>4, OneRequestStep

\* A call that starts leaves a state of the right type.
LEMMA StartTyped ==
    ASSUME NEW q \in RequestStates
    PROVE  [q EXCEPT !.pc = "call", !.timer = q.timeout] \in RequestStates
<1> HIDE DurationAssumption, NoneAssumption
<1> QED BY DEF RequestStates

\* So does one that ends.
LEMMA CallTyped ==
    ASSUME NEW q \in RequestStates, NEW pc \in Busy, NEW route \in Routes,
           NEW value \in Values \cup {None}
    PROVE  /\ [q EXCEPT !.pc = pc, !.timer = 0, !.counted = FALSE] \in RequestStates
           /\ [[q EXCEPT !.pc = pc, !.timer = 0, !.counted = FALSE] EXCEPT !.route = route] \in RequestStates
           /\ [[q EXCEPT !.pc = pc, !.timer = 0, !.counted = FALSE] EXCEPT !.value = value] \in RequestStates
<1>1. 0 \in 0..MaxTimeout
  OBVIOUS
<1> HIDE DurationAssumption, NoneAssumption
<1>3. [q EXCEPT !.pc = pc, !.timer = 0, !.counted = FALSE] \in RequestStates
  BY <1>1 DEF RequestStates
<1> DEFINE p == [q EXCEPT !.pc = pc, !.timer = 0, !.counted = FALSE]
<1>4. p \in RequestStates
  BY <1>3
<1> HIDE DEF p
<1>5. [p EXCEPT !.route = route] \in RequestStates /\ [p EXCEPT !.value = value] \in RequestStates
  BY <1>4 DEF RequestStates
<1> QED BY <1>3, <1>5 DEF p

\* The steps that change one request and nothing that they would have to
\* compute.
LEMMA StepTyped ==
    ASSUME WellFormed, NEW r \in Requests, Step(r) \/ Disturbance(r), ~Finish(r)
    PROVE  WellFormed'
<1> USE DEF Good, RequestStates, Shape, Calls, Busy, Routes
<1>0. /\ Good(request[r]) /\ SharedTypes /\ request[r].value \in Values \cup {None}
      /\ request[r].route \in Routes /\ request[r].on \in Gateways \cup {None}
  BY WellFormedMeaning
<1>1. CASE GetL2Hit(r)
  <2>1. Good([request[r] EXCEPT !.pc = "respond", !.route = "hit", !.value = l2.value])
    BY <1>0, <1>1, Numbers DEF GetL2Hit, SharedTypes, At
  <2>2. SharedTypes'
    BY <1>0, <1>1, Numbers DEF GetL2Hit, SharedTypes, SetL1, InL1, Values
  <2> QED BY <1>1, <2>1, <2>2, OneRequestStep DEF GetL2Hit
<1>2. CASE EarlyRefresh(r)
  <2>1. Good([request[r] EXCEPT !.pc = "record", !.route = "early", !.value = l2.value])
    BY <1>0, <1>2, Numbers DEF EarlyRefresh, SharedTypes, At
  <2>2. SharedTypes'
    BY <1>0, <1>2 DEF EarlyRefresh, SharedTypes
  <2> QED BY <1>2, <2>1, <2>2, OneRequestStep DEF EarlyRefresh
<1>3. CASE GetL2Miss(r)
  <2>1. Good(IF request[r].singleFlight THEN [request[r] EXCEPT !.pc = "join"] ELSE Fetching(r))
    BY <1>0, <1>3 DEF GetL2Miss, At, Fetching
  <2>2. SharedTypes'
    BY <1>0, <1>3 DEF GetL2Miss, SharedTypes
  <2> QED BY <1>3, <2>1, <2>2, OneRequestStep DEF GetL2Miss
<1>4. CASE Respond(r)
  <2>1. request[r].pc = "respond" /\ ~request[r].counted /\ request[r].route # "none"
    BY <1>0, <1>4 DEF Respond, At
  <2>2. Good(Done(r))
    BY <1>0, <2>1, DoneGood
  <2>3. Good([request[r] EXCEPT !.pc = "setL2", !.value = request[r].ttlL2])
        \/ request[r].route # "plain"
    BY <1>0, <2>1, Numbers
  <2>4. SharedTypes'
    BY <1>0, <1>4, Numbers DEF Respond, SharedTypes, SetL1, InL1, Values
  <2> QED BY <1>4, <2>2, <2>3, <2>4, OneRequestStep DEF Respond
<1>5. CASE Join(r)
  <2>1. Good(Fetching(r)) /\ Good([request[r] EXCEPT !.pc = "follow"])
    BY <1>0, <1>5 DEF Join, At, Fetching
  <2>2. SharedTypes'
    BY <1>0, <1>5 DEF Join, SharedTypes
  <2> QED BY <1>5, <2>1, <2>2, OneRequestStep DEF Join, Goto
<1>6. CASE Cancel(r)
  <2>1. Good([request[r] EXCEPT !.pc = "respond", !.route = "follow"])
    BY <1>0, <1>6, Numbers DEF Cancel, SharedTypes, At
  <2>2. SharedTypes'
    BY <1>0, <1>6, Numbers DEF Cancel, SharedTypes
  <2> QED BY <1>6, <2>1, <2>2, OneRequestStep DEF Cancel
<1>7. CASE Acquire(r)
  <2>1. Good([request[r] EXCEPT !.pc = "ownerL2"])
    BY <1>0, <1>7, Numbers DEF Acquire, SharedTypes, At
  <2>2. SharedTypes'
    BY <1>0, <1>7, Numbers DEF Acquire, SharedTypes, Acquired
  <2> QED BY <1>7, <2>1, <2>2, OneRequestStep DEF Acquire
<1>8. CASE WaiterHit(r)
  <2>1. Good([request[r] EXCEPT !.pc = "respond", !.value = l2.value])
    BY <1>0, <1>8, Numbers DEF WaiterHit, SharedTypes, At
  <2>2. SharedTypes'
    BY <1>0, <1>8, Numbers DEF WaiterHit, SharedTypes
  <2> QED BY <1>8, <2>1, <2>2, OneRequestStep DEF WaiterHit
<1>9. CASE GiveUp(r)
  <2>1. Good([request[r] EXCEPT !.pc = "respond"])
    BY <1>0, <1>9, Numbers DEF GiveUp, SharedTypes, At
  <2>2. SharedTypes'
    BY <1>0, <1>9, Numbers DEF GiveUp, SharedTypes, Acquired
  <2> QED BY <1>9, <2>1, <2>2, OneRequestStep DEF GiveUp, Goto
<1>10. CASE OwnerHit(r)
  <2>1. Good([request[r] EXCEPT !.pc = "release", !.value = l2.value])
    BY <1>0, <1>10, Numbers DEF OwnerHit, SharedTypes, At
  <2>2. SharedTypes'
    BY <1>0, <1>10, Numbers DEF OwnerHit, SharedTypes
  <2> QED BY <1>10, <2>1, <2>2, OneRequestStep DEF OwnerHit
<1>11. CASE OwnerMiss(r)
  <2>1. Good([request[r] EXCEPT !.pc = "record", !.route = IF l2 = None THEN "lock" ELSE "blind"])
    BY <1>0, <1>11, Numbers DEF OwnerMiss, SharedTypes, At
  <2>2. SharedTypes'
    BY <1>0, <1>11, Numbers DEF OwnerMiss, SharedTypes
  <2> QED BY <1>11, <2>1, <2>2, OneRequestStep DEF OwnerMiss
<1>12. CASE Release(r)
  <2>1. request[r].pc = "release" /\ ~request[r].counted /\ request[r].route # "none"
    BY <1>0, <1>12 DEF Release, At
  <2>2. Good(Done(r))
    BY <1>0, <2>1, DoneGood
  <2>3. Good([request[r] EXCEPT !.pc = "respond"]) \/ request[r].route = "panic"
    BY <1>0, <2>1
  <2>4. SharedTypes'
    BY <1>0, <1>12 DEF Release, SharedTypes
  <2> QED BY <1>12, <2>2, <2>3, <2>4, OneRequestStep DEF Release
<1>13. CASE Record(r)
  <2>1. /\ Good([request[r] EXCEPT !.pc = "start", !.counted = TRUE])
        /\ Good([request[r] EXCEPT !.pc = "start"])
    BY <1>0, <1>13 DEF Record, At
  <2>2. SharedTypes'
    BY <1>0, <1>13, Numbers DEF Record, SharedTypes
  <2> QED BY <1>13, <2>1, <2>2, OneRequestStep DEF Record, Goto
<1>14. CASE Start(r)
  <2> DEFINE q == [request[r] EXCEPT !.pc = "call", !.timer = request[r].timeout]
  <2>1. q \in RequestStates
    <3> HIDE DEF RequestStates
    <3> QED BY <1>0, StartTyped
  <2>2. Shape(q)
    BY <1>0, <1>14 DEF Start, At
  <2>3. SharedTypes'
    BY <1>0, <1>14 DEF Start, SharedTypes
  <2> QED BY <1>14, <2>1, <2>2, <2>3, OneRequestStep DEF Start
<1>15. CASE BackendAnswers(r)
  <2> DEFINE q == [Returns(r, IF request[r].route = "plain" THEN "respond" ELSE "setL2")
                     EXCEPT !.value = request[r].ttlL2]
  <2>1. q \in RequestStates
    <3>1. request[r].ttlL2 \in Values
      BY <1>0, Numbers
    <3>2. (IF request[r].route = "plain" THEN "respond" ELSE "setL2") \in Busy
      OBVIOUS
    <3> HIDE DEF RequestStates, Busy
    <3> QED BY <1>0, <3>1, <3>2, CallTyped DEF Returns
  <2>2. Shape(q)
    <3>1. request[r].ttlL2 # None
      BY <1>0, Numbers
    <3> QED BY <1>0, <1>15, <3>1 DEF BackendAnswers, At, Returns
  <2>3. SharedTypes'
    BY <1>0, <1>15 DEF BackendAnswers, SharedTypes
  <2> QED BY <1>15, <2>1, <2>2, <2>3, OneRequestStep DEF BackendAnswers
<1>16. CASE BackendFails(r) \/ BackendTimesOut(r)
  <2>1. request[r].pc = "call" /\ CallFails(r) /\ UNCHANGED <<l2, inFlight, lock, marker>>
    BY <1>16 DEF BackendFails, BackendTimesOut, At
  <2>2. CASE request[r].route = "early"
    <3> DEFINE q == [Returns(r, "respond") EXCEPT !.route = "hit"]
    <3>1. q \in RequestStates
      <4> HIDE DEF RequestStates
      <4> QED BY <1>0, CallTyped DEF Returns
    <3>2. Shape(q)
      BY <1>0, <2>1, <2>2 DEF Returns
    <3>3. SharedTypes'
      BY <1>0, <2>1, <2>2, Numbers DEF CallFails, SharedTypes, SetL1, InL1, Values
    <3> QED BY <2>1, <2>2, <3>1, <3>2, <3>3, OneRequestStep DEF CallFails
  <2>3. CASE request[r].route # "early"
    <3> DEFINE q == Returns(r, IF request[r].route = "plain" THEN "respond" ELSE "release")
    <3>1. q \in RequestStates
      <4>1. (IF request[r].route = "plain" THEN "respond" ELSE "release") \in Busy
        OBVIOUS
      <4> HIDE DEF RequestStates, Busy
      <4> QED BY <1>0, <4>1, CallTyped DEF Returns
    <3>2. Shape(q)
      BY <1>0, <2>1, <2>3 DEF Returns
    <3>3. SharedTypes'
      BY <1>0, <2>1, <2>3 DEF CallFails, SharedTypes
    <3> QED BY <2>1, <2>3, <3>1, <3>2, <3>3, OneRequestStep DEF CallFails
  <2> QED BY <2>2, <2>3
<1>17. CASE BackendPanics(r)
  <2>1. /\ [Returns(r, "release") EXCEPT !.route = "panic"] \in RequestStates
        /\ Returns(r, "finish") \in RequestStates
    <3> HIDE DEF RequestStates
    <3> QED BY <1>0, CallTyped DEF Returns
  <2>2. /\ Shape([Returns(r, "release") EXCEPT !.route = "panic"])
        /\ Shape(Returns(r, "finish"))
    BY <1>0, <1>17 DEF BackendPanics, At, Returns
  <2>3. SharedTypes'
    BY <1>0, <1>17 DEF BackendPanics, SharedTypes
  <2> QED BY <1>17, <2>1, <2>2, <2>3, IdleGood, OneRequestStep DEF BackendPanics
<1>18. CASE SetL2(r)
  <2>1. /\ request[r].pc = "setL2" /\ ~request[r].counted /\ request[r].route # "none"
        /\ request[r].value \in Values /\ request[r].ttlL2 \in 1..MaxTTL
    BY <1>0, <1>18 DEF SetL2, At
  <2>2. /\ Good(Done(r))
        /\ request[r].route \in {"lock", "blind"} => Good([request[r] EXCEPT !.pc = "release"])
        /\ Good([request[r] EXCEPT !.pc = "respond", !.route = "hit"])
    BY <1>0, <2>1, DoneGood
  <2>3. SharedTypes'
    <3>1. l2' \in [value : Values, ttl : 1..MaxTTL, locked : BOOLEAN] \cup {None}
      <4> DEFINE locked == request[r].route \in {"lock", "blind"}
      <4>1. locked \in BOOLEAN
        OBVIOUS
      <4>2. l2' \in {l2, [value |-> request[r].value, ttl |-> request[r].ttlL2, locked |-> locked]}
        BY <1>18 DEF SetL2
      <4> HIDE DEF locked
      <4>3. [value |-> request[r].value, ttl |-> request[r].ttlL2, locked |-> locked]
               \in [value : Values, ttl : 1..MaxTTL, locked : BOOLEAN]
        BY <2>1, <4>1, Zenon
      <4> QED BY <1>0, <4>2, <4>3, Zenon DEF SharedTypes
    <3>2. l1' \in [Gateways -> (0..MaxTTL) \cup {None}]
      BY <1>0, <1>18, <2>1, Numbers DEF SetL2, SharedTypes, SetL1, InL1, Values
    <3> QED BY <1>0, <1>18, <3>1, <3>2 DEF SetL2, SharedTypes
  <2> QED BY <1>18, <2>1, <2>2, <2>3, OneRequestStep DEF SetL2
<1> QED BY <1>1, <1>2, <1>3, <1>4, <1>5, <1>6, <1>7, <1>8, <1>9, <1>10, <1>11, <1>12, <1>13, <1>14,
           <1>15, <1>16, <1>17, <1>18 DEF Step, Disturbance

\* finishInFlight changes its leader and the followers.
LEMMA FinishTyped == ASSUME WellFormed, NEW r \in Requests, Finish(r) PROVE WellFormed'
<1>0. \A q \in Requests : Good(request[q])
  BY WellFormedMeaning
<1>1. ASSUME NEW q \in Requests, At(q, "follow")
      PROVE  Good([request[q] EXCEPT !.pc = "respond", !.route = "follow", !.value = request[r].value])
  <2>1. request[r].value \in Values \cup {None} /\ Good(request[q])
    BY <1>0 DEF Good, RequestStates
  <2> QED BY <1>1, <2>1 DEF Good, RequestStates, Shape, Calls, Busy, Routes, At
<1>2. \A q \in Requests : Good(request'[q])
  BY <1>0, <1>1, IdleGood DEF Finish
<1>3. request' \in [Requests -> RequestStates]
  BY <1>2 DEF Finish, Good
<1>4. SharedTypes'
  BY WellFormedMeaning DEF Finish, SharedTypes
<1> QED BY <1>2, <1>3, <1>4 DEF WellFormed, TypeOK, Good, SharedTypes

\* A restart leaves idle requests behind.
LEMMA RestartTyped == ASSUME WellFormed, NEW g \in Gateways, Restart(g) PROVE WellFormed'
<1>1. \A q \in Requests : Good(request'[q])
  BY WellFormedMeaning, IdleGood DEF Restart
<1>2. request' \in [Requests -> RequestStates]
  BY <1>1 DEF Restart, Good
<1>3. SharedTypes'
  BY WellFormedMeaning DEF Restart, SharedTypes
<1> QED BY <1>1, <1>2, <1>3 DEF WellFormed, TypeOK, Good, SharedTypes

\* Values stay in range as they age, and age by one tick at most.
LEMMA LaterTyped ==
    ASSUME NEW v \in Values \cup {None}
    PROVE  /\ Later(v) \in Values \cup {None}
           /\ Later(v) = None <=> v = None
           /\ v # None => Later(v) >= v - 1
  BY Numbers DEF Later, Values

\* A request with new clocks.
WithClocks(q, timer, value, stall) == [q EXCEPT !.timer = timer, !.value = value, !.stall = stall]

\* The state of a request one tick later.
Aged(q) ==
    WithClocks(q, Down(q.timer), Later(q.value), IF q.pc \in Busy THEN q.stall + 1 ELSE q.stall)

\* Time leaves a state of the right type and shape.
LEMMA ClocksGood ==
    ASSUME NEW q, Good(q), NEW timer \in 0..MaxTimeout,
           NEW value \in Values \cup {None}, value = None <=> q.value = None,
           NEW stall \in 0..MaxStall
    PROVE  Good(WithClocks(q, timer, value, stall))
<1>1. q \in RequestStates /\ Shape(q)
  BY DEF Good
<1> HIDE DurationAssumption, NoneAssumption
<1>2. WithClocks(q, timer, value, stall) \in RequestStates
  BY <1>1 DEF WithClocks, RequestStates
<1>3. Shape(WithClocks(q, timer, value, stall))
  BY <1>1 DEF WithClocks, Shape, RequestStates, Calls
<1> QED BY <1>2, <1>3 DEF Good

\* A tick keeps a request well-formed as long as it may still stall.
LEMMA AgedGood ==
    ASSUME NEW q, Good(q), q.pc \in Busy => q.stall < MaxStall
    PROVE  Good(Aged(q))
<1>1. /\ Down(q.timer) \in 0..MaxTimeout
      /\ (IF q.pc \in Busy THEN q.stall + 1 ELSE q.stall) \in 0..MaxStall
      /\ Later(q.value) \in Values \cup {None}
      /\ Later(q.value) = None <=> q.value = None
  BY LaterTyped DEF Good, RequestStates, Down
<1> QED BY <1>1, ClocksGood DEF Aged

\* What Tick does, one variable at a time.
LEMMA TickMeaning ==
    ASSUME Tick
    PROVE  /\ \A r \in Requests : request[r].pc \in Busy => request[r].stall < MaxStall
           /\ \A r \in Requests : At(r, "call") => request[r].timer > 0
           /\ request' = [r \in Requests |-> Aged(request[r])]
           /\ l1' = [g \in Gateways |-> IF l1[g] = None THEN None ELSE InL1(Later(l1[g]))]
           /\ l2' = IF l2 = None \/ l2.ttl = 1 THEN None
                    ELSE [l2 EXCEPT !.value = Later(@), !.ttl = @ - 1]
           /\ lock' = IF lock = None \/ lock.ttl = 1 THEN None ELSE [lock EXCEPT !.ttl = @ - 1]
           /\ marker' = Down(marker) /\ inFlight' = inFlight
  BY DEF Tick, Aged, WithClocks

\* Time keeps the types.
LEMMA TickTyped == ASSUME WellFormed, Tick PROVE WellFormed'
<1>1. /\ \A r \in Requests : Good(request[r])
      /\ SharedTypes
  BY WellFormedMeaning
<1>2. \A r \in Requests : Good(request'[r])
  BY <1>1, AgedGood, TickMeaning
<1>3. request' \in [Requests -> RequestStates]
  BY <1>2, TickMeaning DEF Good
<1>4. SharedTypes'
  <2>1. l1' \in [Gateways -> (0..MaxTTL) \cup {None}]
    <3>1. ASSUME NEW v \in 0..MaxTTL PROVE InL1(Later(v)) \in (0..MaxTTL) \cup {None}
      BY Numbers DEF InL1, Later
    <3> QED BY <1>1, <3>1, TickMeaning DEF SharedTypes
  <2>2. l2' \in [value : Values, ttl : 1..MaxTTL, locked : BOOLEAN] \cup {None}
    <3>1. CASE l2 = None \/ l2.ttl = 1
      BY <3>1, TickMeaning
    <3>2. CASE ~(l2 = None \/ l2.ttl = 1)
      <4>1. /\ l2 \in [value : Values, ttl : 1..MaxTTL, locked : BOOLEAN]
            /\ l2' = [l2 EXCEPT !.value = Later(@), !.ttl = @ - 1]
        BY <1>1, <3>2, TickMeaning DEF SharedTypes
      <4>2. Later(l2.value) \in Values /\ l2.ttl - 1 \in 1..MaxTTL
        BY <3>2, <4>1, LaterTyped, Numbers
      <4> QED BY <4>1, <4>2
    <3> QED BY <3>1, <3>2
  <2>3. lock' \in [owner : Requests, ttl : 1..LockTTL(MaxTimeout)] \cup {None}
    <3>1. CASE lock = None \/ lock.ttl = 1
      BY <3>1, TickMeaning
    <3>2. CASE ~(lock = None \/ lock.ttl = 1)
      <4>1. /\ lock \in [owner : Requests, ttl : 1..LockTTL(MaxTimeout)]
            /\ lock' = [lock EXCEPT !.ttl = @ - 1]
        BY <1>1, <3>2, TickMeaning DEF SharedTypes
      <4> QED BY <3>2, <4>1, Numbers
    <3> QED BY <3>1, <3>2
  <2>4. marker' \in 0..MarkerTTL(MaxTimeout) /\ inFlight' = inFlight
    BY <1>1, TickMeaning, Numbers DEF SharedTypes, Down
  <2> QED BY <1>1, <2>1, <2>2, <2>3, <2>4 DEF SharedTypes
<1> QED BY <1>2, <1>3, <1>4 DEF WellFormed, TypeOK, Good, SharedTypes

\* A value in a cache may go at any time.
LEMMA DropTyped ==
    ASSUME WellFormed, DropL2 \/ \E g \in Gateways : DropL1(g)
    PROVE  WellFormed'
  BY DEF WellFormed, TypeOK, DropL1, DropL2

\* Requests, caches, calls, lock and marker keep their types, and every
\* request carries what the step it is at calls for.
THEOREM PipelineWellFormed == Spec => []WellFormed
<1>1. Init => WellFormed
  BY IdleGood, Numbers DEF Init, WellFormed, TypeOK, Good
<1>2. WellFormed /\ [Next]_vars => WellFormed'
  <2> SUFFICES ASSUME WellFormed, [Next]_vars PROVE WellFormed'
    OBVIOUS
  <2>1. CASE UNCHANGED vars
    BY <2>1 DEF vars, WellFormed, TypeOK
  <2> QED BY <2>1, ArriveTyped, StepTyped, FinishTyped, RestartTyped, TickTyped, DropTyped DEF Next
<1> QED BY <1>1, <1>2, PTL DEF Spec

---------------------------------------------------------------------------
(* What the steps of one request do, field by field                        *)

\* Nobody but r changes.
Alone(r) == \A s \in Requests \ {r} : request'[s] = request[s]

\* Request r goes on at pc; its configuration, its gateway and its stall stay.
Moved(r, pc, route, value, timer, counted) ==
    /\ request'[r].pc = pc /\ request'[r].route = route /\ request'[r].value = value
    /\ request'[r].timer = timer /\ request'[r].counted = counted
    /\ request'[r].on = request[r].on /\ request'[r].singleFlight = request[r].singleFlight
    /\ request'[r].stall = request[r].stall /\ request'[r].ttlL2 = request[r].ttlL2
    /\ request'[r].timeout = request[r].timeout

\* It goes on with the same clock of its call, which it is not in.
Turned(r, pc, route, value) == Moved(r, pc, route, value, request[r].timer, request[r].counted)

\* The handler of r has returned.
Ended(r) ==
    \/ Leads(r) /\ Turned(r, "finish", request[r].route, request[r].value)
    \/ ~Leads(r) /\ request'[r] = Idle

\* A request has all the fields, and the step it is at fits them.
LEMMA Fields ==
    ASSUME WellFormed, NEW r \in Requests
    PROVE  request \in [Requests -> RequestStates] /\ request[r] \in RequestStates /\ Shape(request[r])
  BY DEF WellFormed, TypeOK

\* Every step but finishInFlight changes one request.
LEMMA StepsAlone ==
    ASSUME WellFormed, NEW r \in Requests, Step(r) \/ Disturbance(r), ~Finish(r)
    PROVE  Alone(r)
  BY Fields DEF Alone, Becomes, Goto, Step, Disturbance, GetL2Hit, EarlyRefresh, GetL2Miss, Join,
     Acquire, WaiterHit, GiveUp, OwnerHit, OwnerMiss, Release, Record, Start, BackendTimesOut, SetL2,
     Respond, BackendAnswers, BackendFails, BackendPanics, Cancel, CallFails

\* A value from L2 is a hit.
LEMMA GetL2HitEffect ==
    ASSUME WellFormed, NEW r \in Requests, GetL2Hit(r)
    PROVE  Turned(r, "respond", "hit", l2.value)
<1>0. request \in [Requests -> RequestStates] /\ request[r] \in RequestStates /\ Shape(request[r])
  BY Fields
<1> HIDE DurationAssumption, NoneAssumption
<1> QED BY <1>0 DEF GetL2Hit, Becomes, Turned, Moved, RequestStates

\* An early refresh keeps the value that it may fall back on.
LEMMA EarlyRefreshEffect ==
    ASSUME WellFormed, NEW r \in Requests, EarlyRefresh(r)
    PROVE  Turned(r, "record", "early", l2.value)
<1>0. request \in [Requests -> RequestStates] /\ request[r] \in RequestStates /\ Shape(request[r])
  BY Fields
<1> HIDE DurationAssumption, NoneAssumption
<1> QED BY <1>0 DEF EarlyRefresh, Becomes, Turned, Moved, RequestStates

\* After a miss a request joins, waits for the lock or fetches.
LEMMA GetL2MissEffect ==
    ASSUME WellFormed, NEW r \in Requests, GetL2Miss(r)
    PROVE  \/ request[r].singleFlight /\ Turned(r, "join", request[r].route, request[r].value)
           \/ /\ ~request[r].singleFlight
              /\ \/ Turned(r, "wait", "lock", request[r].value)
                 \/ Turned(r, "record", "plain", request[r].value)
<1>0. request \in [Requests -> RequestStates] /\ request[r] \in RequestStates /\ Shape(request[r])
  BY Fields
<1> HIDE DurationAssumption, NoneAssumption
<1> QED BY <1>0 DEF GetL2Miss, Becomes, Turned, Moved, RequestStates, Fetching

\* A request registers its call or follows the one that is registered.
LEMMA JoinEffect ==
    ASSUME WellFormed, NEW r \in Requests, Join(r)
    PROVE  \/ /\ inFlight[request[r].on] = None /\ inFlight' = [inFlight EXCEPT ![request[r].on] = r]
              /\ \/ Turned(r, "wait", "lock", request[r].value)
                 \/ Turned(r, "record", "plain", request[r].value)
           \/ /\ inFlight[request[r].on] # None /\ inFlight' = inFlight
              /\ Turned(r, "follow", request[r].route, request[r].value)
<1>0. request \in [Requests -> RequestStates] /\ request[r] \in RequestStates /\ Shape(request[r])
  BY Fields
<1> HIDE DurationAssumption, NoneAssumption
<1>1. CASE inFlight[request[r].on] = None
  <2>1. request'[r] = Fetching(r) /\ inFlight' = [inFlight EXCEPT ![request[r].on] = r]
    BY <1>0, <1>1 DEF Join, Becomes
  <2>2. Turned(r, "wait", "lock", request[r].value) \/ Turned(r, "record", "plain", request[r].value)
    BY <1>0, <2>1 DEF Fetching, Turned, Moved, RequestStates
  <2> QED BY <1>1, <2>1, <2>2
<1>2. CASE inFlight[request[r].on] # None
  <2>1. request'[r] = [request[r] EXCEPT !.pc = "follow"] /\ inFlight' = inFlight
    BY <1>0, <1>2 DEF Join, Becomes, Goto
  <2>2. Turned(r, "follow", request[r].route, request[r].value)
    BY <1>0, <2>1 DEF Turned, Moved, RequestStates
  <2> QED BY <1>2, <2>1, <2>2
<1> QED BY <1>1, <1>2

\* Only a plain call has something to do after its answer.
LEMMA RespondEffect ==
    ASSUME WellFormed, NEW r \in Requests, Respond(r)
    PROVE  \/ request[r].route # "plain" /\ Ended(r)
           \/ request[r].route = "plain" /\ request[r].value = None /\ Ended(r)
           \/ /\ request[r].route = "plain" /\ request[r].value # None
              /\ Turned(r, "setL2", "plain", request[r].ttlL2)
<1>0. request \in [Requests -> RequestStates] /\ request[r] \in RequestStates /\ Shape(request[r])
  BY Fields
<1> HIDE DurationAssumption, NoneAssumption
<1>1. CASE request[r].route = "plain" /\ request[r].value # None
  <2>1. request'[r] = [request[r] EXCEPT !.pc = "setL2", !.value = request[r].ttlL2]
    BY <1>0, <1>1 DEF Respond, Becomes
  <2>2. Turned(r, "setL2", "plain", request[r].ttlL2)
    BY <1>0, <1>1, <2>1 DEF Turned, Moved, RequestStates
  <2> QED BY <1>1, <2>2
<1>2. CASE request[r].route # "plain" \/ request[r].value = None
  <2>1. request'[r] = Done(r)
    BY <1>0, <1>2 DEF Respond, Becomes
  <2>2. Ended(r)
    BY <1>0, <2>1 DEF Done, Ended, Turned, Moved, RequestStates
  <2> QED BY <1>2, <2>2
<1> QED BY <1>1, <1>2

\* A follower that leaves has no value.
LEMMA CancelEffect ==
    ASSUME WellFormed, NEW r \in Requests, Cancel(r)
    PROVE  Turned(r, "respond", "follow", request[r].value)
<1>0. request \in [Requests -> RequestStates] /\ request[r] \in RequestStates /\ Shape(request[r])
  BY Fields
<1> HIDE DurationAssumption, NoneAssumption
<1> QED BY <1>0 DEF Cancel, Becomes, Turned, Moved, RequestStates

\* The owner looks in L2 again.
LEMMA AcquireEffect ==
    ASSUME WellFormed, NEW r \in Requests, Acquire(r)
    PROVE  Turned(r, "ownerL2", request[r].route, request[r].value)
<1>0. request \in [Requests -> RequestStates] /\ request[r] \in RequestStates /\ Shape(request[r])
  BY Fields
<1> HIDE DurationAssumption, NoneAssumption
<1> QED BY <1>0 DEF Acquire, Becomes, Turned, Moved, RequestStates

\* A waiter takes the value of L2.
LEMMA WaiterHitEffect ==
    ASSUME WellFormed, NEW r \in Requests, WaiterHit(r)
    PROVE  Turned(r, "respond", request[r].route, l2.value)
<1>0. request \in [Requests -> RequestStates] /\ request[r] \in RequestStates /\ Shape(request[r])
  BY Fields
<1> HIDE DurationAssumption, NoneAssumption
<1> QED BY <1>0 DEF WaiterHit, Becomes, Turned, Moved, RequestStates

\* One that gives up has none.
LEMMA GiveUpEffect ==
    ASSUME WellFormed, NEW r \in Requests, GiveUp(r)
    PROVE  Turned(r, "respond", request[r].route, request[r].value)
<1>0. request \in [Requests -> RequestStates] /\ request[r] \in RequestStates /\ Shape(request[r])
  BY Fields
<1> HIDE DurationAssumption, NoneAssumption
<1> QED BY <1>0 DEF GiveUp, Becomes, Turned, Moved, RequestStates, Goto

\* An owner that finds a value releases the lock.
LEMMA OwnerHitEffect ==
    ASSUME WellFormed, NEW r \in Requests, OwnerHit(r)
    PROVE  Turned(r, "release", request[r].route, l2.value)
<1>0. request \in [Requests -> RequestStates] /\ request[r] \in RequestStates /\ Shape(request[r])
  BY Fields
<1> HIDE DurationAssumption, NoneAssumption
<1> QED BY <1>0 DEF OwnerHit, Becomes, Turned, Moved, RequestStates

\* One that does not calls the backend.
LEMMA OwnerMissEffect ==
    ASSUME WellFormed, NEW r \in Requests, OwnerMiss(r)
    PROVE  Turned(r, "record", IF l2 = None THEN "lock" ELSE "blind", request[r].value)
<1>0. request \in [Requests -> RequestStates] /\ request[r] \in RequestStates /\ Shape(request[r])
  BY Fields
<1> HIDE DurationAssumption, NoneAssumption
<1> QED BY <1>0 DEF OwnerMiss, Becomes, Turned, Moved, RequestStates

\* After the release comes the answer, unless there was a panic.
LEMMA ReleaseEffect ==
    ASSUME WellFormed, NEW r \in Requests, Release(r)
    PROVE  \/ request[r].route = "panic" /\ Ended(r)
           \/ request[r].route # "panic" /\ Turned(r, "respond", request[r].route, request[r].value)
<1>0. request \in [Requests -> RequestStates] /\ request[r] \in RequestStates /\ Shape(request[r])
  BY Fields
<1> HIDE DurationAssumption, NoneAssumption
<1> QED BY <1>0 DEF Release, Becomes, Turned, Moved, RequestStates, Ended, Done

\* Only a new marker counts the call.
LEMMA RecordEffect ==
    ASSUME WellFormed, NEW r \in Requests, Record(r)
    PROVE  \/ /\ marker = 0 /\ marker' = MarkerTTL(request[r].timeout)
              /\ Moved(r, "start", request[r].route, request[r].value, request[r].timer, TRUE)
           \/ marker' = marker /\ Turned(r, "start", request[r].route, request[r].value)
<1>0. request \in [Requests -> RequestStates] /\ request[r] \in RequestStates /\ Shape(request[r])
  BY Fields
<1> HIDE DurationAssumption, NoneAssumption
<1>1. CASE /\ marker = 0 /\ marker' = MarkerTTL(request[r].timeout)
           /\ Becomes(r, [request[r] EXCEPT !.pc = "start", !.counted = TRUE])
  <2>1. request'[r] = [request[r] EXCEPT !.pc = "start", !.counted = TRUE]
    BY <1>0, <1>1 DEF Becomes
  <2>2. Moved(r, "start", request[r].route, request[r].value, request[r].timer, TRUE)
    BY <1>0, <2>1 DEF Moved, RequestStates
  <2> QED BY <1>1, <2>2
<1>2. CASE Goto(r, "start") /\ marker' = marker
  <2>1. request'[r] = [request[r] EXCEPT !.pc = "start"]
    BY <1>0, <1>2 DEF Goto, Becomes
  <2>2. Turned(r, "start", request[r].route, request[r].value)
    BY <1>0, <2>1 DEF Turned, Moved, RequestStates
  <2> QED BY <1>2, <2>2
<1> QED BY <1>1, <1>2 DEF Record

\* The call starts with the whole timeout.
LEMMA StartEffect ==
    ASSUME WellFormed, NEW r \in Requests, Start(r)
    PROVE  Moved(r, "call", request[r].route, request[r].value, request[r].timeout, request[r].counted)
<1>0. request \in [Requests -> RequestStates] /\ request[r] \in RequestStates /\ Shape(request[r])
  BY Fields
<1> HIDE DurationAssumption, NoneAssumption
<1> QED BY <1>0 DEF Start, Becomes, Turned, Moved, RequestStates

\* An answer of the backend is a fresh value.
LEMMA BackendAnswersEffect ==
    ASSUME WellFormed, NEW r \in Requests, BackendAnswers(r)
    PROVE  \/ request[r].route = "plain" /\ Moved(r, "respond", "plain", request[r].ttlL2, 0, FALSE)
           \/ request[r].route # "plain" /\ Moved(r, "setL2", request[r].route, request[r].ttlL2, 0, FALSE)
<1>0. request \in [Requests -> RequestStates] /\ request[r] \in RequestStates /\ Shape(request[r])
  BY Fields
<1> HIDE DurationAssumption, NoneAssumption
<1> QED BY <1>0 DEF BackendAnswers, Becomes, Turned, Moved, RequestStates, Returns

\* A call that fails leaves an early refresh with what it had.
LEMMA CallFailsEffect ==
    ASSUME WellFormed, NEW r \in Requests, CallFails(r)
    PROVE  \/ request[r].route = "early" /\ Moved(r, "respond", "hit", request[r].value, 0, FALSE)
           \/ request[r].route = "plain" /\ Moved(r, "respond", "plain", request[r].value, 0, FALSE)
           \/ /\ request[r].route \notin {"early", "plain"}
              /\ Moved(r, "release", request[r].route, request[r].value, 0, FALSE)
<1>0. request \in [Requests -> RequestStates] /\ request[r] \in RequestStates /\ Shape(request[r])
  BY Fields
<1> HIDE DurationAssumption, NoneAssumption
<1>1. CASE request[r].route = "early"
  <2>1. request'[r] = [Returns(r, "respond") EXCEPT !.route = "hit"]
    BY <1>0, <1>1 DEF CallFails, Becomes
  <2>2. Moved(r, "respond", "hit", request[r].value, 0, FALSE)
    BY <1>0, <2>1 DEF Returns, Moved, RequestStates
  <2> QED BY <1>1, <2>2
<1>2. CASE request[r].route # "early"
  <2>1. request'[r] = Returns(r, IF request[r].route = "plain" THEN "respond" ELSE "release")
    BY <1>0, <1>2 DEF CallFails, Becomes
  <2>2. Moved(r, IF request[r].route = "plain" THEN "respond" ELSE "release", request[r].route,
              request[r].value, 0, FALSE)
    BY <1>0, <2>1 DEF Returns, Moved, RequestStates
  <2> QED BY <1>2, <2>2
<1> QED BY <1>1, <1>2

\* A panic runs what is deferred.
LEMMA BackendPanicsEffect ==
    ASSUME WellFormed, NEW r \in Requests, BackendPanics(r)
    PROVE  \/ /\ request[r].route \in {"lock", "blind"}
              /\ Moved(r, "release", "panic", request[r].value, 0, FALSE)
           \/ /\ request[r].route \notin {"lock", "blind"}
              /\ \/ Leads(r) /\ Moved(r, "finish", request[r].route, request[r].value, 0, FALSE)
                 \/ ~Leads(r) /\ request'[r] = Idle
<1>0. request \in [Requests -> RequestStates] /\ request[r] \in RequestStates /\ Shape(request[r])
  BY Fields
<1> HIDE DurationAssumption, NoneAssumption
<1> QED BY <1>0 DEF BackendPanics, Becomes, Turned, Moved, RequestStates, Returns

\* Either way the call is over.
LEMMA PanicEnds ==
    ASSUME WellFormed, NEW r \in Requests, BackendPanics(r)
    PROVE  request'[r].pc \in {"release", "finish", "idle"}
<1>1. \/ Moved(r, "release", "panic", request[r].value, 0, FALSE)
      \/ Moved(r, "finish", request[r].route, request[r].value, 0, FALSE)
      \/ request'[r] = Idle
  BY BackendPanicsEffect
<1> QED BY <1>1 DEF Moved, Idle

\* After the SET comes the release, the answer or the end.
LEMMA SetL2Effect ==
    ASSUME WellFormed, NEW r \in Requests, SetL2(r)
    PROVE  \/ request[r].route \in {"lock", "blind"} /\ Turned(r, "release", request[r].route, request[r].value)
           \/ request[r].route = "early" /\ Turned(r, "respond", "hit", request[r].value)
           \/ request[r].route = "plain" /\ Ended(r)
<1>0. request \in [Requests -> RequestStates] /\ request[r] \in RequestStates /\ Shape(request[r])
  BY Fields
<1> HIDE DurationAssumption, NoneAssumption
<1> QED BY <1>0 DEF SetL2, Becomes, Turned, Moved, RequestStates, Ended, Done, Shape, Calls, At

---------------------------------------------------------------------------
(* Led                                                                     *)

\* A request that goes on agrees with the registered calls if it remains one
\* that fetches, and starts to fetch only without SingleFlight.
LEMMA LedMove ==
    ASSUME WellFormed, Led, NEW r \in Requests, Alone(r), inFlight' = inFlight,
           request'[r].on = request[r].on, request'[r].singleFlight = request[r].singleFlight,
           request[r].route \in Fetches => request'[r].route \in Fetches,
           request'[r].route \in Fetches => request[r].route \in Fetches \/ ~request[r].singleFlight,
           request'[r].pc = "finish" => Leads(r),
           request'[r].pc = "follow" => inFlight[request[r].on] # None
    PROVE  Led'
<1>1. \A g \in Gateways : inFlight[g] \in Requests \cup {None}
  BY DEF WellFormed, TypeOK
<1> QED BY <1>1 DEF Led, Leads, At, Alone

\* So does a request that ends.
LEMMA LedIdle ==
    ASSUME WellFormed, Led, NEW r \in Requests, Alone(r), inFlight' = inFlight,
           ~Leads(r), request'[r] = Idle
    PROVE  Led'
<1>1. \A g \in Gateways : inFlight[g] \in (Requests \ {r}) \cup {None}
  BY DEF WellFormed, TypeOK, Led, Leads
<1> QED BY <1>1 DEF Led, Leads, At, Alone, Idle

\* In particular one whose handler returns.
LEMMA LedEnd ==
    ASSUME WellFormed, Led, NEW r \in Requests, Alone(r), inFlight' = inFlight, Ended(r)
    PROVE  Led'
  BY LedMove, LedIdle DEF Ended, Turned, Moved

\* The steps that register and publish no call.
LEMMA StepLed ==
    ASSUME WellFormed, Led, NEW r \in Requests, Step(r) \/ Disturbance(r), ~Finish(r), ~Join(r)
    PROVE  Led'
<1> USE DEF Turned, Moved, Fetches, At
<1>0. Alone(r) /\ Shape(request[r])
  BY StepsAlone, Fields
<1>1. CASE GetL2Hit(r)
  BY <1>0, <1>1, GetL2HitEffect, LedMove DEF GetL2Hit, Shape
<1>2. CASE EarlyRefresh(r)
  BY <1>0, <1>2, EarlyRefreshEffect, LedMove DEF EarlyRefresh, Shape
<1>3. CASE GetL2Miss(r)
  BY <1>0, <1>3, GetL2MissEffect, LedMove DEF GetL2Miss, Shape
<1>4. CASE Respond(r)
  BY <1>0, <1>4, RespondEffect, LedMove, LedEnd DEF Respond, Shape
<1>6. CASE Cancel(r)
  BY <1>0, <1>6, CancelEffect, LedMove DEF Cancel, Shape
<1>7. CASE Acquire(r)
  BY <1>0, <1>7, AcquireEffect, LedMove DEF Acquire
<1>8. CASE WaiterHit(r)
  BY <1>0, <1>8, WaiterHitEffect, LedMove DEF WaiterHit
<1>9. CASE GiveUp(r)
  BY <1>0, <1>9, GiveUpEffect, LedMove DEF GiveUp
<1>10. CASE OwnerHit(r)
  BY <1>0, <1>10, OwnerHitEffect, LedMove DEF OwnerHit
<1>11. CASE OwnerMiss(r)
  BY <1>0, <1>11, OwnerMissEffect, LedMove DEF OwnerMiss, Shape
<1>12. CASE Release(r)
  BY <1>0, <1>12, ReleaseEffect, LedMove, LedEnd DEF Release
<1>13. CASE Record(r)
  BY <1>0, <1>13, RecordEffect, LedMove DEF Record
<1>14. CASE Start(r)
  BY <1>0, <1>14, StartEffect, LedMove DEF Start
<1>15. CASE BackendAnswers(r)
  BY <1>0, <1>15, BackendAnswersEffect, LedMove DEF BackendAnswers
<1>16. CASE BackendFails(r) \/ BackendTimesOut(r)
  <2>1. CallFails(r) /\ inFlight' = inFlight
    BY <1>16 DEF BackendFails, BackendTimesOut
  <2> QED BY <1>0, <2>1, CallFailsEffect, LedMove
<1>17. CASE BackendPanics(r)
  BY <1>0, <1>17, BackendPanicsEffect, LedMove, LedIdle DEF BackendPanics
<1>18. CASE SetL2(r)
  BY <1>0, <1>18, SetL2Effect, LedMove, LedEnd DEF SetL2
<1> QED BY <1>1, <1>2, <1>3, <1>4, <1>6, <1>7, <1>8, <1>9, <1>10, <1>11, <1>12, <1>13, <1>14,
           <1>15, <1>16, <1>17, <1>18 DEF Step, Disturbance

\* A call is registered only where there is none.
LEMMA JoinLed == ASSUME WellFormed, Led, NEW r \in Requests, Join(r) PROVE Led'
<1>0. /\ Alone(r) /\ request[r].pc = "join" /\ request[r].route = "none" /\ request[r].on \in Gateways
      /\ inFlight \in [Gateways -> Requests \cup {None}]
  <2>1. Alone(r) \/ Finish(r)
    BY StepsAlone DEF Step
  <2> QED BY <2>1, Fields DEF Join, Finish, At, Shape, WellFormed, TypeOK
<1>1. CASE inFlight[request[r].on] # None
  BY <1>0, <1>1, JoinEffect, LedMove DEF Turned, Moved, Fetches
<1>2. CASE inFlight[request[r].on] = None
  <2>1. /\ inFlight' = [inFlight EXCEPT ![request[r].on] = r]
        /\ request'[r].on = request[r].on /\ request'[r].pc \notin {"finish", "follow"}
        /\ request'[r].route \in Fetches
    BY <1>2, JoinEffect DEF Turned, Moved, Fetches
  <2> QED BY <1>0, <1>2, <2>1, NoneAssumption DEF Led, Leads, At, Alone
<1> QED BY <1>1, <1>2

\* It leaves the map together with its leader, when no follower is left.
LEMMA FinishLed == ASSUME WellFormed, Led, NEW r \in Requests, Finish(r) PROVE Led'
<1> DEFINE g == request[r].on
<1>1. /\ At(r, "finish") /\ inFlight[g] = r /\ g \in Gateways
      /\ inFlight \in [Gateways -> Requests \cup {None}]
      /\ inFlight' = [inFlight EXCEPT ![g] = None]
  BY Fields DEF Finish, Led, Leads, At, Shape, WellFormed, TypeOK
<1>2. ASSUME NEW q \in Requests
      PROVE  /\ q = r => request'[q] = Idle
             /\ q # r /\ ~(At(q, "follow") /\ request[q].on = g) => request'[q] = request[q]
             /\ q # r /\ At(q, "follow") /\ request[q].on = g =>
                   /\ request[q].route = "none"
                   /\ request'[q].pc = "respond" /\ request'[q].route = "follow"
                   /\ request'[q].on = g
  <2>1. request[q] \in RequestStates /\ Shape(request[q])
    BY Fields
  <2> QED BY <2>1 DEF Finish, RequestStates, Shape, At
<1> HIDE DEF g
<1>3. \A h \in Gateways : inFlight'[h] # None =>
          request'[inFlight'[h]].on = h /\ request'[inFlight'[h]].route \in Fetches
  <2> SUFFICES ASSUME NEW h \in Gateways, inFlight'[h] # None
               PROVE  request'[inFlight'[h]].on = h /\ request'[inFlight'[h]].route \in Fetches
    OBVIOUS
  <2>1. h # g /\ inFlight'[h] = inFlight[h] /\ inFlight[h] \in Requests
    BY <1>1
  <2>2. request[inFlight[h]].on = h /\ request[inFlight[h]].route \in Fetches
    BY <2>1 DEF Led
  <2>3. inFlight[h] # r
    BY <2>1, <2>2 DEF g
  <2> QED BY <1>2, <2>1, <2>2, <2>3
<1>4. \A q \in Requests :
          /\ (request'[q].singleFlight /\ request'[q].route \in Fetches) \/ request'[q].pc = "finish" =>
                inFlight'[request'[q].on] = q
          /\ request'[q].pc = "follow" => inFlight'[request'[q].on] # None
  <2> SUFFICES ASSUME NEW q \in Requests
               PROVE  /\ (request'[q].singleFlight /\ request'[q].route \in Fetches) \/ request'[q].pc = "finish" =>
                            inFlight'[request'[q].on] = q
                      /\ request'[q].pc = "follow" => inFlight'[request'[q].on] # None
    OBVIOUS
  <2>1. CASE q = r
    BY <1>2, <2>1 DEF Idle, Fetches
  <2>2. CASE q # r /\ At(q, "follow") /\ request[q].on = g
    BY <1>2, <2>2 DEF Fetches
  <2>3. CASE q # r /\ ~(At(q, "follow") /\ request[q].on = g)
    <3>1. request'[q] = request[q]
      BY <1>2, <2>3
    <3>2. Leads(q) => request[q].on # g
      BY <1>1, <2>3 DEF Leads
    <3>3. request[q].on \in Gateways \/ request[q].pc = "idle"
      BY Fields DEF Shape
    <3>4. request[q].pc = "idle" => request[q].route = "none"
      BY Fields DEF Shape
    <3> QED BY <1>1, <2>3, <3>1, <3>2, <3>3, <3>4 DEF Led, Leads, At, Fetches
  <2> QED BY <2>1, <2>2, <2>3
<1> QED BY <1>3, <1>4 DEF Led, Leads, At

\* A restart takes the calls of a gateway and all its requests.
LEMMA RestartLed == ASSUME WellFormed, Led, NEW g \in Gateways, Restart(g) PROVE Led'
<1>1. /\ inFlight \in [Gateways -> Requests \cup {None}]
      /\ inFlight' = [inFlight EXCEPT ![g] = None]
      /\ \A q \in Requests : request'[q] = IF request[q].on = g THEN Idle ELSE request[q]
  BY DEF Restart, WellFormed, TypeOK
<1>2. \A q \in Requests : /\ request[q].on \in Gateways \/ request[q].pc = "idle"
                          /\ request[q].pc = "idle" => request[q].route = "none"
  BY Fields DEF Shape
<1> QED BY <1>1, <1>2 DEF Led, Leads, At, Idle, Fetches

\* Only clocks change when time passes.
LEMMA TickKeeps ==
    ASSUME WellFormed, Tick, NEW r \in Requests
    PROVE  LET p == request[r]
               q == request'[r] IN
           /\ q.pc = p.pc /\ q.on = p.on /\ q.route = p.route
           /\ q.singleFlight = p.singleFlight /\ q.counted = p.counted /\ q.ttlL2 = p.ttlL2 /\ q.timeout = p.timeout
           /\ q.timer = Down(p.timer) /\ q.value = Later(p.value)
           /\ q.stall = IF p.pc \in Busy THEN p.stall + 1 ELSE p.stall
<1>1. request'[r] = Aged(request[r]) /\ request[r] \in RequestStates
  BY TickMeaning, Fields
<1> HIDE DurationAssumption, NoneAssumption
<1> QED BY <1>1 DEF Aged, WithClocks, RequestStates

\* Time registers and withdraws no call.
LEMMA TickLed == ASSUME WellFormed, Led, Tick PROVE Led'
<1>1. inFlight' = inFlight /\ inFlight \in [Gateways -> Requests \cup {None}]
  BY TickMeaning DEF WellFormed, TypeOK
<1>2. \A r \in Requests :
          /\ request'[r].pc = request[r].pc /\ request'[r].on = request[r].on
          /\ request'[r].route = request[r].route
          /\ request'[r].singleFlight = request[r].singleFlight
  BY TickKeeps
<1> QED BY <1>1, <1>2 DEF Led, Leads, At

\* A request that arrives leads nobody yet.
LEMMA ArriveLed ==
    ASSUME WellFormed, Led, NEW r \in Requests, NEW g \in Gateways, NEW c \in Configs, NEW f \in Factors,
           Arrive(r, g, c, f)
    PROVE  Led'
<1>1. /\ Alone(r) /\ inFlight' = inFlight /\ request'[r].route \notin Fetches
      /\ request'[r].pc \in {"getL2", "respond"}
  BY Fields DEF Arrive, Becomes, Alone, Idle, Fetches
<1>2. \A h \in Gateways : inFlight[h] \in (Requests \ {r}) \cup {None}
  BY Fields DEF Arrive, At, Shape, WellFormed, TypeOK, Led, Fetches
<1> QED BY <1>1, <1>2 DEF Led, Leads, At, Alone

\* A value in a cache is nothing to the calls.
LEMMA DropLed == ASSUME Led, DropL2 \/ \E g \in Gateways : DropL1(g) PROVE Led'
  BY DEF Led, Leads, At, DropL1, DropL2

\* Leaders and registered calls belong together, as long as the gateway runs.
THEOREM PipelineLed == Spec => [](WellFormed /\ Led)
<1>1. Init => Led
  BY DEF Init, Led, Leads, At, Idle, Fetches
<1>2. WellFormed /\ Led /\ [Next]_vars => Led'
  <2> SUFFICES ASSUME WellFormed, Led, [Next]_vars PROVE Led'
    OBVIOUS
  <2>1. CASE UNCHANGED vars
    BY <2>1 DEF vars, Led, Leads, At
  <2> QED BY <2>1, ArriveLed, StepLed, JoinLed, FinishLed, RestartLed, TickLed, DropLed DEF Next
<1> QED BY <1>1, <1>2, PipelineWellFormed, PTL DEF Spec

\* FollowersHaveLeader, for any number of requests and gateways: no way in
\* which a call, a client or a gateway can end leaves a follower behind.
THEOREM FollowersAreLed == Spec => []FollowersHaveLeader
<1>1. WellFormed /\ Led => FollowersHaveLeader
  <2> SUFFICES ASSUME WellFormed, Led, NEW r \in Requests, At(r, "follow")
               PROVE  \E q \in Requests :
                         /\ inFlight[request[r].on] = q
                         /\ request[q].on = request[r].on
                         /\ request[q].pc \notin {"idle", "follow", "getL2", "join"}
    BY DEF FollowersHaveLeader
  <2> DEFINE q == inFlight[request[r].on]
  <2>1. request[r].on \in Gateways
    BY Fields DEF At, Shape
  <2>2. q \in Requests
    BY <2>1 DEF Led, WellFormed, TypeOK
  <2>3. request[q].on = request[r].on /\ request[q].route \in Fetches
    BY <2>1, <2>2 DEF Led
  <2>4. Shape(request[q])
    BY <2>2, Fields
  <2> QED BY <2>2, <2>3, <2>4 DEF Shape, Fetches
<1> QED BY <1>1, PipelineLed, PTL

---------------------------------------------------------------------------
(* OnTime                                                                  *)

\* The durations, as the provers like them.
LEMMA Durations ==
    /\ MaxTimeout \in Int /\ MaxTimeout >= 1 /\ MaxStall \in Int /\ MaxStall >= 0
    /\ SafetyMargin \in Int /\ MaxStall < SafetyMargin
    /\ MarkerMargin \in Int /\ MaxStall < MarkerMargin
    /\ \A t \in Int : LockTTL(t) = t + SafetyMargin /\ MarkerTTL(t) = t + MarkerMargin
  BY DEF LockTTL, MarkerTTL

\* The numbers that a request carries, and those of a value in L2.
LEMMA Clocks ==
    ASSUME WellFormed, NEW r \in Requests
    PROVE  /\ request[r].value # None => request[r].value \in Int
           /\ request[r].stall \in Int /\ 0 <= request[r].stall /\ request[r].stall <= MaxStall
           /\ request[r].timer \in Int /\ 0 <= request[r].timer /\ request[r].timer <= MaxTimeout
           /\ request[r].timeout \in Int /\ 0 <= request[r].timeout /\ request[r].timeout <= MaxTimeout
           /\ request[r].ttlL2 \in Int
           /\ request[r].pc # "idle" => request[r].ttlL2 >= 1
<1>1. request[r] \in RequestStates /\ Shape(request[r])
  BY Fields
<1>2. Values \subseteq Int
  BY Numbers
<1>3. request[r].value # None => request[r].value \in Int
  BY <1>1, <1>2 DEF RequestStates
<1>4. /\ request[r].stall \in 0..MaxStall /\ request[r].timer \in 0..MaxTimeout
      /\ request[r].timeout \in 0..MaxTimeout /\ request[r].ttlL2 \in 0..MaxTTL
  BY <1>1 DEF RequestStates
<1>5. request[r].pc # "idle" => request[r].ttlL2 >= 1
  BY <1>1 DEF Shape
<1> QED BY <1>3, <1>4, <1>5

\* The lifetimes of what L2 has are numbers.
LEMMA StoreClocks ==
    ASSUME WellFormed, l2 # None
    PROVE  l2.value \in Values /\ l2.value \in Int /\ l2.ttl \in Int /\ 1 <= l2.ttl
<1>1. l2 \in [value : Values, ttl : 1..MaxTTL, locked : BOOLEAN]
  BY DEF WellFormed, TypeOK
<1>2. l2.value \in Values /\ l2.ttl \in 1..MaxTTL
  BY <1>1, Zenon
<1>3. l2.value \in Int
  BY <1>2, Numbers
<1> QED BY <1>2, <1>3

\* A step of one request.
LEMMA OnTimeStep ==
    ASSUME OnTime, NEW r \in Requests, Alone(r), StorePunctual', Punctual(request'[r])
    PROVE  OnTime'
  BY DEF OnTime, Alone

\* No step delays a value by itself.
LEMMA StepOnTime ==
    ASSUME WellFormed, OnTime, NEW r \in Requests, Step(r) \/ Disturbance(r), ~Finish(r)
    PROVE  OnTime'
<1> USE DEF Turned, Moved, Fetches, At, Punctual, StorePunctual
<1>0. /\ Alone(r) /\ Shape(request[r]) /\ Punctual(request[r])
      /\ request[r].value # None => request[r].value \in Int
      /\ request[r].stall \in Int /\ 0 <= request[r].stall /\ request[r].stall <= MaxStall
      /\ request[r].timer \in Int /\ 0 <= request[r].timer /\ request[r].timer <= MaxTimeout
      /\ request[r].timeout \in Int /\ 0 <= request[r].timeout /\ request[r].timeout <= MaxTimeout
      /\ request[r].ttlL2 \in Int
      /\ request[r].pc # "idle" => request[r].ttlL2 >= 1
  BY StepsAlone, Fields, Clocks DEF OnTime
<1>19. l2 # None => l2.value \in Int /\ l2.value >= 1 - MaxStall
  BY StoreClocks, Durations DEF OnTime
<1> HIDE DurationAssumption, NoneAssumption
<1> USE Durations
<1>20. Ended(r) /\ request[r].pc \in {"respond", "release", "setL2"} => Punctual(request'[r])
  BY <1>0 DEF Ended, Idle, Shape, Calls
<1>1. CASE GetL2Hit(r)
  <2>1. Turned(r, "respond", "hit", l2.value)
    BY <1>1, GetL2HitEffect
  <2>2. Punctual(request'[r])
    BY <1>0, <1>19, <1>1, <2>1 DEF GetL2Hit
  <2>3. l2' = l2
    BY <1>1 DEF GetL2Hit
  <2> QED BY <1>0, <2>2, <2>3, OnTimeStep DEF OnTime
<1>2. CASE EarlyRefresh(r)
  <2>1. Turned(r, "record", "early", l2.value)
    BY <1>2, EarlyRefreshEffect
  <2>2. Punctual(request'[r])
    BY <1>0, <1>19, <1>2, <2>1 DEF EarlyRefresh
  <2>3. l2' = l2
    BY <1>2 DEF EarlyRefresh
  <2> QED BY <1>0, <2>2, <2>3, OnTimeStep DEF OnTime
<1>3. CASE GetL2Miss(r)
  <2>1. l2' = l2 /\ Punctual(request'[r])
    BY <1>0, <1>3, GetL2MissEffect DEF GetL2Miss, Shape
  <2> QED BY <1>0, <2>1, OnTimeStep DEF OnTime
<1>4. CASE Respond(r)
  <2>1. \/ request[r].route # "plain" /\ Ended(r)
        \/ request[r].route = "plain" /\ request[r].value = None /\ Ended(r)
        \/ /\ request[r].route = "plain" /\ request[r].value # None
           /\ Turned(r, "setL2", "plain", request[r].ttlL2)
    BY <1>4, RespondEffect
  <2>2. Punctual(request'[r])
    BY <1>0, <1>20, <1>4, <2>1 DEF Respond
  <2>3. l2' = l2
    BY <1>4 DEF Respond
  <2> QED BY <1>0, <2>2, <2>3, OnTimeStep DEF OnTime
<1>5. CASE Join(r)
  <2>1. l2' = l2 /\ Punctual(request'[r])
    BY <1>0, <1>5, JoinEffect DEF Join, Shape
  <2> QED BY <1>0, <2>1, OnTimeStep DEF OnTime
<1>6. CASE Cancel(r)
  <2>1. l2' = l2 /\ Punctual(request'[r])
    BY <1>0, <1>6, CancelEffect DEF Cancel, Shape
  <2> QED BY <1>0, <2>1, OnTimeStep DEF OnTime
<1>7. CASE Acquire(r)
  <2>1. l2' = l2 /\ Punctual(request'[r])
    BY <1>0, <1>7, AcquireEffect DEF Acquire, Shape
  <2> QED BY <1>0, <2>1, OnTimeStep DEF OnTime
<1>8. CASE WaiterHit(r)
  <2>1. Turned(r, "respond", request[r].route, l2.value)
    BY <1>8, WaiterHitEffect
  <2>2. Punctual(request'[r])
    BY <1>0, <1>19, <1>8, <2>1 DEF WaiterHit, Shape
  <2>3. l2' = l2
    BY <1>8 DEF WaiterHit
  <2> QED BY <1>0, <2>2, <2>3, OnTimeStep DEF OnTime
<1>9. CASE GiveUp(r)
  <2>1. l2' = l2 /\ Punctual(request'[r])
    BY <1>0, <1>9, GiveUpEffect DEF GiveUp, Shape
  <2> QED BY <1>0, <2>1, OnTimeStep DEF OnTime
<1>10. CASE OwnerHit(r)
  <2>1. Turned(r, "release", request[r].route, l2.value)
    BY <1>10, OwnerHitEffect
  <2>2. Punctual(request'[r])
    BY <1>0, <1>19, <1>10, <2>1 DEF OwnerHit, Shape
  <2>3. l2' = l2
    BY <1>10 DEF OwnerHit
  <2> QED BY <1>0, <2>2, <2>3, OnTimeStep DEF OnTime
<1>11. CASE OwnerMiss(r)
  <2>1. l2' = l2 /\ Punctual(request'[r])
    BY <1>0, <1>11, OwnerMissEffect DEF OwnerMiss, Shape
  <2> QED BY <1>0, <2>1, OnTimeStep DEF OnTime
<1>12. CASE Release(r)
  <2>1. l2' = l2 /\ Punctual(request'[r])
    BY <1>0, <1>20, <1>12, ReleaseEffect DEF Release, Shape
  <2> QED BY <1>0, <2>1, OnTimeStep DEF OnTime
<1>13. CASE Record(r)
  <2>1. l2' = l2 /\ Punctual(request'[r])
    BY <1>0, <1>13, RecordEffect DEF Record, Shape, Calls
  <2> QED BY <1>0, <2>1, OnTimeStep DEF OnTime
<1>14. CASE Start(r)
  <2>1. Moved(r, "call", request[r].route, request[r].value, request[r].timeout, request[r].counted)
    BY <1>14, StartEffect
  <2>2. Punctual(request'[r])
    BY <1>0, <1>14, <2>1 DEF Start, Shape, Calls
  <2>3. l2' = l2
    BY <1>14 DEF Start
  <2> QED BY <1>0, <2>2, <2>3, OnTimeStep DEF OnTime
<1>15. CASE BackendAnswers(r)
  <2>1. \/ request[r].route = "plain" /\ Moved(r, "respond", "plain", request[r].ttlL2, 0, FALSE)
        \/ request[r].route # "plain" /\ Moved(r, "setL2", request[r].route, request[r].ttlL2, 0, FALSE)
    BY <1>15, BackendAnswersEffect
  <2>2. Punctual(request'[r])
    BY <1>0, <1>15, <2>1 DEF BackendAnswers, Shape, Calls
  <2>3. l2' = l2
    BY <1>15 DEF BackendAnswers
  <2> QED BY <1>0, <2>2, <2>3, OnTimeStep DEF OnTime
<1>16. CASE BackendFails(r) \/ BackendTimesOut(r)
  <2>1. CallFails(r) /\ l2' = l2 /\ request[r].pc = "call"
    BY <1>16 DEF BackendFails, BackendTimesOut
  <2>2. Punctual(request'[r])
    <3>1. \/ request[r].route = "early" /\ Moved(r, "respond", "hit", request[r].value, 0, FALSE)
          \/ request[r].route = "plain" /\ Moved(r, "respond", "plain", request[r].value, 0, FALSE)
          \/ /\ request[r].route \notin {"early", "plain"}
             /\ Moved(r, "release", request[r].route, request[r].value, 0, FALSE)
      BY <2>1, CallFailsEffect
    <3> QED BY <1>0, <2>1, <3>1 DEF Shape
  <2> QED BY <1>0, <2>1, <2>2, OnTimeStep DEF OnTime
<1>17. CASE BackendPanics(r)
  <2>1. \/ /\ request[r].route \in {"lock", "blind"}
           /\ Moved(r, "release", "panic", request[r].value, 0, FALSE)
        \/ /\ request[r].route \notin {"lock", "blind"}
           /\ \/ Leads(r) /\ Moved(r, "finish", request[r].route, request[r].value, 0, FALSE)
              \/ ~Leads(r) /\ request'[r] = Idle
    BY <1>17, BackendPanicsEffect
  <2>2. Punctual(request'[r])
    BY <1>0, <1>17, <2>1 DEF BackendPanics, Shape, Calls, Idle
  <2>3. l2' = l2
    BY <1>17 DEF BackendPanics
  <2> QED BY <1>0, <2>2, <2>3, OnTimeStep DEF OnTime
<1>18. CASE SetL2(r)
  <2>1. StorePunctual'
    BY <1>0, <1>18 DEF SetL2, OnTime, Shape
  <2>2. Punctual(request'[r])
    <3>1. \/ /\ request[r].route \in {"lock", "blind"}
             /\ Turned(r, "release", request[r].route, request[r].value)
          \/ request[r].route = "early" /\ Turned(r, "respond", "hit", request[r].value)
          \/ request[r].route = "plain" /\ Ended(r)
      BY <1>18, SetL2Effect
    <3> QED BY <1>0, <1>20, <1>18, <3>1 DEF SetL2
  <2> QED BY <1>0, <2>1, <2>2, OnTimeStep
<1> QED BY <1>1, <1>2, <1>3, <1>4, <1>5, <1>6, <1>7, <1>8, <1>9, <1>10, <1>11, <1>12, <1>13, <1>14,
           <1>15, <1>16, <1>17, <1>18 DEF Step, Disturbance

\* A follower is late by the stall of its leader, which fetched, and its own.
LEMMA FinishOnTime == ASSUME WellFormed, Led, OnTime, NEW r \in Requests, Finish(r) PROVE OnTime'
<1>1. /\ At(r, "finish") /\ request[r].route \in Fetches
      /\ request[r].value # None => request[r].value >= 1 - 2 * MaxStall
      /\ request[r].value # None => request[r].value \in Int
  <2>1. request[r].on \in Gateways /\ Leads(r) /\ At(r, "finish")
    BY Fields DEF Finish, Led, At, Shape
  <2>2. request[r].route \in Fetches
    BY <2>1, NoneAssumption DEF Led, Leads
  <2> QED BY <2>1, <2>2, Clocks DEF OnTime, Punctual, At
<1>2. ASSUME NEW q \in Requests PROVE Punctual(request'[q])
  <2>1. CASE q = r
    BY <2>1 DEF Finish, Idle, Punctual
  <2>2. CASE q # r /\ At(q, "follow") /\ request[q].on = request[r].on
    <3>1. /\ request'[q].pc = "respond" /\ request'[q].route = "follow"
          /\ request'[q].value = request[r].value /\ request'[q].stall = request[q].stall
      BY <2>2, Fields DEF Finish, RequestStates
    <3> QED BY <1>1, <3>1, Clocks DEF Punctual, Fetches
  <2>3. CASE q # r /\ ~(At(q, "follow") /\ request[q].on = request[r].on)
    BY <2>3 DEF Finish, OnTime
  <2> QED BY <2>1, <2>2, <2>3
<1> QED BY <1>2 DEF OnTime, StorePunctual, Finish

\* What L1 has is on time.
LEMMA ArriveOnTime ==
    ASSUME WellFormed, OnTime, NEW r \in Requests, NEW g \in Gateways, NEW c \in Configs,
           NEW f \in Factors, Arrive(r, g, c, f)
    PROVE  OnTime'
<1>1. /\ Alone(r) /\ l2' = l2 /\ request'[r].stall = 0
      /\ \/ request'[r].value = None
         \/ /\ request'[r].route = "hit" /\ request'[r].pc = "respond"
            /\ request'[r].value = l1[g] /\ l1[g] # None
  BY Fields DEF Arrive, Becomes, Alone, Idle
<1>2. l1[g] \in Nat \cup {None}
  BY DEF WellFormed, TypeOK
<1>3. Punctual(request'[r])
  BY <1>1, <1>2 DEF Punctual, Fetches
<1> QED BY <1>1, <1>3, OnTimeStep DEF OnTime, StorePunctual

\* Time makes a value later, and the stall or the call of its request longer.
LEMMA TickOnTime == ASSUME WellFormed, OnTime, Tick PROVE OnTime'
<1>1. StorePunctual'
  <2>1. CASE l2 = None \/ l2.ttl = 1
    BY <2>1, TickMeaning DEF StorePunctual
  <2>2. CASE ~(l2 = None \/ l2.ttl = 1)
    <3>1. l2 \in [value : Values, ttl : 1..MaxTTL, locked : BOOLEAN]
      BY <2>2 DEF WellFormed, TypeOK
    <3>2. l2'.value = Later(l2.value) /\ l2'.ttl = l2.ttl - 1
      BY <2>2, <3>1, TickMeaning
    <3>3. Later(l2.value) >= l2.value - 1 /\ Later(l2.value) \in Int
      BY <2>2, StoreClocks, LaterTyped, Numbers
    <3>4. l2.value >= l2.ttl - MaxStall /\ l2.value \in Int /\ l2.ttl \in Int
      BY <2>2, StoreClocks DEF OnTime, StorePunctual
    <3> HIDE DurationAssumption, NoneAssumption
    <3> QED BY <3>2, <3>3, <3>4, Durations DEF StorePunctual
  <2> QED BY <2>1, <2>2
<1>2. ASSUME NEW r \in Requests PROVE Punctual(request'[r])
  <2> DEFINE p == request[r]
             q == request'[r]
  <2>1. /\ q.pc = p.pc /\ q.route = p.route /\ q.ttlL2 = p.ttlL2 /\ q.timeout = p.timeout
        /\ q.timer = Down(p.timer) /\ q.value = Later(p.value)
        /\ q.stall = IF p.pc \in Busy THEN p.stall + 1 ELSE p.stall
        /\ p.pc = "call" => p.timer > 0
    BY TickKeeps, TickMeaning DEF At
  <2>2. /\ p.value # None => p.value \in Int
        /\ p.stall \in Int /\ p.timer \in Int /\ 0 <= p.timer /\ p.ttlL2 \in Int /\ p.timeout \in Int
    BY Clocks
  <2>3. p.value # None => q.value >= p.value - 1 /\ q.value \in Int
    <3>1. p.value \in Values \cup {None} /\ Values \subseteq Int
      BY Fields, Numbers DEF RequestStates
    <3>2. p.value # None => Later(p.value) \in Values /\ Later(p.value) >= p.value - 1
      BY <3>1, LaterTyped
    <3> QED BY <2>1, <3>1, <3>2
  <2>4. p.value = None => q.value = None
    BY <2>1 DEF Later
  <2>5. p.pc \in {"record", "start", "setL2", "release", "respond", "finish"} => q.stall = p.stall + 1
    BY <2>1 DEF Busy
  <2>6. p.pc = "call" => q.timer = p.timer - 1 /\ q.stall = p.stall
    BY <2>1, <2>2 DEF Down, Busy
  <2>7. p.route \in {"hit", "follow"} => p.pc \in Busy
    BY Fields DEF RequestStates, Shape, Calls
  <2>8. Punctual(p)
    BY DEF OnTime
  <2>9. p.pc \in Busy => q.stall = p.stall + 1
    BY <2>1
  <2> HIDE DurationAssumption, NoneAssumption
  <2> HIDE DEF p, q
  <2> QED BY Durations, <2>1, <2>2, <2>3, <2>4, <2>5, <2>6, <2>7, <2>8, <2>9 DEF Punctual, p, q
<1> QED BY <1>1, <1>2 DEF OnTime

\* A restart serves nothing.
LEMMA RestartOnTime == ASSUME OnTime, NEW g \in Gateways, Restart(g) PROVE OnTime'
<1>1. \A r \in Requests : request'[r] = Idle \/ request'[r] = request[r]
  BY DEF Restart
<1> QED BY <1>1 DEF OnTime, StorePunctual, Punctual, Restart, Idle

\* A value that goes is not late.
LEMMA DropOnTime == ASSUME OnTime, DropL2 \/ \E g \in Gateways : DropL1(g) PROVE OnTime'
  BY DEF OnTime, StorePunctual, DropL1, DropL2

\* Every value is as late as its own stall and the delays before it explain.
THEOREM PipelineOnTime == Spec => [](WellFormed /\ OnTime)
<1>1. Init => OnTime
  BY DEF Init, OnTime, StorePunctual, Punctual, Idle
<1>2. WellFormed /\ Led /\ OnTime /\ [Next]_vars => OnTime'
  <2> SUFFICES ASSUME WellFormed, Led, OnTime, [Next]_vars PROVE OnTime'
    OBVIOUS
  <2>1. CASE UNCHANGED vars
    BY <2>1 DEF vars, OnTime, StorePunctual
  <2> QED BY <2>1, ArriveOnTime, StepOnTime, FinishOnTime, RestartOnTime, TickOnTime, DropOnTime DEF Next
<1> QED BY <1>1, <1>2, PipelineLed, PTL DEF Spec

\* ServedOnTime, for any durations: the slowest way to a client, by a failed
\* early refresh or by a follower of a slow leader, stays within Lateness.
THEOREM NothingServedTooLate == Spec => []ServedOnTime
<1>1. WellFormed /\ OnTime => ServedOnTime
  <2> SUFFICES ASSUME WellFormed, OnTime, NEW r \in Requests, At(r, "respond"), request[r].value # None
               PROVE  request[r].value > -Lateness
    BY DEF ServedOnTime
  <2>1. /\ request[r].value \in Int /\ request[r].stall \in Int /\ request[r].stall <= MaxStall
        /\ Lateness \in Int /\ Lateness >= MaxTimeout + MaxStall /\ Lateness >= 3 * MaxStall
    BY Clocks, Numbers
  <2>2. \/ request[r].value >= 1 - request[r].stall - MaxStall
        \/ request[r].value >= 1 - request[r].stall - MaxTimeout
        \/ request[r].value >= 1 - request[r].stall - 2 * MaxStall
    BY Fields DEF OnTime, Punctual, Shape, At, Fetches
  <2> HIDE DurationAssumption, NoneAssumption
  <2> QED BY <2>1, <2>2, Durations
<1> QED BY <1>1, PipelineOnTime, PTL

---------------------------------------------------------------------------
(* Guarded                                                                 *)

\* The numbers of the lock and of the marker.
LEMMA RedisClocks ==
    ASSUME WellFormed
    PROVE  /\ lock # None => lock.owner \in Requests /\ lock.ttl \in Int /\ 1 <= lock.ttl
           /\ marker \in Int /\ 0 <= marker
<1>1. lock \in [owner : Requests, ttl : 1..LockTTL(MaxTimeout)] \cup {None} /\ marker \in 0..MarkerTTL(MaxTimeout)
  BY DEF WellFormed, TypeOK
<1> QED BY <1>1, Numbers

\* There is one owner of the lock at a time.
LEMMA OneOwner ==
    ASSUME Guarded, NEW r \in Requests, NEW q \in Requests, Owning(r), Owning(q)
    PROVE  r = q
  BY DEF Guarded, Holds

\* After a step of r, what it has in Redis lasts for what it does next.
LEMMA StepHolds ==
    ASSUME WellFormed, Guarded, NEW r \in Requests, Step(r) \/ Disturbance(r), ~Finish(r)
    PROVE  Holds(r)' /\ Counts(r)'
<1>0. WellFormed' /\ Shape(request[r]) /\ Shape(request[r])' /\ Holds(r) /\ Counts(r)
  <2>1. WellFormed'
    BY StepTyped
  <2> QED BY <2>1, Fields DEF Guarded, WellFormed
<1>1. /\ request[r].stall \in Int /\ 0 <= request[r].stall /\ request[r].stall <= MaxStall
      /\ request[r].timer \in Int /\ 0 <= request[r].timer /\ request[r].timer <= MaxTimeout
      /\ request[r].timeout \in Int /\ 0 <= request[r].timeout /\ request[r].timeout <= MaxTimeout
      /\ lock # None => lock.ttl \in Int
      /\ marker \in Int
  BY Clocks, RedisClocks
<1> HIDE DurationAssumption, NoneAssumption
<1> USE Durations DEF Holds, Counts, Owning, At, Calls
<1> DEFINE Quiet == /\ request'[r].pc \notin {"ownerL2", "start", "call"}
                    /\ request'[r].pc \in Calls => request'[r].route \notin {"lock", "blind"}
<1>2. Quiet => Holds(r)' /\ Counts(r)'
  BY <1>0 DEF Shape
<1>3. CASE GetL2Hit(r) \/ EarlyRefresh(r) \/ GetL2Miss(r) \/ Join(r)
  <2>1. Quiet
    BY <1>3, GetL2HitEffect, EarlyRefreshEffect, GetL2MissEffect, JoinEffect, Fields
       DEF Turned, Moved, GetL2Miss, Join, Shape
  <2> QED BY <1>2, <2>1
<1>4. CASE Respond(r) \/ Cancel(r) \/ WaiterHit(r) \/ GiveUp(r) \/ OwnerHit(r) \/ Release(r)
  <2>1. Quiet
    BY <1>4, RespondEffect, CancelEffect, WaiterHitEffect, GiveUpEffect, OwnerHitEffect, ReleaseEffect
       DEF Ended, Turned, Moved, Idle
  <2> QED BY <1>2, <2>1
<1>5. CASE BackendFails(r) \/ BackendTimesOut(r) \/ BackendPanics(r) \/ SetL2(r)
  <2>1. CallFails(r) => Quiet
    BY CallFailsEffect DEF Moved
  <2>2. BackendPanics(r) => Quiet
    BY PanicEnds
  <2>3. SetL2(r) => Quiet
    BY SetL2Effect DEF Ended, Turned, Moved, Idle
  <2> QED BY <1>2, <1>5, <2>1, <2>2, <2>3 DEF BackendFails, BackendTimesOut
<1>6. CASE Acquire(r)
  <2>1. /\ Turned(r, "ownerL2", request[r].route, request[r].value)
        /\ lock' = [owner |-> r, ttl |-> LockTTL(request[r].timeout)]
    BY <1>6, AcquireEffect DEF Acquire, Acquired
  <2>2. lock' # None
    <3>1. LockTTL(request[r].timeout) \in Nat
      BY <1>1
    <3> QED BY <2>1, <3>1, NoLockAssumption
  <2> QED BY <1>0, <1>1, <2>1, <2>2 DEF Turned, Moved, Shape
<1>7. CASE OwnerMiss(r)
  <2>1. /\ Turned(r, "record", IF l2 = None THEN "lock" ELSE "blind", request[r].value)
        /\ lock' = lock /\ request[r].pc = "ownerL2"
    BY <1>7, OwnerMissEffect DEF OwnerMiss
  <2> QED BY <1>0, <1>1, <2>1 DEF Turned, Moved, Shape
<1>8. CASE Record(r)
  <2>1. /\ lock' = lock /\ request[r].pc = "record"
        /\ \/ /\ marker' = MarkerTTL(request[r].timeout)
              /\ Moved(r, "start", request[r].route, request[r].value, request[r].timer, TRUE)
           \/ Turned(r, "start", request[r].route, request[r].value)
    BY <1>8, RecordEffect DEF Record
  <2> QED BY <1>0, <1>1, <2>1 DEF Turned, Moved, Shape
<1>9. CASE Start(r)
  <2>1. /\ Moved(r, "call", request[r].route, request[r].value, request[r].timeout, request[r].counted)
        /\ lock' = lock /\ marker' = marker /\ request[r].pc = "start"
    BY <1>9, StartEffect DEF Start
  <2> QED BY <1>0, <1>1, <2>1 DEF Moved
<1>10. CASE BackendAnswers(r)
  <2>1. /\ lock' = lock /\ request[r].pc = "call"
        /\ \/ request[r].route = "plain" /\ Moved(r, "respond", "plain", request[r].ttlL2, 0, FALSE)
           \/ request[r].route # "plain" /\ Moved(r, "setL2", request[r].route, request[r].ttlL2, 0, FALSE)
    BY <1>10, BackendAnswersEffect DEF BackendAnswers
  <2> QED BY <1>0, <1>1, <2>1 DEF Moved
<1> QED BY <1>3, <1>4, <1>5, <1>6, <1>7, <1>8, <1>9, <1>10 DEF Step, Disturbance

\* Nothing that another request has in Redis is lost by a step of r: the lock
\* is taken when it is free, and released by its owner only.
LEMMA StepSpares ==
    ASSUME WellFormed, Guarded, NEW r \in Requests, Step(r) \/ Disturbance(r), ~Finish(r),
           NEW q \in Requests \ {r}
    PROVE  Holds(q)' /\ Counts(q)' /\ (request[q].counted => ~request'[r].counted \/ request[r].counted)
<1>0. request'[q] = request[q] /\ Holds(q) /\ Counts(q)
  BY StepsAlone DEF Alone, Guarded
<1>1. Owning(q) => lock' = lock
  <2>1. CASE Acquire(r) \/ GiveUp(r)
    BY <1>0, <2>1 DEF Acquire, GiveUp, Holds
  <2>2. CASE Release(r)
    BY <1>0, <2>2 DEF Release, Holds
  <2>3. CASE ~(Acquire(r) \/ GiveUp(r) \/ Release(r))
    BY <2>3 DEF Step, Disturbance, GetL2Hit, EarlyRefresh, GetL2Miss, Join, WaiterHit, OwnerHit,
       OwnerMiss, Record, Start, BackendTimesOut, SetL2, Respond, BackendAnswers, BackendFails,
       BackendPanics, Cancel
  <2> QED BY <2>1, <2>2, <2>3
<1>2. request[q].counted =>
          marker' = marker /\ (~request'[r].counted \/ request[r].counted)
  <2>1. CASE Record(r)
    <3>1. request[q].counted => marker # 0
      <4>1. /\ request[q].stall \in Int /\ request[q].stall <= MaxStall
            /\ request[q].timer \in Int /\ 0 <= request[q].timer
            /\ request[q].timeout \in Int /\ 0 <= request[q].timeout
        BY Clocks
      <4>2. request[q].counted => request[q].pc \in {"start", "call"}
        BY Fields DEF Shape
      <4>3. marker \in Int
        BY RedisClocks
      <4> HIDE DurationAssumption, NoneAssumption
      <4> QED BY <1>0, <4>1, <4>2, <4>3, Durations DEF Counts, At
    <3> QED BY <2>1, <3>1, RecordEffect DEF Turned, Moved
  <2>2. CASE ~Record(r)
    <3>1. marker' = marker
      BY <2>2 DEF Step, Disturbance, GetL2Hit, EarlyRefresh, GetL2Miss, Join, Acquire, WaiterHit,
         GiveUp, OwnerHit, OwnerMiss, Release, Start, BackendTimesOut, SetL2, Respond,
         BackendAnswers, BackendFails, BackendPanics, Cancel
    <3>2. request'[r].counted => request'[r].pc \in {"start", "call"}
      BY StepTyped DEF WellFormed, Shape
    <3>3. Start(r) => request'[r].counted = request[r].counted
      BY StartEffect DEF Moved
    <3>4. ~Start(r) => request'[r].pc \notin {"start", "call"}
      <4>1. GetL2Hit(r) \/ EarlyRefresh(r) \/ GetL2Miss(r) \/ Join(r) => request'[r].pc \notin {"start", "call"}
        BY GetL2HitEffect, EarlyRefreshEffect, GetL2MissEffect, JoinEffect DEF Turned, Moved
      <4>2. Respond(r) \/ Cancel(r) \/ Acquire(r) \/ WaiterHit(r) \/ GiveUp(r) => request'[r].pc \notin {"start", "call"}
        BY RespondEffect, CancelEffect, AcquireEffect, WaiterHitEffect, GiveUpEffect
           DEF Ended, Turned, Moved, Idle
      <4>3. OwnerHit(r) \/ OwnerMiss(r) \/ Release(r) \/ SetL2(r) => request'[r].pc \notin {"start", "call"}
        BY OwnerHitEffect, OwnerMissEffect, ReleaseEffect, SetL2Effect DEF Ended, Turned, Moved, Idle
      <4>4. CallFails(r) \/ BackendPanics(r) \/ BackendAnswers(r) => request'[r].pc \notin {"start", "call"}
        BY CallFailsEffect, PanicEnds, BackendAnswersEffect DEF Moved
      <4> QED BY <2>2, <4>1, <4>2, <4>3, <4>4 DEF Step, Disturbance, BackendFails, BackendTimesOut
    <3> QED BY <3>1, <3>2, <3>3, <3>4
  <2> QED BY <2>1, <2>2
<1> QED BY <1>0, <1>1, <1>2 DEF Holds, Counts, Owning, At

\* So the steps of one request keep every guard.
LEMMA StepGuarded ==
    ASSUME WellFormed, Guarded, NEW r \in Requests, Step(r) \/ Disturbance(r), ~Finish(r)
    PROVE  Guarded'
<1>1. \A q \in Requests : Holds(q)' /\ Counts(q)'
  BY StepHolds, StepSpares
<1>2. \A q \in Requests \ {r} : request'[q] = request[q]
  BY StepsAlone DEF Alone
<1>3. \A q \in Requests \ {r} : request[q].counted => ~request'[r].counted \/ request[r].counted
  BY StepSpares
<1> QED BY <1>1, <1>2, <1>3 DEF Guarded

\* Who ends or goes on elsewhere needs nothing of Redis.
LEMMA OthersGuarded ==
    ASSUME WellFormed, Guarded, WellFormed', lock' = lock, marker' = marker,
           \A q \in Requests :
               \/ request'[q] = request[q]
               \/ request'[q].pc \in {"idle", "getL2", "respond"}
    PROVE  Guarded'
<1>1. \A q \in Requests : request'[q].counted => request'[q].pc \in {"start", "call"}
  BY DEF WellFormed, Shape
<1>2. ASSUME NEW q \in Requests PROVE Holds(q)' /\ Counts(q)'
  <2>1. CASE request'[q] = request[q]
    BY <2>1 DEF Guarded, Holds, Counts, Owning, At
  <2>2. CASE request'[q].pc \in {"idle", "getL2", "respond"}
    BY <1>1, <2>2 DEF Holds, Counts, Owning, At, Calls
  <2> QED BY <2>1, <2>2
<1>3. \A q \in Requests : request'[q].counted => request[q].counted
  BY <1>1
<1> QED BY <1>2, <1>3 DEF Guarded

\* The clocks in Redis run no faster than those of a request.
LEMMA TickGuarded == ASSUME WellFormed, Guarded, Tick PROVE Guarded'
<1>1. ASSUME NEW r \in Requests
      PROVE  Holds(r)' /\ Counts(r)' /\ request'[r].counted = request[r].counted
  <2> DEFINE p == request[r]
             q == request'[r]
  <2>1. /\ q.pc = p.pc /\ q.route = p.route /\ q.counted = p.counted /\ q.timeout = p.timeout
        /\ q.timer = Down(p.timer) /\ q.stall = IF p.pc \in Busy THEN p.stall + 1 ELSE p.stall
        /\ p.pc = "call" => p.timer > 0
        /\ p.pc \in Busy => p.stall < MaxStall
    BY TickKeeps, TickMeaning DEF At
  <2>2. /\ p.stall \in Int /\ 0 <= p.stall /\ p.stall <= MaxStall
        /\ p.timer \in Int /\ 0 <= p.timer /\ p.timeout \in Int /\ 0 <= p.timeout
        /\ lock # None => lock.ttl \in Int
        /\ marker \in Int
    BY Clocks, RedisClocks
  <2>3. p.pc \in {"ownerL2", "record", "start", "setL2"} => q.stall = p.stall + 1 /\ p.stall < MaxStall
    BY <2>1 DEF Busy
  <2>4. p.pc = "call" => q.timer = p.timer - 1 /\ q.stall = p.stall /\ p.timer > 0
    BY <2>1, <2>2 DEF Down, Busy
  <2>5. p.counted => p.pc \in {"start", "call"}
    BY Fields DEF Shape
  <2>6. Holds(r) /\ Counts(r)
    BY DEF Guarded
  <2>7. Counts(r)'
    <3>1. marker' >= marker - 1 /\ marker' \in Int
      BY <2>2, TickMeaning DEF Down
    <3> HIDE DurationAssumption, NoneAssumption
    <3> QED BY <2>1, <2>2, <2>3, <2>4, <2>5, <2>6, <3>1, Durations DEF Counts, At
  <2>8. Holds(r)'
    <3> SUFFICES ASSUME Owning(r)' PROVE Holds(r)'
      BY DEF Holds
    <3>1. Owning(r) /\ p.pc \in {"ownerL2", "record", "start", "call", "setL2"}
      BY <2>1 DEF Owning, At, Calls
    <3>2. lock # None /\ lock.ttl > 1
      <4> HIDE DurationAssumption, NoneAssumption
      <4> QED BY <2>2, <2>3, <2>4, <2>6, <3>1, Durations DEF Holds, At
    <3>3. lock' = [lock EXCEPT !.ttl = lock.ttl - 1] /\ lock \in [owner : Requests, ttl : 1..LockTTL(MaxTimeout)]
      BY <2>2, <3>2, TickMeaning DEF WellFormed, TypeOK
    <3>4. lock' # None /\ lock'.owner = lock.owner /\ lock'.ttl = lock.ttl - 1
      BY <3>2, <3>3, NoLockAssumption, Numbers
    <3> HIDE DurationAssumption, NoneAssumption
    <3> QED BY <2>1, <2>2, <2>3, <2>4, <2>6, <3>1, <3>4, Durations DEF Holds, At
  <2> QED BY <2>1, <2>7, <2>8
<1> QED BY <1>1 DEF Guarded

\* The lock and the marker outlast what they guard, whatever the length of the
\* call and wherever the stalls fall.
THEOREM PipelineGuarded == Spec => [](WellFormed /\ Guarded)
<1>1. Init => Guarded
  BY DEF Init, Guarded, Holds, Counts, Owning, At, Idle
<1>2. WellFormed /\ Guarded /\ [Next]_vars /\ WellFormed' => Guarded'
  <2> SUFFICES ASSUME WellFormed, Guarded, [Next]_vars, WellFormed' PROVE Guarded'
    OBVIOUS
  <2>1. ASSUME NEW r \in Requests, NEW g \in Gateways, NEW c \in Configs, NEW f \in Factors,
               Arrive(r, g, c, f)
        PROVE  Guarded'
    <3>1. /\ \A q \in Requests \ {r} : request'[q] = request[q]
          /\ request'[r].pc \in {"getL2", "respond"} /\ lock' = lock /\ marker' = marker
      BY <2>1, Fields DEF Arrive, Becomes, Idle
    <3> QED BY <3>1, OthersGuarded
  <2>2. ASSUME NEW r \in Requests, Finish(r) PROVE Guarded'
    <3>1. \A q \in Requests : request'[q] = request[q] \/ request'[q].pc \in {"idle", "respond"}
      BY <2>2, Fields DEF Finish, Idle, RequestStates
    <3> QED BY <2>2, <3>1, OthersGuarded DEF Finish
  <2>3. ASSUME NEW g \in Gateways, Restart(g) PROVE Guarded'
    <3>1. \A q \in Requests : request'[q] = request[q] \/ request'[q].pc = "idle"
      BY <2>3 DEF Restart, Idle
    <3> QED BY <2>3, <3>1, OthersGuarded DEF Restart
  <2>4. ASSUME UNCHANGED vars \/ DropL2 \/ \E g \in Gateways : DropL1(g) PROVE Guarded'
    BY <2>4, OthersGuarded DEF vars, DropL1, DropL2
  <2> QED BY <2>1, <2>2, <2>3, <2>4, StepGuarded, TickGuarded DEF Next
<1> QED BY <1>1, <1>2, PipelineWellFormed, PTL DEF Spec

\* CallsAreCoordinated, for any number of requests and gateways: the lock is
\* exclusive across gateways and SingleFlight on each of them, whichever
\* strategies they are mixed with.
THEOREM BackendCallsCoordinated == Spec => []CallsAreCoordinated
<1>1. WellFormed /\ Led /\ Guarded => CallsAreCoordinated
  <2> SUFFICES ASSUME WellFormed, Led, Guarded, NEW r \in Requests, NEW q \in Requests,
                      r # q, Calling(r), Calling(q)
               PROVE  /\ ~(request[r].route \in {"lock", "blind"} /\ request[q].route \in {"lock", "blind"})
                      /\ request[r].on = request[q].on /\ request[r].singleFlight /\ request[q].singleFlight =>
                            request[r].route = "early" \/ request[q].route = "early"
    BY DEF CallsAreCoordinated
  <2>1. ~(request[r].route \in {"lock", "blind"} /\ request[q].route \in {"lock", "blind"})
    BY OneOwner DEF Calling, Owning, Calls
  <2>2. ASSUME NEW s \in Requests, Calling(s), request[s].singleFlight, request[s].route # "early"
        PROVE  Leads(s)
    BY <2>2, Fields DEF Calling, Shape, Calls, Led, Fetches
  <2> QED BY <2>1, <2>2 DEF Leads
<1> QED BY <1>1, PipelineLed, PipelineGuarded, PTL

\* CountedCallsDisjoint, for any durations: a second call is counted only
\* after the marker of the first, which outlasts it, has expired.
THEOREM OneCountedCall == Spec => []CountedCallsDisjoint
<1>1. Guarded => CountedCallsDisjoint
  BY DEF Guarded, CountedCallsDisjoint
<1> QED BY <1>1, PipelineGuarded, PTL

\* LockAvoidsRefetch is kept by the steps of a request: only the owner of the
\* lock stores a value under it.
LEMMA StepAvoidsRefetch ==
    ASSUME WellFormed, Guarded, LockAvoidsRefetch, NEW r \in Requests, Step(r) \/ Disturbance(r), ~Finish(r)
    PROVE  LockAvoidsRefetch'
<1>0. \A q \in Requests \ {r} : request'[q] = request[q]
  BY StepsAlone DEF Alone
<1> DEFINE Refetches(q) == request[q].route = "lock" /\ request[q].pc \in {"record", "start", "call", "setL2"}
<1>1. CASE SetL2(r)
  <2>1. ~Refetches(r)'
    BY <1>1, SetL2Effect DEF Ended, Turned, Moved, Idle
  <2>2. ASSUME NEW q \in Requests \ {r}, Refetches(q)
        PROVE  l2' = l2 \/ ~l2'.locked
    <3>1. Owning(q)
      BY <2>2 DEF Owning, Calls
    <3>2. request[r].route \notin {"lock", "blind"}
      BY <1>1, <3>1, OneOwner DEF SetL2, At, Owning, Calls
    <3> DEFINE locked == request[r].route \in {"lock", "blind"}
    <3>3. l2' \in {l2, [value |-> request[r].value, ttl |-> request[r].ttlL2, locked |-> locked]}
      BY <1>1 DEF SetL2
    <3>4. ~locked
      BY <3>2
    <3> HIDE DEF locked
    <3>5. CASE l2' = [value |-> request[r].value, ttl |-> request[r].ttlL2, locked |-> locked]
      <4>1. l2'.locked = locked
        BY <3>5
      <4> QED BY <3>4, <4>1
    <3> QED BY <3>3, <3>5
  <2> QED BY <1>0, <2>1, <2>2 DEF LockAvoidsRefetch
<1>2. CASE ~SetL2(r)
  <2>1. l2' = l2
    BY <1>2 DEF Step, Disturbance, GetL2Hit, EarlyRefresh, GetL2Miss, Join, Acquire, WaiterHit,
       GiveUp, OwnerHit, OwnerMiss, Release, Record, Start, BackendTimesOut, Respond,
       BackendAnswers, BackendFails, BackendPanics, Cancel
  <2>2. Refetches(r)' => Refetches(r) \/ l2 = None
    <3>1. GetL2Hit(r) \/ EarlyRefresh(r) \/ GetL2Miss(r) \/ Join(r) => ~Refetches(r)'
      BY GetL2HitEffect, EarlyRefreshEffect, GetL2MissEffect, JoinEffect, Fields
         DEF Turned, Moved, GetL2Miss, Join, At, Shape
    <3>2. Respond(r) \/ Cancel(r) \/ Acquire(r) \/ WaiterHit(r) \/ GiveUp(r) => ~Refetches(r)'
      BY RespondEffect, CancelEffect, AcquireEffect, WaiterHitEffect, GiveUpEffect
         DEF Ended, Turned, Moved, Idle
    <3>3. OwnerHit(r) \/ Release(r) => ~Refetches(r)'
      BY OwnerHitEffect, ReleaseEffect DEF Ended, Turned, Moved, Idle
    <3>4. OwnerMiss(r) /\ Refetches(r)' => l2 = None
      BY OwnerMissEffect DEF Turned, Moved
    <3>5. (Record(r) \/ Start(r)) /\ Refetches(r)' => Refetches(r)
      BY RecordEffect, StartEffect DEF Turned, Moved, Record, Start, At
    <3>6. BackendAnswers(r) /\ Refetches(r)' => Refetches(r)
      BY BackendAnswersEffect DEF Moved, BackendAnswers, At
    <3>7. CallFails(r) \/ BackendPanics(r) => ~Refetches(r)'
      BY CallFailsEffect, PanicEnds DEF Moved
    <3> QED BY <1>2, <3>1, <3>2, <3>3, <3>4, <3>5, <3>6, <3>7
            DEF Step, Disturbance, BackendFails, BackendTimesOut
  <2> QED BY <1>0, <2>1, <2>2 DEF LockAvoidsRefetch
<1> QED BY <1>1, <1>2

\* LockAvoidsRefetch, for any number of requests on any gateways.
THEOREM OwnerRefetchesAlone == Spec => []LockAvoidsRefetch
<1>1. Init => LockAvoidsRefetch
  BY DEF Init, LockAvoidsRefetch
<1>2. WellFormed /\ Guarded /\ LockAvoidsRefetch /\ [Next]_vars => LockAvoidsRefetch'
  <2> SUFFICES ASSUME WellFormed, Guarded, LockAvoidsRefetch, [Next]_vars PROVE LockAvoidsRefetch'
    OBVIOUS
  <2>1. ASSUME NEW r \in Requests, NEW g \in Gateways, NEW c \in Configs, NEW f \in Factors,
               Arrive(r, g, c, f)
        PROVE  LockAvoidsRefetch'
    BY <2>1, Fields DEF Arrive, Becomes, Idle, LockAvoidsRefetch
  <2>2. ASSUME NEW r \in Requests, Finish(r) PROVE LockAvoidsRefetch'
    <3>1. \A q \in Requests : request'[q] = request[q] \/ request'[q].pc \in {"idle", "respond"}
      BY <2>2, Fields DEF Finish, Idle, RequestStates
    <3> QED BY <2>2, <3>1 DEF Finish, LockAvoidsRefetch
  <2>3. ASSUME NEW g \in Gateways, Restart(g) PROVE LockAvoidsRefetch'
    BY <2>3 DEF Restart, Idle, LockAvoidsRefetch
  <2>4. CASE Tick
    <3>1. \A q \in Requests : request'[q].route = request[q].route /\ request'[q].pc = request[q].pc
      BY <2>4, TickKeeps
    <3>2. l2' = None \/ l2'.locked = l2.locked
      BY <2>4, TickMeaning DEF WellFormed, TypeOK
    <3>3. l2 = None => l2' = None
      BY <2>4, TickMeaning
    <3> QED BY <3>1, <3>2, <3>3 DEF LockAvoidsRefetch
  <2>5. ASSUME UNCHANGED vars \/ DropL2 \/ \E g \in Gateways : DropL1(g) PROVE LockAvoidsRefetch'
    BY <2>5 DEF vars, DropL1, DropL2, LockAvoidsRefetch
  <2> QED BY <2>1, <2>2, <2>3, <2>4, <2>5, StepAvoidsRefetch DEF Next
<1> QED BY <1>1, <1>2, PipelineGuarded, PTL DEF Spec

=============================================================================
