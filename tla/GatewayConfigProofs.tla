------------------------ MODULE GatewayConfigProofs ------------------------
(***************************************************************************)
(* Proofs about GatewayConfig, for any gateways, requests, savers,         *)
(* configurations and number of saves.                                     *)
(*                                                                         *)
(* A gateway may move back to an older version, so "its version only       *)
(* grows" is not an invariant.  What holds instead is that every entry in  *)
(* L1 was put there when Redis had at least the version that the gateway   *)
(* now holds, because each change of version, in either direction, clears  *)
(* L1 (L1Epoch).                                                           *)
(***************************************************************************)
EXTENDS GatewayConfig, TLAPS

\* Nobody knows of a version that Redis has not reached.
VersionsReached ==
    /\ \A g \in Gateways : configVersion[g] <= version /\ poll[g] <= version
    /\ \A s \in Savers : saver[s].version <= version
    /\ \A r \in Requests :
          /\ request[r].read <= version
          /\ request[r].arrived <= version
          /\ request[r].pc \in {"adopt", "getL1"} => request[r].arrived <= request[r].read

\* The L1 entries of a gateway are not older than its configuration.
L1Epoch == \A g \in Gateways : \A e \in l1[g] : e.put >= configVersion[g]

ConfigInv ==
    /\ TypeOK /\ VersionsReached /\ ConfigMatchesVersion /\ L1Epoch
    /\ RequestUsesCurrentConfig /\ NoL1EntryFromBeforeSave

USE ConfigAssumption, VersionAssumption, GatewaysAssumption
USE DEF Versions, Entries, At

\* An idle request and an idle saver have their types.
LEMMA IdleTypes ==
    /\ IdleRequest \in RequestStates /\ IdleSaver \in SaverStates
    /\ IdleRequest.pc = "idle" /\ IdleRequest.read = 1 /\ IdleRequest.arrived = 1
    /\ IdleSaver.version = 1
<1>1. (CHOOSE g \in Gateways : TRUE) \in Gateways
  OBVIOUS
<1> QED BY <1>1 DEF IdleRequest, IdleSaver, RequestStates, SaverStates

\* Every initial state satisfies the invariant.
LEMMA InitConfigInv == Init => ConfigInv
  BY IdleTypes DEF Init, ConfigInv, TypeOK, VersionsReached, ConfigMatchesVersion, L1Epoch,
     RequestUsesCurrentConfig, NoL1EntryFromBeforeSave

\* Adopting a version that Redis has had keeps the types.
LEMMA AdoptTypes ==
    ASSUME TypeOK, NEW g \in Gateways, NEW v \in Versions, Adopt(g, v)
    PROVE  /\ gatewayConfig' \in [Gateways -> ValidConfigs]
           /\ configVersion' \in [Gateways -> Versions]
           /\ l1' \in [Gateways -> SUBSET Entries]
  BY DEF TypeOK, Adopt

\* Every step keeps every variable within its type.
LEMMA TypeOKStep == ConfigInv /\ [Next]_vars => TypeOK'
<1> SUFFICES ASSUME ConfigInv, [Next]_vars PROVE TypeOK'
  OBVIOUS
<1> USE DEF ConfigInv, TypeOK
<1>1. ASSUME NEW r \in Requests, NEW g \in Gateways, Arrive(r, g) PROVE TypeOK'
  <2>1. [IdleRequest EXCEPT !.pc = "read", !.on = g, !.arrived = version, !.after = completed]
           \in RequestStates
    BY IdleTypes DEF RequestStates
  <2> QED BY <1>1, <2>1 DEF Arrive
<1>2. ASSUME NEW r \in Requests, Step(r) PROVE TypeOK'
  <2> DEFINE q == request[r]
  <2>0. q \in RequestStates
    OBVIOUS
  <2>1. CASE ReadConfig(r)
    <3>1. [q EXCEPT !.pc = "adopt", !.read = version] \in RequestStates
      BY <2>0 DEF RequestStates
    <3> QED BY <2>1, <3>1 DEF ReadConfig
  <2>2. CASE AdoptConfig(r)
    <3>1. q.on \in Gateways /\ q.read \in Versions
      BY <2>0 DEF RequestStates
    <3>2. /\ gatewayConfig' \in [Gateways -> ValidConfigs]
          /\ configVersion' \in [Gateways -> Versions]
          /\ l1' \in [Gateways -> SUBSET Entries]
      BY <2>2, <3>1, AdoptTypes DEF AdoptConfig
    <3>3. [q EXCEPT !.pc = "getL1", !.config = gatewayConfig'[q.on]] \in RequestStates
      BY <2>0, <3>1, <3>2 DEF RequestStates
    <3>4. request' = [request EXCEPT ![r] = [q EXCEPT !.pc = "getL1", !.config = gatewayConfig'[q.on]]]
      BY <2>2 DEF AdoptConfig
    <3> QED BY <2>2, <3>2, <3>3, <3>4 DEF AdoptConfig
  <2>3. ASSUME NEW pc \in {"hit", "getL2"}, NEW b \in 0..MaxVersion, Looked(r, pc, b)
        PROVE  request' \in [Requests -> RequestStates]
    <3>1. [IdleRequest EXCEPT !.pc = pc, !.on = q.on, !.after = q.after, !.born = b]
             \in RequestStates
      BY <2>0, IdleTypes DEF RequestStates
    <3> QED BY <2>3, <3>1 DEF Looked
  <2>4. CASE L1Hit(r)
    <3>1. PICK e \in l1[q.on] : Looked(r, "hit", e.born)
      BY <2>4 DEF L1Hit
    <3>2. e.born \in Versions
      BY <2>0 DEF RequestStates
    <3> QED BY <2>3, <2>4, <3>1, <3>2 DEF L1Hit
  <2>5. CASE L1Miss(r)
    <3>1. request' \in [Requests -> RequestStates]
      BY <2>3, <2>5 DEF L1Miss
    <3> QED BY <2>5, <3>1 DEF L1Miss
  <2>6. CASE L2Hit(r)
    <3>1. PICK b \in l2 : request' = [request EXCEPT ![r].pc = "fillL1", ![r].born = b]
      BY <2>6 DEF L2Hit
    <3>a. b \in 0..MaxVersion
      OBVIOUS
    <3>2. [q EXCEPT !.pc = "fillL1", !.born = b] \in RequestStates
      BY <2>0, <3>a DEF RequestStates
    <3> QED BY <2>6, <3>1, <3>2 DEF L2Hit
  <2>7. CASE L2Miss(r)
    <3>1. [q EXCEPT !.pc = "fetch"] \in RequestStates
      BY <2>0 DEF RequestStates
    <3> QED BY <2>7, <3>1 DEF L2Miss
  <2>8. CASE Fetch(r)
    <3>1. [q EXCEPT !.pc = "setL2"] \in RequestStates
      BY <2>0 DEF RequestStates
    <3> QED BY <2>8, <3>1 DEF Fetch
  <2>9. CASE SetL2(r)
    <3>a. version \in 0..MaxVersion
      OBVIOUS
    <3>1. [q EXCEPT !.pc = "setL1", !.born = version] \in RequestStates
      BY <2>0, <3>a DEF RequestStates
    <3> QED BY <2>9, <3>1 DEF SetL2
  <2>12. CASE SetL2Fails(r)
    <3>1. [q EXCEPT !.pc = "setL1"] \in RequestStates
      BY <2>0 DEF RequestStates
    <3> QED BY <2>12, <3>1 DEF SetL2Fails
  <2>10. CASE SetL1(r)
    <3>a. q.born \in 0..MaxVersion
      BY <2>0 DEF RequestStates
    <3>b. FirstCached(r) \in Versions
      BY <3>a DEF FirstCached
    <3>1. /\ [q EXCEPT !.pc = IF At(r, "fillL1") THEN "hit" ELSE "idle"] \in RequestStates
          /\ [born |-> FirstCached(r), put |-> version] \in Entries
      BY <2>0, <3>b DEF RequestStates
    <3>2. request' \in [Requests -> RequestStates]
      BY <2>10, <3>1 DEF SetL1
    <3>3. l1' \in [Gateways -> SUBSET Entries]
      BY <2>10, <3>1 DEF SetL1
    <3> QED BY <2>10, <3>2, <3>3 DEF SetL1
  <2>11. CASE EndRequest(r)
    BY <2>11, IdleTypes DEF EndRequest
  <2> QED BY <1>2, <2>1, <2>2, <2>4, <2>5, <2>6, <2>7, <2>8, <2>9, <2>10, <2>11, <2>12
          DEF Step
<1>3. ASSUME NEW s \in Savers, NEW g \in Gateways, NEW c \in Configs, UpdateStore(s, g, c)
      PROVE  TypeOK'
  <2>1. version + 1 \in Versions
    BY <1>3 DEF UpdateStore
  <2>2. [pc |-> "adopt", on |-> g, version |-> version + 1] \in SaverStates
    BY <2>1 DEF SaverStates
  <2> QED BY <1>3, <2>1, <2>2 DEF UpdateStore, Accepts
<1>4. ASSUME NEW s \in Savers, Save(s) PROVE TypeOK'
  <2>0. saver[s] \in SaverStates /\ saver[s].version \in Versions /\ saver[s].on \in Gateways
    BY DEF SaverStates
  <2>1. CASE AdoptSaved(s)
    <3>1. [saver[s] EXCEPT !.pc = "listL2"] \in SaverStates
      BY <2>0 DEF SaverStates
    <3> QED BY <2>0, <2>1, <3>1 DEF AdoptSaved
  <2>4. CASE ListL2(s)
    <3>1. [saver[s] EXCEPT !.pc = IF l2 = {} THEN "reset" ELSE "clearL2"] \in SaverStates
      BY <2>0 DEF SaverStates
    <3> QED BY <2>4, <3>1 DEF ListL2
  <2>5. CASE ClearL2(s)
    <3>1. [saver[s] EXCEPT !.pc = "reset"] \in SaverStates
      BY <2>0 DEF SaverStates
    <3> QED BY <2>5, <3>1 DEF ClearL2
  <2>2. CASE SaveSucceeds(s)
    BY <2>0, <2>2, IdleTypes DEF SaveSucceeds
  <2>3. CASE SaveFails(s)
    BY <2>3, IdleTypes DEF SaveFails
  <2> QED BY <1>4, <2>1, <2>2, <2>3, <2>4, <2>5 DEF Save
<1>5. ASSUME NEW g \in Gateways, PollRead(g) PROVE TypeOK'
  BY <1>5 DEF PollRead
<1>6. ASSUME NEW g \in Gateways, PollAdopt(g) PROVE TypeOK'
  <2>1. poll[g] \in Versions
    BY <1>6 DEF PollAdopt
  <2>2. /\ gatewayConfig' \in [Gateways -> ValidConfigs]
        /\ configVersion' \in [Gateways -> Versions]
        /\ l1' \in [Gateways -> SUBSET Entries]
    BY <1>6, <2>1, AdoptTypes DEF PollAdopt
  <2>3. poll' \in [Gateways -> 0..MaxVersion]
    BY <1>6 DEF PollAdopt
  <2>4. UNCHANGED <<version, saved, l2, request, saver, completed>>
    BY <1>6 DEF PollAdopt
  <2> QED BY <2>2, <2>3, <2>4
<1>7. ASSUME NEW g \in Gateways, Restart(g) PROVE TypeOK'
  <2>1. request' \in [Requests -> RequestStates]
    BY <1>7, IdleTypes DEF Restart
  <2>2. saver' \in [Savers -> SaverStates]
    BY <1>7, IdleTypes DEF Restart
  <2>3. l1' \in [Gateways -> SUBSET Entries]
    BY <1>7 DEF Restart
  <2> QED BY <1>7, <2>1, <2>2, <2>3 DEF Restart
<1>8. CASE L2Drop
  BY <1>8 DEF L2Drop
<1>9. CASE UNCHANGED vars
  BY <1>9 DEF vars
<1> QED BY <1>1, <1>2, <1>3, <1>4, <1>5, <1>6, <1>7, <1>8, <1>9 DEF Next, RejectConfig

---------------------------------------------------------------------------
(* What one step may do to Redis, to a gateway and to a request            *)

\* The version only grows, and what was saved under a version stays.
LEMMA StoreStep ==
    ASSUME ConfigInv, [Next]_vars
    PROVE  /\ version' \in Versions /\ version' >= version
           /\ \A v \in Versions : v <= version => saved'[v] = saved[v]
<1> USE DEF ConfigInv, TypeOK
<1>1. CASE UNCHANGED <<version, saved>>
  BY <1>1
<1>2. CASE \E s \in Savers, g \in Gateways, c \in Configs : UpdateStore(s, g, c)
  BY <1>2 DEF UpdateStore, Accepts
<1>3. \/ UNCHANGED <<version, saved>>
      \/ \E s \in Savers, g \in Gateways, c \in Configs : UpdateStore(s, g, c)
  BY DEF Next, vars, Step, Save, Arrive, ReadConfig, AdoptConfig, L1Hit, L1Miss, L2Hit, L2Miss,
     Fetch, SetL2, SetL2Fails, SetL1, EndRequest, RejectConfig, AdoptSaved, ListL2, ClearL2, SaveSucceeds, SaveFails, PollRead,
     PollAdopt, L2Drop, Restart
<1> QED BY <1>1, <1>2, <1>3

\* The gateway keeps its configuration; L1 may lose entries or get a new one.
GatewayKept(g) ==
    /\ configVersion'[g] = configVersion[g] /\ gatewayConfig'[g] = gatewayConfig[g]
    /\ \A e \in l1'[g] : e \in l1[g] \/ e.put = version

\* It changes to a version that Redis has had, and L1 is empty afterwards.
GatewayMoved(g) ==
    /\ configVersion'[g] \in Versions /\ configVersion'[g] <= version
    /\ gatewayConfig'[g] = saved[configVersion'[g]]
    /\ l1'[g] = {}

\* Adopting a version does one or the other, at one gateway.
LEMMA AdoptStep ==
    ASSUME ConfigInv, NEW h \in Gateways, NEW v \in Versions, v <= version, Adopt(h, v),
           NEW g \in Gateways
    PROVE  GatewayKept(g) \/ GatewayMoved(g)
  BY DEF ConfigInv, TypeOK, Adopt, GatewayKept, GatewayMoved

\* Every step keeps a gateway or moves it.
LEMMA GatewayStep ==
    ASSUME ConfigInv, [Next]_vars, NEW g \in Gateways
    PROVE  GatewayKept(g) \/ GatewayMoved(g)
<1> USE DEF ConfigInv, TypeOK
<1>1. CASE UNCHANGED <<gatewayConfig, configVersion, l1>>
  BY <1>1 DEF GatewayKept
<1>2. ASSUME NEW r \in Requests, AdoptConfig(r) PROVE GatewayKept(g) \/ GatewayMoved(g)
  <2>1. request[r].on \in Gateways /\ request[r].read \in Versions /\ request[r].read <= version
    BY DEF RequestStates, VersionsReached
  <2> QED BY <1>2, <2>1, AdoptStep DEF AdoptConfig
<1>3. ASSUME NEW r \in Requests, L1Miss(r) PROVE GatewayKept(g)
  BY <1>3 DEF L1Miss, GatewayKept
<1>4. ASSUME NEW r \in Requests, SetL1(r) PROVE GatewayKept(g)
  BY <1>4 DEF SetL1, GatewayKept
<1>5. ASSUME NEW s \in Savers, AdoptSaved(s) PROVE GatewayKept(g) \/ GatewayMoved(g)
  <2>1. saver[s].version \in Versions /\ saver[s].version <= version
    BY DEF SaverStates, VersionsReached
  <2> QED BY <1>5, <2>1 DEF AdoptSaved, GatewayKept, GatewayMoved
<1>6. ASSUME NEW h \in Gateways, PollAdopt(h) PROVE GatewayKept(g) \/ GatewayMoved(g)
  <2>1. poll[h] \in Versions /\ poll[h] <= version
    BY <1>6 DEF PollAdopt, VersionsReached
  <2> QED BY <1>6, <2>1, AdoptStep DEF PollAdopt
<1>7. ASSUME NEW h \in Gateways, Restart(h) PROVE GatewayKept(g) \/ GatewayMoved(g)
  BY <1>7 DEF Restart, GatewayKept, GatewayMoved
<1>8. \/ UNCHANGED <<gatewayConfig, configVersion, l1>>
      \/ \E r \in Requests : AdoptConfig(r) \/ L1Miss(r) \/ SetL1(r)
      \/ \E s \in Savers : AdoptSaved(s)
      \/ \E h \in Gateways : PollAdopt(h) \/ Restart(h)
  BY DEF Next, vars, Step, Save, Arrive, ReadConfig, L1Hit, L2Hit, L2Miss, Fetch, SetL2,
     SetL2Fails, EndRequest, UpdateStore, RejectConfig, ListL2, ClearL2, SaveSucceeds, SaveFails,
     PollRead, L2Drop
<1> QED BY <1>1, <1>2, <1>3, <1>4, <1>5, <1>6, <1>7, <1>8

\* The request keeps what the invariant says of it, or is past the lookup.
RequestKept(r) == request'[r] = request[r]

RequestLeft(r) ==
    /\ request'[r].read \in {1, request[r].read}
    /\ request'[r].arrived \in {1, request[r].arrived}
    /\ request'[r].pc \notin {"adopt", "getL1"}

\* Every step keeps a request, takes it past the lookup, or is one of the
\* three steps before the lookup.
LEMMA RequestStep ==
    ASSUME ConfigInv, [Next]_vars, NEW r \in Requests
    PROVE  \/ RequestKept(r) \/ RequestLeft(r)
           \/ \E g \in Gateways : Arrive(r, g)
           \/ ReadConfig(r) \/ AdoptConfig(r)
<1> USE DEF ConfigInv, TypeOK
<1>0. request[r] \in RequestStates
  OBVIOUS
<1>1. CASE UNCHANGED request
  BY <1>1 DEF RequestKept
<1>2. ASSUME NEW q \in Requests, q # r, (\E g \in Gateways : Arrive(q, g)) \/ Step(q)
      PROVE  RequestKept(r)
  BY <1>2 DEF RequestKept, Arrive, Step, ReadConfig, AdoptConfig, L1Hit, L1Miss, Looked, L2Hit,
     L2Miss, Fetch, SetL2, SetL2Fails, SetL1, EndRequest
<1>3. ASSUME Step(r), ~ReadConfig(r), ~AdoptConfig(r) PROVE RequestLeft(r)
  <2>1. ASSUME NEW pc \in {"hit", "getL2"}, NEW b, Looked(r, pc, b) PROVE RequestLeft(r)
    <3>1. request'[r] =
            [IdleRequest EXCEPT !.pc = pc, !.on = request[r].on, !.after = request[r].after, !.born = b]
      BY <2>1 DEF Looked
    <3> QED BY <3>1, IdleTypes DEF RequestLeft, RequestStates
  <2>2. CASE L1Hit(r) \/ L1Miss(r)
    BY <2>1, <2>2 DEF L1Hit, L1Miss
  <2>3. CASE L2Hit(r)
    BY <1>0, <2>3 DEF L2Hit, RequestLeft, RequestStates
  <2>4. CASE L2Miss(r) \/ Fetch(r)
    BY <1>0, <2>4 DEF L2Miss, Fetch, RequestLeft, RequestStates
  <2>5. CASE SetL2(r) \/ SetL2Fails(r) \/ SetL1(r)
    BY <1>0, <2>5 DEF SetL2, SetL2Fails, SetL1, RequestLeft, RequestStates
  <2>6. CASE EndRequest(r)
    BY <2>6, IdleTypes DEF EndRequest, RequestLeft
  <2> QED BY <1>3, <2>2, <2>3, <2>4, <2>5, <2>6 DEF Step
<1>4. ASSUME NEW g \in Gateways, Restart(g) PROVE RequestKept(r) \/ RequestLeft(r)
  BY <1>4, IdleTypes DEF Restart, RequestKept, RequestLeft
<1>5. \/ UNCHANGED request
      \/ \E q \in Requests : (\E g \in Gateways : Arrive(q, g)) \/ Step(q)
      \/ \E g \in Gateways : Restart(g)
  BY DEF Next, vars, Save, UpdateStore, RejectConfig, AdoptSaved, ListL2, ClearL2, SaveSucceeds, SaveFails, PollRead,
     PollAdopt, L2Drop
<1> QED BY <1>1, <1>2, <1>3, <1>4, <1>5

\* The versions that polls and savers hold come from Redis.
LEMMA HeldVersionsStep ==
    ASSUME ConfigInv, [Next]_vars
    PROVE  /\ \A g \in Gateways : poll'[g] \in {0, poll[g], version}
           /\ \A s \in Savers : saver'[s].version \in {1, saver[s].version, version'}
<1> USE DEF ConfigInv, TypeOK
<1>1. \A g \in Gateways : poll'[g] \in {0, poll[g], version}
  BY DEF Next, vars, Step, Save, Arrive, ReadConfig, AdoptConfig, L1Hit, L1Miss, L2Hit, L2Miss,
     Fetch, SetL2, SetL2Fails, SetL1, EndRequest, UpdateStore, RejectConfig, AdoptSaved, ListL2, ClearL2, SaveSucceeds, SaveFails,
     PollRead, PollAdopt, L2Drop, Restart
<1>2. ASSUME NEW s \in Savers PROVE saver'[s].version \in {1, saver[s].version, version'}
  <2>1. CASE UNCHANGED saver
    BY <2>1
  <2>2. ASSUME NEW q \in Savers, NEW g \in Gateways, NEW c \in Configs, UpdateStore(q, g, c)
        PROVE  saver'[s].version \in {saver[s].version, version'}
    BY <2>2 DEF UpdateStore
  <2>3. ASSUME NEW q \in Savers, Save(q) PROVE saver'[s].version \in {1, saver[s].version}
    <3>1. CASE AdoptSaved(q) \/ ListL2(q) \/ ClearL2(q)
      <4>1. PICK pc : saver' = [saver EXCEPT ![q] = [saver[q] EXCEPT !.pc = pc]]
        BY <3>1 DEF AdoptSaved, ListL2, ClearL2
      <4>2. saver[q] \in SaverStates
        OBVIOUS
      <4>3. [saver[q] EXCEPT !.pc = pc].version = saver[q].version
        BY <4>2 DEF SaverStates
      <4> QED BY <4>1, <4>3
    <3>2. CASE SaveSucceeds(q) \/ SaveFails(q)
      BY <3>2, IdleTypes DEF SaveSucceeds, SaveFails
    <3> QED BY <2>3, <3>1, <3>2 DEF Save
  <2>4. ASSUME NEW g \in Gateways, Restart(g) PROVE saver'[s].version \in {1, saver[s].version}
    BY <2>4, IdleTypes DEF Restart
  <2>5. \/ UNCHANGED saver
        \/ \E q \in Savers, g \in Gateways, c \in Configs : UpdateStore(q, g, c)
        \/ \E q \in Savers : Save(q)
        \/ \E g \in Gateways : Restart(g)
    BY DEF Next, vars, Step, Arrive, ReadConfig, AdoptConfig, L1Hit, L1Miss, L2Hit, L2Miss,
       Fetch, SetL2, SetL2Fails, SetL1, EndRequest, RejectConfig, PollRead, PollAdopt, L2Drop
  <2> QED BY <2>1, <2>2, <2>3, <2>4, <2>5
<1> QED BY <1>1, <1>2

---------------------------------------------------------------------------
(* The invariant is inductive                                              *)

\* VersionsReached is kept.
LEMMA VersionsReachedStep == ConfigInv /\ [Next]_vars => VersionsReached'
<1> SUFFICES ASSUME ConfigInv, [Next]_vars PROVE VersionsReached'
  OBVIOUS
<1>0. TypeOK /\ VersionsReached /\ version' \in Versions /\ version' >= version
  BY StoreStep DEF ConfigInv
<1>1. ASSUME NEW g \in Gateways PROVE configVersion'[g] <= version' /\ poll'[g] <= version'
  <2>1. /\ configVersion[g] \in Versions /\ configVersion[g] <= version
        /\ poll[g] \in 0..MaxVersion /\ poll[g] <= version /\ version \in Versions
    BY <1>0 DEF TypeOK, VersionsReached
  <2>2. poll'[g] \in {0, poll[g], version}
    BY HeldVersionsStep
  <2>3. configVersion'[g] = configVersion[g] \/ configVersion'[g] \in 1..version
    BY <2>1, GatewayStep DEF GatewayKept, GatewayMoved
  <2> HIDE DEF ConfigInv, TypeOK, VersionsReached
  <2> QED BY <1>0, <2>1, <2>2, <2>3
<1>2. ASSUME NEW s \in Savers PROVE saver'[s].version <= version'
  <2>1. saver[s].version \in Versions /\ saver[s].version <= version
    BY <1>0 DEF TypeOK, VersionsReached, SaverStates
  <2>2. saver'[s].version \in {1, saver[s].version, version'}
    BY HeldVersionsStep
  <2> QED BY <1>0, <2>1, <2>2 DEF TypeOK
<1>3. ASSUME NEW r \in Requests
      PROVE  /\ request'[r].read <= version' /\ request'[r].arrived <= version'
             /\ request'[r].pc \in {"adopt", "getL1"} => request'[r].arrived <= request'[r].read
  <2>1. /\ request[r] \in RequestStates
        /\ request[r].read \in Versions /\ request[r].read <= version
        /\ request[r].arrived \in Versions /\ request[r].arrived <= version
    BY <1>0 DEF TypeOK, VersionsReached, RequestStates
  <2>2. CASE RequestKept(r) \/ RequestLeft(r)
    BY <1>0, <2>1, <2>2 DEF TypeOK, VersionsReached, RequestKept, RequestLeft
  <2>3. ASSUME NEW g \in Gateways, Arrive(r, g)
        PROVE  request'[r].pc = "read" /\ request'[r].read = 1 /\ request'[r].arrived = version
    <3>1. request'[r] = [IdleRequest EXCEPT !.pc = "read", !.on = g,
                                            !.arrived = version, !.after = completed]
      BY <1>0, <2>3 DEF TypeOK, Arrive
    <3> QED BY <3>1, IdleTypes DEF RequestStates
  <2>4. CASE ReadConfig(r)
    <3>1. request'[r] = [request[r] EXCEPT !.pc = "adopt", !.read = version]
      BY <1>0, <2>4 DEF TypeOK, ReadConfig
    <3>2. request'[r].read = version /\ request'[r].arrived = request[r].arrived
      BY <2>1, <3>1 DEF RequestStates
    <3> QED BY <1>0, <2>1, <3>2 DEF TypeOK
  <2>5. CASE AdoptConfig(r)
    <3>1. request'[r] = [request[r] EXCEPT !.pc = "getL1",
                                           !.config = gatewayConfig'[request[r].on]]
      BY <1>0, <2>5 DEF TypeOK, AdoptConfig
    <3>2. request'[r].read = request[r].read /\ request'[r].arrived = request[r].arrived
      BY <2>1, <3>1 DEF RequestStates
    <3>3. request[r].arrived <= request[r].read
      BY <1>0, <2>5 DEF AdoptConfig, VersionsReached
    <3> QED BY <1>0, <2>1, <3>2, <3>3 DEF TypeOK
  <2> QED BY <1>0, <2>1, <2>2, <2>3, <2>4, <2>5, RequestStep DEF TypeOK
<1> QED BY <1>1, <1>2, <1>3 DEF VersionsReached

\* Configuration and version stay together, and L1 stays in its epoch.
LEMMA GatewayInvStep == ConfigInv /\ [Next]_vars => ConfigMatchesVersion' /\ L1Epoch'
<1> SUFFICES ASSUME ConfigInv, [Next]_vars, NEW g \in Gateways
             PROVE  /\ gatewayConfig'[g] = saved'[configVersion'[g]]
                    /\ \A e \in l1'[g] : e.put >= configVersion'[g]
  BY DEF ConfigMatchesVersion, L1Epoch
<1>0. /\ configVersion[g] \in Versions /\ configVersion[g] <= version /\ version \in Versions
      /\ \A v \in Versions : v <= version => saved'[v] = saved[v]
  BY StoreStep DEF ConfigInv, TypeOK, VersionsReached
<1>1. CASE GatewayKept(g)
  BY <1>0, <1>1 DEF ConfigInv, ConfigMatchesVersion, L1Epoch, GatewayKept
<1>2. CASE GatewayMoved(g)
  BY <1>0, <1>2 DEF GatewayMoved
<1> QED BY <1>1, <1>2, GatewayStep

\* What a request finds at its lookup in L1.
LEMMA LookupStep ==
    ConfigInv /\ [Next]_vars => RequestUsesCurrentConfig' /\ NoL1EntryFromBeforeSave'
<1> SUFFICES ASSUME ConfigInv, [Next]_vars, NEW r \in Requests, request'[r].pc = "getL1"
             PROVE  /\ request'[r].config = saved'[request'[r].read]
                    /\ request'[r].read >= request'[r].arrived
                    /\ \A e \in l1'[request'[r].on] : e.put >= request'[r].arrived
  BY DEF RequestUsesCurrentConfig, NoL1EntryFromBeforeSave
<1>0. /\ request[r] \in RequestStates /\ request[r].on \in Gateways
      /\ request[r].read \in Versions /\ request[r].read <= version
      /\ request[r].arrived \in Versions /\ request[r].arrived <= version
      /\ version \in Versions
      /\ \A v \in Versions : v <= version => saved'[v] = saved[v]
  BY StoreStep DEF ConfigInv, TypeOK, VersionsReached, RequestStates
<1>1. CASE RequestKept(r)
  <2>1. /\ request[r].config = saved[request[r].read] /\ request[r].read >= request[r].arrived
        /\ \A e \in l1[request[r].on] : e.put >= request[r].arrived
    BY <1>1 DEF ConfigInv, RequestKept, RequestUsesCurrentConfig, NoL1EntryFromBeforeSave
  <2>2. GatewayKept(request[r].on) \/ GatewayMoved(request[r].on)
    BY <1>0, GatewayStep
  <2> QED BY <1>0, <1>1, <2>1, <2>2 DEF RequestKept, GatewayKept, GatewayMoved
<1>2. CASE AdoptConfig(r)
  <2>1. request'[r] = [request[r] EXCEPT !.pc = "getL1",
                                         !.config = gatewayConfig'[request[r].on]]
    BY <1>2 DEF ConfigInv, TypeOK, AdoptConfig
  <2>2. /\ request'[r].on = request[r].on /\ request'[r].read = request[r].read
        /\ request'[r].arrived = request[r].arrived
        /\ request'[r].config = gatewayConfig'[request[r].on]
    BY <1>0, <2>1 DEF RequestStates
  <2>3. request[r].arrived <= request[r].read
    BY <1>2 DEF ConfigInv, VersionsReached, AdoptConfig
  <2>4. \/ /\ configVersion[request[r].on] = request[r].read
           /\ gatewayConfig'[request[r].on] = gatewayConfig[request[r].on]
           /\ l1'[request[r].on] = l1[request[r].on]
        \/ /\ gatewayConfig'[request[r].on] = saved[request[r].read]
           /\ l1'[request[r].on] = {}
    BY <1>0, <1>2 DEF ConfigInv, TypeOK, AdoptConfig, Adopt
  <2>5. gatewayConfig'[request[r].on] = saved[request[r].read]
    BY <1>0, <2>4 DEF ConfigInv, ConfigMatchesVersion
  <2>6. \A e \in l1'[request[r].on] : e \in Entries /\ e.put >= request[r].read
    BY <1>0, <2>4 DEF ConfigInv, TypeOK, L1Epoch
  <2>7. \A e \in l1'[request[r].on] : e.put >= request[r].arrived
    BY <1>0, <2>3, <2>6
  <2> QED BY <1>0, <2>2, <2>3, <2>5, <2>7
<1>3. ASSUME NEW g \in Gateways, Arrive(r, g) PROVE request'[r].pc = "read"
  <2>1. request'[r] = [IdleRequest EXCEPT !.pc = "read", !.on = g,
                                          !.arrived = version, !.after = completed]
    BY <1>3 DEF ConfigInv, TypeOK, Arrive
  <2> QED BY <2>1, IdleTypes DEF RequestStates
<1>4. CASE ReadConfig(r)
  BY <1>0, <1>4 DEF ConfigInv, TypeOK, ReadConfig, RequestStates
<1> QED BY <1>1, <1>2, <1>3, <1>4, RequestStep DEF RequestLeft

\* The strengthening of the properties below is an invariant.
THEOREM ConfigInvariant == Spec => []ConfigInv
<1>1. ConfigInv /\ [Next]_vars => ConfigInv'
  BY TypeOKStep, VersionsReachedStep, GatewayInvStep, LookupStep DEF ConfigInv
<1> QED BY <1>1, InitConfigInv, PTL DEF Spec

\* The variables keep their types: updateCacheConfig lets only configurations
\* that pass its checks come into force, at every gateway.
THEOREM OnlyValidConfigs == Spec => []TypeOK
  BY ConfigInvariant, PTL DEF ConfigInv

\* h.gatewayConfig and h.configVersion always belong together, however reads,
\* saves, polls and restarts of any number of gateways interleave.
THEOREM ConfigAndVersionTogether == Spec => []ConfigMatchesVersion
  BY ConfigInvariant, PTL DEF ConfigInv

\* currentGatewayConfig hands a request a configuration that is at least as
\* new as the one in force when the request arrived.
THEOREM RequestsAreCurrent == Spec => []RequestUsesCurrentConfig
  BY ConfigInvariant, PTL DEF ConfigInv

\* After a save no request that arrives later finds an L1 entry put there
\* before it, at any gateway.
THEOREM L1NeverFromBeforeSave == Spec => []NoL1EntryFromBeforeSave
  BY ConfigInvariant, PTL DEF ConfigInv

=============================================================================
