--------------------------- MODULE GatewayConfig ---------------------------
(***************************************************************************)
(* gateway/gateway_config_store.go, currentGatewayConfig and ServeHTTP     *)
(* (handler.go) and updateCacheConfig (cache_config_handler.go): the       *)
(* configuration that the gateways share through Redis, and how requests,  *)
(* saves and polls on several gateways pick it up and clear the caches.    *)
(*                                                                         *)
(* One cache key is modelled: L1 of a gateway and L2 hold an entry for it  *)
(* or none.  Entries are told apart by the version that Redis had when the *)
(* value was first put into a cache (born), and when it was put into this  *)
(* L1 (put).  The SET and the ZADD of setL2 are one step here; L2Cache has *)
(* them apart.                                                             *)
(***************************************************************************)
EXTENDS Naturals

CONSTANTS
    Gateways,      \* gateway instances
    Requests,      \* goroutines that serve a client request
    Savers,        \* goroutines that serve PUT /cache-config
    Configs,       \* configurations a client may send
    ValidConfigs,  \* those that pass the checks of updateCacheConfig
    DefaultConfig, \* the configuration that Initialize writes
    MaxVersion     \* bound on the version counter

ASSUME ConfigAssumption ==
    ValidConfigs \subseteq Configs /\ DefaultConfig \in ValidConfigs
ASSUME GatewaysAssumption == Gateways # {}
ASSUME VersionAssumption == MaxVersion \in Nat \ {0}

Versions == 1..MaxVersion

VARIABLES
    version,        \* Redis: gatewayConfigVersionKey
    saved,          \* saved[v]: what gatewayConfigKey held at version v; the
                    \* current value is saved[version]
    gatewayConfig,  \* gatewayConfig[g]: h.gatewayConfig
    configVersion,  \* configVersion[g]: h.configVersion
    l1,             \* l1[g]: at most one entry in the L1 cache of g
    l2,             \* at most one entry in L2, by the version it was born at
    request,        \* request[r]: the state of request r
    saver,          \* saver[s]: the state of save s
    poll,           \* poll[g]: the version that the controller's loop has read
    completed       \* history: the newest version whose save reported success

vars == <<version, saved, gatewayConfig, configVersion, l1, l2, request, saver, poll, completed>>

---------------------------------------------------------------------------

Entries == [born : Versions, put : Versions]

\* arrived and after are history: the version of Redis, and the newest version
\* saved successfully, when the request arrived.  born tells when the value it
\* carries or was answered with was cached first, 0 if it is in no cache yet;
\* config is what currentGatewayConfig returned.
RequestStates ==
    [pc : {"idle", "read", "adopt", "getL1", "getL2", "fetch", "setL2", "setL1", "fillL1", "hit"},
     on : Gateways, read : Versions, config : ValidConfigs,
     arrived : Versions, after : 0..MaxVersion, born : 0..MaxVersion]

IdleRequest ==
    [pc |-> "idle", on |-> CHOOSE g \in Gateways : TRUE, read |-> 1, config |-> DefaultConfig,
     arrived |-> 1, after |-> 0, born |-> 0]

SaverStates ==
    [pc : {"idle", "adopt", "listL2", "clearL2", "reset"}, on : Gateways, version : Versions]

IdleSaver ==
    [pc |-> "idle", on |-> CHOOSE g \in Gateways : TRUE, version |-> 1]

\* Initialize writes version 1 unless it exists; NewHandler then reads it.
Init ==
    /\ version = 1
    /\ saved = [v \in Versions |-> DefaultConfig]
    /\ gatewayConfig = [g \in Gateways |-> DefaultConfig]
    /\ configVersion = [g \in Gateways |-> 1]
    /\ l1 = [g \in Gateways |-> {}]
    /\ l2 = {}
    /\ request = [r \in Requests |-> IdleRequest]
    /\ saver = [s \in Savers |-> IdleSaver]
    /\ poll = [g \in Gateways |-> 0]
    /\ completed = 0

---------------------------------------------------------------------------
(* currentGatewayConfig                                                    *)

\* A newer version is adopted without clearing L1.
AdoptWithoutClear(g, v) ==
    IF v # configVersion[g]
    THEN /\ gatewayConfig' = [gatewayConfig EXCEPT ![g] = saved[v]]
         /\ configVersion' = [configVersion EXCEPT ![g] = v]
         /\ UNCHANGED l1
    ELSE UNCHANGED <<gatewayConfig, configVersion, l1>>

\* The version is noted but the configuration is not.
AdoptVersionOnly(g, v) ==
    IF v # configVersion[g]
    THEN /\ configVersion' = [configVersion EXCEPT ![g] = v]
         /\ l1' = [l1 EXCEPT ![g] = {}]
         /\ UNCHANGED gatewayConfig
    ELSE UNCHANGED <<gatewayConfig, configVersion, l1>>

\* Only the first change of the configuration is adopted.
AdoptOnce(g, v) ==
    IF configVersion[g] = 1
    THEN /\ l1' = [l1 EXCEPT ![g] = {}]
         /\ gatewayConfig' = [gatewayConfig EXCEPT ![g] = saved[v]]
         /\ configVersion' = [configVersion EXCEPT ![g] = v]
    ELSE UNCHANGED <<gatewayConfig, configVersion, l1>>

\* Under configMu, with a version v that was read before the lock was taken:
\* any other version is adopted, an older one too, and L1 is cleared.
Adopt(g, v) ==
    IF v # configVersion[g]
    THEN /\ l1' = [l1 EXCEPT ![g] = {}]
         /\ gatewayConfig' = [gatewayConfig EXCEPT ![g] = saved[v]]
         /\ configVersion' = [configVersion EXCEPT ![g] = v]
    ELSE UNCHANGED <<gatewayConfig, configVersion, l1>>

---------------------------------------------------------------------------
(* ServeHTTP                                                               *)

At(r, pc) == request[r].pc = pc

\* A request is routed to gateway g.
Arrive(r, g) ==
    /\ At(r, "idle")
    /\ request' = [request EXCEPT ![r] =
                     [IdleRequest EXCEPT !.pc = "read", !.on = g,
                                         !.arrived = version, !.after = completed]]
    /\ UNCHANGED <<version, saved, gatewayConfig, configVersion, l1, l2, saver, poll, completed>>

\* MGET returns the configuration and its version together.
ReadConfig(r) ==
    /\ At(r, "read")
    /\ request' = [request EXCEPT ![r].pc = "adopt", ![r].read = version]
    /\ UNCHANGED <<version, saved, gatewayConfig, configVersion, l1, l2, saver, poll, completed>>

AdoptConfig(r) ==
    /\ At(r, "adopt")
    /\ Adopt(request[r].on, request[r].read)
    /\ request' = [request EXCEPT ![r].pc = "getL1",
                                  ![r].config = gatewayConfig'[request[r].on]]
    /\ UNCHANGED <<version, saved, l2, saver, poll, completed>>

\* From the lookup on, the caches decide what the client gets: what the
\* request read and when it arrived is forgotten.
Looked(r, pc, born) ==
    request' = [request EXCEPT ![r] =
                  [IdleRequest EXCEPT !.pc = pc, !.on = request[r].on,
                                      !.after = request[r].after, !.born = born]]

L1Hit(r) ==
    /\ At(r, "getL1")
    /\ \E e \in l1[request[r].on] : Looked(r, "hit", e.born)
    /\ UNCHANGED <<version, saved, gatewayConfig, configVersion, l1, l2, saver, poll, completed>>

\* Nothing there, or expired.
L1Miss(r) ==
    /\ At(r, "getL1")
    /\ l1' = [l1 EXCEPT ![request[r].on] = {}]
    /\ Looked(r, "getL2", 0)
    /\ UNCHANGED <<version, saved, gatewayConfig, configVersion, l2, saver, poll, completed>>

\* The value goes to L1 next, and then to the client.
L2Hit(r) ==
    /\ At(r, "getL2")
    /\ \E b \in l2 : request' = [request EXCEPT ![r].pc = "fillL1", ![r].born = b]
    /\ UNCHANGED <<version, saved, gatewayConfig, configVersion, l1, l2, saver, poll, completed>>

L2Miss(r) ==
    /\ At(r, "getL2")
    /\ request' = [request EXCEPT ![r].pc = "fetch"]
    /\ UNCHANGED <<version, saved, gatewayConfig, configVersion, l1, l2, saver, poll, completed>>

\* handleBackendNormally: a 2xx answer is stored in both caches.
Fetch(r) ==
    /\ At(r, "fetch")
    /\ request' = [request EXCEPT ![r].pc = "setL2"]
    /\ UNCHANGED <<version, saved, gatewayConfig, configVersion, l1, l2, saver, poll, completed>>

SetL2(r) ==
    /\ At(r, "setL2")
    /\ l2' = {version}
    /\ request' = [request EXCEPT ![r].pc = "setL1", ![r].born = version]
    /\ UNCHANGED <<version, saved, gatewayConfig, configVersion, l1, saver, poll, completed>>

\* The SET of setL2 fails, which is only logged.
SetL2Fails(r) ==
    /\ At(r, "setL2")
    /\ request' = [request EXCEPT ![r].pc = "setL1"]
    /\ UNCHANGED <<version, saved, gatewayConfig, configVersion, l1, l2, saver, poll, completed>>

\* The version of Redis when the value that r carries was cached first, given
\* that r caches it now.
FirstCached(r) == IF request[r].born = 0 THEN version ELSE request[r].born

\* setL1, after an L2 hit or after setL2, ends the request.
SetL1(r) ==
    /\ At(r, "fillL1") \/ At(r, "setL1")
    /\ l1' = [l1 EXCEPT ![request[r].on] = {[born |-> FirstCached(r), put |-> version]}]
    /\ request' = [request EXCEPT ![r].pc = IF At(r, "fillL1") THEN "hit" ELSE "idle"]
    /\ UNCHANGED <<version, saved, gatewayConfig, configVersion, l2, saver, poll, completed>>

\* The client has its answer; or a step failed (503 from the configuration
\* store, an error or a non-2xx status of the backend, a lost Redis command).
EndRequest(r) ==
    /\ ~At(r, "idle")
    /\ request' = [request EXCEPT ![r] = IdleRequest]
    /\ UNCHANGED <<version, saved, gatewayConfig, configVersion, l1, l2, saver, poll, completed>>

---------------------------------------------------------------------------
(* updateCacheConfig                                                       *)

\* Checks that let everything pass.
AcceptsAnything(c) == TRUE

Accepts(c) == c \in ValidConfigs

\* A rejected configuration changes nothing (400).
RejectConfig(c) ==
    /\ ~Accepts(c)
    /\ UNCHANGED vars

\* Update: SET and INCR in one transaction.
UpdateStore(s, g, c) ==
    /\ saver[s].pc = "idle"
    /\ Accepts(c)
    /\ version < MaxVersion
    /\ version' = version + 1
    /\ saved' = [saved EXCEPT ![version + 1] = c]
    /\ saver' = [saver EXCEPT ![s] = [pc |-> "adopt", on |-> g, version |-> version + 1]]
    /\ UNCHANGED <<gatewayConfig, configVersion, l1, l2, request, poll, completed>>

\* Under configMu, whatever has been adopted since the transaction: newConfig
\* is saved[saver[s].version].
AdoptSaved(s) ==
    /\ saver[s].pc = "adopt"
    /\ gatewayConfig' = [gatewayConfig EXCEPT ![saver[s].on] = saved[saver[s].version]]
    /\ configVersion' = [configVersion EXCEPT ![saver[s].on] = saver[s].version]
    /\ l1' = [l1 EXCEPT ![saver[s].on] = {}]
    /\ saver' = [saver EXCEPT ![s].pc = "listL2"]
    /\ UNCHANGED <<version, saved, l2, request, poll, completed>>

\* clearL2 begins with the ZRANGE of the index; without keys there is nothing
\* to delete.
ListL2(s) ==
    /\ saver[s].pc = "listL2"
    /\ saver' = [saver EXCEPT ![s].pc = IF l2 = {} THEN "reset" ELSE "clearL2"]
    /\ UNCHANGED <<version, saved, gatewayConfig, configVersion, l1, l2, request, poll, completed>>

\* DEL of the keys that were listed, whatever they hold by now.
ClearL2(s) ==
    /\ saver[s].pc = "clearL2"
    /\ l2' = {}
    /\ saver' = [saver EXCEPT ![s].pc = "reset"]
    /\ UNCHANGED <<version, saved, gatewayConfig, configVersion, l1, request, poll, completed>>

\* The DEL of the index and the Reset of the controller succeed: 200.
SaveSucceeds(s) ==
    /\ saver[s].pc = "reset"
    /\ completed' = IF saver[s].version > completed THEN saver[s].version ELSE completed
    /\ saver' = [saver EXCEPT ![s] = IdleSaver]
    /\ UNCHANGED <<version, saved, gatewayConfig, configVersion, l1, l2, request, poll>>

\* The reply to the transaction is lost, a command of clearL2 or the Reset of
\* the controller fails, or the client goes away: 500, with the configuration
\* changed already.
SaveFails(s) ==
    /\ saver[s].pc # "idle"
    /\ saver' = [saver EXCEPT ![s] = IdleSaver]
    /\ UNCHANGED <<version, saved, gatewayConfig, configVersion, l1, l2, request, poll, completed>>

---------------------------------------------------------------------------
(* The loop of AdaptiveTTLController.Run, other readers and the rest       *)

\* Run polls currentGatewayConfig forever; GET /cache-config calls it too.
PollRead(g) ==
    /\ poll[g] = 0
    /\ poll' = [poll EXCEPT ![g] = version]
    /\ UNCHANGED <<version, saved, gatewayConfig, configVersion, l1, l2, request, saver, completed>>

PollAdopt(g) ==
    /\ poll[g] # 0
    /\ Adopt(g, poll[g])
    /\ poll' = [poll EXCEPT ![g] = 0]
    /\ UNCHANGED <<version, saved, l2, request, saver, completed>>

\* The L2 entry expires, or is evicted.
L2Drop ==
    /\ l2 # {}
    /\ l2' = {}
    /\ UNCHANGED <<version, saved, gatewayConfig, configVersion, l1, request, saver, poll, completed>>

\* Gateway g stops and starts again: Initialize finds the configuration and
\* NewHandler reads it.
Restart(g) ==
    /\ gatewayConfig' = [gatewayConfig EXCEPT ![g] = saved[version]]
    /\ configVersion' = [configVersion EXCEPT ![g] = version]
    /\ l1' = [l1 EXCEPT ![g] = {}]
    /\ request' = [r \in Requests |-> IF request[r].on = g THEN IdleRequest ELSE request[r]]
    /\ saver' = [s \in Savers |-> IF saver[s].on = g THEN IdleSaver ELSE saver[s]]
    /\ poll' = [poll EXCEPT ![g] = 0]
    /\ UNCHANGED <<version, saved, l2, completed>>

Step(r) ==
    \/ ReadConfig(r) \/ AdoptConfig(r) \/ L1Hit(r) \/ L1Miss(r) \/ L2Hit(r) \/ L2Miss(r)
    \/ Fetch(r) \/ SetL2(r) \/ SetL2Fails(r) \/ SetL1(r) \/ EndRequest(r)

Save(s) == AdoptSaved(s) \/ ListL2(s) \/ ClearL2(s) \/ SaveSucceeds(s) \/ SaveFails(s)

Next ==
    \/ \E r \in Requests, g \in Gateways : Arrive(r, g)
    \/ \E r \in Requests : Step(r)
    \/ \E s \in Savers, g \in Gateways, c \in Configs : UpdateStore(s, g, c)
    \/ \E c \in Configs : RejectConfig(c)
    \/ \E s \in Savers : Save(s)
    \/ \E g \in Gateways : PollRead(g) \/ PollAdopt(g) \/ Restart(g)
    \/ L2Drop

\* The poll of every gateway goes on forever, and a goroutine that works is
\* scheduled; nothing obliges clients, saves or restarts to come.
Fairness ==
    /\ \A g \in Gateways : WF_vars(PollRead(g)) /\ WF_vars(PollAdopt(g))
    /\ \A r \in Requests : WF_vars(Step(r))
    /\ \A s \in Savers : WF_vars(Save(s))

Spec == Init /\ [][Next]_vars /\ Fairness

---------------------------------------------------------------------------
(* Properties                                                              *)

\* The type of every variable; only checked configurations are ever in force.
TypeOK ==
    /\ version \in Versions
    /\ saved \in [Versions -> ValidConfigs]
    /\ gatewayConfig \in [Gateways -> ValidConfigs]
    /\ configVersion \in [Gateways -> Versions]
    /\ l1 \in [Gateways -> SUBSET Entries]
    /\ l2 \in SUBSET Versions
    /\ request \in [Requests -> RequestStates]
    /\ saver \in [Savers -> SaverStates]
    /\ poll \in [Gateways -> 0..MaxVersion]
    /\ completed \in 0..MaxVersion

\* The configuration and the version that a gateway holds were saved together,
\* however reads, saves and polls interleave.
ConfigMatchesVersion ==
    \A g \in Gateways : gatewayConfig[g] = saved[configVersion[g]]

\* A request works with the configuration that it read, which is at least as
\* new as the one in force when it arrived, although other requests may move
\* the gateway back and forth between versions meanwhile.
RequestUsesCurrentConfig ==
    \A r \in Requests : At(r, "getL1") =>
        /\ request[r].config = saved[request[r].read]
        /\ request[r].read >= request[r].arrived

\* An entry put into L1 before a save is never found by a request that arrives
\* after it: the gateway clears L1 before the lookup, even if it learns of the
\* save only from this request.
NoL1EntryFromBeforeSave ==
    \A r \in Requests : At(r, "getL1") =>
        \A e \in l1[request[r].on] : e.put >= request[r].arrived

\* A value that was put into a cache before a save began is not served from a
\* cache to a request that arrives after the save reported success.
SaveClearsCaches ==
    \A r \in Requests : At(r, "hit") => request[r].born >= request[r].after

\* Once there are no more saves, every gateway ends up with the newest
\* configuration for good.
GatewaysConverge == <>[](\A g \in Gateways : configVersion[g] = version)

=============================================================================
