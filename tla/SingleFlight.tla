---------------------------- MODULE SingleFlight ----------------------------
(***************************************************************************)
(* gateway/singleflight.go: within one gateway, requests for a key that    *)
(* missed the caches share one backend call.  The first one (the leader)   *)
(* registers the call in h.inFlight and makes it; the others (followers)   *)
(* wait on its done channel and relay what it publishes.                   *)
(*                                                                         *)
(* A request is served once.  Its call, if it leads one, is named after    *)
(* it: followers keep a pointer to a call that h.inFlight has dropped.     *)
(***************************************************************************)
EXTENDS Integers, FiniteSets

CONSTANTS
    Requests,  \* client requests that reach this gateway
    Keys,      \* cache keys
    Bodies,    \* response bodies of the backend
    NoBody,    \* no body
    NoRequest  \* no request, for an absent call or leader

ASSUME NoRequestAssumption == NoRequest \notin Requests
ASSUME NoBodyAssumption == NoBody \notin Bodies

VARIABLES
    pc,        \* pc[r]: where r is in ServeHTTP / handleBackendSingleFlight
    key,       \* key[r]: the cache key of r
    cached,    \* cached[k]: the body that L1 or L2 holds for k
    inFlight,  \* h.inFlight[k]: the call registered for k
    leader,    \* leader[r]: the call that r got from getOrCreateInFlight
    outcome,   \* outcome[r]: the leader's local body, statusCode and err
    call,      \* call[r]: what the call of r has published
    answer,    \* answer[r]: what the client of r was sent
    waiting    \* the gauge singleFlightWaitingRequests

vars == <<pc, key, cached, inFlight, leader, outcome, call, answer, waiting>>

---------------------------------------------------------------------------

\* How a fetch ends: a 2xx or another status, an error, or a panic of the
\* proxy (an aborted body), after which statusCode is still 0 and err nil.
Outcome(status, body) == [status |-> status, body |-> body]

Failed == Outcome("err", NoBody)

Panicked == Outcome("zero", NoBody)

\* The value of an inFlightCall whose done channel is open.
Running == Outcome("running", NoBody)

Outcomes == [status : {"ok", "bad", "err", "zero", "running"}, body : Bodies \cup {NoBody}]

NotAnswered == Outcome("none", NoBody)

Answers ==
    [status : {"none", "ok", "bad", "badGateway", "timeout", "aborted"},
     body : Bodies \cup {NoBody}]

\* What the client is sent for an outcome: a status and its body as they are,
\* 502 for an error.  A panic aborts the connection of the leader, and
\* WriteHeader(0) panics in turn in each follower.
Reply(o) ==
    CASE o.status = "err" -> Outcome("badGateway", NoBody)
      [] o.status = "zero" -> Outcome("aborted", NoBody)
      [] OTHER -> o

\* A leader from the registration of its call until finishInFlight.
Leading == {"fetch", "respond", "store", "finish"}

Init ==
    /\ pc = [r \in Requests |-> "new"]
    /\ key \in [Requests -> Keys]
    /\ cached = [k \in Keys |-> NoBody]
    /\ inFlight = [k \in Keys |-> NoRequest]
    /\ leader = [r \in Requests |-> NoRequest]
    /\ outcome = [r \in Requests |-> Running]
    /\ call = [r \in Requests |-> Running]
    /\ answer = [r \in Requests |-> NotAnswered]
    /\ waiting = 0

Transition(r, from, to) ==
    /\ pc[r] = from
    /\ pc' = [pc EXCEPT ![r] = to]

---------------------------------------------------------------------------
(* ServeHTTP up to the miss                                                *)

CacheHit(r) ==
    /\ Transition(r, "new", "answered")
    /\ cached[key[r]] # NoBody
    /\ answer' = [answer EXCEPT ![r] = Outcome("ok", cached[key[r]])]
    /\ UNCHANGED <<key, cached, inFlight, leader, outcome, call, waiting>>

\* Nothing cached, or L1 holds nothing and Redis failed.
CacheMiss(r) ==
    /\ Transition(r, "new", "missed")
    /\ UNCHANGED <<key, cached, inFlight, leader, outcome, call, answer, waiting>>

---------------------------------------------------------------------------
(* handleBackendSingleFlight                                               *)

\* A lookup that does not see the calls of other requests.
ExistsNever(k) == FALSE

Exists(k) == inFlight[k] # NoRequest

\* getOrCreateInFlight registers a new call ...
Lead(r) ==
    /\ Transition(r, "missed", "fetch")
    /\ ~Exists(key[r])
    /\ inFlight' = [inFlight EXCEPT ![key[r]] = r]
    /\ leader' = [leader EXCEPT ![r] = r]
    /\ UNCHANGED <<key, cached, outcome, call, answer, waiting>>

\* ... or returns the call that is registered already.
Follow(r) ==
    /\ Transition(r, "missed", "wait")
    /\ Exists(key[r])
    /\ leader' = [leader EXCEPT ![r] = inFlight[key[r]]]
    /\ waiting' = waiting + 1
    /\ UNCHANGED <<key, cached, inFlight, outcome, call, answer>>

\* fetchFromBackend or fetchWithDistributedLock returns.
Fetch(r, o) ==
    /\ pc[r] = "fetch"
    /\ pc' = [pc EXCEPT ![r] = IF o = Panicked THEN "finish" ELSE "respond"]
    /\ outcome' = [outcome EXCEPT ![r] = o]
    /\ answer' = [answer EXCEPT ![r] = IF o = Panicked THEN Reply(o) ELSE @]
    /\ UNCHANGED <<key, cached, inFlight, leader, call, waiting>>

\* The leader's own client is answered; only a 2xx goes on to the caches.
Respond(r) ==
    /\ pc[r] = "respond"
    /\ pc' = [pc EXCEPT ![r] = IF outcome[r].status = "ok" THEN "store" ELSE "finish"]
    /\ answer' = [answer EXCEPT ![r] = Reply(outcome[r])]
    /\ UNCHANGED <<key, cached, inFlight, leader, outcome, call, waiting>>

\* setL2 and setL1.
StoreInCaches(r) ==
    /\ Transition(r, "store", "finish")
    /\ cached' = [cached EXCEPT ![key[r]] = outcome[r].body]
    /\ UNCHANGED <<key, inFlight, leader, outcome, call, answer, waiting>>

\* finishInFlight without delete(h.inFlight, key).
FinishWithoutDelete(r) ==
    /\ Transition(r, "finish", "answered")
    /\ call' = [call EXCEPT ![r] = outcome[r]]
    /\ UNCHANGED <<key, cached, inFlight, leader, outcome, answer, waiting>>

\* finishInFlight without close(call.done).
FinishWithoutClose(r) ==
    /\ Transition(r, "finish", "answered")
    /\ inFlight' = [inFlight EXCEPT ![key[r]] = NoRequest]
    /\ UNCHANGED <<key, cached, leader, outcome, call, answer, waiting>>

\* The deferred finishInFlight, which also runs when the fetch panics.
FinishInFlight(r) ==
    /\ Transition(r, "finish", "answered")
    /\ call' = [call EXCEPT ![r] = outcome[r]]
    /\ inFlight' = [inFlight EXCEPT ![key[r]] = NoRequest]
    /\ UNCHANGED <<key, cached, leader, outcome, answer, waiting>>

\* A follower that looks only at the status code and not at call.err.
RelayIgnoringError(r) ==
    /\ Transition(r, "wait", "answered")
    /\ call[leader[r]] # Running
    /\ answer' = [answer EXCEPT ![r] = Outcome("ok", call[leader[r]].body)]
    /\ waiting' = waiting - 1
    /\ UNCHANGED <<key, cached, inFlight, leader, outcome, call>>

\* A follower sees the closed channel and relays the published result.
Relay(r) ==
    /\ Transition(r, "wait", "answered")
    /\ call[leader[r]] # Running
    /\ answer' = [answer EXCEPT ![r] = Reply(call[leader[r]])]
    /\ waiting' = waiting - 1
    /\ UNCHANGED <<key, cached, inFlight, leader, outcome, call>>

\* A cancelled follower that leaves without the deferred Dec.
CancelWithoutDec(r) ==
    /\ Transition(r, "wait", "answered")
    /\ answer' = [answer EXCEPT ![r] = Outcome("timeout", NoBody)]
    /\ UNCHANGED <<key, cached, inFlight, leader, outcome, call, waiting>>

\* The context of a follower ends first: 504.
Cancel(r) ==
    /\ Transition(r, "wait", "answered")
    /\ answer' = [answer EXCEPT ![r] = Outcome("timeout", NoBody)]
    /\ waiting' = waiting - 1
    /\ UNCHANGED <<key, cached, inFlight, leader, outcome, call>>

---------------------------------------------------------------------------

\* The entry of k expires, is evicted or is cleared.
Drop(k) ==
    /\ cached[k] # NoBody
    /\ cached' = [cached EXCEPT ![k] = NoBody]
    /\ UNCHANGED <<pc, key, inFlight, leader, outcome, call, answer, waiting>>

FetchOutcomes == {Outcome(s, b) : s \in {"ok", "bad"}, b \in Bodies} \cup {Failed, Panicked}

\* What the goroutine of r does by itself; the backend timeout ends a fetch.
Step(r) ==
    \/ CacheHit(r) \/ CacheMiss(r) \/ Lead(r) \/ Follow(r)
    \/ \E o \in FetchOutcomes : Fetch(r, o)
    \/ Respond(r) \/ StoreInCaches(r) \/ FinishInFlight(r) \/ Relay(r)

\* Every request was answered.
Finished ==
    /\ \A r \in Requests : pc[r] = "answered"
    /\ UNCHANGED vars

Next ==
    \/ \E r \in Requests : Step(r) \/ Cancel(r)
    \/ \E k \in Keys : Drop(k)
    \/ Finished

Spec == Init /\ [][Next]_vars /\ \A r \in Requests : WF_vars(Step(r))

---------------------------------------------------------------------------
(* Properties                                                              *)

\* The type of every variable.
TypeOK ==
    /\ pc \in [Requests -> Leading \cup {"new", "missed", "wait", "answered"}]
    /\ key \in [Requests -> Keys]
    /\ cached \in [Keys -> Bodies \cup {NoBody}]
    /\ inFlight \in [Keys -> Requests \cup {NoRequest}]
    /\ leader \in [Requests -> Requests \cup {NoRequest}]
    /\ outcome \in [Requests -> Outcomes]
    /\ call \in [Requests -> Outcomes]
    /\ answer \in [Requests -> Answers]
    /\ waiting \in Int

\* Requests for the same key within one gateway never make two backend calls
\* at a time: a leader fills the caches and withdraws its call before another
\* request can lead.
OneCallPerKey ==
    \A r, q \in Requests :
        pc[r] \in Leading /\ pc[q] \in Leading /\ key[r] = key[q] => r = q

\* The call that h.inFlight offers to a request is one whose leader is still
\* going to publish it: nobody joins a finished call or a call for another key,
\* so that finishInFlight, which deletes by key, deletes its own call and
\* closes each channel once.
RegisteredCallsAreLive ==
    \A k \in Keys : Exists(k) =>
        /\ pc[inFlight[k]] \in Leading
        /\ key[inFlight[k]] = k
        /\ call[inFlight[k]] = Running

\* A follower that was not cancelled sends exactly what its leader sent, for
\* the same key, whatever the outcome of the call: value, failure or abort.
FollowersShareAnswer ==
    \A r \in Requests :
        pc[r] = "answered" /\ leader[r] \notin {r, NoRequest} /\ answer[r].status # "timeout" =>
            /\ answer[r] = answer[leader[r]]
            /\ key[r] = key[leader[r]]

\* The gauge of waiting requests returns to the number of requests that wait,
\* on every way out of the wait (result, cancellation or panic).
GaugeCountsWaiters == waiting = Cardinality({r \in Requests : pc[r] = "wait"})

\* Every request is answered: followers are woken up even if the leader's
\* fetch fails or panics.
EveryRequestAnswered == \A r \in Requests : <>(pc[r] = "answered")

=============================================================================
