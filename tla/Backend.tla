------------------------------ MODULE Backend ------------------------------
(***************************************************************************)
(* backend/handler/handler.go and fault.go: requests that wait for a slot  *)
(* of the semaphore, are worked on and leave, while the configuration (and *)
(* with it the semaphore) is replaced and faults begin and end.            *)
(*                                                                         *)
(* A semaphore is a Go channel; UpdateConfig makes a new one, so that they *)
(* are numbered in the order in which they were made.  How long a request  *)
(* is worked on (ConcurrentDelayMs, BaseLatencyMs) is left open.           *)
(***************************************************************************)
EXTENDS Integers, FiniteSets

CONSTANTS
    Requests,       \* goroutines that serve GET /{id}
    InitialSize,    \* size of the semaphore that main.go makes
    Sizes,          \* semaphore sizes that PUT /config may send
    MaxSemaphores,  \* bound on the number of semaphores made
    Faults,         \* goroutines that ActivateFault starts
    FaultDurations  \* durations, in ticks, that POST /fault may send

ASSUME BackendAssumption ==
    /\ InitialSize \in Nat \ {0}
    /\ Sizes \subseteq Int
    /\ MaxSemaphores \in Nat \ {0}
    /\ FaultDurations \subseteq Int

Semaphores == 1..MaxSemaphores

VARIABLES
    made,         \* number of semaphores made; handler.Semaphore is the last
    size,         \* size[k]: cap of semaphore k, 0 before it is made
    taken,        \* taken[k]: len of semaphore k
    request,      \* request[r]: program counter and semaphore of request r
    active,       \* handler.Active
    unavailable,  \* handler.Unavailable
    timer         \* timer[f]: ticks that goroutine f still sleeps, -1 if it is not running

vars == <<made, size, taken, request, active, unavailable, timer>>

Idle == [pc |-> "idle", semaphore |-> 1]

Init ==
    /\ made = 1
    /\ size = [k \in Semaphores |-> IF k = 1 THEN InitialSize ELSE 0]
    /\ taken = [k \in Semaphores |-> 0]
    /\ request = [r \in Requests |-> Idle]
    /\ active = 0
    /\ unavailable = FALSE
    /\ timer = [f \in Faults |-> -1]

---------------------------------------------------------------------------
(* Get                                                                     *)

At(r, pc) == request[r].pc = pc

\* The request sees no fault; one that sees a fault is answered 503.
Check(r) ==
    /\ At(r, "idle")
    /\ ~unavailable
    /\ request' = [request EXCEPT ![r].pc = "enter"]
    /\ UNCHANGED <<made, size, taken, active, unavailable, timer>>

Refuse(r) ==
    /\ At(r, "idle")
    /\ unavailable
    /\ UNCHANGED vars

\* The request is not counted, although it will be discounted.
EnterUncounted(r) ==
    /\ At(r, "enter")
    /\ request' = [request EXCEPT ![r].pc = "config"]
    /\ UNCHANGED <<made, size, taken, active, unavailable, timer>>

\* The deferred function that undoes this runs on every way out.
Enter(r) ==
    /\ At(r, "enter")
    /\ active' = active + 1
    /\ request' = [request EXCEPT ![r].pc = "config"]
    /\ UNCHANGED <<made, size, taken, unavailable, timer>>

\* Under configMu: the semaphore of this moment is kept for the whole request.
ReadConfig(r) ==
    /\ At(r, "config")
    /\ request' = [request EXCEPT ![r] = [pc |-> "wait", semaphore |-> made]]
    /\ UNCHANGED <<made, size, taken, active, unavailable, timer>>

\* The size of the semaphore is not looked at.
AcquireUnchecked(r) ==
    /\ At(r, "wait")
    /\ taken' = [taken EXCEPT ![request[r].semaphore] = @ + 1]
    /\ request' = [request EXCEPT ![r].pc = "work"]
    /\ UNCHANGED <<made, size, active, unavailable, timer>>

Acquire(r) ==
    /\ At(r, "wait")
    /\ taken[request[r].semaphore] < size[request[r].semaphore]
    /\ taken' = [taken EXCEPT ![request[r].semaphore] = @ + 1]
    /\ request' = [request EXCEPT ![r].pc = "work"]
    /\ UNCHANGED <<made, size, active, unavailable, timer>>

\* A request that gives up is not taken off the count.
CancelUncounted(r) ==
    /\ At(r, "wait")
    /\ request' = [request EXCEPT ![r] = Idle]
    /\ UNCHANGED <<made, size, taken, active, unavailable, timer>>

\* The client goes away while the request waits.
Cancel(r) ==
    /\ At(r, "wait")
    /\ request' = [request EXCEPT ![r].pc = "leave"]
    /\ UNCHANGED <<made, size, taken, active, unavailable, timer>>

\* The slot is given back to the semaphore that is current by then.
ReleaseCurrent(r) ==
    /\ At(r, "work")
    /\ taken[made] > 0
    /\ taken' = [taken EXCEPT ![made] = @ - 1]
    /\ request' = [request EXCEPT ![r].pc = "leave"]
    /\ UNCHANGED <<made, size, active, unavailable, timer>>

\* A canceled or unknown entity keeps its slot.
ReleaseSometimes(r) ==
    /\ At(r, "work")
    /\ taken' \in {taken, [taken EXCEPT ![request[r].semaphore] = @ - 1]}
    /\ request' = [request EXCEPT ![r].pc = "leave"]
    /\ UNCHANGED <<made, size, active, unavailable, timer>>

\* The delay and FindEntity are over, with 200, 404 or a canceled client: the
\* deferred receive takes one element out of the channel.
Release(r) ==
    /\ At(r, "work")
    /\ taken[request[r].semaphore] > 0
    /\ taken' = [taken EXCEPT ![request[r].semaphore] = @ - 1]
    /\ request' = [request EXCEPT ![r].pc = "leave"]
    /\ UNCHANGED <<made, size, active, unavailable, timer>>

\* The other deferred function; the duration it records is in LoadSignals.
Leave(r) ==
    /\ At(r, "leave")
    /\ active' = active - 1
    /\ request' = [request EXCEPT ![r] = Idle]
    /\ UNCHANGED <<made, size, taken, unavailable, timer>>

---------------------------------------------------------------------------
(* UpdateConfig and ActivateFault                                          *)

\* Whoever waits for or holds a slot of the old semaphore keeps it.
UpdateConfig(n) ==
    /\ n > 0
    /\ made < MaxSemaphores
    /\ made' = made + 1
    /\ size' = [size EXCEPT ![made + 1] = n]
    /\ UNCHANGED <<taken, request, active, unavailable, timer>>

RejectConfig(n) ==
    /\ n <= 0
    /\ UNCHANGED vars

\* Goroutine f will sleep for d ticks.
ActivateFault(f, d) ==
    /\ d > 0
    /\ timer[f] = -1
    /\ unavailable' = TRUE
    /\ timer' = [timer EXCEPT ![f] = d]
    /\ UNCHANGED <<made, size, taken, request, active>>

RejectFault(d) ==
    /\ d <= 0
    /\ UNCHANGED vars

\* The goroutine ends without making the backend available.
FaultForgotten(f) ==
    /\ timer[f] = 0
    /\ timer' = [timer EXCEPT ![f] = -1]
    /\ UNCHANGED <<made, size, taken, request, active, unavailable>>

\* Whatever other faults have begun meanwhile.
FaultEnds(f) ==
    /\ timer[f] = 0
    /\ unavailable' = FALSE
    /\ timer' = [timer EXCEPT ![f] = -1]
    /\ UNCHANGED <<made, size, taken, request, active>>

\* Time passes; it is only counted while a fault goroutine sleeps.
Tick ==
    /\ \E f \in Faults : timer[f] > 0
    /\ timer' = [f \in Faults |-> IF timer[f] > 0 THEN timer[f] - 1 ELSE timer[f]]
    /\ UNCHANGED <<made, size, taken, request, active, unavailable>>

Serve(r) == Enter(r) \/ ReadConfig(r) \/ Release(r) \/ Leave(r)

Next ==
    \/ \E r \in Requests : Check(r) \/ Refuse(r) \/ Serve(r) \/ Acquire(r) \/ Cancel(r)
    \/ \E n \in Sizes : UpdateConfig(n) \/ RejectConfig(n)
    \/ \E f \in Faults, d \in FaultDurations : ActivateFault(f, d)
    \/ \E d \in FaultDurations : RejectFault(d)
    \/ \E f \in Faults : FaultEnds(f)
    \/ Tick

\* Goroutines that can run do run, clocks go on, and a channel serves blocked
\* senders first come, first served: a waiting request that finds a free slot
\* again and again gets one.  No client is obliged to come or to go away.
Fairness ==
    /\ \A r \in Requests : WF_vars(Serve(r)) /\ SF_vars(Acquire(r))
    /\ \A f \in Faults : WF_vars(FaultEnds(f))
    /\ WF_vars(Tick)

Spec == Init /\ [][Next]_vars /\ Fairness

---------------------------------------------------------------------------
(* Properties                                                              *)

Working == {r \in Requests : At(r, "work")}

\* The type of every variable: no counter and no channel falls below zero.
TypeOK ==
    /\ made \in Semaphores
    /\ size \in [Semaphores -> Nat]
    /\ taken \in [Semaphores -> Nat]
    /\ request \in [Requests -> [pc : {"idle", "enter", "config", "wait", "work", "leave"},
                                 semaphore : Semaphores]]
    /\ active \in Nat
    /\ unavailable \in BOOLEAN
    /\ timer \in [Faults -> Int] /\ \A f \in Faults : timer[f] >= -1

\* handler.Active, which /load reports, is the number of requests that are
\* waiting for the semaphore or being worked on, whichever way they leave.
ActiveIsExact ==
    active = Cardinality({r \in Requests : request[r].pc \in {"config", "wait", "work", "leave"}})

\* Every semaphore, replaced or not, has exactly the elements of the requests
\* that work under it, and no more than its size.
SlotsMatchHolders ==
    \A k \in Semaphores :
        /\ taken[k] = Cardinality({r \in Working : request[r].semaphore = k})
        /\ taken[k] <= size[k]

\* The backend works on no more requests than the configured limit.
LimitRespected == Cardinality(Working) <= size[made]

\* Requests admitted under replaced semaphores drain: once the configuration
\* is left alone, the limit holds for good.
LimitHoldsEventually == <>[]LimitRespected

\* Every request that is admitted ends and gives back what it took.
RequestsEnd == \A r \in Requests : (~At(r, "idle")) ~> At(r, "idle")

\* Every fault ends, however many overlap and end each other.
FaultsEnd == unavailable ~> ~unavailable

=============================================================================
