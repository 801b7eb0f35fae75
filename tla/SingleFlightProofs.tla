------------------------- MODULE SingleFlightProofs -------------------------
(***************************************************************************)
(* Proofs about SingleFlight, for any set of requests, keys and bodies.    *)
(*                                                                         *)
(* The inductive invariant ties the three views of a call together: the    *)
(* leader's position, the entry in h.inFlight and what the call has        *)
(* published.  A call is registered exactly while its leader works on it,  *)
(* and is published exactly when the leader is done.                       *)
(***************************************************************************)
EXTENDS SingleFlight, FiniteSetTheorems, TLAPS

\* A leader's call is the registered one and is still unpublished.
LeaderInv ==
    \A r \in Requests : pc[r] \in Leading =>
        /\ inFlight[key[r]] = r
        /\ leader[r] = r
        /\ call[r] = Running

\* What a leader will publish is what it answered.
OutcomeInv ==
    \A r \in Requests :
        /\ pc[r] \in {"respond", "store"} => outcome[r].status \in {"ok", "bad", "err"}
        /\ pc[r] \in {"store", "finish"} =>
              outcome[r].status # "running" /\ answer[r] = Reply(outcome[r])

\* A published call belongs to a request that has given the same answer.
PublishedInv ==
    \A r \in Requests : call[r] # Running =>
        pc[r] = "answered" /\ answer[r] = Reply(call[r])

\* Before the lookup a request belongs to no call; a follower belongs to a
\* call for its key that is registered or published.
MemberInv ==
    \A r \in Requests :
        /\ pc[r] \in {"new", "missed"} => leader[r] = NoRequest
        /\ pc[r] = "wait" => leader[r] \in Requests \ {r}
        /\ leader[r] \in Requests \ {r} =>
              /\ key[leader[r]] = key[r]
              /\ pc[leader[r]] \in Leading \/ call[leader[r]] # Running

\* The answers of followers, once given, are those of their leaders.
SharedInv ==
    \A r \in Requests :
        pc[r] = "answered" /\ leader[r] \in Requests \ {r} /\ answer[r].status # "timeout" =>
            pc[leader[r]] = "answered" /\ answer[r] = answer[leader[r]]

SFInv ==
    /\ TypeOK /\ RegisteredCallsAreLive /\ LeaderInv /\ OutcomeInv /\ PublishedInv
    /\ MemberInv /\ SharedInv

USE NoRequestAssumption, NoBodyAssumption
USE DEF Leading, Running, Failed, Panicked, Outcome, Outcomes, NotAnswered, Answers,
        Transition, Exists, FetchOutcomes

\* Every initial state satisfies the invariant.
LEMMA InitInv == Init => SFInv
  BY DEF Init, SFInv, TypeOK, RegisteredCallsAreLive, LeaderInv, OutcomeInv, PublishedInv,
     MemberInv, SharedInv

\* What a client is sent for an outcome is an answer.
LEMMA ReplyType ==
    ASSUME NEW o \in Outcomes, o.status # "running" PROVE Reply(o) \in Answers
  BY DEF Reply

\* Every step keeps every variable within its type.
LEMMA TypeOKStep == SFInv /\ [Next]_vars => TypeOK'
<1> SUFFICES ASSUME SFInv, [Next]_vars PROVE TypeOK'
  OBVIOUS
<1> USE DEF SFInv, TypeOK
<1>1. ASSUME NEW r \in Requests, Step(r) PROVE TypeOK'
  <2>1. CASE CacheHit(r) BY <2>1 DEF CacheHit
  <2>2. CASE CacheMiss(r) BY <2>2 DEF CacheMiss
  <2>3. CASE Lead(r) BY <2>3 DEF Lead
  <2>4. CASE Follow(r) BY <2>4 DEF Follow
  <2>5. ASSUME NEW o \in FetchOutcomes, Fetch(r, o) PROVE TypeOK'
    <3>1. o \in Outcomes /\ Reply(o) \in Answers
      BY ReplyType
    <3> QED BY <2>5, <3>1 DEF Fetch
  <2>6. CASE Respond(r)
    <3>1. Reply(outcome[r]) \in Answers
      BY <2>6, ReplyType DEF Respond, OutcomeInv
    <3> QED BY <2>6, <3>1 DEF Respond
  <2>7. CASE StoreInCaches(r) BY <2>7 DEF StoreInCaches
  <2>8. CASE FinishInFlight(r) BY <2>8 DEF FinishInFlight
  <2>9. CASE Relay(r)
    <3>1. leader[r] \in Requests /\ call[leader[r]] # Running
      BY <2>9 DEF Relay, MemberInv
    <3>2. answer[leader[r]] = Reply(call[leader[r]])
      BY <3>1 DEF PublishedInv
    <3> QED BY <2>9, <3>1, <3>2 DEF Relay
  <2> QED BY <1>1, <2>1, <2>2, <2>3, <2>4, <2>5, <2>6, <2>7, <2>8, <2>9 DEF Step
<1>2. ASSUME NEW r \in Requests, Cancel(r) PROVE TypeOK'
  BY <1>2 DEF Cancel
<1>3. ASSUME NEW k \in Keys, Drop(k) PROVE TypeOK'
  BY <1>3 DEF Drop
<1>4. CASE UNCHANGED vars
  BY <1>4 DEF vars
<1> QED BY <1>1, <1>2, <1>3, <1>4 DEF Next, Finished

\* A call is withdrawn in the step that publishes it.
LEMMA RegisteredStep == SFInv /\ TypeOK' /\ [Next]_vars => RegisteredCallsAreLive'
<1> SUFFICES ASSUME SFInv, TypeOK', [Next]_vars PROVE RegisteredCallsAreLive'
  OBVIOUS
<1> USE DEF SFInv, TypeOK, RegisteredCallsAreLive
<1>1. ASSUME NEW r \in Requests, Step(r) PROVE RegisteredCallsAreLive'
  <2>1. CASE CacheHit(r) BY <2>1 DEF CacheHit
  <2>2. CASE CacheMiss(r) BY <2>2 DEF CacheMiss
  <2>3. CASE Lead(r) BY <2>3 DEF Lead, PublishedInv
  <2>4. CASE Follow(r) BY <2>4 DEF Follow
  <2>5. ASSUME NEW o \in FetchOutcomes, Fetch(r, o) PROVE RegisteredCallsAreLive'
    BY <2>5 DEF Fetch
  <2>6. CASE Respond(r) BY <2>6 DEF Respond
  <2>7. CASE StoreInCaches(r) BY <2>7 DEF StoreInCaches
  <2>8. CASE FinishInFlight(r) BY <2>8 DEF FinishInFlight
  <2>9. CASE Relay(r) BY <2>9 DEF Relay
  <2> QED BY <1>1, <2>1, <2>2, <2>3, <2>4, <2>5, <2>6, <2>7, <2>8, <2>9 DEF Step
<1>2. ASSUME NEW r \in Requests, Cancel(r) PROVE RegisteredCallsAreLive'
  BY <1>2 DEF Cancel
<1>3. ASSUME NEW k \in Keys, Drop(k) PROVE RegisteredCallsAreLive'
  BY <1>3 DEF Drop
<1>4. CASE UNCHANGED vars
  BY <1>4 DEF vars
<1> QED BY <1>1, <1>2, <1>3, <1>4 DEF Next, Finished

\* A leader cannot be displaced: nobody registers a key twice.
LEMMA LeaderStep == SFInv /\ TypeOK' /\ [Next]_vars => LeaderInv'
<1> SUFFICES ASSUME SFInv, TypeOK', [Next]_vars PROVE LeaderInv'
  OBVIOUS
<1> USE DEF SFInv, TypeOK, LeaderInv
<1>1. ASSUME NEW r \in Requests, Step(r) PROVE LeaderInv'
  <2>1. CASE CacheHit(r) BY <2>1 DEF CacheHit
  <2>2. CASE CacheMiss(r) BY <2>2 DEF CacheMiss
  <2>3. CASE Lead(r) BY <2>3 DEF Lead, PublishedInv, RegisteredCallsAreLive
  <2>4. CASE Follow(r) BY <2>4 DEF Follow
  <2>5. ASSUME NEW o \in FetchOutcomes, Fetch(r, o) PROVE LeaderInv'
    BY <2>5 DEF Fetch
  <2>6. CASE Respond(r) BY <2>6 DEF Respond
  <2>7. CASE StoreInCaches(r) BY <2>7 DEF StoreInCaches
  <2>8. CASE FinishInFlight(r) BY <2>8 DEF FinishInFlight
  <2>9. CASE Relay(r) BY <2>9 DEF Relay
  <2> QED BY <1>1, <2>1, <2>2, <2>3, <2>4, <2>5, <2>6, <2>7, <2>8, <2>9 DEF Step
<1>2. ASSUME NEW r \in Requests, Cancel(r) PROVE LeaderInv'
  BY <1>2 DEF Cancel
<1>3. ASSUME NEW k \in Keys, Drop(k) PROVE LeaderInv'
  BY <1>3 DEF Drop
<1>4. CASE UNCHANGED vars
  BY <1>4 DEF vars
<1> QED BY <1>1, <1>2, <1>3, <1>4 DEF Next, Finished

\* The outcome is fixed before the leader answers.
LEMMA OutcomeStep == SFInv /\ TypeOK' /\ [Next]_vars => OutcomeInv'
<1> SUFFICES ASSUME SFInv, TypeOK', [Next]_vars PROVE OutcomeInv'
  OBVIOUS
<1> USE DEF SFInv, TypeOK, OutcomeInv
<1>1. ASSUME NEW r \in Requests, Step(r) PROVE OutcomeInv'
  <2>1. CASE CacheHit(r) BY <2>1 DEF CacheHit
  <2>2. CASE CacheMiss(r) BY <2>2 DEF CacheMiss
  <2>3. CASE Lead(r) BY <2>3 DEF Lead
  <2>4. CASE Follow(r) BY <2>4 DEF Follow
  <2>5. ASSUME NEW o \in FetchOutcomes, Fetch(r, o) PROVE OutcomeInv'
    BY <2>5 DEF Fetch
  <2>6. CASE Respond(r) BY <2>6 DEF Respond
  <2>7. CASE StoreInCaches(r) BY <2>7 DEF StoreInCaches
  <2>8. CASE FinishInFlight(r) BY <2>8 DEF FinishInFlight
  <2>9. CASE Relay(r) BY <2>9 DEF Relay
  <2> QED BY <1>1, <2>1, <2>2, <2>3, <2>4, <2>5, <2>6, <2>7, <2>8, <2>9 DEF Step
<1>2. ASSUME NEW r \in Requests, Cancel(r) PROVE OutcomeInv'
  BY <1>2 DEF Cancel
<1>3. ASSUME NEW k \in Keys, Drop(k) PROVE OutcomeInv'
  BY <1>3 DEF Drop
<1>4. CASE UNCHANGED vars
  BY <1>4 DEF vars
<1> QED BY <1>1, <1>2, <1>3, <1>4 DEF Next, Finished

\* A call is published by the step that ends its leader.
LEMMA PublishedStep == SFInv /\ TypeOK' /\ [Next]_vars => PublishedInv'
<1> SUFFICES ASSUME SFInv, TypeOK', [Next]_vars PROVE PublishedInv'
  OBVIOUS
<1> USE DEF SFInv, TypeOK, PublishedInv
<1>1. ASSUME NEW r \in Requests, Step(r) PROVE PublishedInv'
  <2>1. CASE CacheHit(r) BY <2>1 DEF CacheHit
  <2>2. CASE CacheMiss(r) BY <2>2 DEF CacheMiss
  <2>3. CASE Lead(r) BY <2>3 DEF Lead
  <2>4. CASE Follow(r) BY <2>4 DEF Follow
  <2>5. ASSUME NEW o \in FetchOutcomes, Fetch(r, o) PROVE PublishedInv'
    BY <2>5 DEF Fetch
  <2>6. CASE Respond(r) BY <2>6 DEF Respond
  <2>7. CASE StoreInCaches(r) BY <2>7 DEF StoreInCaches
  <2>8. CASE FinishInFlight(r) BY <2>8 DEF FinishInFlight, OutcomeInv
  <2>9. CASE Relay(r) BY <2>9 DEF Relay
  <2> QED BY <1>1, <2>1, <2>2, <2>3, <2>4, <2>5, <2>6, <2>7, <2>8, <2>9 DEF Step
<1>2. ASSUME NEW r \in Requests, Cancel(r) PROVE PublishedInv'
  BY <1>2 DEF Cancel
<1>3. ASSUME NEW k \in Keys, Drop(k) PROVE PublishedInv'
  BY <1>3 DEF Drop
<1>4. CASE UNCHANGED vars
  BY <1>4 DEF vars
<1> QED BY <1>1, <1>2, <1>3, <1>4 DEF Next, Finished

\* A follower never loses its call.
LEMMA MemberStep == SFInv /\ TypeOK' /\ [Next]_vars => MemberInv'
<1> SUFFICES ASSUME SFInv, TypeOK', [Next]_vars PROVE MemberInv'
  OBVIOUS
<1> USE DEF SFInv, TypeOK, MemberInv
<1>1. ASSUME NEW r \in Requests, Step(r) PROVE MemberInv'
  <2>1. CASE CacheHit(r) BY <2>1 DEF CacheHit
  <2>2. CASE CacheMiss(r) BY <2>2 DEF CacheMiss
  <2>3. CASE Lead(r) BY <2>3 DEF Lead
  <2>4. CASE Follow(r) BY <2>4 DEF Follow, RegisteredCallsAreLive
  <2>5. ASSUME NEW o \in FetchOutcomes, Fetch(r, o) PROVE MemberInv'
    BY <2>5 DEF Fetch
  <2>6. CASE Respond(r) BY <2>6 DEF Respond
  <2>7. CASE StoreInCaches(r) BY <2>7 DEF StoreInCaches
  <2>8. CASE FinishInFlight(r) BY <2>8 DEF FinishInFlight, OutcomeInv
  <2>9. CASE Relay(r) BY <2>9 DEF Relay
  <2> QED BY <1>1, <2>1, <2>2, <2>3, <2>4, <2>5, <2>6, <2>7, <2>8, <2>9 DEF Step
<1>2. ASSUME NEW r \in Requests, Cancel(r) PROVE MemberInv'
  BY <1>2 DEF Cancel
<1>3. ASSUME NEW k \in Keys, Drop(k) PROVE MemberInv'
  BY <1>3 DEF Drop
<1>4. CASE UNCHANGED vars
  BY <1>4 DEF vars
<1> QED BY <1>1, <1>2, <1>3, <1>4 DEF Next, Finished

\* A relayed answer is the one its leader has given.
LEMMA SharedStep == SFInv /\ TypeOK' /\ [Next]_vars => SharedInv'
<1> SUFFICES ASSUME SFInv, TypeOK', [Next]_vars PROVE SharedInv'
  OBVIOUS
<1> USE DEF SFInv, TypeOK, SharedInv
<1>1. ASSUME NEW r \in Requests, Step(r) PROVE SharedInv'
  <2>1. CASE CacheHit(r) BY <2>1 DEF CacheHit, MemberInv
  <2>2. CASE CacheMiss(r) BY <2>2 DEF CacheMiss
  <2>3. CASE Lead(r) BY <2>3 DEF Lead
  <2>4. CASE Follow(r) BY <2>4 DEF Follow
  <2>5. ASSUME NEW o \in FetchOutcomes, Fetch(r, o) PROVE SharedInv'
    BY <2>5 DEF Fetch
  <2>6. CASE Respond(r) BY <2>6 DEF Respond
  <2>7. CASE StoreInCaches(r) BY <2>7 DEF StoreInCaches
  <2>8. CASE FinishInFlight(r) BY <2>8 DEF FinishInFlight, LeaderInv
  <2>9. CASE Relay(r) BY <2>9 DEF Relay, PublishedInv, MemberInv
  <2> QED BY <1>1, <2>1, <2>2, <2>3, <2>4, <2>5, <2>6, <2>7, <2>8, <2>9 DEF Step
<1>2. ASSUME NEW r \in Requests, Cancel(r) PROVE SharedInv'
  BY <1>2 DEF Cancel
<1>3. ASSUME NEW k \in Keys, Drop(k) PROVE SharedInv'
  BY <1>3 DEF Drop
<1>4. CASE UNCHANGED vars
  BY <1>4 DEF vars
<1> QED BY <1>1, <1>2, <1>3, <1>4 DEF Next, Finished

\* The invariant that every behaviour satisfies.
THEOREM SingleFlightInvariant == Spec => []SFInv
<1>1. SFInv /\ [Next]_vars => SFInv'
  BY TypeOKStep, RegisteredStep, LeaderStep, OutcomeStep, PublishedStep, MemberStep, SharedStep
  DEF SFInv
<1> QED BY InitInv, <1>1, PTL DEF Spec

\* getOrCreateInFlight admits one leader per key at a time.
THEOREM OneCall == Spec => []OneCallPerKey
<1>1. SFInv => OneCallPerKey
  BY DEF SFInv, LeaderInv, OneCallPerKey
<1> QED BY SingleFlightInvariant, <1>1, PTL

\* finishInFlight, which deletes by key, withdraws its own call and closes its
\* channel once.
THEOREM CallsAreLive == Spec => []RegisteredCallsAreLive
  BY SingleFlightInvariant, PTL DEF SFInv

\* A follower relays what its leader answered, whatever the outcome.
THEOREM AnswersAreShared == Spec => []FollowersShareAnswer
<1>1. SFInv => FollowersShareAnswer
  BY DEF SFInv, TypeOK, SharedInv, MemberInv, FollowersShareAnswer
<1> QED BY SingleFlightInvariant, <1>1, PTL

\* The gauge singleFlightWaitingRequests never drifts, whichever way the
\* followers leave.
THEOREM GaugeIsExact ==
    ASSUME IsFiniteSet(Requests)
    PROVE  Spec => []GaugeCountsWaiters
<1> DEFINE W == {r \in Requests : pc[r] = "wait"}
<1>1. IsFiniteSet(W) /\ Cardinality(W) \in Nat
  <2>1. W \subseteq Requests
    OBVIOUS
  <2> HIDE DEF W
  <2> QED BY <2>1, FS_Subset, FS_CardinalityType
<1>2. Init => GaugeCountsWaiters
  <2> SUFFICES ASSUME Init PROVE GaugeCountsWaiters
    OBVIOUS
  <2>1. W = {}
    BY DEF Init
  <2> QED BY <2>1, FS_EmptySet DEF Init, GaugeCountsWaiters
<1>3. SFInv /\ GaugeCountsWaiters /\ [Next]_vars => GaugeCountsWaiters'
  <2> SUFFICES ASSUME SFInv, waiting = Cardinality(W), [Next]_vars
               PROVE  waiting' = Cardinality(W')
    BY DEF GaugeCountsWaiters
  <2>1. ASSUME NEW r \in Requests, Follow(r) PROVE waiting' = Cardinality(W')
    <3>1. W' = W \cup {r} /\ r \notin W /\ waiting' = waiting + 1
      BY <2>1 DEF Follow, SFInv, TypeOK
    <3> HIDE DEF W
    <3> QED BY <1>1, <3>1, FS_AddElement
  <2>2. ASSUME NEW r \in Requests, Relay(r) \/ Cancel(r) PROVE waiting' = Cardinality(W')
    <3>1. W' = W \ {r} /\ r \in W /\ waiting' = waiting - 1
      BY <2>2 DEF Relay, Cancel, SFInv, TypeOK
    <3> HIDE DEF W
    <3> QED BY <1>1, <3>1, FS_RemoveElement
  <2>3. ASSUME NEW r \in Requests,
               \/ CacheHit(r) \/ CacheMiss(r) \/ Lead(r) \/ Respond(r)
               \/ StoreInCaches(r) \/ FinishInFlight(r) \/ \E o \in FetchOutcomes : Fetch(r, o)
        PROVE  waiting' = Cardinality(W')
    <3>1. W' = W
      BY <2>3 DEF CacheHit, CacheMiss, Lead, Respond, StoreInCaches, FinishInFlight, Fetch,
         SFInv, TypeOK
    <3>2. waiting' = waiting
      BY <2>3 DEF CacheHit, CacheMiss, Lead, Respond, StoreInCaches, FinishInFlight, Fetch
    <3> QED BY <3>1, <3>2
  <2>4. CASE UNCHANGED <<pc, waiting>>
    BY <2>4
  <2> QED BY <2>1, <2>2, <2>3, <2>4 DEF Next, Step, Drop, Finished, vars
<1> QED BY SingleFlightInvariant, <1>2, <1>3, PTL DEF Spec

=============================================================================
