CONSTANTS
    Requests = {r1, r2, r3}
    Keys = {k1, k2}
    Bodies = {b1, b2}
    NoBody = NoBody
    NoRequest = NoRequest
SPECIFICATION Spec
INVARIANTS
    OneCallPerKey
    RegisteredCallsAreLive
    FollowersShareAnswer
    GaugeCountsWaiters
PROPERTIES
    EveryRequestAnswered
