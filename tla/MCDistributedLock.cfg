CONSTANTS
    Requests = {r1, r2}
    Keys = {k1}
    NoToken = NoToken
    Timeouts = {1, 4}
    SafetyMargin = 2
    PollInterval = 3
    MaxStall = 1
SPECIFICATION Spec
INVARIANTS
    TypeOK
    SingleRefresher
    OnlyLongerLocksOutlastWaiters
PROPERTIES
    ReleasedByOwner
    EveryRequestEnds
