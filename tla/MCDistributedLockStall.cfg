CONSTANTS
    Requests = {r1, r2}
    Keys = {k1}
    NoToken = NoToken
    Timeouts = {1}
    SafetyMargin = 1
    PollInterval = 3
    MaxStall = 1
SPECIFICATION Spec
INVARIANTS
    SingleRefresher
