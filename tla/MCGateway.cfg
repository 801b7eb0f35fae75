CONSTANTS
    Requests = {r1, r2}
    Gateways = {g1, g2}
    Configs <- MCConfigs
    Factors <- MCFactors
    MaxTimeout = 2
    SafetyMargin = 2
    MarkerMargin = 2
    MaxStall = 1
    MaxTTL = 1
    None = None
SPECIFICATION Spec
INVARIANTS ServedOnTime LockAvoidsRefetch CallsAreCoordinated CountedCallsDisjoint FollowersHaveLeader
SYMMETRY Symmetry
