CONSTANTS
    Gateways = {g1, g2}
    Savers = {s1}
    Configs <- MCConfigs
    InitialConfig <- Rising
    Signals <- MCSignals
    MaxResets = 1
    SlowHolders = FALSE
    MayFail = TRUE
    Missing = Missing
    None = None
SPECIFICATION Spec
INVARIANT SnapshotLoadable
PROPERTIES Hysteresis ResetNotUndone ControllersFollowConfig
